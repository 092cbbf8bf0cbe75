SPECIFICATION Spec
CONSTANTS
    d1 = d1
    Domains = {d1}
    Addresses = {a1}
    DomainOf <- OneDomain
    Operators = {o1}
    ProjectNames = {p1}
    KeyNames = {n1}
    Ids = {i1, i2, i3}
SYMMETRY Alike
PROPERTY ActiveKeysRevocable
