SPECIFICATION DashboardSpec
CONSTANTS
    d1 = d1
    Domains = {d1}
    Addresses = {a1, a2}
    DomainOf <- OneDomain
    Operators = {o1, o2}
    ProjectNames = {p1}
    KeyNames = {n1}
    Ids = {i1, i2, i3}
    Visitors = {v1}
SYMMETRY Alike
INVARIANTS DashboardTypeOK TwinsBounded PageTellsAll OffersHold AdviceIsPossible
