SPECIFICATION Spec
CONSTANTS
    d1 = d1
    Domains = {d1}
    Addresses = {a1}
    DomainOf <- OneDomain
    Operators = {o1, o2}
    Provisioners = {p1}
    Workers = {}
    Passwords = {w1, w2, w3}
    Evidence <- TellingSweeps
    AddAnswers <- KeyOrNot
    MaxJobs = 1
    MaxFaults = 1
    Commands = {"add", "verify", "provision", "rotate", "request"}
    None = None
SYMMETRY Alike
INVARIANTS TypeOK ReadyIsFounded CredentialsAgree
PROPERTIES DemotedOnEvidence ImplementsCatalogue
