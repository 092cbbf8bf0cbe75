SPECIFICATION Spec
CONSTANTS
    d1 = d1
    Domains = {d1}
    Addresses = {a1}
    DomainOf <- OneDomain
    Operators = {o1, o2}
    Provisioners = {p1}
    Workers = {v1}
    Passwords = {w1, w2}
    Evidence <- TellingSweeps
    AddAnswers <- KeyOrNot
    MaxJobs = 1
    MaxFaults = 0
    Commands = {"add", "verify", "provision", "rotate"}
    None = None
INVARIANT RefusedMeansStoredWrong
