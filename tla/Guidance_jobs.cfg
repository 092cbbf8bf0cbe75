SPECIFICATION GuidanceSpec
CONSTANTS
    d1 = d1
    Domains = {d1}
    Addresses = {a1}
    DomainOf <- OneDomain
    Operators = {o1, o2}
    Follower = o1
    Provisioners = {p1, p2}
    Workers = {}
    Passwords = {w1, w2}
    Evidence = {}
    AddAnswers <- KeyThere
    Failings <- SometimesFailing
    MaxJobs = 2
    MaxFaults = 1
    Commands = {"add", "verify", "provision", "request"}
    None = None
INVARIANT OneProvisionerPerJob
PROPERTIES JobsFinish GuidanceLeads AdviceHolds AdviceWorks OutcomesStand
CHECK_DEADLOCK FALSE
