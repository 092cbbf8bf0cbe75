SPECIFICATION Spec
CONSTANTS
    Calls = {c1, c2}
    Ids = {i1, i2}
    p1 = p1  p2 = p2  k1 = k1  k2 = k2  k3 = k3  s1 = s1  s2 = s2
    a1 = a1  a2 = a2  x = x  b1 = b1  b2 = b2  b3 = b3
    Projects = {p1, p2}
    ApiKeys = {k1, k2, k3}
    Senders = {s1, s2}
    Addresses = {a1, a2}
    Keys = {x}
    NoKey = NoKey
    Bodies = {b1, b2, b3}
    ProjectOf <- OwnerOfKey
    Scope <- KeyScopes
    SenderOf <- BodySender
    RecipientsOf <- BodyRecipients
    Valid <- WithinLimits
    Requests <- All
    ReadyAtFirst = {s1}
    SuppressedAtFirst = {a2}
    MaxChanges = 1
    NoRequest = NoRequest
    NoId = NoId
SYMMETRY Alike
INVARIANTS TypeOK OneMailPerKey AcceptedWasPermitted RetryDoesNotConflict ReplayReturnsOriginal
PROPERTY KeepsIntake
