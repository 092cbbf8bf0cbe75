SPECIFICATION FairSpec
CONSTANTS
    api = api  worker1 = worker1  worker2 = worker2  admin = admin
    apiSecrets = apiSecrets  workerSecrets = workerSecrets
    Services = {api, worker1, worker2}
    Tools = {admin}
    Volumes = {apiSecrets, workerSecrets}
    VolumeOf <- Mounted
    Identified = {api, worker1, worker2}
    Encrypters = {admin}
    Values = {x1, x2, x3}
    Ids = {i1, i2, i3}
    MaxFaults = 1
    Empty = Empty
    None = None
INVARIANTS TypeOK CredentialsReadable IdentityKept
PROPERTY StartsUnlessAbandoned
