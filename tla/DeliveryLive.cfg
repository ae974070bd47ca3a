SPECIFICATION FairSpec
CONSTANTS
    h1 = h1
    h2 = h2
    e1 = e1
    o1 = o1
    o2 = o2
    o3 = o3
    NoClient = NoClient
    Ids = {o1, o2, o3}
    Clients = {h1, e1}
    Hooks = {h1}
    Batch <- MCBatch
    Slots = 2
    QueueLimit = 2
    Faults = {}
    MaxKills = 2
PROPERTIES SpoolDrains DeliveredProjected StopCompletes
