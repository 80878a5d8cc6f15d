SPECIFICATION FairSpec
CONSTANTS
    ubuntu = ubuntu
    app = app
    latest = latest
    v1 = v1
    os = os
    Names <- HubAndPrivate
    HubRepos = {ubuntu}
    Latest = latest
    Keys = {os}
    MaxPiped = 1
    MaxCommands = 1
    MaxOutside = 2
    None = None
INVARIANTS TypeOK ContainersRemoved DeletedIsGone
PROPERTIES NothingLost PushesWhatItBuilt 
CHECK_DEADLOCK FALSE
