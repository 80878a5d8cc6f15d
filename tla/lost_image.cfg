SPECIFICATION Spec
CONSTANTS
    ubuntu = ubuntu
    app = app
    latest = latest
    v1 = v1
    os = os
    Names <- OneRepository
    HubRepos = {ubuntu}
    Latest = latest
    Keys = {os}
    MaxPiped = 1
    MaxCommands = 1
    MaxOutside = 0
    None = None
CHECK_DEADLOCK FALSE
INVARIANT OverrideKeepsImage
