CONSTANTS
    a = a
    b = b
    body1 = body1
    body2 = body2
    s1 = s1
    s2 = s2
    Sites = {s1, s2}
    Nodes = {a, b}
    Drainable = {}
    Upgradable = {a}
    Editors = {e1}
    Bodies = {body1}
    NoBody = NoBody
    Configs <- SharedConfigs
    Inherit = Inherit
    TTLs = {1}
    DefaultTTL = 1
    Grace = 1
    NoPub = NoPub
    NoDrain = NoDrain
    MaxEdits <- MoveBounds
    MaxPublications <- MoveBounds
    MaxVersion = 3
SPECIFICATION Moves
INVARIANTS
    UpgradeExcludesPublication
    StatesAndRecordsAgree
PROPERTIES
    VersionIdentifiesContent
    CleanupConfirmed
