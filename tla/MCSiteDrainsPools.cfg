CONSTANTS
    a = a
    b = b
    body1 = body1
    body2 = body2
    s1 = s1
    Sites = {s1}
    Nodes = {a, b}
    Drainable = {a}
    Upgradable = {}
    Editors = {e1}
    Bodies = {body1, body2}
    NoBody = NoBody
    Configs <- PoolConfigs
    Inherit = Inherit
    TTLs = {1, 2}
    DefaultTTL = 1
    Grace = 2
    NoPub = NoPub
    NoDrain = NoDrain
    MaxEdits <- FirstSiteEdit
    MaxPublications <- TwoPublications
    MaxVersion = 3
SPECIFICATION Spec
INVARIANTS
    TypeOK
    ReachableNodeServes
PROPERTIES
    NewRecordServesCurrent
