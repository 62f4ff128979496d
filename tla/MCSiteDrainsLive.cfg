CONSTANTS
    a = a
    b = b
    body1 = body1
    body2 = body2
    s1 = s1
    Sites = {s1}
    Nodes = {a, b}
    Drainable = {}
    Upgradable = {a}
    Editors = {e1}
    Bodies = {body1}
    NoBody = NoBody
    Configs <- MoveConfigs
    Inherit = Inherit
    TTLs = {1}
    DefaultTTL = 1
    Grace = 1
    NoPub = NoPub
    NoDrain = NoDrain
    MaxEdits <- FirstSiteEdit
    MaxPublications <- TwoPublications
    MaxVersion = 4
SPECIFICATION LiveSpec
PROPERTY DrainsEnd
