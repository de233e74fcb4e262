SPECIFICATION Spec
CONSTANTS
    Users = {u1, u2}
    Operator = u1
    Links = {l1, l2}
    Txns = {x1, x2}
    NoUser = NoUser
    NoLink = NoLink
    MaxExpired = 1
CHECK_DEADLOCK FALSE
SYMMETRY Symmetry
CONSTRAINT OneSceneAtATime
INVARIANTS
    NewestLinkOnly
    AnAdminRemains
PROPERTIES
    SpentLinksStaySpent
    AccountsAreKept
