SPECIFICATION FairSpec
CONSTANTS
    Users = {u1}
    Suspendable = {}
    Tokens = {t1, t2}
    Txns = {x1, x2}
    NoToken = NoToken
    NoUser = NoUser
    MaxResets = 1
    MaxExpired = 2
CHECK_DEADLOCK FALSE
PROPERTIES
    RequestsEnd
