SPECIFICATION Spec
CONSTANTS
    Users = {u1}
    Suspendable = {u1}
    Tokens = {t1, t2, t3}
    Txns = {x1, x2}
    NoToken = NoToken
    NoUser = NoUser
    MaxResets = 1
    MaxExpired = 1
SYMMETRY Symmetry
INVARIANT
    SingleUse
