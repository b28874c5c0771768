\* Two of each call, two objects of a service, one reconfiguration.
SPECIFICATION Spec
CONSTANTS
    Names = {n1}
    Objs = {o1, o2}
    Conns = {c1, c2}
    Listens = {l1, l2}
    Accepts = {a1, a2}
    Tokens = {t1}
    NoObj = NoObj
    NoConn = NoConn
    NoToken = NoToken
    AcceptTimeout = TRUE
    MaxReconfigs = 1
SYMMETRY Symmetry
INVARIANTS TypeOK SingleCustody ListenerAccounting
PROPERTIES
    PendingNeverReplaced
    TimerSparesTunnels
    ImplementsExchange
