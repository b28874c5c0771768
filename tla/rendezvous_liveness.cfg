\* Two queued connections and a stream; the service may be reconfigured.
SPECIFICATION FairSpec
CONSTANTS
    Names = {n1}
    Objs = {o1}
    Conns = {c1, c2}
    Listens = {l1}
    Accepts = {a1}
    Tokens = {t1}
    NoObj = NoObj
    NoConn = NoConn
    NoToken = NoToken
    AcceptTimeout = TRUE
    MaxReconfigs = 1
PROPERTIES
    QueuedIsServed
    StopReachesListeners
    TakenIsSettled
    CancelledConnectReturns
    StopDrains
