\* One game that connects twice, against any server. The behaviour may end.
CHECK_DEADLOCK FALSE
SPECIFICATION ClientOpenSpec
CONSTANTS
    exeA = exeA
    Games = {g1}
    Exes = {exeA}
    NoExe = noExe
    ExeOf <- MCExeOf
    NFds = {1}
    MaxConns = 2
    MaxTex = 2
    SockBuf = 2
INVARIANTS
    ClientOpenTypeOK
    OrdersAreCurrent
    CaptureFollowsOrders
PROPERTIES
    RebuildOnlyOnChange
    ClosedIsNoticed
