\* Two games; the source follows whichever connected first.
\* OBS may be unloaded and the connections used up: the behaviour then ends.
CHECK_DEADLOCK FALSE
SPECIFICATION Spec
CONSTANTS
    g1 = g1
    exeA = exeA
    exeB = exeB
    Games = {g1, g2}
    ExeOf <- MCTwoGames
    Sources = {s1}
    Windows <- MCAny
    Exes = {exeA, exeB}
    NoExe = noExe
    NFds = {1}
    MaxConns = 2
    MaxTex = 2
    SockBuf = 2
    MaxActivated = 2
INVARIANTS
    OwnConnection
    SettledAgreement
    NoStalePicture
