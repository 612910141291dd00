--------------------------- MODULE CaptureSystem ---------------------------
(***************************************************************************)
(* The games of CaptureClient and the plugin of CaptureServer, joined by   *)
(* the sockets of CaptureProtocol. A game presents, reads and sends; the   *)
(* plugin's thread and the sources' ticks read and answer; all interleave. *)
(***************************************************************************)
EXTENDS CaptureClient, CaptureServer

vars == <<clientVars, serverVars, sockVars>>

Init == SockInit /\ ClientInit /\ ServerInit

Next ==
    \/ ClientNext /\ UNCHANGED serverVars
    \/ ServerNext /\ UNCHANGED clientVars

Spec == Init /\ [][Next]_vars /\ ClientFairness /\ ServerFairness

-----------------------------------------------------------------------------
(***************************************************************************)
(* Properties                                                              *)
(***************************************************************************)

\* The variables of all parts have their types.
TypeOK == SockTypeOK /\ ClientTypeOK /\ ServerTypeOK

\* Game g is a client of the plugin, and nothing is on its way between them:
\* both queues are read and the thread is not inside a message of g's.
Settled(g) ==
    LET c == game[g].connfd IN
    /\ c \in clients
    /\ toClient[c] = <<>>
    /\ toServer[c] = <<>>
    /\ ~(pc \in {"check", "bufs"} /\ cur = c)
    /\ ~lost[c]

\* Once nothing is in flight, the two programs agree: the game captures only
\* if some source counts as capturing it, its allocation flags are those of
\* the import attempt the plugin has reached, and the buffer it exports is
\* the one whose description and descriptors the plugin holds.
SettledAgreement ==
    \A g \in Games : Settled(g) =>
        LET d == game[g]
            cl == client[d.connfd]
        IN  /\ d.accepted = (cl.activated > 0)
            /\ d.accepted => d.flags = Flags(cl.import_failures)
            /\ d.capturing => cl.buf_fds = d.buf /\ cl.tdata.tex = d.buf

\* A source that is up to date with a settled game shows the buffer the game
\* renders to now, and no earlier one.
NoStalePicture ==
    \A g \in Games, s \in Sources :
        (/\ Settled(g)
         /\ game[g].capturing
         /\ source[s].client_id = game[g].connfd
         /\ source[s].buf_id = client[game[g].connfd].buf_id
         /\ source[s].texture # NoTexture)
            => source[s].texture = [data |-> game[g].buf, fds |-> game[g].buf]

\* A buffer a game exports reaches the plugin, unless the game gives it up,
\* the plugin drops the connection, or a message is lost.
BufferReachesObs ==
    \A c \in Conns, t \in Texs :
        (\E g \in Games : game[g].connfd = c /\ game[g].buf = t)
            ~> \/ c \in clients /\ client[c].buf_fds = t
               \/ \A g \in Games : game[g].connfd # c \/ game[g].buf # t
               \/ ~obsEnd[c] \/ lost[c]

\* When no source counts as capturing a client, its game stops exporting,
\* unless one does again, the connection ends, or a message is lost.
StopReachesGame ==
    \A c \in Conns :
        (/\ \E g \in Games : game[g].connfd = c /\ game[g].capturing
         /\ c \in clients /\ client[c].activated = 0)
            ~> \/ \A g \in Games : game[g].connfd # c \/ ~game[g].capturing
               \/ c \notin clients \/ client[c].activated > 0
               \/ lost[c]
============================================================================
