------------------------ MODULE CaptureSystem_proofs ------------------------
(***************************************************************************)
(* The games and the plugin together: each is one of the peers the other   *)
(* was proved against, and what is on the wire between them is what makes  *)
(* them agree.                                                             *)
(***************************************************************************)
EXTENDS CaptureSystem, CaptureClient_proofs, CaptureServer_proofs

\* OBS's end of a connection is open until the plugin drops the client or the
\* thread ends, also while the connection waits to be accepted.
OpenEnds ==
    /\ pc # "done" => listening
    /\ \A c \in clients : obsEnd[c]
    /\ pc # "done" => \A c \in Conns : clientid < c /\ c <= nconn => obsEnd[c]

\* No message on c was lost, and none that is still to be read says to stop.
Asked(c) ==
    /\ ~lost[c]
    /\ \A i \in 1..Len(toClient[c]) : toClient[c][i].capturing

\* The plugin has the description of buffer b of client c, and its descriptors
\* or the message they came with.
Arrived(c, b) ==
    /\ client[c].tdata.tex = b
    /\ IF Handling /\ cur = c THEN msg.tex = b ELSE client[c].buf_fds = b

\* The last buffer the game of c sent is b, on the wire or arrived.
Underway(c, b) ==
    IF toServer[c] # <<>> THEN toServer[c][Len(toServer[c])].tex = b
    ELSE Arrived(c, b)

\* The buffer a game exports is underway to the plugin or there, unless the
\* plugin has forgotten it and has told the game to stop.
BuffersArrive ==
    \A g \in Games :
        LET c == game[g].connfd IN
        game[g].capturing /\ c \in clients /\ Asked(c) => Underway(c, game[g].buf)

\* The inductive invariant: those of the two parts, and the wire between them.
SystemInv ==
    /\ ClientInv
    /\ ServerInv
    /\ BuffersInv
    /\ OpenEnds
    /\ BuffersArrive

-----------------------------------------------------------------------------
(* To the plugin, the games are some games. *)

\* What a present call does to the sockets after it has looked at its own.
CaptureSockets(c) ==
    \/ UNCHANGED <<toServer, ntex, lost>>
    \/ \E n \in NFds : SendTexture(c, n, toServer)

\* The rest of a present call writes one buffer on the connection, or nothing.
LEMMA CaptureSends ==
    ASSUME NEW g \in Games, NEW d \in Game, Capture(g, d, toServer)
    PROVE  /\ CaptureSockets(d.connfd)
           /\ d.connfd = NoConn => UNCHANGED <<toServer, ntex, lost>>
           /\ UNCHANGED <<toServer, ntex, lost>> \/ d.connfd \in Conns
<1>1. Stopped(d).connfd = d.connfd
  BY StoppedFollows DEF Follows
<1>2. d.connfd \in Conns \cup {NoConn}
  BY DEF Game
<1> QED BY <1>1, <1>2 DEF Capture, CaptureSockets, ShouldInit

\* Every step of a game is one of AnyGame's, seen from the sockets.
LEMMA ClientIsAGame ==
    ASSUME ClientInv, ClientNext, UNCHANGED serverVars
    PROVE  AnyGame \/ UNCHANGED sockVars
<1>1. SockTypeOK /\ game \in [Games -> Game]
  BY DEF ClientInv, ClientOpenTypeOK, ClientTypeOK
<1>2. PICK g \in Games : \/ PresentIdle(g) \/ PresentConnect(g) \/ PresentControl(g)
                         \/ PresentEof(g) \/ FreeCapture(g) \/ NewDevice(g) \/ Exit(g)
  BY DEF ClientNext, PresentNews
<1> DEFINE c == game[g].connfd
<1>3. game[g] \in Game /\ c \in Conns \cup {NoConn}
  BY <1>1 DEF Game
<1>4. c # NoConn => c \in Conns /\ gameEnd[c]
  BY <1>3 DEF ClientInv, OwnConnection
<1>5. CASE PresentIdle(g)
  <2>1. UNCHANGED <<listening, nconn, gameEnd, obsEnd, toClient, told>>
    BY <1>5 DEF PresentIdle
  <2>2. /\ CaptureSockets(c)
        /\ c = NoConn => UNCHANGED <<toServer, ntex, lost>>
    BY <1>3, <1>5, CaptureSends DEF PresentIdle
  <2>3. CASE UNCHANGED <<toServer, ntex, lost>>
    BY <2>1, <2>3 DEF sockVars
  <2>4. CASE c # NoConn /\ \E n \in NFds : SendTexture(c, n, toServer)
    BY <1>4, <2>1, <2>4 DEF AnyTexture, AnyGame
  <2> QED BY <2>2, <2>3, <2>4 DEF CaptureSockets
<1>6. CASE PresentConnect(g)
  <2>1. Connect(ExeOf[g]) /\ ExeOf[g] \in Exes
    BY <1>6, ExeOfAssumption DEF PresentConnect
  <2> QED BY <2>1 DEF AnyConnect, AnyGame
<1>7. CASE PresentControl(g)
  <2>1. /\ c # NoConn /\ ReadControl(c) /\ UNCHANGED <<listening, nconn, gameEnd, obsEnd>>
        /\ Capture(g, Heard(game[g], Head(toClient[c])), toServer)
    BY <1>7 DEF PresentControl
  <2>2. toClient[c] \in Seq(Control) /\ toClient[c] # <<>>
    BY <1>1, <1>4, <2>1 DEF ReadControl, SockTypeOK
  <2>3. Heard(game[g], Head(toClient[c])) \in Game
    BY <1>3, <2>2, ReadType, HeardType
  <2>4. Heard(game[g], Head(toClient[c])).connfd = c
    BY <1>3 DEF Heard, Game
  <2>5. CaptureSockets(c)
    BY <2>1, <2>3, <2>4, CaptureSends
  <2>6. AnyReadControl(c)
    BY <2>1, <2>5 DEF AnyReadControl, CaptureSockets
  <2> QED BY <1>4, <2>1, <2>6 DEF AnyGame
<1>8. CASE PresentEof(g)
  <2>1. /\ c # NoConn /\ CloseGameEnd(c) /\ UNCHANGED <<listening, nconn, obsEnd>>
        /\ Capture(g, Disconnected(game[g]), toServer)
    BY <1>8 DEF PresentEof
  <2>2. Disconnected(game[g]) \in Game /\ Disconnected(game[g]).connfd = NoConn
    BY <1>3, DisconnectedType DEF Disconnected, Game
  <2>3. UNCHANGED <<toServer, ntex, lost>>
    BY <2>1, <2>2, CaptureSends
  <2>4. AnyHangup(c)
    BY <1>4, <2>1, <2>3 DEF AnyHangup
  <2> QED BY <1>4, <2>1, <2>4 DEF AnyGame
<1>9. CASE FreeCapture(g) \/ NewDevice(g)
  BY <1>9 DEF FreeCapture, NewDevice
<1>10. CASE Exit(g)
  <2>1. c # NoConn /\ AnyHangup(c)
    BY <1>4, <1>10 DEF Exit, AnyHangup
  <2> QED BY <1>4, <2>1 DEF AnyGame
<1> QED BY <1>2, <1>5, <1>6, <1>7, <1>8, <1>9, <1>10

-----------------------------------------------------------------------------
(* To a game, the plugin is some server. *)

Writes(c) ==
    /\ \E cl \in Client : WriteControl(c, ControlFor(cl))
    /\ UNCHANGED <<listening, nconn, gameEnd, obsEnd, toServer, ntex, told>>

Reads(c) ==
    /\ toServer[c] # <<>>
    /\ toServer' = [toServer EXCEPT ![c] = Tail(@)]
    /\ UNCHANGED <<listening, nconn, gameEnd, obsEnd, toClient, ntex, told, lost>>

Closes(c) ==
    /\ CloseObsEnds({c})
    /\ clients' = clients \ {c}
    /\ UNCHANGED <<listening, nconn, gameEnd, toClient, ntex, told, lost>>

\* What a step of the plugin does on the wire.
OnWire ==
    \/ UNCHANGED sockVars
    \/ \E c \in clients : Writes(c) \/ Reads(c) \/ Closes(c)
    \/ ShutdownEnd

\* activate_client writes a control message or nothing.
LEMMA ActivateOnWire ==
    ASSUME NEW c \in clients, NEW cl \in Client, Activate(c, cl),
           UNCHANGED <<listening, nconn, gameEnd, obsEnd, toServer, ntex, told>>
    PROVE  OnWire
BY DEF Activate, OnWire, Writes, sockVars

\* The server thread touches the wire of one of its clients, or ends.
LEMMA ThreadOnWire ==
    ASSUME ServerInv, ServerThread
    PROVE  OnWire
<1>1. CASE Poll \/ Accept \/ LoopEnd \/ LoopClient \/ RecvAgain \/ CheckTexture \/ StoreBuffers
  BY <1>1 DEF Poll, Accept, LoopEnd, LoopClient, RecvAgain, CheckTexture, StoreBuffers, OnWire
<1>2. CASE RecvClientData \/ RecvTexture
  <2>1. cur \in clients
    BY <1>2 DEF ServerInv, ThreadAt, RecvClientData, RecvTexture
  <2>2. Reads(cur)
    BY <1>2 DEF RecvClientData, RecvTexture, Reads
  <2> QED BY <2>1, <2>2 DEF OnWire
<1>3. CASE LoopUnresponsive \/ RecvEof \/ RejectTexture
  <2>1. cur \in clients
    BY <1>3 DEF ServerInv, ThreadAt, LoopUnresponsive, RecvEof, RejectTexture
  <2>2. Closes(cur)
    BY <1>3 DEF LoopUnresponsive, RecvEof, RejectTexture, Cleanup, Closes
  <2> QED BY <2>1, <2>2 DEF OnWire
<1>4. CASE ShutdownClient
  <2>1. PICK c \in First(clients) : Cleanup(c, {})
    BY <1>4 DEF ShutdownClient
  <2>2. c \in clients
    BY <1>4, <2>1 DEF ShutdownClient, First
  <2>3. Closes(c)
    BY <2>1 DEF Cleanup, Closes
  <2> QED BY <2>2, <2>3 DEF OnWire
<1>5. CASE ShutdownEnd
  BY <1>5 DEF OnWire
<1> QED BY <1>1, <1>2, <1>3, <1>4, <1>5 DEF ServerThread

\* A tick of a source writes to one client or nothing.
LEMMA TickOnWire ==
    ASSUME ServerInv, NEW s \in Sources, Tick(s)
    PROVE  OnWire
<1>1. client \in [Conns -> Client] /\ clients \subseteq Conns
  BY DEF ServerInv, ServerOpenTypeOK, ServerTypeOK
<1> DEFINE c == source[s].client_id
<1>2. CASE TickGone(s) \/ TickTimeout(s)
  BY <1>2 DEF TickGone, TickTimeout, OnWire
<1>3. CASE TickImport(s)
  <2>1. c \in clients /\ client[c] \in Client
    BY <1>1, <1>3 DEF TickImport
  <2>2. ImportFailed(client[c]) \in Client
    BY <2>1, ImportFailedType
  <2>3. /\ \/ WriteControl(c, ControlFor(ImportFailed(client[c])))
           \/ UNCHANGED <<toClient, lost>>
        /\ UNCHANGED <<listening, nconn, gameEnd, obsEnd, toServer, ntex, told>>
    BY <1>3 DEF TickImport
  <2> QED BY <2>1, <2>2, <2>3 DEF OnWire, Writes, sockVars
<1>4. CASE TickRematch(s)
  <2>1. c \in clients /\ client[c] \in Client
    BY <1>1, <1>4 DEF TickRematch, UpToDate
  <2>2. [client[c] EXCEPT !.activated = client[c].activated - 1] \in Client
    BY <2>1 DEF Client
  <2> QED BY <1>4, <2>1, <2>2, ActivateOnWire DEF TickRematch
<1>5. CASE TickAttach(s)
  <2>1. PICK e \in clients :
          Activate(e, [client[e] EXCEPT !.activated = client[e].activated + 1])
    BY <1>5 DEF TickAttach
  <2>2. [client[e] EXCEPT !.activated = client[e].activated + 1] \in Client
    BY <1>1 DEF Client
  <2>3. UNCHANGED <<listening, nconn, gameEnd, obsEnd, toServer, ntex, told>>
    BY <1>5 DEF TickAttach
  <2> QED BY <2>1, <2>2, <2>3, ActivateOnWire
<1> QED BY <1>2, <1>3, <1>4, <1>5 DEF Tick

\* The UI and the passing of time do not touch the wire.
LEMMA ServerOnWire ==
    ASSUME ServerInv, ServerNext
    PROVE  OnWire
<1>1. CASE ServerThread
  BY <1>1, ThreadOnWire
<1>2. CASE \E s \in Sources : Tick(s)
  BY <1>2, TickOnWire
<1>3. CASE (\E s \in Sources : SourceUI(s)) \/ (\E c \in Conns : Expire(c)) \/ Unload
  BY <1>3 DEF SourceUI, Expire, Unload, OnWire
<1> QED BY <1>1, <1>2, <1>3 DEF ServerNext

\* Every step of the plugin is one of AnyServer's, seen from the sockets.
LEMMA ServerIsAServer ==
    ASSUME ServerInv, OpenEnds, ServerNext, UNCHANGED clientVars
    PROVE  AnyServer \/ UNCHANGED sockVars
<1>1. /\ SockTypeOK /\ clients \subseteq Conns /\ clientid <= nconn
      /\ clientid \in Nat /\ nconn \in Nat
      /\ \A c \in clients : c <= clientid /\ obsEnd[c]
  BY MaxConnsAssumption
  DEF ServerInv, ServerOpenTypeOK, ServerTypeOK, SockTypeOK, AcceptedOnly, OpenEnds
<1>2. OnWire
  BY ServerOnWire
<1>3. ASSUME NEW c \in clients, Writes(c) PROVE AnyWrite(c)
  <2>1. PICK cl \in Client : WriteControl(c, ControlFor(cl))
    BY <1>3 DEF Writes
  <2>2. ControlFor(cl).capturing \in BOOLEAN /\ cl.import_failures \in Attempts
    BY ControlForType DEF Client, Control
  <2>3. ControlFor(cl) = [capturing |-> ControlFor(cl).capturing,
                          flags |-> Flags(cl.import_failures)]
    BY DEF ControlFor
  <2>4. \E b \in BOOLEAN, n \in Attempts :
           WriteControl(c, [capturing |-> b, flags |-> Flags(n)])
    BY <2>1, <2>2, <2>3, Zenon
  <2>5. c <= nconn
    BY <1>1 DEF Conns
  <2> QED BY <1>1, <1>3, <2>4, <2>5 DEF Writes, AnyWrite
<1>4. ASSUME NEW c \in clients, Reads(c) PROVE AnyRead(c)
  BY <1>1, <1>4 DEF Reads, AnyRead
<1>5. ASSUME NEW c \in clients, Closes(c) PROVE AnyClose(c)
  BY <1>1, <1>5 DEF Closes, AnyClose
<1>6. CASE ShutdownEnd
  BY <1>6 DEF ShutdownEnd, OpenEnds, AnyStop, AnyServer
<1> QED BY <1>1, <1>2, <1>3, <1>4, <1>5, <1>6 DEF OnWire, AnyServer

-----------------------------------------------------------------------------
(* The ends the plugin holds. *)

\* Clients come to the list by accept4() alone, and the thread ends once.
LEMMA ListMoves ==
    ASSUME ServerInv, ServerNext
    PROVE  /\ pc = "done" => pc' = "done"
           /\ \/ clients' \subseteq clients /\ clientid' = clientid
              \/ /\ pc = "accept" /\ clientid < nconn /\ clientid' = clientid + 1
                 /\ clients' = clients \cup {clientid + 1}
                 /\ UNCHANGED sockVars
<1>1. CASE Accept
  BY <1>1 DEF Accept, ServerInv, ThreadAt
<1>2. CASE LoopUnresponsive \/ RecvEof \/ RejectTexture \/ ShutdownClient
  BY <1>2 DEF LoopUnresponsive, RecvEof, RejectTexture, ShutdownClient, Cleanup, NextClient,
              threadVars
<1>3. CASE \/ Poll \/ LoopEnd \/ LoopClient \/ RecvAgain \/ RecvClientData \/ RecvTexture
           \/ CheckTexture \/ StoreBuffers \/ ShutdownEnd
  BY <1>3 DEF Poll, LoopEnd, LoopClient, RecvAgain, RecvClientData, RecvTexture, CheckTexture,
              StoreBuffers, ShutdownEnd
<1>4. ASSUME NEW s \in Sources, Tick(s) PROVE UNCHANGED <<clients, clientid, pc>>
  BY <1>4 DEF Tick, TickGone, TickImport, TickRematch, TickTimeout, TickAttach, threadVars
<1>5. CASE (\E s \in Sources : SourceUI(s)) \/ (\E c \in Conns : Expire(c)) \/ Unload
  BY <1>5 DEF SourceUI, Expire, Unload, threadVars
<1> QED BY <1>1, <1>2, <1>3, <1>4, <1>5 DEF ServerNext, ServerThread

\* The plugin closes only the ends of clients it drops, or all when it ends.
LEMMA ServerEnds ==
    ASSUME ServerInv, OpenEnds, ServerNext
    PROVE  OpenEnds'
<1>1. /\ SockTypeOK /\ clients \subseteq Conns /\ clientid <= nconn
      /\ clientid \in Nat /\ nconn \in Nat /\ MaxConns \in Nat /\ nconn <= MaxConns
      /\ \A c \in clients : c <= clientid
  BY MaxConnsAssumption
  DEF ServerInv, ServerOpenTypeOK, ServerTypeOK, SockTypeOK, AcceptedOnly
<1>2. CASE ShutdownEnd
  BY <1>2 DEF ShutdownEnd, OpenEnds
<1>3. CASE ~ShutdownEnd
  <2>1. UNCHANGED <<listening, nconn>>
    BY <1>3, ServerOnWire DEF OnWire, Writes, Reads, Closes, sockVars
  <2>2. ASSUME NEW c \in Conns, obsEnd[c]
        PROVE  \/ obsEnd'[c]
               \/ c \in clients /\ c \notin clients'
    <3>1. CASE UNCHANGED obsEnd
      BY <2>2, <3>1
    <3>2. ASSUME NEW e \in clients, Closes(e)
          PROVE  clients' = clients \ {e} /\ (c # e => obsEnd'[c])
      BY <2>2, <3>2 DEF Closes, CloseObsEnds
    <3> QED BY <1>3, <3>1, <3>2, ServerOnWire DEF OnWire, Writes, Reads, sockVars
  <2>3. CASE clients' \subseteq clients /\ clientid' = clientid
    <3>1. pc' # "done" => pc # "done"
      BY ListMoves
    <3>2. \A c \in clients' : obsEnd'[c]
      BY <1>1, <2>2, <2>3 DEF OpenEnds
    <3>3. ASSUME NEW c \in Conns, pc' # "done", clientid < c, c <= nconn
          PROVE  obsEnd'[c]
      <4>1. obsEnd[c]
        BY <3>1, <3>3 DEF OpenEnds
      <4>2. c \notin clients
        BY <1>1, <3>3 DEF Conns
      <4> QED BY <2>2, <4>1, <4>2
    <3> QED BY <2>1, <2>3, <3>1, <3>2, <3>3 DEF OpenEnds
  <2>4. CASE /\ pc = "accept" /\ clientid < nconn /\ clientid' = clientid + 1
             /\ clients' = clients \cup {clientid + 1} /\ UNCHANGED sockVars
    <3>1. obsEnd' = obsEnd
      BY <2>4 DEF sockVars
    <3>2. clientid + 1 \in Conns
      BY <1>1, <2>4 DEF Conns
    <3>3. obsEnd[clientid + 1]
      BY <1>1, <2>4, <3>2 DEF OpenEnds
    <3>4. \A c \in clients' : obsEnd'[c]
      BY <2>4, <3>1, <3>3 DEF OpenEnds
    <3>5. \A c \in Conns : clientid' < c => clientid < c
      BY <1>1, <2>4 DEF Conns
    <3>6. pc # "done"
      BY <2>4
    <3> QED BY <2>1, <3>1, <3>4, <3>5, <3>6 DEF OpenEnds
  <2> QED BY <2>3, <2>4, ListMoves
<1> QED BY <1>2, <1>3

\* A game closes no end of the plugin's; a new connection starts with it open.
LEMMA GamesEnds ==
    ASSUME ServerInv, OpenEnds, AnyGame \/ UNCHANGED sockVars, UNCHANGED serverVars
    PROVE  OpenEnds'
<1>1. UNCHANGED <<clients, clientid, pc>>
  BY DEF serverVars, threadVars
<1>2. /\ SockTypeOK /\ nconn \in Nat /\ clients \subseteq Conns
  BY DEF ServerInv, ServerOpenTypeOK, ServerTypeOK, SockTypeOK
<1>3. CASE UNCHANGED <<listening, nconn, obsEnd>>
  BY <1>1, <1>3 DEF OpenEnds
<1>4. ASSUME NEW exe \in Exes, Connect(exe) PROVE OpenEnds'
  <2>1. /\ nconn' = nconn + 1 /\ listening' = listening
        /\ obsEnd' = [obsEnd EXCEPT ![nconn + 1] = TRUE]
    BY <1>4 DEF Connect
  <2>2. ASSUME NEW c \in Conns, c <= nconn' PROVE c <= nconn \/ obsEnd'[c]
    BY <1>2, <2>1, <2>2 DEF SockTypeOK, Conns
  <2>3. \A c \in Conns : obsEnd[c] => obsEnd'[c]
    BY <1>2, <2>1 DEF SockTypeOK
  <2> QED BY <1>1, <1>2, <2>1, <2>2, <2>3 DEF OpenEnds
<1> QED BY <1>3, <1>4 DEF AnyGame, AnyConnect, AnyTexture, AnyReadControl, AnyHangup, sockVars

-----------------------------------------------------------------------------
(* The wire under the steps of the plugin. *)

\* The plugin takes nothing back that it wrote, and no loss is undone.
LEMMA AskedBefore ==
    ASSUME ServerInv, ServerNext, NEW c \in Conns, Asked(c)'
    PROVE  Asked(c)
<1>1. SockTypeOK /\ toClient[c] \in Seq(Control) /\ clients \subseteq Conns
  BY DEF ServerInv, ServerOpenTypeOK, ServerTypeOK, SockTypeOK
<1>2. CASE UNCHANGED <<toClient, lost>>
  BY <1>2 DEF Asked
<1>3. ASSUME NEW e \in clients, NEW m \in Control, WriteControl(e, m) PROVE Asked(c)
  <2>1. lost'[c] = FALSE => ~lost[c]
    BY <1>1, <1>3 DEF WriteControl, SockTypeOK
  <2>2. \/ toClient'[c] = toClient[c]
        \/ toClient'[c] = Append(toClient[c], m)
    BY <1>1, <1>3 DEF WriteControl, Sent, SockTypeOK
  <2>3. Len(toClient[c]) \in Nat
    BY <1>1, LenProperties
  <2>4. ASSUME NEW i \in 1..Len(toClient[c])
        PROVE  i \in 1..Len(toClient'[c]) /\ toClient'[c][i] = toClient[c][i]
    <3>1. CASE toClient'[c] = Append(toClient[c], m)
      <4>1. /\ Len(toClient'[c]) = Len(toClient[c]) + 1
            /\ toClient'[c][i] = toClient[c][i]
        BY <1>1, <3>1, AppendProperties
      <4> QED BY <2>3, <4>1
    <3> QED BY <2>2, <3>1
  <2> QED BY <2>1, <2>4 DEF Asked
<1>4. ASSUME NEW e \in clients, Writes(e) PROVE Asked(c)
  BY <1>3, <1>4, ControlForType DEF Writes
<1> QED BY <1>2, <1>4, ServerOnWire DEF OnWire, Reads, Closes, ShutdownEnd, sockVars

\* A game that captures was told to on a connection that was accepted.
LEMMA CapturingFacts ==
    ASSUME ClientInv, ServerInv, NEW g \in Games, game[g].capturing,
           NEW c, c = game[g].connfd
    PROVE  /\ c \in Conns /\ gameEnd[c] /\ told[c].capturing /\ c <= clientid
           /\ game[g].buf # NoTex
<1>1. game[g] \in Game
  BY DEF ClientInv, ClientOpenTypeOK, ClientTypeOK
<1>2. c \in Conns /\ gameEnd[c] /\ told[c].capturing /\ game[g].buf # NoTex
  BY <1>1 DEF ClientInv, CaptureFollowsOrders, OwnConnection, Game
<1>3. told[c] # NotTold
  BY <1>2 DEF NotTold
<1>4. clientid \in Nat /\ c \in Nat
  BY <1>2, MaxConnsAssumption DEF ServerInv, ServerOpenTypeOK, ServerTypeOK, Conns
<1>5. c <= clientid
  BY <1>2, <1>3, <1>4 DEF ServerInv, AcceptedOnly
<1> QED BY <1>2, <1>5

\* A message that turns capturing on or off leaves the game with an order to
\* stop before it, or is lost: the game was told to capture what the plugin did
\* not count as captured, or is told now that it no longer does.
LEMMA FlipStops ==
    ASSUME ClientInv, ServerInv, NEW g \in Games, game[g].capturing,
           NEW c \in clients, c = game[g].connfd, NEW cl \in Client,
           cl.activated > 0 <=> ~(client[c].activated > 0),
           WriteControl(c, ControlFor(cl))
    PROVE  ~Asked(c)'
<1>1. c \in Conns /\ gameEnd[c] /\ told[c].capturing
  BY CapturingFacts
<1>2. /\ toClient \in [Conns -> Seq(Control)] /\ lost \in [Conns -> BOOLEAN]
      /\ toClient[c] \in Seq(Control) /\ Len(toClient[c]) \in Nat
  BY <1>1, LenProperties DEF ServerInv, ServerOpenTypeOK, SockTypeOK
<1> DEFINE m == ControlFor(cl)
<1>3. m \in Control /\ (m.capturing <=> cl.activated > 0)
  BY ControlForType DEF ControlFor
<1> HIDE DEF m
<1>4. /\ toClient'[c] = IF Len(toClient[c]) < SockBuf THEN Append(toClient[c], m)
                        ELSE toClient[c]
      /\ lost'[c] <=> lost[c] \/ Len(toClient[c]) >= SockBuf
  BY <1>1, <1>2 DEF WriteControl, Sent, m
<1>5. SUFFICES ASSUME Len(toClient[c]) < SockBuf, ~lost[c]
               PROVE  \E i \in 1..Len(toClient'[c]) : ~toClient'[c][i].capturing
  <2>1. CASE Len(toClient[c]) >= SockBuf \/ lost[c]
    BY <1>4, <2>1 DEF Asked
  <2>2. CASE ~(Len(toClient[c]) >= SockBuf) /\ ~lost[c]
    <3>1. Len(toClient[c]) < SockBuf
      BY <1>2, <2>2, SockBufAssumption
    <3> QED BY <1>5, <2>2, <3>1 DEF Asked
  <2> QED BY <2>1, <2>2
<1>6. /\ Len(toClient'[c]) = Len(toClient[c]) + 1
      /\ toClient'[c][Len(toClient[c]) + 1] = m
      /\ \A i \in 1..Len(toClient[c]) : toClient'[c][i] = toClient[c][i]
  BY <1>2, <1>3, <1>4, <1>5, AppendProperties
<1>7. CASE ~(cl.activated > 0)
  BY <1>2, <1>3, <1>6, <1>7
<1>8. CASE cl.activated > 0
  <2>1. ~LastTold(c).capturing
    <3>1. ~(client[c].activated > 0)
      BY <1>8
    <3>2. LastTold(c) = ControlFor(client[c])
      BY <1>1, <1>5 DEF ServerInv, ControlAgreement
    <3>3. ControlFor(client[c]).capturing <=> client[c].activated > 0
      BY DEF ControlFor
    <3> QED BY <3>1, <3>2, <3>3, Zenon
  <2>2. toClient[c] # <<>>
    BY <1>1, <2>1 DEF LastTold
  <2>3. Len(toClient[c]) \in 1..Len(toClient[c])
    BY <1>2, <2>2, EmptySeq
  <2>4. ~toClient[c][Len(toClient[c])].capturing
    BY <2>1, <2>2 DEF LastTold
  <2>5. /\ Len(toClient[c]) \in 1..Len(toClient'[c])
        /\ toClient'[c][Len(toClient[c])] = toClient[c][Len(toClient[c])]
    <3>1. Len(toClient[c]) \in 1..(Len(toClient[c]) + 1)
      BY <1>2, <2>3
    <3>2. Len(toClient[c]) \in 1..Len(toClient'[c])
      BY <1>6, <3>1
    <3> QED BY <1>6, <2>3, <3>2
  <2> QED BY <2>4, <2>5, Zenon
<1> QED BY <1>7, <1>8

\* The client c, its queue and the message in hand, if it is c's, stay.
Untouched(c) ==
    /\ SameBuffer(c)
    /\ toServer'[c] = toServer[c]
    /\ (Handling /\ cur = c)' <=> (Handling /\ cur = c)
    /\ Handling /\ cur = c => msg' = msg

\* A step that leaves a client alone leaves its buffer where it was.
LEMMA UntouchedUnderway ==
    ASSUME NEW c \in Conns, NEW b, Underway(c, b), Untouched(c)
    PROVE  Underway(c, b)'
BY DEF Underway, Untouched, Arrived, SameBuffer

\* recvmsg() takes the first message off a queue that still says what was sent.
LEMMA ReadKeepsLast ==
    ASSUME ServerInv, pc = "recv", toServer[cur] # <<>>,
           toServer' = [toServer EXCEPT ![cur] = Tail(@)],
           NEW b, Underway(cur, b)
    PROVE  IF toServer'[cur] # <<>> THEN toServer'[cur][Len(toServer'[cur])].tex = b
           ELSE Head(toServer[cur]).tex = b
<1>1. cur \in Conns /\ toServer \in [Conns -> Seq(GameMessage)]
  BY BufferTypes
<1>2. toServer[cur][Len(toServer[cur])].tex = b
  BY DEF Underway
<1>3. toServer'[cur] = Tail(toServer[cur]) /\ toServer[cur] \in Seq(GameMessage)
  BY <1>1
<1> QED BY <1>2, <1>3, LastOfTail

\* Dropping one client leaves the others alone.
LEMMA DropsUntouched ==
    ASSUME ServerInv, LoopUnresponsive \/ RecvEof \/ RejectTexture \/ ShutdownClient,
           NEW c \in clients, c \in clients'
    PROVE  Untouched(c)
<1>1. /\ clients \subseteq Conns /\ client \in [Conns -> Client] /\ c \in Conns
      /\ toServer \in [Conns -> Seq(GameMessage)]
  BY BufferTypes
<1>2. PICK d \in clients, rejected \in {{}, {msg.tex}} : Cleanup(d, rejected)
  <2>1. CASE ShutdownClient
    BY <2>1 DEF ShutdownClient, First
  <2>2. CASE LoopUnresponsive \/ RecvEof \/ RejectTexture
    BY <2>2 DEF LoopUnresponsive, RecvEof, RejectTexture, ServerInv, ThreadAt
  <2> QED BY <2>1, <2>2
<1>3. c # d
  BY <1>2 DEF Cleanup
<1>4. client'[c] = client[c] /\ toServer'[c] = toServer[c]
  BY <1>1, <1>2, <1>3 DEF Cleanup, CloseObsEnds
<1>5. ~Handling' /\ ~(Handling /\ cur = c)
  <2>1. CASE LoopUnresponsive \/ RecvEof \/ ShutdownClient
    BY <2>1 DEF LoopUnresponsive, RecvEof, ShutdownClient, NextClient, threadVars, Handling
  <2>2. CASE RejectTexture
    BY <1>1, <2>2 DEF RejectTexture, NextClient, Handling, Cleanup
  <2> QED BY <2>1, <2>2
<1> QED BY <1>4, <1>5 DEF Untouched, SameBuffer

\* The thread moves a client's buffer from the wire to the client, and no further.
LEMMA ThreadUnderway ==
    ASSUME ServerInv, ServerThread, NEW c \in clients, c \in clients',
           NEW b, b # NoTex, Underway(c, b)
    PROVE  Underway(c, b)'
<1>1. /\ clients \subseteq Conns /\ client \in [Conns -> Client] /\ c \in Conns
      /\ toServer \in [Conns -> Seq(GameMessage)]
      /\ pc \in {"recv", "check", "bufs"} => cur \in clients /\ cur \in Conns
  BY BufferTypes
<1>2. CASE Poll \/ Accept \/ LoopEnd \/ LoopClient \/ RecvAgain \/ CheckTexture
  <2>1. /\ client' = client /\ toServer' = toServer
        /\ Handling' <=> Handling
        /\ Handling => UNCHANGED <<cur, msg>>
    BY <1>2 DEF Poll, Accept, LoopEnd, LoopClient, RecvAgain, CheckTexture, NextClient,
                Handling, sockVars
  <2> QED BY <1>1, <2>1, UntouchedUnderway DEF Untouched, SameBuffer
<1>3. CASE LoopUnresponsive \/ RecvEof \/ RejectTexture \/ ShutdownClient
  BY <1>1, <1>3, DropsUntouched, UntouchedUnderway
<1>4. CASE ShutdownEnd
  BY <1>4 DEF ShutdownEnd
<1>5. CASE RecvClientData
  <2>1. ~Handling /\ ~Handling' /\ cur \in Conns
    BY <1>1, <1>5 DEF RecvClientData, NextClient, Handling
  <2>2. CASE c # cur
    <3>1. client'[c] = client[c] /\ toServer'[c] = toServer[c]
      BY <1>1, <1>5, <2>1, <2>2 DEF RecvClientData
    <3> QED BY <1>1, <2>1, <3>1, UntouchedUnderway DEF Untouched, SameBuffer
  <2>3. CASE c = cur
    <3>1. IF toServer'[c] # <<>> THEN toServer'[c][Len(toServer'[c])].tex = b
          ELSE Head(toServer[c]).tex = b
      BY <1>5, <2>3, ReadKeepsLast DEF RecvClientData
    <3>2. Head(toServer[c]) \in GameMessage /\ Head(toServer[c]).type = "client"
      BY <1>1, <1>5, <2>3, ReadType DEF RecvClientData
    <3>3. Head(toServer[c]).tex = NoTex
      BY <3>2 DEF GameMessage
    <3> QED BY <3>1, <3>3 DEF Underway
  <2> QED BY <2>2, <2>3
<1>6. CASE RecvTexture
  <2>1. ~Handling /\ Handling' /\ cur \in Conns /\ cur' = cur
    BY <1>1, <1>6 DEF RecvTexture, Handling
  <2>2. CASE c # cur
    <3>1. client'[c] = client[c] /\ toServer'[c] = toServer[c]
      BY <1>1, <1>6, <2>1, <2>2 DEF RecvTexture
    <3> QED BY <1>1, <2>1, <2>2, <3>1, UntouchedUnderway DEF Untouched, SameBuffer
  <2>3. CASE c = cur
    <3>1. IF toServer'[c] # <<>> THEN toServer'[c][Len(toServer'[c])].tex = b
          ELSE Head(toServer[c]).tex = b
      BY <1>6, <2>3, ReadKeepsLast DEF RecvTexture
    <3>2. client'[c].tdata.tex = Head(toServer[c]).tex /\ msg'.tex = Head(toServer[c]).tex
      BY <1>1, <1>6, <2>3 DEF RecvTexture, Client
    <3> QED BY <2>1, <2>3, <3>1, <3>2 DEF Underway, Arrived
  <2> QED BY <2>2, <2>3
<1>7. CASE StoreBuffers
  <2>1. Handling /\ ~Handling' /\ cur \in Conns /\ cur' = cur /\ toServer' = toServer
    BY <1>1, <1>7 DEF StoreBuffers, Handling, sockVars
  <2>2. CASE c # cur
    <3>1. client'[c] = client[c]
      BY <1>1, <1>7, <2>1, <2>2 DEF StoreBuffers
    <3> QED BY <1>1, <2>1, <2>2, <3>1, UntouchedUnderway DEF Untouched, SameBuffer
  <2>3. CASE c = cur
    <3>1. client'[c].tdata = client[c].tdata /\ client'[c].buf_fds = msg.tex
      BY <1>1, <1>7, <2>3 DEF StoreBuffers, Client
    <3> QED BY <2>1, <2>3, <3>1 DEF Underway, Arrived
  <2> QED BY <2>2, <2>3
<1> QED BY <1>2, <1>3, <1>4, <1>5, <1>6, <1>7 DEF ServerThread

\* activate_client leaves buffers alone, or forgets one and stops its game.
LEMMA ActivateUnderway ==
    ASSUME ClientInv, ServerInv, NEW g \in Games, game[g].capturing,
           NEW c \in clients, c = game[g].connfd, Asked(c)', NEW b, Underway(c, b),
           NEW d \in clients, NEW n \in Int,
           Activate(d, [client[d] EXCEPT !.activated = n]),
           UNCHANGED <<threadVars, toServer>>
    PROVE  Underway(c, b)'
<1> DEFINE cl == [client[d] EXCEPT !.activated = n]
<1>1. /\ clients \subseteq Conns /\ client \in [Conns -> Client]
      /\ client[d] \in Client /\ c \in Conns /\ d \in Conns
  BY BufferTypes
<1>2. /\ cl \in Client /\ cl.buf_id = client[d].buf_id
      /\ cl.buf_fds = client[d].buf_fds /\ cl.tdata = client[d].tdata
  BY <1>1 DEF Client
<1> HIDE DEF cl
<1>3. (Handling' <=> Handling) /\ UNCHANGED <<cur, msg>>
  BY DEF threadVars, Handling
<1>4. CASE SameBuffer(c)
  BY <1>1, <1>3, <1>4, UntouchedUnderway DEF Untouched
<1>5. CASE c # d
  <2>1. client'[c] = client[c]
    BY <1>1, <1>5 DEF Activate
  <2> QED BY <1>4, <2>1 DEF SameBuffer
<1>6. CASE c = d /\ (cl.activated > 0) = (client[c].activated > 0)
  <2>1. client'[c] = cl
    BY <1>1, <1>6 DEF Activate, cl
  <2> QED BY <1>2, <1>4, <1>6, <2>1 DEF SameBuffer
<1>7. CASE c = d /\ (cl.activated > 0) # (client[c].activated > 0)
  <2>1. WriteControl(c, ControlFor(cl))
    BY <1>7 DEF Activate, cl
  <2>2. cl.activated > 0 <=> ~(client[c].activated > 0)
    BY <1>7
  <2> QED BY <1>2, <2>1, <2>2, FlipStops
<1> QED BY <1>5, <1>6, <1>7

\* A tick leaves a client's buffer where it is, or has told the game to stop.
LEMMA TickUnderway ==
    ASSUME ClientInv, ServerInv, NEW g \in Games, game[g].capturing,
           NEW c \in clients, c = game[g].connfd, Asked(c)', NEW b, Underway(c, b),
           NEW s \in Sources, Tick(s)
    PROVE  Underway(c, b)'
<1>1. /\ clients \subseteq Conns /\ client \in [Conns -> Client] /\ c \in Conns
  BY BufferTypes
<1>2. UNCHANGED <<threadVars, toServer>>
  BY DEF Tick, TickGone, TickImport, TickRematch, TickTimeout, TickAttach, sockVars
<1>3. ASSUME SameBuffer(c) PROVE Underway(c, b)'
  BY <1>1, <1>2, <1>3, UntouchedUnderway DEF Untouched, threadVars, Handling
<1>4. CASE TickGone(s)
  BY <1>3, <1>4 DEF TickGone, SameBuffer
<1>5. CASE TickImport(s)
  <2> DEFINE e == source[s].client_id
  <2>1. e \in clients /\ client[e] \in Client
    BY <1>1, <1>5 DEF TickImport
  <2>2. PICK cl : /\ cl \in {Imported(client[e]), ImportFailed(client[e])}
                  /\ client' = [client EXCEPT ![e] = cl]
    BY <1>5 DEF TickImport
  <2>3. /\ cl.buf_id = client[e].buf_id /\ cl.buf_fds = client[e].buf_fds
        /\ cl.tdata = client[e].tdata
    BY <2>1, <2>2 DEF Imported, ImportFailed, Client
  <2>4. client'[c] = IF c = e THEN cl ELSE client[c]
    BY <1>1, <2>1, <2>2
  <2> QED BY <1>3, <2>3, <2>4 DEF SameBuffer
<1>6. CASE TickRematch(s)
  <2>1. source[s].client_id \in clients /\ client[source[s].client_id] \in Client
    BY <1>1, <1>6 DEF TickRematch, UpToDate
  <2>2. client[source[s].client_id].activated - 1 \in Int
    BY <2>1 DEF Client
  <2> QED BY <1>2, <1>6, <2>1, <2>2, ActivateUnderway DEF TickRematch
<1>7. CASE TickTimeout(s)
  <2>1. \E e \in clients : client' = [client EXCEPT ![e].unresponsive = TRUE]
    BY <1>7 DEF TickTimeout, UpToDate
  <2> QED BY <1>1, <1>3, <2>1, FieldQuiet
<1>8. CASE TickAttach(s)
  <2>1. PICK e \in clients :
          Activate(e, [client[e] EXCEPT !.activated = client[e].activated + 1])
    BY <1>8 DEF TickAttach
  <2>2. client[e].activated + 1 \in Int
    BY <1>1 DEF Client
  <2> QED BY <1>2, <2>1, <2>2, ActivateUnderway
<1> QED BY <1>4, <1>5, <1>6, <1>7, <1>8 DEF Tick

\* A step of the plugin loses no buffer that its game was not told to give up.
LEMMA ServerArrives ==
    ASSUME ClientInv, ServerInv, BuffersArrive, ServerNext, UNCHANGED clientVars
    PROVE  BuffersArrive'
<1>1. game' = game
  BY DEF clientVars
<1> SUFFICES ASSUME NEW g \in Games, game[g].capturing, NEW c, c = game[g].connfd,
                    NEW b, b = game[g].buf, c \in clients', Asked(c)'
             PROVE  Underway(c, b)'
  BY <1>1 DEF BuffersArrive
<1>2. c \in Conns /\ c <= clientid /\ b # NoTex /\ clientid \in Nat
  BY CapturingFacts, BufferTypes
<1>3. c \in clients
  BY <1>2, ListMoves DEF Conns
<1>4. Underway(c, b)
  BY <1>2, <1>3, AskedBefore DEF BuffersArrive
<1>5. Underway(c, b)'
  <2>1. CASE ServerThread
    BY <1>2, <1>3, <1>4, <2>1, ThreadUnderway
  <2>2. ASSUME NEW s \in Sources, Tick(s) PROVE Underway(c, b)'
    BY <1>3, <1>4, <2>2, TickUnderway
  <2>3. CASE (\E s \in Sources : SourceUI(s)) \/ (\E e \in Conns : Expire(e)) \/ Unload
    <3>1. UNCHANGED <<threadVars, toServer>>
      BY <2>3 DEF SourceUI, Expire, Unload, sockVars
    <3>2. SameBuffer(c)
      <4>1. CASE client' = client
        BY <4>1 DEF SameBuffer
      <4>2. ASSUME NEW e \in Conns, Expire(e) PROVE SameBuffer(c)
        <5>1. e \in clients /\ client' = [client EXCEPT ![e].timeout = "expired"]
          BY <4>2 DEF Expire
        <5> QED BY <1>2, <5>1, FieldQuiet
      <4> QED BY <2>3, <4>1, <4>2 DEF SourceUI, Unload
    <3> QED BY <1>2, <1>4, <3>1, <3>2, UntouchedUnderway DEF Untouched, threadVars, Handling
  <2> QED BY <2>1, <2>2, <2>3 DEF ServerNext
<1> QED BY <1>1, <1>5

-----------------------------------------------------------------------------
(* The wire under the steps of the games. *)

\* A present call that leaves its game capturing went on with the buffer it
\* had, since it was not told to stop, or exported and sent a new one.
LEMMA CaptureCases ==
    ASSUME SockTypeOK, NEW g \in Games, NEW d \in Game, Capture(g, d, toServer)
    PROVE  \E r \in Game :
             /\ game' = [game EXCEPT ![g] = r]
             /\ r.connfd = d.connfd
             /\ r.capturing =>
                  \/ /\ d.capturing /\ d.accepted /\ r.buf = d.buf
                     /\ UNCHANGED <<toServer, lost>>
                  \/ /\ r.buf = ntex + 1
                     /\ \E n \in NFds : SendTexture(d.connfd, n, toServer)
<1> DEFINE s == Stopped(d)
           t == Exported(s, ntex + 1)
           f == [Freed(s) EXCEPT !.valid = FALSE]
<1>1. s \in Game /\ s.connfd = d.connfd
  BY StoppedFollows DEF Follows
<1>2. s.capturing => d.capturing /\ d.accepted /\ s.buf = d.buf
  BY DEF Stopped, ShouldStop, Freed, Game
<1>3. /\ Freed(s) \in Game /\ Freed(s).connfd = d.connfd /\ ~Freed(s).capturing
      /\ f \in Game /\ f.connfd = d.connfd /\ ~f.capturing
  BY <1>1, FreedType DEF Freed, Game
<1>4. CASE game' = [game EXCEPT ![g] = s] /\ UNCHANGED <<toServer, lost>>
  BY <1>1, <1>2, <1>4
<1>5. CASE /\ ShouldInit(s) /\ game' = [game EXCEPT ![g] = t]
           /\ \E n \in NFds : SendTexture(s.connfd, n, toServer)
  <2>1. t.connfd = d.connfd /\ t.buf = ntex + 1
    BY <1>1 DEF Exported, Game
  <2>2. ntex + 1 \in Texs
    BY <1>5, MaxTexAssumption DEF SendTexture, SockTypeOK, Texs
  <2>3. t \in Game
    BY <1>1, <2>2, ExportedType
  <2> QED BY <1>1, <1>5, <2>1, <2>3
<1>6. CASE game' = [game EXCEPT ![g] = f] \/ game' = [game EXCEPT ![g] = Freed(s)]
  BY <1>3, <1>6
<1> QED BY <1>4, <1>5, <1>6 DEF Capture

\* A buffer that is sent to a client of the plugin is underway, or lost.
LEMMA SendUnderway ==
    ASSUME ServerInv, OpenEnds, NEW c \in clients, c \in Conns,
           NEW n \in NFds, SendTexture(c, n, toServer), Asked(c)'
    PROVE  /\ toServer'[c] # <<>>
           /\ toServer'[c][Len(toServer'[c])].tex = ntex + 1
<1> DEFINE m == TextureData(ntex + 1, n)
<1>1. /\ toServer \in [Conns -> Seq(GameMessage)] /\ toServer[c] \in Seq(GameMessage)
      /\ lost \in [Conns -> BOOLEAN] /\ obsEnd[c] /\ Len(toServer[c]) \in Nat
  BY LenProperties DEF ServerInv, ServerOpenTypeOK, SockTypeOK, OpenEnds
<1>2. m.tex = ntex + 1 /\ m \in GameMessage
  <2>1. ntex + 1 \in Texs
    BY MaxTexAssumption DEF SendTexture, ServerInv, ServerOpenTypeOK, SockTypeOK, Texs
  <2> QED BY <2>1, TextureDataType DEF TextureData
<1> HIDE DEF m
<1>3. /\ toServer'[c] = IF Len(toServer[c]) < SockBuf THEN Append(toServer[c], m)
                        ELSE toServer[c]
      /\ lost'[c] <=> lost[c] \/ Len(toServer[c]) >= SockBuf
  BY <1>1 DEF SendTexture, Sent, m
<1>4. toServer'[c] = Append(toServer[c], m)
  <2>1. ~(Len(toServer[c]) >= SockBuf)
    BY <1>3 DEF Asked
  <2> QED BY <1>1, <1>3, <2>1, SockBufAssumption
<1>5. Len(toServer'[c]) = Len(toServer[c]) + 1 /\ toServer'[c][Len(toServer[c]) + 1] = m
  BY <1>1, <1>2, <1>4, AppendProperties
<1>6. toServer'[c] # <<>>
  <2>1. Len(toServer'[c]) # 0
    BY <1>1, <1>5
  <2>2. Len(<<>>) = 0
    OBVIOUS
  <2> QED BY <2>1, <2>2
<1> QED BY <1>2, <1>5, <1>6

\* A step of game g with the connection c changes nothing on other connections.
OwnWireOnly(c) ==
    \A e \in Conns \ {c} :
        /\ toServer'[e] = toServer[e]
        /\ toClient'[e] = toClient[e]
        /\ lost'[e] = lost[e]

\* What g has after its step is underway, and the others' is what it was.
LEMMA GameArrives ==
    ASSUME ClientInv, ServerInv, BuffersArrive, UNCHANGED serverVars,
           NEW g \in Games, NEW r \in Game, game' = [game EXCEPT ![g] = r],
           NEW c, OwnWireOnly(c),
           \A h \in Games \ {g} : game[h].capturing => game[h].connfd # c,
           r.capturing /\ r.connfd \in clients /\ Asked(r.connfd)'
             => \A b : b = r.buf => Underway(r.connfd, b)'
    PROVE  BuffersArrive'
<1>1. UNCHANGED <<clients, client, pc, cur, msg>>
  BY DEF serverVars, threadVars
<1>2. game'[g] = r /\ \A h \in Games \ {g} : game'[h] = game[h]
  BY DEF ClientInv, ClientOpenTypeOK, ClientTypeOK
<1> SUFFICES ASSUME NEW h \in Games, game'[h].capturing, NEW e, e = game'[h].connfd,
                    NEW b, b = game'[h].buf, e \in clients, Asked(e)'
             PROVE  Underway(e, b)'
  BY <1>1 DEF BuffersArrive
<1>3. CASE h = g
  BY <1>2, <1>3
<1>4. CASE h # g
  <2>1. game'[h] = game[h]
    BY <1>2, <1>4
  <2>2. e \in Conns /\ e # c
    BY <1>4, <2>1, CapturingFacts
  <2>3. toServer'[e] = toServer[e] /\ toClient'[e] = toClient[e] /\ lost'[e] = lost[e]
    BY <2>2 DEF OwnWireOnly
  <2>4. Underway(e, b)
    BY <2>1, <2>3 DEF BuffersArrive, Asked
  <2> QED BY <1>1, <2>3, <2>4 DEF Underway, Arrived, Handling
<1> QED BY <1>3, <1>4

\* A game that a step leaves without a capture has nothing underway.
LEMMA IdleArrives ==
    ASSUME ClientInv, ServerInv, BuffersArrive, UNCHANGED serverVars,
           NEW g \in Games, NEW r \in Game, game' = [game EXCEPT ![g] = r], ~r.capturing,
           NEW c, OwnWireOnly(c),
           \A h \in Games \ {g} : game[h].capturing => game[h].connfd # c
    PROVE  BuffersArrive'
BY GameArrives

\* The rest of a present call, after the socket step that made `data` d of game
\* g's and moved toClient: what went on was asked for before as it is now.
LEMMA CaptureArrives ==
    ASSUME ClientInv, ServerInv, OpenEnds, BuffersArrive, UNCHANGED serverVars,
           NEW g \in Games, NEW d \in Game, Capture(g, d, toServer),
           NEW c, c = game[g].connfd, d.connfd \in {c, NoConn},
           \A e \in Conns \ {c} : toClient'[e] = toClient[e],
           d.capturing /\ d.accepted =>
              /\ game[g].capturing /\ d.buf = game[g].buf
              /\ UNCHANGED lost => (Asked(c)' => Asked(c))
    PROVE  BuffersArrive'
<1>1. /\ SockTypeOK /\ c \in Conns \cup {NoConn} /\ game[g] \in Game
  BY DEF ClientInv, ClientOpenTypeOK, ClientTypeOK, Game
<1>2. UNCHANGED <<clients, client, pc, cur, msg>> /\ clients \subseteq Conns
  BY BufferTypes DEF serverVars, threadVars
<1>3. PICK r \in Game :
         /\ game' = [game EXCEPT ![g] = r]
         /\ r.connfd = d.connfd
         /\ r.capturing =>
              \/ /\ d.capturing /\ d.accepted /\ r.buf = d.buf
                 /\ UNCHANGED <<toServer, lost>>
              \/ /\ r.buf = ntex + 1
                 /\ \E n \in NFds : SendTexture(d.connfd, n, toServer)
  BY <1>1, CaptureCases
<1>4. OwnWireOnly(c)
  <2>1. CaptureSockets(d.connfd)
    BY CaptureSends
  <2>2. ASSUME NEW e \in Conns, e # c
        PROVE  toServer'[e] = toServer[e] /\ lost'[e] = lost[e]
    <3>1. e # d.connfd
      BY <2>2 DEF Conns, NoConn
    <3> QED BY <1>1, <2>1, <2>2, <3>1 DEF CaptureSockets, SendTexture, SockTypeOK
  <2> QED BY <2>2 DEF OwnWireOnly
<1>5. \A h \in Games \ {g} : game[h].capturing => game[h].connfd # c
  BY DEF ClientInv, OwnConnection, CaptureFollowsOrders
<1>6. ASSUME r.capturing, r.connfd \in clients, Asked(r.connfd)', NEW b, b = r.buf
      PROVE  Underway(r.connfd, b)'
  <2>1. r.connfd = c /\ c \in clients /\ c \in Conns
    <3>1. NoConn \notin Conns
      BY DEF Conns, NoConn
    <3>2. r.connfd = d.connfd /\ r.connfd \in Conns
      BY <1>2, <1>3, <1>6
    <3> QED BY <1>6, <3>1, <3>2
  <2>2. CASE /\ d.capturing /\ d.accepted /\ r.buf = d.buf
             /\ UNCHANGED <<toServer, lost>>
    <3>1. Underway(c, b)
      BY <1>6, <2>1, <2>2 DEF BuffersArrive
    <3> QED BY <1>2, <2>1, <2>2, <3>1 DEF Underway, Arrived, Handling
  <2>3. ASSUME NEW n \in NFds, SendTexture(d.connfd, n, toServer), r.buf = ntex + 1
        PROVE  Underway(r.connfd, b)'
    <3>1. SendTexture(c, n, toServer)
      BY <1>3, <2>1, <2>3
    <3>2. toServer'[c] # <<>> /\ toServer'[c][Len(toServer'[c])].tex = ntex + 1
      BY <1>6, <2>1, <3>1, SendUnderway
    <3> QED BY <1>6, <2>1, <2>3, <3>2 DEF Underway
  <2> QED BY <1>3, <1>6, <2>2, <2>3
<1> QED BY <1>3, <1>4, <1>5, <1>6, GameArrives

\* Reading a message that does not say to stop leaves those that were there.
LEMMA AskedThrough ==
    ASSUME SockTypeOK, NEW c \in Conns, ReadControl(c), Head(toClient[c]).capturing,
           UNCHANGED lost, Asked(c)'
    PROVE  Asked(c)
<1> DEFINE q == toClient[c]
<1>1. q \in Seq(Control) /\ q # <<>> /\ toClient'[c] = Tail(q)
  BY DEF ReadControl, SockTypeOK
<1> HIDE DEF q
<1>2. /\ Len(q) \in Nat \ {0} /\ Head(q) = q[1] /\ Len(Tail(q)) = Len(q) - 1
      /\ \A i \in 1..Len(Tail(q)) : Tail(q)[i] = q[i + 1]
  BY <1>1, HeadTailProperties, EmptySeq, LenProperties
<1>3. ASSUME NEW i \in 1..Len(q) PROVE q[i].capturing
  <2>1. CASE i = 1
    BY <1>2, <2>1 DEF q
  <2>2. CASE i # 1
    <3>1. i - 1 \in 1..Len(Tail(q)) /\ (i - 1) + 1 = i
      BY <1>2, <2>2
    <3>2. Tail(q)[i - 1].capturing
      BY <1>1, <3>1 DEF Asked
    <3> QED BY <1>2, <3>1, <3>2
  <2> QED BY <2>1, <2>2
<1> QED BY <1>3 DEF Asked, q

\* A step of a game starts a capture only with its buffer on the wire.
LEMMA GamesArrive ==
    ASSUME ClientInv, ServerInv, OpenEnds, BuffersArrive, ClientNext, UNCHANGED serverVars
    PROVE  BuffersArrive'
<1>1. SockTypeOK /\ game \in [Games -> Game] /\ nconn \in Nat
  BY DEF ClientInv, ClientOpenTypeOK, ClientTypeOK, SockTypeOK
<1>2. PICK g \in Games : \/ PresentIdle(g) \/ PresentConnect(g) \/ PresentControl(g)
                         \/ PresentEof(g) \/ FreeCapture(g) \/ NewDevice(g) \/ Exit(g)
  BY DEF ClientNext, PresentNews
<1>3. PICK c : c = game[g].connfd
  OBVIOUS
<1>4. game[g] \in Game /\ c \in Conns \cup {NoConn}
  BY <1>1, <1>3 DEF Game
<1>5. \A h \in Games \ {g} : game[h].capturing => game[h].connfd # c
  BY <1>3 DEF ClientInv, OwnConnection, CaptureFollowsOrders
<1>6. CASE PresentIdle(g)
  <2>1. Capture(g, game[g], toServer) /\ UNCHANGED toClient
    BY <1>6, <1>3 DEF PresentIdle
  <2>2. UNCHANGED lost => (Asked(c)' => Asked(c))
    BY <2>1 DEF Asked
  <2> QED BY <1>3, <1>4, <2>1, <2>2, CaptureArrives
<1>7. CASE PresentConnect(g)
  <2> DEFINE d == [game[g] EXCEPT !.connfd = nconn + 1]
  <2>1. /\ c = NoConn /\ Connect(ExeOf[g])
        /\ game' = [game EXCEPT ![g] = Stopped(d)]
    BY <1>3, <1>7 DEF PresentConnect
  <2>2. nconn + 1 \in Conns
    BY <1>1, <2>1, MaxConnsAssumption DEF Connect, SockTypeOK, Conns
  <2>3. d \in Game /\ d.capturing = game[g].capturing
    BY <1>3, <1>4, <2>2 DEF Game
  <2>4. ~game[g].capturing
    BY <1>3, <2>1 DEF ClientInv, CaptureFollowsOrders
  <2> HIDE DEF d
  <2>5. Stopped(d) \in Game /\ ~Stopped(d).capturing
    BY <2>3, <2>4, StoppedType DEF Stopped, ShouldStop
  <2>6. OwnWireOnly(nconn + 1)
    BY <1>1, <2>1 DEF Connect, OwnWireOnly, SockTypeOK
  <2>7. ASSUME NEW h \in Games, game[h].capturing PROVE game[h].connfd # nconn + 1
    <3>1. game[h].connfd <= nconn
      BY <2>7 DEF ClientInv, CaptureFollowsOrders, OwnConnection
    <3> QED BY <1>1, <3>1
  <2> QED BY <2>1, <2>5, <2>6, <2>7, IdleArrives
<1>8. CASE PresentControl(g)
  <2> DEFINE d == Heard(game[g], Head(toClient[c]))
  <2>1. c # NoConn /\ ReadControl(c) /\ Capture(g, d, toServer)
    BY <1>3, <1>8 DEF PresentControl
  <2>2. c \in Conns /\ toClient[c] \in Seq(Control) /\ toClient[c] # <<>>
    BY <1>1, <1>3, <1>4, <2>1 DEF ReadControl, SockTypeOK
  <2>3. d \in Game
    BY <1>3, <1>4, <2>2, ReadType, HeardType
  <2>4. /\ d.connfd = c /\ d.capturing = game[g].capturing /\ d.buf = game[g].buf
        /\ d.accepted = Head(toClient[c]).capturing
    BY <1>3, <1>4 DEF Heard, Game
  <2>5. \A e \in Conns \ {c} : toClient'[e] = toClient[e]
    BY <1>1, <2>1 DEF ReadControl, SockTypeOK
  <2>6. d.accepted => (UNCHANGED lost => (Asked(c)' => Asked(c)))
    BY <1>1, <2>1, <2>2, <2>4, AskedThrough
  <2> HIDE DEF d
  <2> QED BY <1>3, <2>1, <2>3, <2>4, <2>5, <2>6, CaptureArrives
<1>9. CASE PresentEof(g)
  <2> DEFINE d == Disconnected(game[g])
  <2>1. CloseGameEnd(c) /\ Capture(g, d, toServer)
    BY <1>3, <1>9 DEF PresentEof
  <2>2. d \in Game /\ d.connfd = NoConn /\ ~d.accepted
    BY <1>3, <1>4, DisconnectedType DEF Disconnected, Game
  <2>3. \A e \in Conns \ {c} : toClient'[e] = toClient[e]
    BY <1>1 , <2>1 DEF CloseGameEnd, SockTypeOK
  <2> HIDE DEF d
  <2> QED BY <1>3, <2>1, <2>2, <2>3, CaptureArrives
<1>10. CASE FreeCapture(g) \/ Exit(g)
  <2>1. PICK r \in {Freed(game[g]), NewGame} : game' = [game EXCEPT ![g] = r]
    BY <1>10 DEF FreeCapture, Exit
  <2>2. Freed(game[g]) \in Game /\ ~Freed(game[g]).capturing
    BY <1>3, <1>4, FreedType DEF Freed, Game
  <2>3. NewGame \in Game /\ ~NewGame.capturing
    BY FlagsType DEF NewGame, Game
  <2>4. OwnWireOnly(c)
    BY <1>1, <1>3, <1>10 DEF FreeCapture, Exit, CloseGameEnd, OwnWireOnly, SockTypeOK, sockVars
  <2> QED BY <1>5, <2>1, <2>2, <2>3, <2>4, IdleArrives
<1>11. CASE NewDevice(g)
  <2>1. PICK r : /\ r = [game[g] EXCEPT !.valid = TRUE]
                 /\ game' = [game EXCEPT ![g] = r] /\ UNCHANGED sockVars
    BY <1>11 DEF NewDevice
  <2>2. r \in Game /\ r.connfd = c /\ r.buf = game[g].buf /\ r.capturing = game[g].capturing
    BY <1>3, <1>4, <2>1 DEF Game
  <2>3. UNCHANGED <<clients, client, pc, cur, msg, toServer, toClient, lost>>
    BY <2>1 DEF serverVars, threadVars, sockVars
  <2>4. OwnWireOnly(c)
    BY <2>3 DEF OwnWireOnly
  <2>5. ASSUME r.capturing, r.connfd \in clients, Asked(r.connfd)', NEW b, b = r.buf
        PROVE  Underway(r.connfd, b)'
    BY <1>3, <2>2, <2>3, <2>5 DEF BuffersArrive, Asked, Underway, Arrived, Handling
  <2> QED BY <1>5, <2>1, <2>2, <2>4, <2>5, GameArrives
<1> QED BY <1>2, <1>6, <1>7, <1>8, <1>9, <1>10, <1>11

-----------------------------------------------------------------------------
(* The theorems. *)

\* The invariant holds before anything has connected.
LEMMA SystemInvInit == Init => SystemInv
<1> SUFFICES ASSUME Init PROVE SystemInv OBVIOUS
<1>1. ClientInv
  BY ClientInvInit DEF Init, ClientOpenInit
<1>2. ServerInv /\ BuffersInv
  BY ServerInvInit, BuffersInvInit DEF Init, ServerOpenInit
<1>3. OpenEnds
  BY DEF Init, SockInit, ServerInit, OpenEnds, Conns
<1>4. BuffersArrive
  BY DEF Init, ServerInit, BuffersArrive
<1> QED BY <1>1, <1>2, <1>3, <1>4 DEF SystemInv

\* A step of one side keeps the invariant and is a step of the other's peer.
LEMMA SystemInvStep ==
    ASSUME SystemInv, [Next]_vars
    PROVE  /\ SystemInv'
           /\ [ClientOpenNext]_<<clientVars, sockVars>>
           /\ [ServerOpenNext]_<<serverVars, sockVars>>
<1>1. ClientInv /\ ServerInv /\ BuffersInv /\ OpenEnds /\ BuffersArrive
  BY DEF SystemInv
<1>2. CASE ClientNext /\ UNCHANGED serverVars
  <2>1. AnyGame \/ UNCHANGED sockVars
    BY <1>1, <1>2, ClientIsAGame
  <2>2. [ServerOpenNext]_<<serverVars, sockVars>>
    BY <1>2, <2>1 DEF ServerOpenNext
  <2>3. [ClientOpenNext]_<<clientVars, sockVars>>
    BY <1>2 DEF ClientOpenNext
  <2>4. OpenEnds' /\ BuffersArrive'
    BY <1>1, <1>2, <2>1, GamesEnds, GamesArrive
  <2> QED BY <1>1, <2>2, <2>3, <2>4, ClientInvStep, ServerInvStep, BuffersInvStep DEF SystemInv
<1>3. CASE ServerNext /\ UNCHANGED clientVars
  <2>1. AnyServer \/ UNCHANGED sockVars
    BY <1>1, <1>3, ServerIsAServer
  <2>2. [ClientOpenNext]_<<clientVars, sockVars>>
    BY <1>3, <2>1 DEF ClientOpenNext
  <2>3. [ServerOpenNext]_<<serverVars, sockVars>>
    BY <1>3 DEF ServerOpenNext
  <2>4. OpenEnds' /\ BuffersArrive'
    BY <1>1, <1>3, ServerEnds, ServerArrives
  <2> QED BY <1>1, <2>2, <2>3, <2>4, ClientInvStep, ServerInvStep, BuffersInvStep DEF SystemInv
<1>4. CASE UNCHANGED vars
  <2>1. UNCHANGED clientVars /\ UNCHANGED serverVars /\ UNCHANGED sockVars
    BY <1>4 DEF vars
  <2>2. /\ [ClientOpenNext]_<<clientVars, sockVars>>
        /\ [ServerOpenNext]_<<serverVars, sockVars>>
    BY <2>1
  <2>3. OpenEnds'
    BY <1>1, <2>1, GamesEnds
  <2>4. BuffersArrive'
    BY <1>1, <2>1 DEF clientVars, serverVars, threadVars, sockVars, BuffersArrive, Asked,
                      Underway, Arrived, Handling
  <2> QED BY <1>1, <2>2, <2>3, <2>4, ClientInvStep, ServerInvStep, BuffersInvStep DEF SystemInv
<1> QED BY <1>2, <1>3, <1>4 DEF Next

\* With empty queues, what the invariants say of the messages they say of the
\* two programs.
LEMMA SettledAgrees ==
    ASSUME SystemInv PROVE SettledAgreement
<1> SUFFICES ASSUME NEW g \in Games, Settled(g), NEW c, c = game[g].connfd
             PROVE  /\ game[g].accepted = (client[c].activated > 0)
                    /\ game[g].accepted => game[g].flags = Flags(client[c].import_failures)
                    /\ game[g].capturing => /\ client[c].buf_fds = game[g].buf
                                            /\ client[c].tdata.tex = game[g].buf
  BY DEF SettledAgreement
<1>1. ClientInv /\ ServerInv /\ BuffersArrive
  BY DEF SystemInv
<1>2. /\ c \in clients /\ toClient[c] = <<>> /\ toServer[c] = <<>>
      /\ ~(Handling /\ cur = c) /\ ~lost[c]
  BY DEF Settled, Handling
<1>3. c \in Conns /\ c # NoConn
  BY <1>1, <1>2, BufferTypes DEF Conns, NoConn
<1>4. told[c] = ControlFor(client[c])
  BY <1>1, <1>2, <1>3 DEF ClientInv, OwnConnection, ServerInv, ControlAgreement, LastTold
<1>5. /\ game[g].accepted = told[c].capturing
      /\ game[g].accepted => game[g].flags = told[c].flags
  BY <1>1, <1>3 DEF ClientInv, OrdersAreCurrent
<1>6. /\ told[c].capturing = (client[c].activated > 0)
      /\ told[c].flags = Flags(client[c].import_failures)
  BY <1>4 DEF ControlFor
<1>7. game[g].capturing => client[c].buf_fds = game[g].buf /\ client[c].tdata.tex = game[g].buf
  <2>1. Asked(c)
    BY <1>2 DEF Asked
  <2> QED BY <1>1, <1>2, <2>1 DEF BuffersArrive, Underway, Arrived
<1> QED BY <1>5, <1>6, <1>7, Zenon

\* A settled game's buffer is its client's, so that of a source up to date.
LEMMA NothingStale ==
    ASSUME SystemInv PROVE NoStalePicture
<1> SUFFICES ASSUME NEW g \in Games, NEW s \in Sources, Settled(g), game[g].capturing,
                    source[s].client_id = game[g].connfd,
                    source[s].buf_id = client[game[g].connfd].buf_id,
                    source[s].texture # NoTexture
             PROVE  source[s].texture = [data |-> game[g].buf, fds |-> game[g].buf]
  BY DEF NoStalePicture
<1>1. ServerInv /\ UpToDateTexture
  BY DEF SystemInv, BuffersInv
<1>2. client[game[g].connfd].buf_fds = game[g].buf
  BY SettledAgrees DEF SettledAgreement
<1>3. /\ source[s].texture.fds = game[g].buf
      /\ source[s].texture.data = source[s].texture.fds
  BY <1>1, <1>2 DEF UpToDateTexture, Settled
<1>4. source[s].texture \in Texture
  BY <1>1, BufferTypes DEF Source
<1> QED BY <1>3, <1>4 DEF Texture

\* The system keeps the inductive invariant.
LEMMA SystemInvariant == Spec => []SystemInv
<1>1. SystemInv /\ [Next]_vars => SystemInv'
  BY SystemInvStep
<1> QED BY <1>1, SystemInvInit, PTL DEF Spec

\* The variables of the composed system have their types.
THEOREM SystemTypeCorrect == Spec => []TypeOK
<1>1. SystemInv => TypeOK
  BY DEF SystemInv, ClientInv, ServerInv, ClientOpenTypeOK, ServerOpenTypeOK, TypeOK
<1> QED BY <1>1, SystemInvariant, PTL

\* The plugin is one of the servers the client library was proved against: to
\* the games the system is no different from the library against any server,
\* so what is proved of CaptureClient holds next to vkcapture.c.
THEOREM PluginIsAServer ==
    Spec => ClientOpenInit /\ [][ClientOpenNext]_<<clientVars, sockVars>>
<1>1. Init => ClientOpenInit
  BY DEF Init, ClientOpenInit
<1>2. SystemInv /\ [Next]_vars => [ClientOpenNext]_<<clientVars, sockVars>>
  BY SystemInvStep
<1> QED BY <1>1, <1>2, SystemInvariant, PTL DEF Spec

\* The games are some of the games the plugin was proved against: to the plugin
\* the system is no different from itself against any games, so what is proved
\* of CaptureServer holds next to capture.c and the hooks.
THEOREM GamesAreGames ==
    Spec => ServerOpenInit /\ [][ServerOpenNext]_<<serverVars, sockVars>>
<1>1. Init => ServerOpenInit
  BY DEF Init, ServerOpenInit
<1>2. SystemInv /\ [Next]_vars => [ServerOpenNext]_<<serverVars, sockVars>>
  BY SystemInvStep
<1> QED BY <1>1, <1>2, SystemInvariant, PTL DEF Spec

\* Once nothing is in flight between a game and the plugin, they agree on
\* whether it captures, how its buffer is allocated and which buffer it is,
\* whatever the games, sources, imports and the thread did before.
THEOREM AgreementCorrect == Spec => []SettledAgreement
<1> QED BY SettledAgrees, SystemInvariant, PTL

\* A source that is up to date with a settled game shows the buffer the game
\* renders to now: no earlier one, and no mixture of two messages.
THEOREM PictureCorrect == Spec => []NoStalePicture
<1> QED BY NothingStale, SystemInvariant, PTL

\* In the composed system, too, each game has a connection of its own.
THEOREM SystemConnections == Spec => []OwnConnection
<1>1. SystemInv => OwnConnection
  BY DEF SystemInv, ClientInv
<1> QED BY <1>1, SystemInvariant, PTL
============================================================================
