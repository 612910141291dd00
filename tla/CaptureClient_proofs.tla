------------------------ MODULE CaptureClient_proofs ------------------------
(***************************************************************************)
(* What the games of CaptureClient keep against any server, for every      *)
(* number of games, connections and buffers and every buffer size.         *)
(***************************************************************************)
EXTENDS CaptureClient, CaptureProtocol_proofs

\* Connections not made yet are untouched.
UnusedConns ==
    \A c \in Conns : c > nconn =>
        /\ told[c] = NotTold
        /\ toClient[c] = <<>>
        /\ ~gameEnd[c]

\* The inductive invariant. OwnConnection keeps one game's reads from changing
\* what another was told; OrdersAreCurrent ties the flags a buffer was made
\* with to the messages read.
ClientInv ==
    /\ ClientOpenTypeOK
    /\ UnusedConns
    /\ OwnConnection
    /\ OrdersAreCurrent
    /\ CaptureFollowsOrders

USE DEF NoConn, NoTex

-----------------------------------------------------------------------------
(* What the operators on `data` make of it. *)

LEMMA HeardType ==
    ASSUME NEW d \in Game, NEW m \in Control
    PROVE  Heard(d, m) \in Game
BY DEF Heard, Game, Control

LEMMA DisconnectedType ==
    ASSUME NEW d \in Game
    PROVE  Disconnected(d) \in Game
BY DEF Disconnected, Game

LEMMA FreedType ==
    ASSUME NEW d \in Game
    PROVE  Freed(d) \in Game /\ [Freed(d) EXCEPT !.valid = FALSE] \in Game
BY FlagsType DEF Freed, Game

LEMMA ExportedType ==
    ASSUME NEW d \in Game, NEW t \in Texs
    PROVE  Exported(d, t) \in Game
BY DEF Exported, Game

LEMMA StoppedType ==
    ASSUME NEW d \in Game
    PROVE  Stopped(d) \in Game
BY FreedType DEF Stopped

\* A present call leaves `data` of its game a record r that follows from the
\* d the socket left: the connection and the orders are d's, and a capture it
\* runs was asked for and has a buffer made with d's flags, or is d's own,
\* running on because nothing called for a stop.
Follows(r, d) ==
    /\ r \in Game
    /\ r.connfd = d.connfd
    /\ r.accepted = d.accepted
    /\ r.flags = d.flags
    /\ r.capturing =>
         /\ d.connfd # NoConn
         /\ d.accepted
         /\ \/ r.buf # NoTex /\ r.bufFlags = d.flags
            \/ /\ d.capturing
               /\ ~d.need_reinit
               /\ r.buf = d.buf
               /\ r.bufFlags = d.bufFlags

LEMMA StoppedFollows ==
    ASSUME NEW d \in Game
    PROVE  Follows(Stopped(d), d)
<1>1. CASE ShouldStop(d)
  BY <1>1, FreedType DEF Stopped, Freed, Follows, Game
<1>2. CASE ~ShouldStop(d)
  BY <1>2 DEF Stopped, ShouldStop, Follows, Game
<1> QED BY <1>1, <1>2

LEMMA CaptureFollows ==
    ASSUME ClientOpenTypeOK, NEW g \in Games, NEW d \in Game,
           NEW ts \in [Conns -> Seq(GameMessage)],
           Capture(g, d, ts)
    PROVE  /\ \E r \in Game : Follows(r, d) /\ game' = [game EXCEPT ![g] = r]
           /\ toServer' \in [Conns -> Seq(GameMessage)]
           /\ ntex' \in 0..MaxTex
           /\ lost' \in [Conns -> BOOLEAN]
<1> DEFINE s == Stopped(d)
<1>1. s \in Game /\ Follows(s, d)
  BY StoppedType, StoppedFollows
<1> HIDE DEF s
<1>2. CASE game' = [game EXCEPT ![g] = s] /\ toServer' = ts /\ UNCHANGED <<ntex, lost>>
  BY <1>1, <1>2 DEF ClientOpenTypeOK, SockTypeOK
<1>3. CASE /\ ShouldInit(s)
           /\ \E n \in NFds : SendTexture(s.connfd, n, ts)
           /\ game' = [game EXCEPT ![g] = Exported(s, ntex + 1)]
  <2>1. PICK n \in NFds : SendTexture(s.connfd, n, ts)
    BY <1>3
  <2>2. ntex + 1 \in Texs
    BY <2>1, MaxTexAssumption DEF SendTexture, ClientOpenTypeOK, SockTypeOK, Texs
  <2>3. s.connfd \in Conns
    BY <1>1, <1>3 DEF ShouldInit, Game
  <2>4. Sent(ts[s.connfd], TextureData(ntex + 1, n), obsEnd[s.connfd]) \in Seq(GameMessage)
    <3>1. ts[s.connfd] \in Seq(GameMessage) /\ obsEnd[s.connfd] \in BOOLEAN
      BY <2>3 DEF ClientOpenTypeOK, SockTypeOK
    <3>2. TextureData(ntex + 1, n) \in GameMessage
      BY <2>2, TextureDataType
    <3> QED BY <3>1, <3>2, SentType
  <2>5. toServer' \in [Conns -> Seq(GameMessage)]
    BY <2>1, <2>4 DEF SendTexture
  <2>6. lost' \in [Conns -> BOOLEAN]
    BY <2>1 DEF SendTexture, ClientOpenTypeOK, SockTypeOK
  <2>7. ntex' \in 0..MaxTex
    BY <2>1, MaxTexAssumption DEF SendTexture, ClientOpenTypeOK, SockTypeOK
  <2>8. Exported(s, ntex + 1) \in Game
    BY <1>1, <2>2, ExportedType
  <2>9. Follows(Exported(s, ntex + 1), d)
    <3> DEFINE r == Exported(s, ntex + 1)
    <3>1. ntex + 1 # NoTex
      BY <2>2 DEF Texs
    <3>2. /\ r.connfd = s.connfd /\ r.accepted = s.accepted /\ r.flags = s.flags
          /\ r.buf = ntex + 1 /\ r.bufFlags = s.flags
      BY <1>1 DEF Exported, Game
    <3>3. s.connfd = d.connfd /\ s.accepted = d.accepted /\ s.flags = d.flags
      BY <1>1 DEF Follows
    <3>4. s.connfd # NoConn /\ s.accepted
      BY <1>3 DEF ShouldInit
    <3> HIDE DEF r
    <3>5. r \in Game
      BY <2>8 DEF r
    <3>6. Follows(r, d)
      BY <3>1, <3>2, <3>3, <3>4, <3>5 DEF Follows
    <3> QED BY <3>6 DEF r
  <2> QED BY <1>3, <2>5, <2>6, <2>7, <2>8, <2>9
<1>4. CASE /\ game' = [game EXCEPT ![g] = [Freed(s) EXCEPT !.valid = FALSE]]
           /\ toServer' = ts /\ UNCHANGED <<ntex, lost>>
  <2>1. Follows([Freed(s) EXCEPT !.valid = FALSE], d)
    BY <1>1, FreedType DEF Follows, Freed, Game
  <2> QED BY <1>1, <1>4, <2>1, FreedType DEF ClientOpenTypeOK, SockTypeOK
<1>5. CASE game' = [game EXCEPT ![g] = Freed(s)] /\ toServer' = ts /\ UNCHANGED <<ntex, lost>>
  <2>1. Follows(Freed(s), d)
    BY <1>1, FreedType DEF Follows, Freed, Game
  <2> QED BY <1>1, <1>5, <2>1, FreedType DEF ClientOpenTypeOK, SockTypeOK
<1> QED BY <1>2, <1>3, <1>4, <1>5 DEF Capture, s

-----------------------------------------------------------------------------
(* The invariant of a present call, given what the socket made of `data`.  *)

\* The game of record d may hold d after its socket step: it is connected to a
\* connection of its own and holds the orders read there; a capture that goes
\* on unless stopped has the buffer these orders ask for.
Consistent(g, d) ==
    /\ d \in Game
    /\ d.accepted => d.connfd # NoConn
    /\ d.connfd # NoConn =>
         /\ d.connfd <= nconn'
         /\ gameEnd'[d.connfd]
         /\ \A h \in Games \ {g} : game[h].connfd # d.connfd
         /\ d.accepted = told'[d.connfd].capturing
         /\ d.accepted => d.flags = told'[d.connfd].flags
    /\ d.capturing /\ ~ShouldStop(d) => d.buf # NoTex /\ d.bufFlags = d.flags

\* The other games' connections are as they were.
OthersKept(g) ==
    \A h \in Games \ {g} : game[h].connfd # NoConn =>
        /\ game[h].connfd <= nconn'
        /\ gameEnd'[game[h].connfd]
        /\ told'[game[h].connfd] = told[game[h].connfd]

LEMMA GameStep ==
    ASSUME ClientInv, NEW g \in Games, NEW d, Consistent(g, d), OthersKept(g),
           NEW r \in Game, Follows(r, d), game' = [game EXCEPT ![g] = r]
    PROVE  OwnConnection' /\ OrdersAreCurrent' /\ CaptureFollowsOrders'
<1>1. game'[g] = r /\ \A h \in Games \ {g} : game'[h] = game[h]
  BY DEF ClientInv, ClientOpenTypeOK, ClientTypeOK
<1>2. r.connfd = d.connfd /\ r.accepted = d.accepted /\ r.flags = d.flags
  BY DEF Follows
<1>3. OwnConnection'
  <2>1. ASSUME NEW a \in Games, game'[a].connfd # NoConn
        PROVE  game'[a].connfd <= nconn' /\ gameEnd'[game'[a].connfd]
    BY <1>1, <1>2, <2>1 DEF Consistent, OthersKept
  <2>2. ASSUME NEW a \in Games, NEW b \in Games \ {a}, game'[a].connfd # NoConn
        PROVE  game'[b].connfd # game'[a].connfd
    BY <1>1, <1>2, <2>2 DEF Consistent, ClientInv, OwnConnection
  <2> QED BY <2>1, <2>2 DEF OwnConnection
<1>4. OrdersAreCurrent'
  <2>1. ASSUME NEW a \in Games \ {g}
        PROVE  /\ game[a].accepted => game[a].connfd # NoConn
               /\ game[a].connfd # NoConn =>
                    game[a].accepted = told'[game[a].connfd].capturing
               /\ game[a].accepted => game[a].flags = told'[game[a].connfd].flags
    BY DEF ClientInv, OrdersAreCurrent, OthersKept
  <2>2. /\ r.accepted => r.connfd # NoConn
        /\ r.connfd # NoConn => r.accepted = told'[r.connfd].capturing
        /\ r.accepted => r.flags = told'[r.connfd].flags
    BY <1>2 DEF Consistent
  <2> QED BY <1>1, <2>1, <2>2 DEF OrdersAreCurrent
<1>5. CaptureFollowsOrders'
  <2>1. ASSUME NEW a \in Games \ {g}, game[a].capturing
        PROVE  /\ game[a].connfd # NoConn
               /\ told'[game[a].connfd].capturing
               /\ game[a].bufFlags = told'[game[a].connfd].flags
               /\ game[a].buf # NoTex
    BY <2>1 DEF ClientInv, CaptureFollowsOrders, OthersKept
  <2>2. ASSUME r.capturing
        PROVE  /\ r.connfd # NoConn
               /\ told'[r.connfd].capturing
               /\ r.bufFlags = told'[r.connfd].flags
               /\ r.buf # NoTex
    <3>1. d.connfd # NoConn /\ d.accepted
      BY <2>2 DEF Follows
    <3>2. told'[d.connfd].capturing /\ d.flags = told'[d.connfd].flags
      BY <3>1 DEF Consistent
    <3>3. CASE r.buf # NoTex /\ r.bufFlags = d.flags
      BY <1>2, <3>1, <3>2, <3>3
    <3>4. CASE /\ d.capturing /\ ~d.need_reinit
               /\ r.buf = d.buf /\ r.bufFlags = d.bufFlags
      BY <1>2, <3>1, <3>2, <3>4 DEF Consistent, ShouldStop
    <3> QED BY <2>2, <3>3, <3>4 DEF Follows
  <2> QED BY <1>1, <2>1, <2>2 DEF CaptureFollowsOrders
<1> QED BY <1>3, <1>4, <1>5

-----------------------------------------------------------------------------
(* The steps of the games. *)

\* The record of a game is consistent with the sockets while they do not move.
LEMMA IdleConsistent ==
    ASSUME ClientInv, NEW g \in Games, UNCHANGED <<nconn, gameEnd, told>>
    PROVE  Consistent(g, game[g]) /\ OthersKept(g)
<1>1. game[g] \in Game
  BY DEF ClientInv, ClientOpenTypeOK, ClientTypeOK
<1>2. Consistent(g, game[g])
  BY <1>1 DEF Consistent, ClientInv, OwnConnection, OrdersAreCurrent,
     CaptureFollowsOrders
<1>3. OthersKept(g)
  BY DEF OthersKept, ClientInv, OwnConnection
<1> QED BY <1>2, <1>3

LEMMA PresentIdleInv ==
    ASSUME ClientInv, NEW g \in Games, PresentIdle(g)
    PROVE  ClientInv'
<1>1. Consistent(g, game[g]) /\ OthersKept(g)
  BY IdleConsistent DEF PresentIdle
<1>2. game[g] \in Game /\ toServer \in [Conns -> Seq(GameMessage)] /\ ClientOpenTypeOK
  BY DEF ClientInv, ClientOpenTypeOK, ClientTypeOK, SockTypeOK
<1>3. PICK r \in Game : Follows(r, game[g]) /\ game' = [game EXCEPT ![g] = r]
  BY <1>2, CaptureFollows DEF PresentIdle
<1>4. /\ toServer' \in [Conns -> Seq(GameMessage)]
      /\ ntex' \in 0..MaxTex
      /\ lost' \in [Conns -> BOOLEAN]
  BY <1>2, CaptureFollows DEF PresentIdle
<1>5. OwnConnection' /\ OrdersAreCurrent' /\ CaptureFollowsOrders'
  BY <1>1, <1>3, GameStep
<1>6. ClientOpenTypeOK'
  BY <1>2, <1>3, <1>4 DEF PresentIdle, ClientOpenTypeOK, ClientTypeOK, SockTypeOK
<1>7. UnusedConns'
  BY DEF ClientInv, UnusedConns, PresentIdle
<1> QED BY <1>5, <1>6, <1>7 DEF ClientInv

LEMMA PresentConnectInv ==
    ASSUME ClientInv, NEW g \in Games, PresentConnect(g)
    PROVE  ClientInv'
<1> DEFINE d == [game[g] EXCEPT !.connfd = nconn + 1]
<1>1. /\ game[g] \in Game /\ game[g].connfd = NoConn
      /\ nconn \in 0..MaxConns /\ nconn < MaxConns /\ nconn' = nconn + 1
  BY DEF ClientInv, ClientOpenTypeOK, ClientTypeOK, SockTypeOK, PresentConnect, Connect
<1>2. nconn + 1 \in Conns
  BY <1>1, MaxConnsAssumption DEF Conns
<1>3. /\ d \in Game /\ d.connfd = nconn + 1 /\ d.accepted = game[g].accepted
      /\ d.capturing = game[g].capturing /\ d.buf = game[g].buf
      /\ d.bufFlags = game[g].bufFlags /\ d.flags = game[g].flags
  BY <1>1, <1>2 DEF Game
<1>4. ~game[g].accepted /\ ~game[g].capturing
  BY <1>1 DEF ClientInv, OrdersAreCurrent, CaptureFollowsOrders
<1>5. told[nconn + 1] = NotTold /\ ~NotTold.capturing
  <2>1. nconn + 1 > nconn
    BY <1>1, MaxConnsAssumption
  <2>2. ~NotTold.capturing
    BY DEF NotTold
  <2> QED BY <1>2, <2>1, <2>2 DEF ClientInv, UnusedConns
<1>6. UNCHANGED <<listening, toClient, ntex, told, lost>>
  BY DEF PresentConnect, Connect
<1>7. gameEnd' = [gameEnd EXCEPT ![nconn + 1] = TRUE]
  BY DEF PresentConnect, Connect
<1>8. gameEnd'[nconn + 1] /\ \A c \in Conns : gameEnd[c] => gameEnd'[c]
  BY <1>2, <1>7 DEF ClientInv, ClientOpenTypeOK, SockTypeOK
<1>9. \A h \in Games : game[h].connfd # NoConn =>
        game[h].connfd \in Conns /\ game[h].connfd <= nconn /\ gameEnd[game[h].connfd]
  BY DEF ClientInv, ClientOpenTypeOK, ClientTypeOK, Game, OwnConnection
<1>10. Consistent(g, d)
  <2>1. d.connfd <= nconn' /\ gameEnd'[d.connfd]
    BY <1>1, <1>3, <1>8, MaxConnsAssumption
  <2>2. \A h \in Games \ {g} : game[h].connfd # d.connfd
    BY <1>1, <1>3, <1>9, MaxConnsAssumption DEF Conns
  <2>3. ~d.accepted /\ ~d.capturing /\ d.connfd # NoConn
    BY <1>1, <1>3, <1>4, MaxConnsAssumption
  <2>4. ~told'[d.connfd].capturing
    BY <1>3, <1>5, <1>6
  <2>5. d.accepted = told'[d.connfd].capturing
    <3>1. d.accepted \in BOOLEAN
      BY <1>3 DEF Game
    <3>2. told'[d.connfd].capturing \in BOOLEAN
      BY <1>3, <1>5, <1>6, NotToldType DEF Control
    <3> QED BY <2>3, <2>4, <3>1, <3>2
  <2> HIDE DEF d
  <2> QED BY <1>3, <2>1, <2>2, <2>3, <2>5 DEF Consistent
<1>11. OthersKept(g)
  BY <1>1, <1>6, <1>8, <1>9 DEF OthersKept, Conns
<1>12. Stopped(d) \in Game /\ Follows(Stopped(d), d)
  BY <1>3, StoppedType, StoppedFollows
<1>13. game' = [game EXCEPT ![g] = Stopped(d)]
  BY DEF PresentConnect
<1> HIDE DEF d
<1>14. OwnConnection' /\ OrdersAreCurrent' /\ CaptureFollowsOrders'
  BY <1>10, <1>11, <1>12, <1>13, GameStep
<1>15. ClientOpenTypeOK'
  <2>1. ExeOf[g] \in Exes
    BY ExeOfAssumption
  <2>2. <<ClientData(ExeOf[g])>> \in Seq(GameMessage)
    BY <2>1, ClientDataType
  <2>3. toServer' = [toServer EXCEPT ![nconn + 1] = <<ClientData(ExeOf[g])>>]
    BY DEF PresentConnect, Connect
  <2>4. obsEnd' = [obsEnd EXCEPT ![nconn + 1] = TRUE]
    BY DEF PresentConnect, Connect
  <2>5. nconn' \in 0..MaxConns
    BY <1>1, MaxConnsAssumption
  <2>6. game' \in [Games -> Game]
    BY <1>12, <1>13 DEF ClientInv, ClientOpenTypeOK, ClientTypeOK
  <2> QED
    BY <1>6, <1>7, <2>2, <2>3, <2>4, <2>5, <2>6
    DEF ClientInv, ClientOpenTypeOK, ClientTypeOK, SockTypeOK
<1>16. UnusedConns'
  <2>1. ASSUME NEW c \in Conns, c > nconn + 1
        PROVE  c > nconn /\ gameEnd'[c] = gameEnd[c]
    <3>1. c > nconn /\ c # nconn + 1
      BY <1>1, <2>1, MaxConnsAssumption DEF Conns
    <3> QED BY <1>7, <3>1 DEF ClientInv, ClientOpenTypeOK, SockTypeOK
  <2> QED BY <1>1, <1>6, <2>1 DEF ClientInv, UnusedConns
<1> QED BY <1>14, <1>15, <1>16 DEF ClientInv

LEMMA PresentControlInv ==
    ASSUME ClientInv, NEW g \in Games, PresentControl(g)
    PROVE  ClientInv'
<1> DEFINE c == game[g].connfd
           m == Head(toClient[c])
           d == Heard(game[g], m)
<1>1. /\ game[g] \in Game /\ c \in Conns /\ c # NoConn
      /\ ClientOpenTypeOK /\ toServer \in [Conns -> Seq(GameMessage)]
  BY DEF ClientInv, ClientOpenTypeOK, ClientTypeOK, SockTypeOK, PresentControl, Game
<1>2. m \in Control /\ Tail(toClient[c]) \in Seq(Control)
  <2>1. toClient[c] \in Seq(Control) /\ toClient[c] # <<>>
    BY <1>1 DEF ClientOpenTypeOK, SockTypeOK, PresentControl, ReadControl
  <2> QED BY <2>1, ReadType
<1>3. d \in Game
  BY <1>1, <1>2, HeardType
<1>4. /\ d.connfd = c /\ d.accepted = m.capturing /\ d.flags = m.flags
      /\ d.capturing = game[g].capturing /\ d.buf = game[g].buf
      /\ d.bufFlags = game[g].bufFlags
      /\ d.need_reinit = (game[g].need_reinit
                            \/ (game[g].capturing /\ game[g].flags # m.flags))
  BY <1>1 DEF Heard, Game
<1>5. /\ told' = [told EXCEPT ![c] = m]
      /\ toClient' = [toClient EXCEPT ![c] = Tail(toClient[c])]
      /\ UNCHANGED <<listening, nconn, gameEnd, obsEnd>>
  BY DEF PresentControl, ReadControl
<1>6. told'[c] = m /\ \A e \in Conns \ {c} : told'[e] = told[e]
  BY <1>1, <1>5 DEF ClientOpenTypeOK, SockTypeOK
<1>7. Capture(g, d, toServer)
  BY DEF PresentControl
<1>8. c <= nconn /\ gameEnd[c] /\ \A h \in Games \ {g} : game[h].connfd # c
  BY <1>1 DEF ClientInv, OwnConnection
<1>9. d.capturing /\ ~ShouldStop(d) => d.buf # NoTex /\ d.bufFlags = d.flags
  <2>1. SUFFICES ASSUME d.capturing, ~ShouldStop(d)
                 PROVE  d.buf # NoTex /\ d.bufFlags = d.flags
    OBVIOUS
  <2>2. game[g].capturing /\ game[g].flags = m.flags
    BY <1>4, <2>1 DEF ShouldStop
  <2>3. /\ game[g].buf # NoTex /\ told[c].capturing
        /\ game[g].bufFlags = told[c].flags
    BY <2>2 DEF ClientInv, CaptureFollowsOrders
  <2>4. game[g].accepted
    BY <1>1, <2>3 DEF ClientInv, OrdersAreCurrent
  <2>5. game[g].flags = told[c].flags
    BY <2>4 DEF ClientInv, OrdersAreCurrent
  <2> QED BY <1>4, <2>2, <2>3, <2>5
<1> HIDE DEF d, m
<1>10. Consistent(g, d)
  BY <1>1, <1>3, <1>4, <1>5, <1>6, <1>8, <1>9 DEF Consistent
<1>11. OthersKept(g)
  <2>1. ASSUME NEW h \in Games \ {g}, game[h].connfd # NoConn
        PROVE  /\ game[h].connfd <= nconn /\ gameEnd[game[h].connfd]
               /\ game[h].connfd \in Conns \ {c}
    BY <1>8, <2>1 DEF ClientInv, OwnConnection, ClientOpenTypeOK, ClientTypeOK, Game
  <2> QED BY <1>5, <1>6, <2>1 DEF OthersKept
<1>12. PICK r \in Game : Follows(r, d) /\ game' = [game EXCEPT ![g] = r]
  BY <1>1, <1>3, <1>7, CaptureFollows
<1>13. /\ toServer' \in [Conns -> Seq(GameMessage)]
       /\ ntex' \in 0..MaxTex
       /\ lost' \in [Conns -> BOOLEAN]
  BY <1>1, <1>3, <1>7, CaptureFollows
<1>14. OwnConnection' /\ OrdersAreCurrent' /\ CaptureFollowsOrders'
  BY <1>10, <1>11, <1>12, GameStep
<1>15. ClientOpenTypeOK'
  BY <1>1, <1>2, <1>5, <1>12, <1>13 DEF ClientOpenTypeOK, ClientTypeOK, SockTypeOK
<1>16. UnusedConns'
  <2>1. ASSUME NEW e \in Conns, e > nconn PROVE e # c
    BY <1>1, <1>8, <2>1 DEF ClientOpenTypeOK, SockTypeOK, Conns
  <2>2. ASSUME NEW e \in Conns, e > nconn
        PROVE  told'[e] = told[e] /\ toClient'[e] = toClient[e]
    BY <1>1, <1>5, <2>1, <2>2 DEF ClientOpenTypeOK, SockTypeOK
  <2> QED BY <1>5, <2>2 DEF ClientInv, UnusedConns
<1> QED BY <1>14, <1>15, <1>16 DEF ClientInv

\* Closing a game's end of its connection leaves the sockets well-formed and
\* the other games' connections alone.
LEMMA CloseGameEndKeeps ==
    ASSUME ClientInv, NEW g \in Games, game[g].connfd # NoConn,
           CloseGameEnd(game[g].connfd), UNCHANGED nconn
    PROVE  /\ OthersKept(g)
           /\ gameEnd' \in [Conns -> BOOLEAN]
           /\ toClient' \in [Conns -> Seq(Control)]
           /\ told' \in [Conns -> Control]
           /\ UnusedConns'
<1> DEFINE c == game[g].connfd
<1>1. c \in Conns /\ SockTypeOK
  BY DEF ClientInv, ClientOpenTypeOK, ClientTypeOK, Game
<1>2. /\ gameEnd' = [gameEnd EXCEPT ![c] = FALSE]
      /\ toClient' = [toClient EXCEPT ![c] = <<>>]
      /\ told' = [told EXCEPT ![c] = NotTold]
  BY DEF CloseGameEnd
<1>3. \A h \in Games \ {g} : game[h].connfd # c
  BY DEF ClientInv, OwnConnection
<1>4. OthersKept(g)
  <2>1. ASSUME NEW h \in Games \ {g}, game[h].connfd # NoConn
        PROVE  /\ game[h].connfd <= nconn /\ gameEnd[game[h].connfd]
               /\ game[h].connfd \in Conns \ {c}
    BY <1>3, <2>1 DEF ClientInv, OwnConnection, ClientOpenTypeOK, ClientTypeOK, Game
  <2> QED BY <1>1, <1>2, <2>1 DEF OthersKept, SockTypeOK
<1>5. /\ gameEnd' \in [Conns -> BOOLEAN]
      /\ toClient' \in [Conns -> Seq(Control)]
      /\ told' \in [Conns -> Control]
  BY <1>1, <1>2, NotToldType DEF SockTypeOK
<1>6. UnusedConns'
  BY <1>1, <1>2 DEF ClientInv, UnusedConns, SockTypeOK
<1> QED BY <1>4, <1>5, <1>6

LEMMA PresentEofInv ==
    ASSUME ClientInv, NEW g \in Games, PresentEof(g)
    PROVE  ClientInv'
<1> DEFINE d == Disconnected(game[g])
<1>1. /\ game[g] \in Game /\ game[g].connfd # NoConn /\ ClientOpenTypeOK
      /\ toServer \in [Conns -> Seq(GameMessage)]
  BY DEF ClientInv, ClientOpenTypeOK, ClientTypeOK, SockTypeOK, PresentEof
<1>2. CloseGameEnd(game[g].connfd) /\ Capture(g, d, toServer)
      /\ UNCHANGED <<listening, nconn, obsEnd>>
  BY DEF PresentEof
<1>3. d \in Game /\ d.connfd = NoConn /\ ~d.accepted
  BY <1>1, DisconnectedType DEF Disconnected, Game
<1> HIDE DEF d
<1>4. Consistent(g, d)
  BY <1>3 DEF Consistent, ShouldStop
<1>5. /\ OthersKept(g)
      /\ gameEnd' \in [Conns -> BOOLEAN]
      /\ toClient' \in [Conns -> Seq(Control)]
      /\ told' \in [Conns -> Control]
      /\ UnusedConns'
  BY <1>1, <1>2, CloseGameEndKeeps
<1>6. PICK r \in Game : Follows(r, d) /\ game' = [game EXCEPT ![g] = r]
  BY <1>1, <1>2, <1>3, CaptureFollows
<1>7. /\ toServer' \in [Conns -> Seq(GameMessage)]
      /\ ntex' \in 0..MaxTex
      /\ lost' \in [Conns -> BOOLEAN]
  BY <1>1, <1>2, <1>3, CaptureFollows
<1>8. OwnConnection' /\ OrdersAreCurrent' /\ CaptureFollowsOrders'
  BY <1>4, <1>5, <1>6, GameStep
<1>9. ClientOpenTypeOK'
  BY <1>1, <1>2, <1>5, <1>6, <1>7 DEF ClientOpenTypeOK, ClientTypeOK, SockTypeOK
<1> QED BY <1>5, <1>8, <1>9 DEF ClientInv

LEMMA FreeCaptureInv ==
    ASSUME ClientInv, NEW g \in Games, FreeCapture(g)
    PROVE  ClientInv'
<1>1. game' = [game EXCEPT ![g] = Freed(game[g])] /\ UNCHANGED sockVars
  BY DEF FreeCapture
<1>2. UNCHANGED <<listening, nconn, gameEnd, obsEnd, toServer, toClient, ntex, told, lost>>
  BY <1>1 DEF sockVars
<1>3. game[g] \in Game
  BY DEF ClientInv, ClientOpenTypeOK, ClientTypeOK
<1>4. Freed(game[g]) \in Game /\ Follows(Freed(game[g]), game[g])
  BY <1>3, FreedType DEF Follows, Freed, Game
<1>5. Consistent(g, game[g]) /\ OthersKept(g)
  BY <1>2, IdleConsistent
<1>6. OwnConnection' /\ OrdersAreCurrent' /\ CaptureFollowsOrders'
  BY <1>1, <1>4, <1>5, GameStep
<1>7. ClientOpenTypeOK' /\ UnusedConns'
  BY <1>1, <1>2, <1>4
  DEF ClientInv, ClientOpenTypeOK, ClientTypeOK, SockTypeOK, UnusedConns
<1> QED BY <1>6, <1>7 DEF ClientInv

LEMMA NewDeviceInv ==
    ASSUME ClientInv, NEW g \in Games, NewDevice(g)
    PROVE  ClientInv'
<1> DEFINE d == [game[g] EXCEPT !.valid = TRUE]
<1>1. game' = [game EXCEPT ![g] = d] /\ UNCHANGED sockVars
  BY DEF NewDevice
<1>2. UNCHANGED <<listening, nconn, gameEnd, obsEnd, toServer, toClient, ntex, told, lost>>
  BY <1>1 DEF sockVars
<1>3. game[g] \in Game
  BY DEF ClientInv, ClientOpenTypeOK, ClientTypeOK
<1>4. d \in Game
  BY <1>3 DEF Game
<1>5. /\ d.connfd = game[g].connfd
      /\ d.accepted = game[g].accepted
      /\ d.flags = game[g].flags
      /\ d.capturing = game[g].capturing
      /\ d.bufFlags = game[g].bufFlags
      /\ d.buf = game[g].buf
      /\ d.need_reinit = game[g].need_reinit
  BY <1>3 DEF Game
<1> HIDE DEF d
<1>6. game' \in [Games -> Game] /\ game'[g] = d
      /\ \A h \in Games \ {g} : game'[h] = game[h]
  BY <1>1, <1>4 DEF ClientInv, ClientOpenTypeOK, ClientTypeOK
<1>7. ClientOpenTypeOK' /\ UnusedConns'
  BY <1>2, <1>6
  DEF ClientInv, ClientOpenTypeOK, ClientTypeOK, SockTypeOK, UnusedConns
<1>8. \A h \in Games : /\ game'[h].connfd = game[h].connfd
                       /\ game'[h].accepted = game[h].accepted
                       /\ game'[h].flags = game[h].flags
                       /\ game'[h].capturing = game[h].capturing
                       /\ game'[h].bufFlags = game[h].bufFlags
                       /\ game'[h].buf = game[h].buf
  BY <1>5, <1>6
<1>9. OwnConnection' /\ OrdersAreCurrent' /\ CaptureFollowsOrders'
  BY <1>2, <1>8
  DEF ClientInv, OwnConnection, OrdersAreCurrent, CaptureFollowsOrders
<1> QED BY <1>7, <1>9 DEF ClientInv

LEMMA ExitInv ==
    ASSUME ClientInv, NEW g \in Games, Exit(g)
    PROVE  ClientInv'
<1>1. /\ game[g].connfd # NoConn /\ CloseGameEnd(game[g].connfd)
      /\ game' = [game EXCEPT ![g] = NewGame]
      /\ UNCHANGED <<ntex, listening, nconn, obsEnd, toServer, lost>>
  BY DEF Exit
<1>2. NewGame \in Game /\ NewGame.connfd = NoConn /\ ~NewGame.accepted
      /\ ~NewGame.capturing
  BY FlagsType DEF NewGame, Game
<1>3. Consistent(g, NewGame) /\ Follows(NewGame, NewGame)
  BY <1>2 DEF Consistent, Follows
<1>4. /\ OthersKept(g)
      /\ gameEnd' \in [Conns -> BOOLEAN]
      /\ toClient' \in [Conns -> Seq(Control)]
      /\ told' \in [Conns -> Control]
      /\ UnusedConns'
  BY <1>1, CloseGameEndKeeps
<1>5. OwnConnection' /\ OrdersAreCurrent' /\ CaptureFollowsOrders'
  BY <1>1, <1>2, <1>3, <1>4, GameStep
<1>6. ClientOpenTypeOK'
  BY <1>1, <1>2, <1>4 DEF ClientInv, ClientOpenTypeOK, ClientTypeOK, SockTypeOK
<1> QED BY <1>4, <1>5, <1>6 DEF ClientInv

\* No server, whatever it does with its ends, disturbs a game by itself.
LEMMA AnyServerInv ==
    ASSUME ClientInv, AnyServer
    PROVE  ClientInv'
<1>1. UNCHANGED game
  BY DEF AnyServer, clientVars
<1>2. SockTypeOK /\ ClientTypeOK
  BY DEF ClientInv, ClientOpenTypeOK
<1>3. UNCHANGED <<nconn, gameEnd, told>> /\ SockTypeOK'
      /\ \A c \in Conns : c > nconn => toClient'[c] = toClient[c]
  <2>1. CASE \E c \in Conns : AnyWrite(c)
    <3>1. PICK c \in Conns, b \in BOOLEAN, n \in Attempts :
            /\ c <= nconn
            /\ WriteControl(c, [capturing |-> b, flags |-> Flags(n)])
            /\ UNCHANGED <<listening, nconn, gameEnd, obsEnd, toServer, ntex, told>>
      BY <2>1 DEF AnyWrite
    <3> DEFINE m == [capturing |-> b, flags |-> Flags(n)]
    <3>2. m \in Control
      BY FlagsType DEF Control
    <3>3. Sent(toClient[c], m, gameEnd[c]) \in Seq(Control)
      BY <1>2, <3>2, SentType DEF SockTypeOK
    <3>4. toClient' = [toClient EXCEPT ![c] = Sent(toClient[c], m, gameEnd[c])]
          /\ lost' \in [Conns -> BOOLEAN]
      BY <1>2, <3>1 DEF WriteControl, SockTypeOK
    <3> HIDE DEF m
    <3>5. toClient' \in [Conns -> Seq(Control)]
      BY <1>2, <3>3, <3>4 DEF SockTypeOK
    <3>6. \A e \in Conns : e > nconn => toClient'[e] = toClient[e]
      BY <1>2, <3>1, <3>4 DEF SockTypeOK, Conns
    <3> QED BY <1>2, <3>1, <3>4, <3>5, <3>6 DEF SockTypeOK
  <2>2. CASE \E c \in Conns : AnyRead(c)
    <3>1. PICK c \in Conns : AnyRead(c)
      BY <2>2
    <3>2. Tail(toServer[c]) \in Seq(GameMessage)
      BY <1>2, <3>1, ReadType DEF AnyRead, SockTypeOK
    <3> QED BY <1>2, <3>1, <3>2 DEF AnyRead, SockTypeOK
  <2>3. CASE \E c \in Conns : AnyClose(c)
    BY <1>2, <2>3 DEF AnyClose, CloseObsEnds, SockTypeOK
  <2>4. CASE AnyStop
    <3>1. /\ listening' = FALSE /\ UNCHANGED <<nconn, gameEnd, toClient, ntex, told, lost>>
          /\ obsEnd' \in [Conns -> BOOLEAN]
      BY <2>4 DEF AnyStop, CloseObsEnds
    <3>2. toServer' \in [Conns -> Seq(GameMessage)]
      BY <1>2, <2>4 DEF AnyStop, CloseObsEnds, SockTypeOK
    <3> QED BY <1>2, <3>1, <3>2 DEF SockTypeOK
  <2> QED BY <2>1, <2>2, <2>3, <2>4 DEF AnyServer
<1> QED
  BY <1>1, <1>2, <1>3
  DEF ClientInv, ClientOpenTypeOK, ClientTypeOK, UnusedConns, OwnConnection,
      OrdersAreCurrent, CaptureFollowsOrders

-----------------------------------------------------------------------------
(* The theorems. *)

LEMMA ClientInvInit == ClientOpenInit => ClientInv
<1> SUFFICES ASSUME ClientOpenInit PROVE ClientInv OBVIOUS
<1>1. NewGame \in Game /\ NewGame.connfd = NoConn /\ ~NewGame.accepted
      /\ ~NewGame.capturing
  BY FlagsType DEF NewGame, Game
<1>2. game = [g \in Games |-> NewGame]
  BY DEF ClientOpenInit, ClientInit
<1>3. SockTypeOK
  BY SockInitType DEF ClientOpenInit
<1>4. UnusedConns
  BY DEF ClientOpenInit, SockInit, UnusedConns
<1> QED
  BY <1>1, <1>2, <1>3, <1>4
  DEF ClientInv, ClientOpenTypeOK, ClientTypeOK, OwnConnection, OrdersAreCurrent,
      CaptureFollowsOrders

LEMMA ClientInvStep ==
    ClientInv /\ [ClientOpenNext]_<<clientVars, sockVars>> => ClientInv'
<1> SUFFICES ASSUME ClientInv, [ClientOpenNext]_<<clientVars, sockVars>>
             PROVE  ClientInv'
  OBVIOUS
<1>1. ASSUME NEW g \in Games, PresentIdle(g) PROVE ClientInv'
  BY <1>1, PresentIdleInv
<1>2. ASSUME NEW g \in Games, PresentConnect(g) PROVE ClientInv'
  BY <1>2, PresentConnectInv
<1>3. ASSUME NEW g \in Games, PresentControl(g) PROVE ClientInv'
  BY <1>3, PresentControlInv
<1>4. ASSUME NEW g \in Games, PresentEof(g) PROVE ClientInv'
  BY <1>4, PresentEofInv
<1>5. ASSUME NEW g \in Games, FreeCapture(g) PROVE ClientInv'
  BY <1>5, FreeCaptureInv
<1>6. ASSUME NEW g \in Games, Exit(g) PROVE ClientInv'
  BY <1>6, ExitInv
<1>6a. ASSUME NEW g \in Games, NewDevice(g) PROVE ClientInv'
  BY <1>6a, NewDeviceInv
<1>7. CASE AnyServer
  BY <1>7, AnyServerInv
<1>8. CASE UNCHANGED <<clientVars, sockVars>>
  BY <1>8
  DEF clientVars, sockVars, ClientInv, ClientOpenTypeOK, ClientTypeOK, SockTypeOK,
      UnusedConns, OwnConnection, OrdersAreCurrent, CaptureFollowsOrders
<1> QED
  BY <1>1, <1>2, <1>3, <1>4, <1>5, <1>6, <1>6a, <1>7, <1>8
  DEF ClientOpenNext, ClientNext, PresentNews

\* Against any server, for every number of games and connections, the client
\* library and its sockets keep their types.
THEOREM ClientTypeCorrect == ClientOpenSpec => []ClientOpenTypeOK
<1>1. ClientInv => ClientOpenTypeOK
  BY DEF ClientInv
<1> QED BY <1>1, ClientInvInit, ClientInvStep, PTL DEF ClientOpenSpec

\* What a game holds as its orders is what it last read on the connection it
\* has now (capture_update_socket).
THEOREM OrdersCorrect == ClientOpenSpec => []OrdersAreCurrent
<1>1. ClientInv => OrdersAreCurrent
  BY DEF ClientInv
<1> QED BY <1>1, ClientInvInit, ClientInvStep, PTL DEF ClientOpenSpec

\* A game exports a buffer only while connected and asked to, allocated the
\* way it was last asked for (capture_should_stop, capture_should_init).
THEOREM CaptureCorrect == ClientOpenSpec => []CaptureFollowsOrders
<1>1. ClientInv => CaptureFollowsOrders
  BY DEF ClientInv
<1> QED BY <1>1, ClientInvInit, ClientInvStep, PTL DEF ClientOpenSpec

\* No two games share a connection, and a game's end of its own is open.
THEOREM ConnectionsCorrect == ClientOpenSpec => []OwnConnection
<1>1. ClientInv => OwnConnection
  BY DEF ClientInv
<1> QED BY <1>1, ClientInvInit, ClientInvStep, PTL DEF ClientOpenSpec

-----------------------------------------------------------------------------
(* When a buffer in use is replaced. *)

\* Between present calls a record with a buffer captures, and need_reinit is
\* not set on one that captures: capture_init_shtex has reset it, and a call
\* that set it has stopped the capture before it returned.
InUse(r) ==
    /\ r.buf # NoTex => r.capturing
    /\ r.capturing => ~r.need_reinit

BuffersInUse == \A g \in Games : InUse(game[g])

\* A present call makes another buffer of d's only if d did not capture or was
\* to be made anew.
LEMMA CaptureRebuilds ==
    ASSUME NEW g \in Games, NEW d \in Game, NEW ts, Capture(g, d, ts),
           d.buf # NoTex => d.capturing
    PROVE  \E r : /\ game' = [game EXCEPT ![g] = r]
                  /\ InUse(r)
                  /\ r.flags = d.flags
                  /\ r.buf \in {NoTex, d.buf} \/ ~d.capturing \/ d.need_reinit
<1> DEFINE s == Stopped(d)
           t == Exported(s, ntex + 1)
           f == [Freed(s) EXCEPT !.valid = FALSE]
<1>1. s \in Game /\ s.flags = d.flags
  BY StoppedFollows DEF Follows
<1>2. InUse(s) /\ s.buf \in {NoTex, d.buf}
  BY DEF InUse, Stopped, ShouldStop, Freed, Game
<1>3. ShouldInit(s) => ~d.capturing \/ d.need_reinit
  BY DEF ShouldInit, Stopped, ShouldStop, Freed, Game
<1>4. t.flags = d.flags /\ t.capturing /\ ~t.need_reinit
  BY <1>1 DEF Exported, Game
<1>5. /\ Freed(s).flags = d.flags /\ ~Freed(s).capturing /\ Freed(s).buf = NoTex
      /\ f.flags = d.flags /\ ~f.capturing /\ f.buf = NoTex
  BY <1>1 DEF Freed, Game
<1> HIDE DEF s, t, f
<1>6. CASE game' = [game EXCEPT ![g] = s]
  BY <1>1, <1>2, <1>6
<1>7. CASE ShouldInit(s) /\ game' = [game EXCEPT ![g] = t]
  BY <1>3, <1>4, <1>7 DEF InUse
<1>8. CASE game' = [game EXCEPT ![g] = f] \/ game' = [game EXCEPT ![g] = Freed(s)]
  BY <1>5, <1>8 DEF InUse
<1> QED BY <1>6, <1>7, <1>8 DEF Capture, s, t, f

\* A step of game g to the record r keeps the others and replaces a buffer in
\* use only by one with other flags than it had.
LEMMA GameRebuilds ==
    ASSUME ClientInv, BuffersInUse, NEW g \in Games, NEW r,
           game' = [game EXCEPT ![g] = r], InUse(r),
           game[g].buf # NoTex /\ r.buf \notin {NoTex, game[g].buf}
             => r.flags # game[g].bufFlags
    PROVE  /\ BuffersInUse'
           /\ \A h \in Games :
                game[h].buf # NoTex /\ game'[h].buf \notin {NoTex, game[h].buf}
                  => game'[h].flags # game[h].bufFlags
<1>1. game'[g] = r /\ \A h \in Games \ {g} : game'[h] = game[h]
  BY DEF ClientInv, ClientOpenTypeOK, ClientTypeOK
<1>2. \A h \in Games : game'[h] = game[h] \/ h = g
  BY <1>1
<1> QED BY <1>1, <1>2 DEF BuffersInUse, InUse

LEMMA GameStepRebuilds ==
    ASSUME ClientInv, BuffersInUse, NEW g \in Games,
           \/ PresentIdle(g) \/ PresentConnect(g) \/ PresentControl(g) \/ PresentEof(g)
           \/ FreeCapture(g) \/ NewDevice(g) \/ Exit(g)
    PROVE  /\ BuffersInUse'
           /\ \A h \in Games :
                game[h].buf # NoTex /\ game'[h].buf \notin {NoTex, game[h].buf}
                  => game'[h].flags # game[h].bufFlags
<1> DEFINE old == game[g]
           c == old.connfd
<1>1. SockTypeOK /\ old \in Game /\ c \in Conns \cup {NoConn} /\ InUse(old)
  BY DEF ClientInv, ClientOpenTypeOK, ClientTypeOK, BuffersInUse, Game
<1>2. old.capturing => c # NoConn /\ old.bufFlags = old.flags
  BY DEF ClientInv, CaptureFollowsOrders, OrdersAreCurrent
<1> HIDE DEF old
\* The present calls that do not hear that the flags have changed.
<1>3. ASSUME NEW d \in Game, Capture(g, d, toServer), d.buf = old.buf,
             d.capturing = old.capturing,
             d.need_reinit => ~old.capturing \/ old.need_reinit \/ d.flags # old.flags
      PROVE  \E r : /\ game' = [game EXCEPT ![g] = r] /\ InUse(r)
                    /\ old.buf # NoTex /\ r.buf \notin {NoTex, old.buf}
                         => r.flags # old.bufFlags
  <2>1. PICK r : /\ game' = [game EXCEPT ![g] = r]
                 /\ InUse(r)
                 /\ r.flags = d.flags
                 /\ r.buf \in {NoTex, d.buf} \/ ~d.capturing \/ d.need_reinit
    BY <1>1, <1>3, CaptureRebuilds DEF InUse
  <2>2. old.buf # NoTex /\ r.buf \notin {NoTex, old.buf} => r.flags # old.bufFlags
    BY <1>1, <1>2, <1>3, <2>1 DEF InUse
  <2> QED BY <2>1, <2>2
<1>4. CASE PresentIdle(g)
  <2>1. Capture(g, old, toServer)
    BY <1>4 DEF PresentIdle, old
  <2> QED BY <1>1, <1>3, <2>1, GameRebuilds DEF old
<1>5. CASE PresentControl(g)
  <2> DEFINE m == Head(toClient[c])
             d == Heard(old, m)
  <2>1. c # NoConn /\ ReadControl(c) /\ Capture(g, d, toServer)
    BY <1>5 DEF PresentControl, old
  <2>2. m \in Control
    BY <1>1, <2>1, ReadType DEF ReadControl, SockTypeOK
  <2>3. d \in Game
    BY <1>1, <2>2, HeardType
  <2>4. /\ d.buf = old.buf /\ d.capturing = old.capturing /\ d.flags = m.flags
        /\ d.need_reinit => old.need_reinit \/ old.flags # m.flags
    BY <1>1 DEF Heard, Game
  <2> HIDE DEF d, m
  <2> QED BY <1>3, <2>1, <2>3, <2>4, GameRebuilds DEF old
<1>6. CASE PresentEof(g)
  <2> DEFINE d == Disconnected(old)
  <2>1. Capture(g, d, toServer)
    BY <1>6 DEF PresentEof, old
  <2>2. /\ d \in Game /\ d.buf = old.buf /\ d.capturing = old.capturing
        /\ d.need_reinit = old.need_reinit
    BY <1>1, DisconnectedType DEF Disconnected, Game
  <2> HIDE DEF d
  <2> QED BY <1>3, <2>1, <2>2, GameRebuilds DEF old
<1>7. CASE PresentConnect(g)
  <2> DEFINE d == [old EXCEPT !.connfd = nconn + 1]
  <2>1. c = NoConn /\ game' = [game EXCEPT ![g] = Stopped(d)]
    BY <1>7 DEF PresentConnect, old
  <2>2. ~old.capturing /\ old.buf = NoTex
    BY <1>1, <1>2, <2>1 DEF InUse
  <2>3. ~d.capturing /\ d.buf = NoTex
    BY <1>1, <2>2 DEF Game
  <2>4. Stopped(d) = d
    BY <2>3 DEF Stopped, ShouldStop
  <2>5. InUse(d)
    BY <2>3 DEF InUse
  <2> HIDE DEF d
  <2> QED BY <2>1, <2>3, <2>4, <2>5, GameRebuilds DEF old
<1>8. CASE FreeCapture(g) \/ Exit(g)
  <2>1. PICK r \in {Freed(old), NewGame} : game' = [game EXCEPT ![g] = r]
    BY <1>8 DEF FreeCapture, Exit, old
  <2>2. Freed(old).buf = NoTex /\ ~Freed(old).capturing
    BY <1>1 DEF Freed, Game
  <2>3. NewGame.buf = NoTex /\ ~NewGame.capturing
    BY DEF NewGame
  <2>4. r.buf = NoTex /\ ~r.capturing
    BY <2>1, <2>2, <2>3
  <2> QED BY <2>1, <2>4, GameRebuilds DEF InUse
<1>9. CASE NewDevice(g)
  <2> DEFINE r == [old EXCEPT !.valid = TRUE]
  <2>1. game' = [game EXCEPT ![g] = r]
    BY <1>9 DEF NewDevice, old
  <2>2. r.buf = old.buf /\ r.capturing = old.capturing /\ r.need_reinit = old.need_reinit
    BY <1>1 DEF Game
  <2> HIDE DEF r
  <2> QED BY <1>1, <2>1, <2>2, GameRebuilds DEF InUse, old
<1> QED BY <1>4, <1>5, <1>6, <1>7, <1>8, <1>9

LEMMA BuffersInUseInit == ClientOpenInit => BuffersInUse
<1>1. InUse(NewGame)
  BY DEF InUse, NewGame
<1> QED BY <1>1 DEF ClientOpenInit, ClientInit, BuffersInUse

\* No present call, however it interleaves with the server's messages, replaces
\* a buffer in use unless it has read other flags than the buffer was allocated
\* with (capture_update_socket sets need_reinit on a change alone,
\* capture_init_shtex resets it).
THEOREM RebuildsOnChange == ClientOpenSpec => RebuildOnlyOnChange
<1>1. ASSUME ClientInv, BuffersInUse, [ClientOpenNext]_<<clientVars, sockVars>>
      PROVE  /\ BuffersInUse'
             /\ \A g \in Games :
                  game[g].buf # NoTex /\ game'[g].buf \notin {NoTex, game[g].buf}
                    => game'[g].flags # game[g].bufFlags
  <2>1. CASE ClientNext
    <3>1. PICK g \in Games :
            \/ PresentIdle(g) \/ PresentConnect(g) \/ PresentControl(g) \/ PresentEof(g)
            \/ FreeCapture(g) \/ NewDevice(g) \/ Exit(g)
      BY <2>1 DEF ClientNext, PresentNews
    <3> QED BY <1>1, <3>1, GameStepRebuilds
  <2>2. CASE AnyServer \/ UNCHANGED <<clientVars, sockVars>>
    <3>1. game' = game
      BY <2>2 DEF AnyServer, clientVars
    <3> QED BY <1>1, <3>1 DEF BuffersInUse, InUse
  <2> QED BY <1>1, <2>1, <2>2 DEF ClientOpenNext
<1>2. ClientInv /\ BuffersInUse /\ [ClientOpenNext]_<<clientVars, sockVars>> => BuffersInUse'
  BY <1>1
<1>3. ClientOpenSpec => [](ClientInv /\ BuffersInUse)
  BY <1>2, ClientInvInit, ClientInvStep, BuffersInUseInit, PTL DEF ClientOpenSpec
<1>4. ClientInv /\ BuffersInUse /\ [ClientOpenNext]_<<clientVars, sockVars>>
        => [\A g \in Games : game[g].buf # NoTex /\ game'[g].buf \notin {NoTex, game[g].buf}
                              => game'[g].flags # game[g].bufFlags]_<<clientVars, sockVars>>
  BY <1>1
<1> QED BY <1>3, <1>4, PTL DEF ClientOpenSpec, RebuildOnlyOnChange
============================================================================
