------------------------ MODULE CaptureServer_proofs ------------------------
(***************************************************************************)
(* What the plugin of CaptureServer keeps against any games, for every     *)
(* number of sources, connections and buffers and every buffer size.       *)
(***************************************************************************)
EXTENDS CaptureServer, CaptureProtocol_proofs, FiniteSetTheorems

\* The list holds accepted connections only, and what is not accepted yet has
\* been told nothing.
AcceptedOnly ==
    /\ clientid <= nconn
    /\ \A c \in clients : c <= clientid
    /\ \A c \in Conns : c > clientid =>
         /\ told[c] = NotTold
         /\ toClient[c] = <<>>
         /\ client[c] = NewClient

\* The thread is at a client of the list or behind the last one, and accepts
\* only what is waiting.
ThreadAt ==
    /\ pc \in {"recv", "check", "bufs"} => cur \in clients
    /\ pc = "loop" => cur \in clients \cup {LoopOver}
    /\ pc = "accept" /\ Listener \in ready => clientid < nconn

\* The inductive invariant: without AcceptedOnly a client could be accepted
\* with orders it was never given, without ThreadAt the thread could change
\* one that is gone.
ServerInv ==
    /\ ServerOpenTypeOK
    /\ AcceptedOnly
    /\ ThreadAt
    /\ ControlAgreement

USE DEF NoConn, NoTex, Listener

-----------------------------------------------------------------------------
(* The types of the records and what the operators make of them. *)

LEMMA NewClientType == NewClient \in Client
BY DEF NewClient, NoData, Client, TexData, Attempts, ImportDefault,
       ImportFailuresMax, ImportLinearHostMapped, Timeouts

LEMMA NoSourceType == NoSource \in Source
BY DEF NoSource, Source, Modes, AnyWindow, WindowSettings

LEMMA ControlForType ==
    ASSUME NEW cl \in Client
    PROVE  ControlFor(cl) \in Control
<1>1. cl.activated \in Int
  BY DEF Client
<1> QED BY <1>1, FlagsType DEF ControlFor, Control

LEMMA ImportFailedType ==
    ASSUME NEW cl \in Client
    PROVE  ImportFailed(cl) \in Client /\ Imported(cl) \in Client
<1>1. cl.import_failures \in 0..3
  BY DEF Client, Attempts, ImportDefault, ImportFailuresMax, ImportLinearHostMapped
<1>2. (IF cl.import_failures < ImportFailuresMax
         THEN cl.import_failures + 1 ELSE cl.import_failures) \in Attempts
  BY <1>1 DEF Attempts, ImportDefault, ImportFailuresMax, ImportLinearHostMapped
<1> QED BY <1>2 DEF ImportFailed, Imported, Client, Timeouts

LEMMA RestartedType ==
    ASSUME NEW cl \in Client
    PROVE  Restarted(cl) \in Client
<1>1. NoData \in TexData /\ "armed" \in Timeouts /\ 0 \in Nat /\ NoTex \in Texs \cup {NoTex}
  BY DEF NoData, TexData, Timeouts
<1> QED BY <1>1 DEF Restarted, Client

\* Where the loop goes next: a client behind c, or behind the last one.
LEMMA AfterType ==
    ASSUME NEW c, NEW d \in After(c)
    PROVE  (d \in clients /\ d > c) \/ d = LoopOver
BY DEF After, First

LEMMA AfterEraseType ==
    ASSUME clients \subseteq Conns, NEW c \in Conns, NEW d \in AfterErase(c)
    PROVE  d \in clients \ {c} \/ d = LoopOver
<1>1. PICK e \in After(c) : d \in After(e)
  BY DEF AfterErase
<1>2. CASE d = LoopOver
  BY <1>2
<1>3. CASE d \in clients /\ d > e
  <2>1. d \in 1..MaxConns
    BY <1>3 DEF Conns
  <2>2. CASE e \in clients /\ e > c
    <3>1. e \in 1..MaxConns /\ c \in 1..MaxConns
      BY <2>2 DEF Conns
    <3> QED BY <1>3, <2>1, <2>2, <3>1, MaxConnsAssumption
  <2>3. CASE e = LoopOver
    BY <1>3, <2>1, <2>3, MaxConnsAssumption DEF LoopOver
  <2> QED BY <1>1, <2>2, <2>3, AfterType
<1> QED BY <1>1, <1>2, <1>3, AfterType

-----------------------------------------------------------------------------
(* Steps that write no control message. *)

\* What the game of c was or will be told, and what it should be told, are
\* as before for every client still there.
Undisturbed ==
    /\ clients' \subseteq clients
    /\ UNCHANGED <<toClient, told>>
    /\ \A c \in clients' :
         /\ gameEnd'[c] => gameEnd[c]
         /\ ~lost'[c] => ~lost[c]
         /\ client'[c].activated = client[c].activated
         /\ client'[c].import_failures = client[c].import_failures

LEMMA UndisturbedAgreement ==
    ASSUME ControlAgreement, Undisturbed
    PROVE  ControlAgreement'
<1> SUFFICES ASSUME NEW c \in clients', gameEnd'[c], ~lost'[c]
             PROVE  LastTold(c)' = ControlFor(client'[c])
  BY DEF ControlAgreement
<1>1. LastTold(c) = ControlFor(client[c])
  BY DEF ControlAgreement, Undisturbed
<1>2. LastTold(c)' = LastTold(c)
  BY DEF LastTold, Undisturbed
<1>3. ControlFor(client'[c]) = ControlFor(client[c])
  BY DEF ControlFor, Undisturbed
<1> QED BY <1>1, <1>2, <1>3

LEMMA PollInv ==
    ASSUME ServerInv, Poll
    PROVE  ServerInv'
<1>1. Undisturbed
  BY DEF Poll, sockVars, Undisturbed
<1>2. ServerOpenTypeOK'
  BY DEF Poll, Events, sockVars, ServerInv, ServerOpenTypeOK, SockTypeOK, ServerTypeOK,
         Pcs, Conns
<1>3. AcceptedOnly'
  BY DEF Poll, sockVars, ServerInv, AcceptedOnly
<1>4. ThreadAt'
  <2>1. Listener \in Events => clientid < nconn
    BY DEF Events, ServerInv, ServerOpenTypeOK, ServerTypeOK, Conns
  <2> QED BY <2>1 DEF Poll, sockVars, ThreadAt
<1> QED BY <1>1, <1>2, <1>3, <1>4, UndisturbedAgreement DEF ServerInv

LEMMA AcceptInv ==
    ASSUME ServerInv, Accept
    PROVE  ServerInv'
<1>1. clients \subseteq Conns /\ clientid \in 0..MaxConns /\ nconn \in 0..MaxConns
      /\ clientid <= nconn
  BY DEF ServerInv, ServerOpenTypeOK, SockTypeOK, ServerTypeOK, AcceptedOnly
<1>2. /\ pc' = "loop" /\ cur' \in First(clients')
      /\ UNCHANGED <<client, bufid, event, quit, room, msg, openFds, source>>
      /\ UNCHANGED <<listening, nconn, gameEnd, obsEnd, toServer, toClient, ntex, told, lost>>
  BY DEF Accept, sockVars
<1>3. CASE Listener \notin ready
  <2>1. UNCHANGED <<clients, clientid, ready>>
    BY <1>3 DEF Accept
  <2>2. cur' \in clients \cup {LoopOver}
    BY <1>2, <2>1 DEF First
  <2>3. Undisturbed
    BY <1>2, <2>1 DEF Undisturbed
  <2>4. ServerOpenTypeOK'
    BY <1>1, <1>2, <2>1, <2>2, MaxConnsAssumption
    DEF ServerInv, ServerOpenTypeOK, SockTypeOK, ServerTypeOK, Pcs, LoopOver, Conns
  <2> QED BY <1>2, <2>1, <2>2, <2>3, <2>4, UndisturbedAgreement
          DEF ServerInv, AcceptedOnly, ThreadAt
<1>4. CASE Listener \in ready
  <2>1. /\ clientid' = clientid + 1
        /\ clients' = clients \cup {clientid + 1}
        /\ ready' \subseteq ready \cup {clientid + 1}
    BY <1>4 DEF Accept
  <2>2. clientid < nconn /\ clientid + 1 \in Conns
    BY <1>1, <1>4, MaxConnsAssumption DEF Accept, ServerInv, ThreadAt, Conns
  <2>3. cur' \in clients' \cup {LoopOver}
    BY <1>2 DEF First
  <2>4. ServerOpenTypeOK'
    BY <1>1, <1>2, <2>1, <2>2, <2>3, MaxConnsAssumption
    DEF ServerInv, ServerOpenTypeOK, SockTypeOK, ServerTypeOK, Pcs, LoopOver, Conns
  <2>5. AcceptedOnly'
    BY <1>1, <1>2, <2>1, <2>2 DEF ServerInv, AcceptedOnly, Conns
  <2>6. ThreadAt'
    BY <1>2, <2>3 DEF ThreadAt
  <2>7. ControlAgreement'
    <3>1. ASSUME NEW c \in clients
          PROVE  gameEnd[c] /\ ~lost[c] => LastTold(c)' = ControlFor(client'[c])
      BY <1>2 DEF ServerInv, ControlAgreement, LastTold
    <3>2. ASSUME NEW c, c = clientid + 1
          PROVE  LastTold(c)' = ControlFor(client'[c])
      <4>1. told[c] = NotTold /\ toClient[c] = <<>> /\ client[c] = NewClient
        BY <1>1, <2>2, <3>2 DEF ServerInv, AcceptedOnly
      <4>2. LastTold(c)' = NotTold
        BY <1>2, <4>1 DEF LastTold
      <4>3. ControlFor(NewClient) = NotTold
        <5>1. NewClient.activated = 0 /\ NewClient.import_failures = ImportDefault
          BY DEF NewClient
        <5>2. (NewClient.activated > 0) = FALSE
          BY <5>1
        <5> QED BY <5>1, <5>2 DEF ControlFor, NotTold
      <4> QED BY <1>2, <4>1, <4>2, <4>3
    <3> QED BY <1>2, <2>1, <3>1, <3>2 DEF ControlAgreement
  <2> QED BY <2>4, <2>5, <2>6, <2>7 DEF ServerInv
<1> QED BY <1>3, <1>4

LEMMA LoopEndInv ==
    ASSUME ServerInv, LoopEnd
    PROVE  ServerInv'
<1>1. Undisturbed
  BY DEF LoopEnd, sockVars, Undisturbed
<1>2. ServerOpenTypeOK'
  BY MaxConnsAssumption
  DEF LoopEnd, sockVars, ServerInv, ServerOpenTypeOK, SockTypeOK, ServerTypeOK, Pcs, LoopOver
<1>3. AcceptedOnly' /\ ThreadAt'
  BY DEF LoopEnd, sockVars, ServerInv, AcceptedOnly, ThreadAt
<1> QED BY <1>1, <1>2, <1>3, UndisturbedAgreement DEF ServerInv

LEMMA LoopClientInv ==
    ASSUME ServerInv, LoopClient
    PROVE  ServerInv'
<1>1. Undisturbed
  BY DEF LoopClient, sockVars, Undisturbed
<1>2. pc = "loop" /\ cur \in clients /\ clients \subseteq Conns
  BY DEF LoopClient, ServerInv, ServerOpenTypeOK, ServerTypeOK, ThreadAt
<1>3. \/ pc' = "recv" /\ room' = MaxRoom /\ cur' \in clients
      \/ pc' = "loop" /\ room' = room /\ cur' \in clients \cup {LoopOver}
  <2>1. \A d \in After(cur) : d \in clients \cup {LoopOver}
    BY AfterType
  <2> QED BY <1>2, <2>1 DEF LoopClient
<1>4. cur' \in 0..LoopOver
  <2>1. cur' \in clients \cup {LoopOver}
    BY <1>3
  <2> QED BY <1>2, <2>1, MaxConnsAssumption DEF Conns, LoopOver
<1>5. ServerOpenTypeOK'
  <2>1. pc' \in Pcs /\ room' \in 0..20
    BY <1>3 DEF ServerInv, ServerOpenTypeOK, ServerTypeOK, Pcs, MaxRoom
  <2>2. UNCHANGED <<clients, client, clientid, bufid, event, quit, ready, msg, openFds,
                    source, sockVars>>
    BY DEF LoopClient
  <2> QED BY <1>4, <2>1, <2>2
          DEF sockVars, ServerInv, ServerOpenTypeOK, SockTypeOK, ServerTypeOK
<1>6. AcceptedOnly' /\ ThreadAt'
  BY <1>3 DEF LoopClient, sockVars, ServerInv, AcceptedOnly, ThreadAt
<1> QED BY <1>1, <1>5, <1>6, UndisturbedAgreement DEF ServerInv

\* The thread returns to the loop, at one of a part cs of the array.
LEMMA NextClientType ==
    ASSUME ServerOpenTypeOK, NEW cs, NextClient(cs), clients' \subseteq Conns,
           \A d \in cs : d \in clients' \cup {LoopOver}
    PROVE  /\ pc' \in Pcs /\ cur' \in 0..LoopOver
           /\ room' \in 0..20 /\ msg' \in TexData
           /\ pc' = "loop" /\ cur' \in clients' \cup {LoopOver}
<1>1. cur' \in clients' \cup {LoopOver}
  BY DEF NextClient
<1>2. cur' \in 0..LoopOver
  BY <1>1, MaxConnsAssumption DEF Conns, LoopOver
<1>3. NoData \in TexData
  BY DEF NoData, TexData
<1> QED BY <1>1, <1>2, <1>3 DEF NextClient, Pcs

LEMMA RecvAgainInv ==
    ASSUME ServerInv, RecvAgain
    PROVE  ServerInv'
<1>1. Undisturbed
  BY DEF RecvAgain, sockVars, Undisturbed
<1>2. ServerOpenTypeOK /\ UNCHANGED clients /\ clients' \subseteq Conns
  BY DEF RecvAgain, ServerInv, ServerOpenTypeOK, ServerTypeOK
<1>3. /\ pc' \in Pcs /\ cur' \in 0..LoopOver
      /\ room' \in 0..20 /\ msg' \in TexData
      /\ pc' = "loop" /\ cur' \in clients' \cup {LoopOver}
  BY <1>2, AfterType, NextClientType DEF RecvAgain
<1>4. ServerOpenTypeOK'
  BY <1>2, <1>3 DEF RecvAgain, sockVars, ServerOpenTypeOK, SockTypeOK, ServerTypeOK
<1>5. AcceptedOnly' /\ ThreadAt'
  BY <1>3 DEF RecvAgain, sockVars, ServerInv, AcceptedOnly, ThreadAt
<1> QED BY <1>1, <1>4, <1>5, UndisturbedAgreement DEF ServerInv

\* server_cleanup_client takes c off the list and disturbs no one else.
LEMMA CleanupKeeps ==
    ASSUME ServerInv, NEW c \in Conns, NEW rejected, Cleanup(c, rejected)
    PROVE  /\ SockTypeOK'
           /\ clients' = clients \ {c} /\ clients' \subseteq Conns
           /\ client' \in [Conns -> Client]
           /\ openFds' \subseteq Texs
           /\ UNCHANGED <<nconn, gameEnd, toClient, told>>
           /\ \A d \in Conns : client'[d] = IF d = c THEN NewClient ELSE client[d]
           /\ ControlAgreement'
<1>1. /\ clients' = clients \ {c}
      /\ client' = [client EXCEPT ![c] = NewClient]
      /\ openFds' = openFds \ ({client[c].buf_fds} \cup rejected)
      /\ UNCHANGED <<listening, nconn, gameEnd, toClient, ntex, told, lost>>
  BY DEF Cleanup
<1>2. client \in [Conns -> Client] /\ clients \subseteq Conns /\ openFds \subseteq Texs
  BY DEF ServerInv, ServerOpenTypeOK, ServerTypeOK
<1>3. obsEnd' \in [Conns -> BOOLEAN] /\ toServer' \in [Conns -> Seq(GameMessage)]
  BY DEF Cleanup, CloseObsEnds, ServerInv, ServerOpenTypeOK, SockTypeOK
<1>4. SockTypeOK'
  BY <1>1, <1>3 DEF ServerInv, ServerOpenTypeOK, SockTypeOK
<1>5. \A d \in Conns : client'[d] = IF d = c THEN NewClient ELSE client[d]
  BY <1>1, <1>2
<1>6. Undisturbed
  BY <1>1, <1>2, <1>5 DEF Undisturbed
<1>7. client' \in [Conns -> Client]
  BY <1>1, <1>2, NewClientType
<1> QED BY <1>1, <1>2, <1>4, <1>5, <1>6, <1>7, UndisturbedAgreement DEF ServerInv

LEMMA LoopUnresponsiveInv ==
    ASSUME ServerInv, LoopUnresponsive
    PROVE  ServerInv'
<1>1. pc = "loop" /\ cur \in clients /\ cur \in Conns /\ clients \subseteq Conns
  BY DEF LoopUnresponsive, ServerInv, ServerOpenTypeOK, ServerTypeOK, ThreadAt
<1>2. /\ SockTypeOK'
      /\ clients' = clients \ {cur} /\ clients' \subseteq Conns
      /\ client' \in [Conns -> Client]
      /\ openFds' \subseteq Texs
      /\ UNCHANGED <<nconn, gameEnd, toClient, told>>
      /\ \A d \in Conns : client'[d] = IF d = cur THEN NewClient ELSE client[d]
      /\ ControlAgreement'
  BY <1>1, CleanupKeeps DEF LoopUnresponsive
<1>3. UNCHANGED <<clientid, bufid, event, quit, pc, ready, room, msg, source>>
  BY DEF LoopUnresponsive
<1>4. cur' \in clients' \cup {LoopOver}
  BY <1>1, <1>2, AfterEraseType DEF LoopUnresponsive
<1>5. cur' \in 0..LoopOver
  BY <1>2, <1>4, MaxConnsAssumption DEF Conns, LoopOver
<1>6. ServerOpenTypeOK'
  BY <1>2, <1>3, <1>5 DEF ServerInv, ServerOpenTypeOK, ServerTypeOK
<1>7. AcceptedOnly' /\ ThreadAt'
  BY <1>1, <1>2, <1>3, <1>4 DEF ServerInv, AcceptedOnly, ThreadAt
<1> QED BY <1>2, <1>6, <1>7 DEF ServerInv

\* A client is dropped inside its recvmsg() loop.
LEMMA DropInv ==
    ASSUME ServerInv, pc \in {"recv", "check"}, NEW rejected,
           Cleanup(cur, rejected), NextClient(AfterErase(cur)),
           UNCHANGED <<clientid, bufid, event, quit, ready, source>>
    PROVE  ServerInv'
<1>1. cur \in clients /\ cur \in Conns /\ clients \subseteq Conns /\ ServerOpenTypeOK
  BY DEF ServerInv, ServerOpenTypeOK, ServerTypeOK, ThreadAt
<1>2. /\ SockTypeOK'
      /\ clients' = clients \ {cur} /\ clients' \subseteq Conns
      /\ client' \in [Conns -> Client]
      /\ openFds' \subseteq Texs
      /\ UNCHANGED <<nconn, gameEnd, toClient, told>>
      /\ \A d \in Conns : client'[d] = IF d = cur THEN NewClient ELSE client[d]
      /\ ControlAgreement'
  BY <1>1, CleanupKeeps
<1>3. \A d \in AfterErase(cur) : d \in clients' \cup {LoopOver}
  BY <1>1, <1>2, AfterEraseType
<1>4. /\ pc' \in Pcs /\ cur' \in 0..LoopOver
      /\ room' \in 0..20 /\ msg' \in TexData
      /\ pc' = "loop" /\ cur' \in clients' \cup {LoopOver}
  BY <1>1, <1>2, <1>3, NextClientType
<1>5. ServerOpenTypeOK'
  BY <1>1, <1>2, <1>4 DEF ServerOpenTypeOK, ServerTypeOK
<1>6. AcceptedOnly' /\ ThreadAt'
  BY <1>1, <1>2, <1>4 DEF ServerInv, AcceptedOnly, ThreadAt
<1> QED BY <1>2, <1>5, <1>6 DEF ServerInv

LEMMA RecvEofInv ==
    ASSUME ServerInv, RecvEof PROVE ServerInv'
BY DropInv DEF RecvEof

LEMMA RejectTextureInv ==
    ASSUME ServerInv, RejectTexture PROVE ServerInv'
BY DropInv DEF RejectTexture
-----------------------------------------------------------------------------
(* The messages of a game. *)

\* recvmsg() takes the head of cur's queue and nothing else on the sockets.
LEMMA TakeKeeps ==
    ASSUME ServerInv, pc = "recv", toServer[cur] # <<>>,
           toServer' = [toServer EXCEPT ![cur] = Tail(@)],
           UNCHANGED <<listening, nconn, gameEnd, obsEnd, toClient, ntex, told, lost>>
    PROVE  /\ SockTypeOK'
           /\ cur \in clients /\ cur \in Conns
           /\ Head(toServer[cur]) \in GameMessage
<1>1. cur \in clients /\ cur \in Conns
  BY DEF ServerInv, ServerOpenTypeOK, ServerTypeOK, ThreadAt
<1>2. SockTypeOK
  BY DEF ServerInv, ServerOpenTypeOK
<1>3. toServer[cur] \in Seq(GameMessage)
  BY <1>1, <1>2 DEF SockTypeOK
<1>4. Head(toServer[cur]) \in GameMessage /\ Tail(toServer[cur]) \in Seq(GameMessage)
  BY <1>3, ReadType
<1>5. toServer' \in [Conns -> Seq(GameMessage)]
  BY <1>2, <1>4 DEF SockTypeOK
<1>6. SockTypeOK'
  BY <1>2, <1>5 DEF SockTypeOK
<1> QED BY <1>1, <1>4, <1>6

\* A change of the record of cur alone that is no business of its game.
LEMMA RecordKeeps ==
    ASSUME ServerInv, NEW c \in clients, NEW cl \in Client,
           client' = [client EXCEPT ![c] = cl],
           cl.activated = client[c].activated,
           cl.import_failures = client[c].import_failures,
           UNCHANGED <<clients, clientid, nconn, toClient, told, gameEnd, lost>>
    PROVE  client' \in [Conns -> Client] /\ AcceptedOnly' /\ ControlAgreement'
<1>1. client \in [Conns -> Client] /\ c \in Conns /\ clients \subseteq Conns
  BY DEF ServerInv, ServerOpenTypeOK, ServerTypeOK
<1>2. client'[c] = cl /\ \A d \in Conns \ {c} : client'[d] = client[d]
  BY <1>1
<1>3. client' \in [Conns -> Client]
  BY <1>1
<1>4. AcceptedOnly'
  <2>1. c <= clientid /\ clientid \in 0..MaxConns
    BY DEF ServerInv, ServerOpenTypeOK, ServerTypeOK, AcceptedOnly
  <2>2. \A d \in Conns : d > clientid => d # c
    BY <1>1, <2>1 DEF Conns
  <2> QED BY <1>2, <2>2 DEF ServerInv, AcceptedOnly
<1>5. Undisturbed
  BY <1>1, <1>2 DEF Undisturbed
<1> QED BY <1>3, <1>4, <1>5, UndisturbedAgreement DEF ServerInv

LEMMA RecvClientDataInv ==
    ASSUME ServerInv, RecvClientData
    PROVE  ServerInv'
<1> DEFINE m == Head(toServer[cur])
           cl == [client[cur] EXCEPT !.exe = m.exe]
<1>1. /\ pc = "recv" /\ toServer[cur] # <<>>
      /\ client' = [client EXCEPT ![cur] = cl]
      /\ toServer' = [toServer EXCEPT ![cur] = Tail(@)]
      /\ NextClient(After(cur))
      /\ UNCHANGED <<clients, clientid, bufid, event, quit, ready, openFds, source>>
      /\ UNCHANGED <<listening, nconn, gameEnd, obsEnd, toClient, ntex, told, lost>>
  BY DEF RecvClientData
<1>2. SockTypeOK' /\ cur \in clients /\ cur \in Conns /\ m \in GameMessage
  BY <1>1, TakeKeeps
<1>3. ServerOpenTypeOK /\ clients \subseteq Conns /\ client[cur] \in Client
  BY <1>2 DEF ServerInv, ServerOpenTypeOK, ServerTypeOK
<1>4. m.exe \in Exes \cup {NoExe}
  BY <1>2 DEF GameMessage
<1> HIDE DEF m
<1>5. /\ cl \in Client
      /\ cl.activated = client[cur].activated
      /\ cl.import_failures = client[cur].import_failures
  BY <1>3, <1>4 DEF Client
<1> HIDE DEF cl
<1>6. client' \in [Conns -> Client] /\ AcceptedOnly' /\ ControlAgreement'
  BY <1>1, <1>2, <1>5, RecordKeeps
<1>7. /\ pc' \in Pcs /\ cur' \in 0..LoopOver
      /\ room' \in 0..20 /\ msg' \in TexData
      /\ pc' = "loop" /\ cur' \in clients' \cup {LoopOver}
  BY <1>1, <1>3, AfterType, NextClientType
<1>8. ServerOpenTypeOK'
  BY <1>1, <1>2, <1>3, <1>6, <1>7 DEF ServerOpenTypeOK, ServerTypeOK
<1>9. ThreadAt'
  BY <1>7 DEF ThreadAt
<1> QED BY <1>6, <1>8, <1>9 DEF ServerInv

\* However many descriptors a message has, at most four arrive, and the room
\* for the next ones is at most that for four.
LEMMA ReceivedType ==
    ASSUME NEW n \in 0..4, room \in 0..20
    PROVE  Received(n) \in 0..4 /\ RoomAfter(Received(n)) \in 0..20
<1>1. Received(n) \in 0..4
  BY DEF Received
<1>2. ASSUME NEW k \in 0..4 PROVE RoomAfter(k) \in 0..20
  BY <1>2 DEF RoomAfter
<1> QED BY <1>1, <1>2

LEMMA RecvTextureInv ==
    ASSUME ServerInv, RecvTexture
    PROVE  ServerInv'
<1> DEFINE m == Head(toServer[cur])
           cl == [client[cur] EXCEPT !.tdata = [tex |-> m.tex, nfd |-> m.nfd]]
<1>1. /\ pc = "recv" /\ toServer[cur] # <<>> /\ m.type = "texture"
      /\ client' = [client EXCEPT ![cur] = cl]
      /\ toServer' = [toServer EXCEPT ![cur] = Tail(@)]
      /\ msg' = [tex |-> m.tex, nfd |-> Received(m.nfd)]
      /\ openFds' = openFds \cup {m.tex}
      /\ room' = RoomAfter(Received(m.nfd))
      /\ pc' = "check"
      /\ UNCHANGED <<clients, clientid, bufid, event, quit, cur, ready, source>>
      /\ UNCHANGED <<listening, nconn, gameEnd, obsEnd, toClient, ntex, told, lost>>
  BY DEF RecvTexture
<1>2. SockTypeOK' /\ cur \in clients /\ cur \in Conns /\ m \in GameMessage
  BY <1>1, TakeKeeps
<1>3. ServerOpenTypeOK /\ client[cur] \in Client /\ room \in 0..20
  BY <1>2 DEF ServerInv, ServerOpenTypeOK, ServerTypeOK
<1>4. m.tex \in Texs /\ m.nfd \in 0..4
  BY <1>1, <1>2, NFdsAssumption DEF GameMessage
<1> HIDE DEF m
<1>5. Received(m.nfd) \in 0..4 /\ RoomAfter(Received(m.nfd)) \in 0..20
  BY <1>3, <1>4, ReceivedType
<1>6. [tex |-> m.tex, nfd |-> m.nfd] \in TexData
      /\ [tex |-> m.tex, nfd |-> Received(m.nfd)] \in TexData
  BY <1>4, <1>5 DEF TexData
<1>7. /\ cl \in Client
      /\ cl.activated = client[cur].activated
      /\ cl.import_failures = client[cur].import_failures
  BY <1>3, <1>6 DEF Client
<1> HIDE DEF cl
<1>8. client' \in [Conns -> Client] /\ AcceptedOnly' /\ ControlAgreement'
  BY <1>1, <1>2, <1>7, RecordKeeps
<1>9. ServerOpenTypeOK'
  BY <1>1, <1>2, <1>3, <1>4, <1>5, <1>6, <1>8 DEF ServerOpenTypeOK, ServerTypeOK, Pcs
<1>10. ThreadAt'
  BY <1>1, <1>2 DEF ThreadAt
<1> QED BY <1>8, <1>9, <1>10 DEF ServerInv

LEMMA CheckTextureInv ==
    ASSUME ServerInv, CheckTexture
    PROVE  ServerInv'
<1>1. Undisturbed
  BY DEF CheckTexture, sockVars, Undisturbed
<1>2. ServerOpenTypeOK'
  BY DEF CheckTexture, sockVars, ServerInv, ServerOpenTypeOK, SockTypeOK, ServerTypeOK, Pcs
<1>3. AcceptedOnly' /\ ThreadAt'
  BY DEF CheckTexture, sockVars, ServerInv, AcceptedOnly, ThreadAt
<1> QED BY <1>1, <1>2, <1>3, UndisturbedAgreement DEF ServerInv

LEMMA StoreBuffersInv ==
    ASSUME ServerInv, StoreBuffers
    PROVE  ServerInv'
<1> DEFINE cl == [client[cur] EXCEPT !.buf_fds = msg.tex, !.buf_id = bufid + 1]
<1>1. /\ pc = "bufs" /\ pc' = "recv" /\ bufid' = bufid + 1
      /\ openFds' = openFds \ {client[cur].buf_fds} /\ msg' = NoData
      /\ UNCHANGED <<clients, clientid, event, quit, cur, ready, room, source>>
      /\ UNCHANGED <<listening, nconn, gameEnd, obsEnd, toServer, toClient, ntex, told, lost>>
  BY DEF StoreBuffers, sockVars
<1>2. SockTypeOK /\ ServerTypeOK /\ cur \in clients /\ cur \in Conns
  BY <1>1 DEF ServerInv, ServerOpenTypeOK, ServerTypeOK, ThreadAt
<1>3. client' = [client EXCEPT ![cur] = cl]
  BY <1>2 DEF StoreBuffers, ServerTypeOK
<1>4. client[cur] \in Client /\ msg.tex \in Texs \cup {NoTex} /\ bufid + 1 \in Nat
      /\ NoData \in TexData
  BY <1>2 DEF ServerTypeOK, TexData, NoData
<1>5. /\ cl \in Client
      /\ cl.activated = client[cur].activated
      /\ cl.import_failures = client[cur].import_failures
  BY <1>4 DEF Client
<1> HIDE DEF cl
<1>6. client' \in [Conns -> Client] /\ AcceptedOnly' /\ ControlAgreement'
  BY <1>1, <1>2, <1>3, <1>5, RecordKeeps
<1>7. ServerOpenTypeOK'
  BY <1>1, <1>2, <1>4, <1>6 DEF ServerOpenTypeOK, SockTypeOK, ServerTypeOK, Pcs
<1>8. ThreadAt'
  BY <1>1, <1>2 DEF ThreadAt
<1> QED BY <1>6, <1>7, <1>8 DEF ServerInv

LEMMA ShutdownClientInv ==
    ASSUME ServerInv, ShutdownClient
    PROVE  ServerInv'
<1>1. clients \subseteq Conns /\ pc = "shutdown" /\ clients # {}
  BY DEF ShutdownClient, ServerInv, ServerOpenTypeOK, ServerTypeOK
<1>2. PICK c \in clients : Cleanup(c, {})
  BY <1>1 DEF ShutdownClient, First
<1>3. /\ SockTypeOK'
      /\ clients' = clients \ {c} /\ clients' \subseteq Conns
      /\ client' \in [Conns -> Client]
      /\ openFds' \subseteq Texs
      /\ UNCHANGED <<nconn, gameEnd, toClient, told>>
      /\ \A d \in Conns : client'[d] = IF d = c THEN NewClient ELSE client[d]
      /\ ControlAgreement'
  BY <1>1, <1>2, CleanupKeeps
<1>4. UNCHANGED <<clientid, bufid, event, quit, pc, cur, ready, room, msg, source>>
  BY DEF ShutdownClient, threadVars
<1>5. ServerOpenTypeOK'
  BY <1>3, <1>4 DEF ServerInv, ServerOpenTypeOK, ServerTypeOK
<1>6. AcceptedOnly' /\ ThreadAt'
  BY <1>1, <1>3, <1>4 DEF ServerInv, AcceptedOnly, ThreadAt
<1> QED BY <1>3, <1>5, <1>6 DEF ServerInv

LEMMA ShutdownEndInv ==
    ASSUME ServerInv, ShutdownEnd
    PROVE  ServerInv'
<1>1. Undisturbed
  BY DEF ShutdownEnd, Undisturbed
<1>2. obsEnd' \in [Conns -> BOOLEAN] /\ toServer' \in [Conns -> Seq(GameMessage)]
  BY DEF ShutdownEnd, CloseObsEnds, ServerInv, ServerOpenTypeOK, SockTypeOK
<1>3. ServerOpenTypeOK'
  BY <1>2
  DEF ShutdownEnd, ServerInv, ServerOpenTypeOK, SockTypeOK, ServerTypeOK, Pcs
<1>4. AcceptedOnly' /\ ThreadAt'
  BY DEF ShutdownEnd, ServerInv, AcceptedOnly, ThreadAt
<1> QED BY <1>1, <1>3, <1>4, UndisturbedAgreement DEF ServerInv
-----------------------------------------------------------------------------
(* The ticks. *)

\* A change of a source, and at most of fields of records that are no business
\* of a game, keeps everything.
LEMMA SourceKeeps ==
    ASSUME ServerInv, source' \in [Sources -> Source],
           client' \in [Conns -> Client], AcceptedOnly', Undisturbed, event' \in BOOLEAN,
           quit' \in BOOLEAN,
           UNCHANGED <<clients, clientid, bufid, threadVars, openFds, sockVars>>
    PROVE  ServerInv'
<1>1. ServerOpenTypeOK'
  BY DEF sockVars, threadVars, ServerInv, ServerOpenTypeOK, SockTypeOK, ServerTypeOK
<1>2. ThreadAt'
  BY DEF sockVars, threadVars, ServerInv, ThreadAt
<1> QED BY <1>1, <1>2, UndisturbedAgreement DEF ServerInv

LEMMA DetachedType ==
    ASSUME NEW src \in Source
    PROVE  Detached(src) \in Source
BY DEF Detached, NoTextureLeft, Source

LEMMA TickGoneInv ==
    ASSUME ServerInv, NEW s \in Sources, TickGone(s)
    PROVE  ServerInv'
<1>1. source' = [source EXCEPT ![s] = Detached(source[s])]
      /\ UNCHANGED <<clients, client, clientid, bufid, event, quit, threadVars, openFds,
                     sockVars>>
  BY DEF TickGone
<1>2. /\ source \in [Sources -> Source] /\ client \in [Conns -> Client]
      /\ event \in BOOLEAN /\ quit \in BOOLEAN
  BY DEF ServerInv, ServerOpenTypeOK, ServerTypeOK
<1>3. source' \in [Sources -> Source]
  BY <1>1, <1>2, DetachedType
<1>4. AcceptedOnly' /\ Undisturbed
  BY <1>1 DEF sockVars, ServerInv, AcceptedOnly, Undisturbed
<1> QED BY <1>1, <1>2, <1>3, <1>4, SourceKeeps

LEMMA SourceUIInv ==
    ASSUME ServerInv, NEW s \in Sources, SourceUI(s)
    PROVE  ServerInv'
<1>1. UNCHANGED <<clients, client, clientid, bufid, event, quit, threadVars, openFds,
                  sockVars>>
  BY DEF SourceUI
<1>2. /\ source \in [Sources -> Source] /\ client \in [Conns -> Client]
      /\ event \in BOOLEAN /\ quit \in BOOLEAN
  BY DEF ServerInv, ServerOpenTypeOK, ServerTypeOK
<1>3. PICK src \in Source : source' = [source EXCEPT ![s] = src]
  <2>1. CASE SourceCreate(s)
    <3>1. PICK w \in Windows :
            source' = [source EXCEPT ![s] = [NoSource EXCEPT !.mode = "hidden", !.window = w]]
      BY <2>1 DEF SourceCreate
    <3>2. [NoSource EXCEPT !.mode = "hidden", !.window = w] \in Source
      BY WindowsAssumption, NoSourceType DEF Source, Modes
    <3> QED BY <3>1, <3>2
  <2>2. CASE SourceUpdate(s)
    <3>1. PICK w \in Windows : source' = [source EXCEPT ![s].window = w]
      BY <2>2 DEF SourceUpdate
    <3>2. [source[s] EXCEPT !.window = w] \in Source
      BY <1>2, WindowsAssumption DEF Source
    <3> QED BY <1>2, <3>1, <3>2
  <2>3. CASE SourceShow(s)
    <3>1. [source[s] EXCEPT !.mode = "showing"] \in Source
      BY <1>2 DEF Source, Modes
    <3> QED BY <1>2, <2>3, <3>1 DEF SourceShow
  <2>4. CASE SourceHide(s)
    <3>1. [source[s] EXCEPT !.mode = "hidden"] \in Source
      BY <1>2 DEF Source, Modes
    <3> QED BY <1>2, <2>4, <3>1 DEF SourceHide
  <2>5. CASE SourceDestroy(s)
    BY <2>5, NoSourceType DEF SourceDestroy
  <2> QED BY <2>1, <2>2, <2>3, <2>4, <2>5 DEF SourceUI
<1>4. source' \in [Sources -> Source]
  BY <1>2, <1>3
<1>5. AcceptedOnly' /\ Undisturbed
  BY <1>1 DEF sockVars, ServerInv, AcceptedOnly, Undisturbed
<1> QED BY <1>1, <1>2, <1>4, <1>5, SourceKeeps

LEMMA TickTimeoutInv ==
    ASSUME ServerInv, NEW s \in Sources, TickTimeout(s)
    PROVE  ServerInv'
<1> DEFINE c == source[s].client_id
           cl == [client[c] EXCEPT !.unresponsive = TRUE]
<1>1. /\ c \in clients /\ event' = TRUE
      /\ source' = [source EXCEPT ![s] = Detached(source[s])]
      /\ UNCHANGED <<clients, clientid, bufid, quit, threadVars, openFds, sockVars>>
  BY DEF TickTimeout, UpToDate
<1>2. /\ source \in [Sources -> Source] /\ client \in [Conns -> Client]
      /\ quit \in BOOLEAN /\ c \in Conns
  BY <1>1 DEF ServerInv, ServerOpenTypeOK, ServerTypeOK
<1>3. client' = [client EXCEPT ![c] = cl]
  BY <1>2 DEF TickTimeout
<1>4. /\ cl \in Client
      /\ cl.activated = client[c].activated
      /\ cl.import_failures = client[c].import_failures
  BY <1>2 DEF Client
<1> HIDE DEF cl
<1>5. client' \in [Conns -> Client] /\ AcceptedOnly'
  BY <1>1, <1>3, <1>4, RecordKeeps DEF sockVars
<1>6. Undisturbed
  BY <1>1, <1>2, <1>3, <1>4 DEF Undisturbed, sockVars
<1>7. source' \in [Sources -> Source]
  BY <1>1, <1>2, DetachedType
<1> QED BY <1>1, <1>2, <1>5, <1>6, <1>7, SourceKeeps

LEMMA ExpireInv ==
    ASSUME ServerInv, NEW c \in Conns, Expire(c)
    PROVE  ServerInv'
<1> DEFINE cl == [client[c] EXCEPT !.timeout = "expired"]
<1>1. /\ c \in clients
      /\ UNCHANGED <<clients, clientid, bufid, event, quit, threadVars, openFds, source,
                     sockVars>>
  BY DEF Expire
<1>2. /\ source \in [Sources -> Source] /\ client \in [Conns -> Client]
      /\ quit \in BOOLEAN /\ event \in BOOLEAN
  BY DEF ServerInv, ServerOpenTypeOK, ServerTypeOK
<1>3. client' = [client EXCEPT ![c] = cl]
  BY <1>2 DEF Expire
<1>4. /\ cl \in Client
      /\ cl.activated = client[c].activated
      /\ cl.import_failures = client[c].import_failures
  BY <1>2 DEF Client, Timeouts
<1> HIDE DEF cl
<1>5. client' \in [Conns -> Client] /\ AcceptedOnly'
  BY <1>1, <1>3, <1>4, RecordKeeps DEF sockVars
<1>6. Undisturbed
  BY <1>1, <1>2, <1>3, <1>4 DEF Undisturbed, sockVars
<1> QED BY <1>1, <1>2, <1>5, <1>6, SourceKeeps

LEMMA UnloadInv ==
    ASSUME ServerInv, Unload
    PROVE  ServerInv'
<1>1. /\ quit' = TRUE /\ event' = TRUE
      /\ UNCHANGED <<clients, client, clientid, bufid, threadVars, openFds, source,
                     sockVars>>
  BY DEF Unload
<1>2. source \in [Sources -> Source] /\ client \in [Conns -> Client]
  BY DEF ServerInv, ServerOpenTypeOK, ServerTypeOK
<1>3. AcceptedOnly' /\ Undisturbed
  BY <1>1 DEF sockVars, ServerInv, AcceptedOnly, Undisturbed
<1> QED BY <1>1, <1>2, <1>3, SourceKeeps

-----------------------------------------------------------------------------
(* Steps that write a control message. *)

\* The record of c becomes cl, and the game is told what cl asks for.
LEMMA WriteKeeps ==
    ASSUME ServerInv, NEW c \in clients, NEW cl \in Client,
           client' = [client EXCEPT ![c] = cl],
           WriteControl(c, ControlFor(cl)),
           UNCHANGED <<clients, clientid, nconn, told, gameEnd>>
    PROVE  /\ client' \in [Conns -> Client]
           /\ toClient' \in [Conns -> Seq(Control)]
           /\ lost' \in [Conns -> BOOLEAN]
           /\ AcceptedOnly'
           /\ ControlAgreement'
<1> DEFINE m == ControlFor(cl)
<1>1. /\ client \in [Conns -> Client] /\ c \in Conns /\ clients \subseteq Conns
      /\ clientid \in 0..MaxConns /\ c <= clientid
      /\ gameEnd \in [Conns -> BOOLEAN] /\ lost \in [Conns -> BOOLEAN]
      /\ toClient \in [Conns -> Seq(Control)]
  BY DEF ServerInv, ServerOpenTypeOK, SockTypeOK, ServerTypeOK, AcceptedOnly
<1>2. m \in Control
  BY ControlForType
<1>3. /\ toClient' = [toClient EXCEPT ![c] = Sent(toClient[c], m, gameEnd[c])]
      /\ lost' = [lost EXCEPT ![c] = lost[c] \/ (gameEnd[c] /\ Len(toClient[c]) >= SockBuf)]
  BY <1>1 DEF WriteControl
<1>4. ControlFor(client'[c]) = m
  BY <1>1
<1> HIDE DEF m
<1>5. Sent(toClient[c], m, gameEnd[c]) \in Seq(Control)
  BY <1>1, <1>2, SentType
<1>6. toClient' \in [Conns -> Seq(Control)] /\ client' \in [Conns -> Client]
  BY <1>1, <1>3, <1>5
<1>7. lost' \in [Conns -> BOOLEAN]
  BY <1>1, <1>3
<1>8. \A d \in Conns \ {c} :
        toClient'[d] = toClient[d] /\ client'[d] = client[d] /\ lost'[d] = lost[d]
  BY <1>1, <1>3
<1>9. AcceptedOnly'
  <2>1. \A d \in Conns : d > clientid => d # c
    BY <1>1 DEF Conns
  <2> QED BY <1>8, <2>1 DEF ServerInv, AcceptedOnly
<1>10. ASSUME NEW d \in clients \ {c}, gameEnd'[d], ~lost'[d]
       PROVE  LastTold(d)' = ControlFor(client'[d])
  <2>1. d \in Conns \ {c}
    BY <1>1
  <2>2. LastTold(d) = ControlFor(client[d])
    BY <1>8, <1>10, <2>1 DEF ServerInv, ControlAgreement
  <2> QED BY <1>8, <2>1, <2>2 DEF LastTold
<1>11. ASSUME gameEnd'[c], ~lost'[c]
       PROVE  LastTold(c)' = ControlFor(client'[c])
  <2>1. gameEnd[c] /\ ~(Len(toClient[c]) >= SockBuf)
    BY <1>1, <1>3, <1>11
  <2>2. Len(toClient[c]) \in Nat
    BY <1>1, LenProperties
  <2>3. Sent(toClient[c], m, gameEnd[c]) = Append(toClient[c], m)
    BY <2>1, <2>2, SockBufAssumption DEF Sent
  <2>4. toClient'[c] = Append(toClient[c], m)
    BY <1>1, <1>3, <2>3
  <2>5. /\ Len(Append(toClient[c], m)) = Len(toClient[c]) + 1
        /\ Append(toClient[c], m)[Len(toClient[c]) + 1] = m
        /\ Append(toClient[c], m) # <<>>
    BY <1>1, <1>2, AppendProperties
  <2> QED BY <1>4, <2>4, <2>5 DEF LastTold
<1> QED BY <1>6, <1>7, <1>9, <1>10, <1>11 DEF ControlAgreement

\* activate_client, with the count going to cl's.
LEMMA ActivateKeeps ==
    ASSUME ServerInv, NEW c \in clients, NEW n \in Int,
           Activate(c, [client[c] EXCEPT !.activated = n]),
           UNCHANGED <<clients, clientid, nconn, told, gameEnd>>
    PROVE  /\ client' \in [Conns -> Client]
           /\ openFds' \subseteq Texs
           /\ toClient' \in [Conns -> Seq(Control)]
           /\ lost' \in [Conns -> BOOLEAN]
           /\ AcceptedOnly'
           /\ ControlAgreement'
<1> DEFINE cl == [client[c] EXCEPT !.activated = n]
<1>1. /\ client \in [Conns -> Client] /\ c \in Conns /\ clients \subseteq Conns
      /\ openFds \subseteq Texs
      /\ lost \in [Conns -> BOOLEAN] /\ toClient \in [Conns -> Seq(Control)]
  BY DEF ServerInv, ServerOpenTypeOK, SockTypeOK, ServerTypeOK
<1>2. cl \in Client /\ cl.import_failures = client[c].import_failures
  BY <1>1 DEF Client
<1> HIDE DEF cl
<1>3. CASE (cl.activated > 0) = (client[c].activated > 0)
  <2>1. client' = [client EXCEPT ![c] = cl] /\ UNCHANGED <<openFds, toClient, lost>>
    BY <1>3 DEF Activate, cl
  <2>2. client'[c] = cl /\ \A d \in Conns \ {c} : client'[d] = client[d]
    BY <1>1, <2>1
  <2>3. ControlFor(cl) = ControlFor(client[c])
    BY <1>2, <1>3 DEF ControlFor
  <2>4. ControlAgreement'
    <3>1. \A d \in clients : ControlFor(client'[d]) = ControlFor(client[d])
      BY <1>1, <2>2, <2>3
    <3> QED BY <2>1, <3>1 DEF ServerInv, ControlAgreement, LastTold
  <2>5. AcceptedOnly'
    <3>1. \A d \in Conns : d > clientid => d # c
      BY <1>1 DEF ServerInv, ServerOpenTypeOK, ServerTypeOK, AcceptedOnly, Conns
    <3> QED BY <2>1, <2>2, <3>1 DEF ServerInv, AcceptedOnly
  <2> QED BY <1>1, <1>2, <2>1, <2>4, <2>5
<1>4. CASE (cl.activated > 0) # (client[c].activated > 0)
  <2>1. /\ client' = [client EXCEPT ![c] = Restarted(cl)]
        /\ openFds' = openFds \ {client[c].buf_fds}
        /\ WriteControl(c, ControlFor(cl))
    BY <1>4 DEF Activate, cl
  <2>2. ControlFor(Restarted(cl)) = ControlFor(cl)
    <3>1. Restarted(cl).activated = cl.activated
          /\ Restarted(cl).import_failures = cl.import_failures
      BY <1>2 DEF Restarted, Client
    <3> QED BY <3>1 DEF ControlFor
  <2>3. Restarted(cl) \in Client
    BY <1>2, RestartedType
  <2>4. /\ client' \in [Conns -> Client]
        /\ toClient' \in [Conns -> Seq(Control)]
        /\ lost' \in [Conns -> BOOLEAN]
        /\ AcceptedOnly'
        /\ ControlAgreement'
    BY <2>1, <2>2, <2>3, WriteKeeps
  <2> QED BY <1>1, <2>1, <2>4
<1> QED BY <1>3, <1>4
\* What a tick that writes leaves alone.
TickFrame ==
    UNCHANGED <<clients, clientid, bufid, event, quit, threadVars, listening, nconn,
                gameEnd, obsEnd, toServer, ntex, told>>

LEMMA TickWriteKeeps ==
    ASSUME ServerInv, TickFrame, source' \in [Sources -> Source],
           client' \in [Conns -> Client], openFds' \subseteq Texs,
           toClient' \in [Conns -> Seq(Control)], lost' \in [Conns -> BOOLEAN],
           AcceptedOnly', ControlAgreement'
    PROVE  ServerInv'
<1>1. ServerOpenTypeOK'
  BY DEF TickFrame, threadVars, ServerInv, ServerOpenTypeOK, SockTypeOK, ServerTypeOK
<1>2. ThreadAt'
  BY DEF TickFrame, threadVars, ServerInv, ThreadAt
<1> QED BY <1>1, <1>2 DEF ServerInv

LEMMA TickImportInv ==
    ASSUME ServerInv, NEW s \in Sources, TickImport(s)
    PROVE  ServerInv'
<1> DEFINE c == source[s].client_id
           cl == client[c]
<1>1. c \in clients /\ TickFrame /\ UNCHANGED openFds
  BY DEF TickImport, TickFrame
<1>2. /\ source \in [Sources -> Source] /\ client \in [Conns -> Client] /\ c \in Conns
      /\ cl \in Client /\ openFds \subseteq Texs
      /\ toClient \in [Conns -> Seq(Control)] /\ lost \in [Conns -> BOOLEAN]
  BY <1>1 DEF ServerInv, ServerOpenTypeOK, SockTypeOK, ServerTypeOK
<1>3. \/ /\ cl.tdata.tex # NoTex /\ cl.buf_fds # NoTex
         /\ source' = [source EXCEPT
               ![s].texture = [data |-> cl.tdata.tex, fds |-> cl.buf_fds],
               ![s].buf_id = cl.buf_id]
         /\ client' = [client EXCEPT ![c] = Imported(cl)]
         /\ UNCHANGED <<toClient, lost>>
      \/ /\ source' = [source EXCEPT ![s].texture = NoTexture, ![s].buf_id = cl.buf_id]
         /\ client' = [client EXCEPT ![c] = ImportFailed(cl)]
         /\ IF cl.import_failures < ImportFailuresMax
              THEN WriteControl(c, ControlFor(ImportFailed(cl)))
              ELSE UNCHANGED <<toClient, lost>>
  BY DEF TickImport
<1> HIDE DEF c, cl
<1>4. source' \in [Sources -> Source]
  <2>1. ASSUME NEW t \in Texture \cup {NoTexture},
               source' = [source EXCEPT ![s].texture = t, ![s].buf_id = cl.buf_id]
        PROVE  source' \in [Sources -> Source]
    <3>1. [source[s] EXCEPT !.texture = t, !.buf_id = cl.buf_id] \in Source
      BY <1>2, <2>1 DEF Source, Client
    <3>2. source' = [source EXCEPT ![s] = [source[s] EXCEPT !.texture = t,
                                                             !.buf_id = cl.buf_id]]
      BY <1>2, <2>1
    <3> QED BY <1>2, <3>1, <3>2
  <2>2. ASSUME cl.tdata.tex # NoTex, cl.buf_fds # NoTex
        PROVE  [data |-> cl.tdata.tex, fds |-> cl.buf_fds] \in Texture
    BY <1>2, <2>2 DEF Client, TexData, Texture
  <2> QED BY <1>3, <2>1, <2>2
<1>5. CASE client' = [client EXCEPT ![c] = Imported(cl)] /\ UNCHANGED <<toClient, lost>>
  <2>1. /\ Imported(cl) \in Client
        /\ Imported(cl).activated = cl.activated
        /\ Imported(cl).import_failures = cl.import_failures
    BY <1>2, ImportFailedType DEF Imported, Client
  <2>2. client' \in [Conns -> Client] /\ AcceptedOnly' /\ ControlAgreement'
    BY <1>1, <1>5, <2>1, RecordKeeps DEF cl, TickFrame
  <2> QED BY <1>1, <1>2, <1>4, <1>5, <2>2, TickWriteKeeps
<1>6. CASE /\ client' = [client EXCEPT ![c] = ImportFailed(cl)]
           /\ cl.import_failures < ImportFailuresMax
           /\ WriteControl(c, ControlFor(ImportFailed(cl)))
  <2>1. ImportFailed(cl) \in Client
    BY <1>2, ImportFailedType
  <2>2. /\ client' \in [Conns -> Client]
        /\ toClient' \in [Conns -> Seq(Control)]
        /\ lost' \in [Conns -> BOOLEAN]
        /\ AcceptedOnly' /\ ControlAgreement'
    BY <1>1, <1>6, <2>1, WriteKeeps DEF TickFrame
  <2> QED BY <1>1, <1>2, <1>4, <2>2, TickWriteKeeps
<1>7. CASE /\ client' = [client EXCEPT ![c] = ImportFailed(cl)]
           /\ ~(cl.import_failures < ImportFailuresMax)
           /\ UNCHANGED <<toClient, lost>>
  <2>1. /\ ImportFailed(cl) \in Client
        /\ ImportFailed(cl).activated = cl.activated
        /\ ImportFailed(cl).import_failures = cl.import_failures
    BY <1>2, <1>7, ImportFailedType DEF ImportFailed, Client
  <2>2. client' \in [Conns -> Client] /\ AcceptedOnly' /\ ControlAgreement'
    BY <1>1, <1>7, <2>1, RecordKeeps DEF cl, TickFrame
  <2> QED BY <1>1, <1>2, <1>4, <1>7, <2>2, TickWriteKeeps
<1> QED BY <1>3, <1>5, <1>6, <1>7

LEMMA TickRematchInv ==
    ASSUME ServerInv, NEW s \in Sources, TickRematch(s)
    PROVE  ServerInv'
<1> DEFINE c == source[s].client_id
           n == client[c].activated - 1
<1>1. /\ c \in clients /\ TickFrame
      /\ source' = [source EXCEPT ![s] = Detached(source[s])]
  BY DEF TickRematch, UpToDate, TickFrame
<1>2. /\ source \in [Sources -> Source] /\ client \in [Conns -> Client] /\ c \in Conns
  BY <1>1 DEF ServerInv, ServerOpenTypeOK, ServerTypeOK
<1>3. n \in Int
  BY <1>2 DEF Client
<1>4. Activate(c, [client[c] EXCEPT !.activated = n])
  BY <1>2 DEF TickRematch, Client
<1> HIDE DEF n, c
<1>5. /\ client' \in [Conns -> Client]
      /\ openFds' \subseteq Texs
      /\ toClient' \in [Conns -> Seq(Control)]
      /\ lost' \in [Conns -> BOOLEAN]
      /\ AcceptedOnly' /\ ControlAgreement'
  BY <1>1, <1>3, <1>4, ActivateKeeps DEF TickFrame
<1>6. source' \in [Sources -> Source]
  BY <1>1, <1>2, DetachedType
<1> QED BY <1>1, <1>5, <1>6, TickWriteKeeps

LEMMA TickAttachInv ==
    ASSUME ServerInv, NEW s \in Sources, TickAttach(s)
    PROVE  ServerInv'
<1>1. PICK c \in clients :
        /\ Activate(c, [client[c] EXCEPT !.activated = @ + 1])
        /\ source' = [source EXCEPT ![s].client_id = c]
  BY DEF TickAttach
<1>2. TickFrame
  BY DEF TickAttach, TickFrame
<1>3. /\ source \in [Sources -> Source] /\ client \in [Conns -> Client] /\ c \in Conns
  BY DEF ServerInv, ServerOpenTypeOK, ServerTypeOK
<1> DEFINE n == client[c].activated + 1
<1>4. n \in Int
  BY <1>3 DEF Client
<1>5. Activate(c, [client[c] EXCEPT !.activated = n])
  BY <1>1, <1>3 DEF Client
<1> HIDE DEF n
<1>6. /\ client' \in [Conns -> Client]
      /\ openFds' \subseteq Texs
      /\ toClient' \in [Conns -> Seq(Control)]
      /\ lost' \in [Conns -> BOOLEAN]
      /\ AcceptedOnly' /\ ControlAgreement'
  BY <1>2, <1>4, <1>5, ActivateKeeps DEF TickFrame
<1>7. source' \in [Sources -> Source]
  <2>1. [source[s] EXCEPT !.client_id = c] \in Source
    BY <1>3 DEF Source
  <2> QED BY <1>1, <1>3, <2>1
<1> QED BY <1>2, <1>6, <1>7, TickWriteKeeps

-----------------------------------------------------------------------------
(* The games. *)

\* A step of a game changes the sockets alone.
LEMMA GameKeeps ==
    ASSUME ServerInv, UNCHANGED serverVars, SockTypeOK', nconn' >= nconn,
           AcceptedOnly', ControlAgreement'
    PROVE  ServerInv'
<1>1. ServerOpenTypeOK'
  BY DEF serverVars, threadVars, ServerInv, ServerOpenTypeOK, ServerTypeOK
<1>2. ThreadAt'
  BY DEF serverVars, threadVars, ServerInv, ServerOpenTypeOK, SockTypeOK, ServerTypeOK,
         ThreadAt
<1> QED BY <1>1, <1>2 DEF ServerInv

LEMMA AnyConnectInv ==
    ASSUME ServerInv, AnyConnect, UNCHANGED serverVars
    PROVE  ServerInv'
<1>1. PICK exe \in Exes : Connect(exe)
  BY DEF AnyConnect
<1>2. SockTypeOK /\ clients \subseteq Conns /\ clientid \in 0..MaxConns
      /\ clientid <= nconn /\ \A c \in clients : c <= clientid
  BY DEF ServerInv, ServerOpenTypeOK, ServerTypeOK, AcceptedOnly
<1>3. nconn + 1 \in Conns /\ nconn' = nconn + 1 /\ nconn' \in 0..MaxConns /\ nconn' >= nconn
  BY <1>1, <1>2, MaxConnsAssumption DEF Connect, SockTypeOK, Conns
<1>4. <<ClientData(exe)>> \in Seq(GameMessage)
  BY ClientDataType
<1>5. SockTypeOK'
  BY <1>1, <1>2, <1>3, <1>4 DEF Connect, SockTypeOK
<1>6. UNCHANGED <<clients, client, clientid, toClient, told, lost>>
  BY <1>1 DEF Connect, serverVars
<1>7. AcceptedOnly'
  BY <1>2, <1>3, <1>6 DEF ServerInv, AcceptedOnly, SockTypeOK
<1>8. Undisturbed
  <2>1. ASSUME NEW c \in clients PROVE gameEnd'[c] = gameEnd[c]
    <3>1. c # nconn + 1 /\ c \in Conns
      BY <1>2 DEF Conns, SockTypeOK
    <3> QED BY <1>1, <1>2, <3>1 DEF Connect, SockTypeOK
  <2> QED BY <1>6, <2>1 DEF Undisturbed
<1> QED BY <1>3, <1>5, <1>7, <1>8, GameKeeps, UndisturbedAgreement DEF ServerInv

\* A buffer that is sent joins the game's queue or is lost.
LEMMA SendKeeps ==
    ASSUME SockTypeOK, NEW c \in Conns, NEW n \in NFds, SendTexture(c, n, toServer)
    PROVE  /\ toServer' \in [Conns -> Seq(GameMessage)]
           /\ ntex' \in 0..MaxTex
           /\ lost' \in [Conns -> BOOLEAN]
           /\ \A d \in Conns : ~lost'[d] => ~lost[d]
<1>1. ntex + 1 \in Texs /\ ntex' = ntex + 1 /\ ntex' \in 0..MaxTex
  BY MaxTexAssumption DEF SendTexture, SockTypeOK, Texs
<1>2. Sent(toServer[c], TextureData(ntex + 1, n), obsEnd[c]) \in Seq(GameMessage)
  BY <1>1, TextureDataType, SentType DEF SockTypeOK
<1>3. toServer' \in [Conns -> Seq(GameMessage)]
  BY <1>2 DEF SendTexture, SockTypeOK
<1>4. lost' = [lost EXCEPT ![c] = lost[c] \/ Len(toServer[c]) >= SockBuf]
  BY DEF SendTexture, SockTypeOK
<1>5. lost' \in [Conns -> BOOLEAN] /\ \A d \in Conns : ~lost'[d] => ~lost[d]
  BY <1>4 DEF SockTypeOK
<1> QED BY <1>1, <1>3, <1>5

LEMMA AnyTextureInv ==
    ASSUME ServerInv, NEW c \in Conns, AnyTexture(c), UNCHANGED serverVars
    PROVE  ServerInv'
<1>1. PICK n \in NFds : SendTexture(c, n, toServer)
  BY DEF AnyTexture
<1>2. UNCHANGED <<listening, nconn, gameEnd, obsEnd, toClient, told>>
  BY DEF AnyTexture
<1>3. SockTypeOK /\ clients \subseteq Conns
  BY DEF ServerInv, ServerOpenTypeOK, ServerTypeOK
<1>4. /\ toServer' \in [Conns -> Seq(GameMessage)] /\ ntex' \in 0..MaxTex
      /\ lost' \in [Conns -> BOOLEAN]
      /\ \A d \in Conns : ~lost'[d] => ~lost[d]
  BY <1>1, <1>3, SendKeeps
<1>5. SockTypeOK'
  BY <1>2, <1>3, <1>4 DEF SockTypeOK
<1>6. UNCHANGED <<clients, client, clientid>>
  BY DEF serverVars
<1>7. AcceptedOnly'
  BY <1>2, <1>6 DEF ServerInv, AcceptedOnly
<1>8. Undisturbed
  BY <1>2, <1>3, <1>4, <1>6 DEF Undisturbed
<1>9. nconn' >= nconn
  BY <1>2, <1>3 DEF SockTypeOK
<1> QED BY <1>5, <1>7, <1>8, <1>9, GameKeeps, UndisturbedAgreement DEF ServerInv

\* Reading a message moves it from the queue to what was told.
LEMMA LastToldKept ==
    ASSUME SockTypeOK, NEW c \in Conns, ReadControl(c), NEW d \in Conns
    PROVE  LastTold(d)' = LastTold(d)
<1>1. /\ toClient[c] \in Seq(Control) /\ toClient[c] # <<>>
      /\ told'[c] = Head(toClient[c]) /\ toClient'[c] = Tail(toClient[c])
      /\ \A e \in Conns \ {c} : told'[e] = told[e] /\ toClient'[e] = toClient[e]
  BY DEF ReadControl, SockTypeOK
<1>2. CASE d # c
  BY <1>1, <1>2 DEF LastTold
<1>3. CASE d = c
  BY <1>1, <1>3, LastOfTail DEF LastTold
<1> QED BY <1>2, <1>3

LEMMA AnyReadControlInv ==
    ASSUME ServerInv, NEW c \in Conns, AnyReadControl(c), UNCHANGED serverVars
    PROVE  ServerInv'
<1>1. ReadControl(c) /\ UNCHANGED <<listening, nconn, gameEnd, obsEnd>>
  BY DEF AnyReadControl
<1>2. SockTypeOK /\ clients \subseteq Conns
  BY DEF ServerInv, ServerOpenTypeOK, ServerTypeOK
<1>3. UNCHANGED <<clients, client, clientid>>
  BY DEF serverVars
<1>4. /\ toClient[c] # <<>> /\ toClient[c] \in Seq(Control)
      /\ told' = [told EXCEPT ![c] = Head(toClient[c])]
      /\ toClient' = [toClient EXCEPT ![c] = Tail(toClient[c])]
  BY <1>1, <1>2 DEF ReadControl, SockTypeOK
<1>5. Head(toClient[c]) \in Control /\ Tail(toClient[c]) \in Seq(Control)
  BY <1>4, ReadType
<1>6. /\ toServer' \in [Conns -> Seq(GameMessage)] /\ ntex' \in 0..MaxTex
      /\ lost' \in [Conns -> BOOLEAN]
      /\ \A d \in Conns : ~lost'[d] => ~lost[d]
  BY <1>2, SendKeeps DEF AnyReadControl, SockTypeOK
<1>7. SockTypeOK'
  BY <1>1, <1>2, <1>4, <1>5, <1>6 DEF SockTypeOK
<1>8. AcceptedOnly'
  <2>1. \A d \in Conns : d > clientid => d # c
    BY <1>4 DEF ServerInv, AcceptedOnly
  <2> QED BY <1>1, <1>2, <1>3, <1>4, <2>1 DEF ServerInv, AcceptedOnly, SockTypeOK
<1>9. ControlAgreement'
  <2>1. \A d \in clients : LastTold(d)' = LastTold(d)
    BY <1>1, <1>2, LastToldKept
  <2> QED BY <1>1, <1>2, <1>3, <1>6, <2>1 DEF ServerInv, ControlAgreement
<1>10. nconn' >= nconn
  BY <1>1, <1>2 DEF SockTypeOK
<1> QED BY <1>7, <1>8, <1>9, <1>10, GameKeeps

LEMMA AnyHangupInv ==
    ASSUME ServerInv, NEW c \in Conns, AnyHangup(c), UNCHANGED serverVars
    PROVE  ServerInv'
<1>1. /\ gameEnd' = [gameEnd EXCEPT ![c] = FALSE]
      /\ toClient' = [toClient EXCEPT ![c] = <<>>]
      /\ told' = [told EXCEPT ![c] = NotTold]
      /\ UNCHANGED <<listening, nconn, obsEnd, toServer, ntex, lost>>
  BY DEF AnyHangup, CloseGameEnd
<1>2. SockTypeOK /\ clients \subseteq Conns
  BY DEF ServerInv, ServerOpenTypeOK, ServerTypeOK
<1>3. UNCHANGED <<clients, client, clientid>>
  BY DEF serverVars
<1>4. SockTypeOK'
  BY <1>1, <1>2, NotToldType DEF SockTypeOK
<1>5. AcceptedOnly'
  BY <1>1, <1>2, <1>3 DEF ServerInv, AcceptedOnly, SockTypeOK
<1>6. ControlAgreement'
  BY <1>1, <1>2, <1>3 DEF ServerInv, ControlAgreement, LastTold, SockTypeOK
<1>7. nconn' >= nconn
  BY <1>1, <1>2 DEF SockTypeOK
<1> QED BY <1>4, <1>5, <1>6, <1>7, GameKeeps

-----------------------------------------------------------------------------
(* The theorems. *)

LEMMA ServerInvInit == ServerOpenInit => ServerInv
<1> SUFFICES ASSUME ServerOpenInit PROVE ServerInv OBVIOUS
<1>1. ServerTypeOK
  <2>1. 0 \in 0..MaxConns /\ 0 \in 0..LoopOver
    BY MaxConnsAssumption DEF LoopOver
  <2>2. NoData \in TexData
    BY DEF NoData, TexData
  <2>3. client \in [Conns -> Client] /\ source \in [Sources -> Source]
    BY NewClientType, NoSourceType DEF ServerOpenInit, ServerInit
  <2>4. /\ clients = {} /\ clientid = 0 /\ bufid = 0 /\ event = FALSE /\ quit = FALSE
        /\ pc = "poll" /\ cur = 0 /\ ready = {} /\ room = 0 /\ msg = NoData
        /\ openFds = {}
    BY DEF ServerOpenInit, ServerInit
  <2>5. clients \subseteq Conns /\ ready \subseteq Conns \cup {Listener} /\ openFds \subseteq Texs
    BY <2>4
  <2>6. event \in BOOLEAN /\ quit \in BOOLEAN
    BY <2>4
  <2>7. pc \in Pcs
    BY <2>4 DEF Pcs
  <2>8. /\ clientid \in 0..MaxConns /\ bufid \in Nat /\ cur \in 0..LoopOver
        /\ room \in 0..20 /\ msg \in TexData
    BY <2>1, <2>2, <2>4
  <2> QED BY <2>3, <2>5, <2>6, <2>7, <2>8 DEF ServerTypeOK
<1>2. ServerOpenTypeOK
  BY <1>1, SockInitType DEF ServerOpenInit, ServerOpenTypeOK
<1>3. AcceptedOnly /\ ThreadAt /\ ControlAgreement
  BY DEF ServerOpenInit, ServerInit, SockInit, AcceptedOnly, ThreadAt, ControlAgreement
<1> QED BY <1>2, <1>3 DEF ServerInv

LEMMA ServerInvStep ==
    ServerInv /\ [ServerOpenNext]_<<serverVars, sockVars>> => ServerInv'
<1> SUFFICES ASSUME ServerInv, [ServerOpenNext]_<<serverVars, sockVars>>
             PROVE  ServerInv'
  OBVIOUS
<1>1. CASE ServerThread
  BY <1>1, PollInv, AcceptInv, LoopEndInv, LoopUnresponsiveInv, LoopClientInv, RecvAgainInv,
     RecvEofInv, RecvClientDataInv, RecvTextureInv, CheckTextureInv, RejectTextureInv,
     StoreBuffersInv, ShutdownClientInv, ShutdownEndInv
  DEF ServerThread
<1>2. ASSUME NEW s \in Sources, Tick(s) PROVE ServerInv'
  BY <1>2, TickGoneInv, TickImportInv, TickRematchInv, TickTimeoutInv, TickAttachInv DEF Tick
<1>3. ASSUME NEW s \in Sources, SourceUI(s) PROVE ServerInv'
  BY <1>3, SourceUIInv
<1>4. ASSUME NEW c \in Conns, Expire(c) PROVE ServerInv'
  BY <1>4, ExpireInv
<1>5. CASE Unload
  BY <1>5, UnloadInv
<1>6. CASE AnyGame
  BY <1>6, AnyConnectInv, AnyTextureInv, AnyReadControlInv, AnyHangupInv DEF AnyGame
<1>7. CASE UNCHANGED <<serverVars, sockVars>>
  <2>1. /\ UNCHANGED serverVars
        /\ UNCHANGED <<listening, nconn, gameEnd, obsEnd, toServer, toClient, ntex, told, lost>>
    BY <1>7 DEF sockVars
  <2>2. SockTypeOK' /\ nconn' >= nconn
    BY <2>1 DEF ServerInv, ServerOpenTypeOK, SockTypeOK
  <2>3. UNCHANGED <<clients, client, clientid>>
    BY <2>1 DEF serverVars
  <2>4. AcceptedOnly' /\ ControlAgreement'
    BY <2>1, <2>3 DEF ServerInv, AcceptedOnly, ControlAgreement, LastTold
  <2> QED BY <2>1, <2>2, <2>4, GameKeeps
<1> QED BY <1>1, <1>2, <1>3, <1>4, <1>5, <1>6, <1>7 DEF ServerOpenNext, ServerNext

\* Against any games, for every number of sources, connections and buffers, the
\* plugin and its sockets keep their types: in particular the thread handles
\* only clients that are on the list, and import attempts stay in their enum.
THEOREM ServerTypeCorrect == ServerOpenSpec => []ServerOpenTypeOK
<1>1. ServerInv => ServerOpenTypeOK
  BY DEF ServerInv
<1> QED BY <1>1, ServerInvInit, ServerInvStep, PTL DEF ServerOpenSpec

\* The last message each client's game has read or will read is what the
\* plugin wants of it now, however the sources, imports, thread and games
\* interleave (activate_client and the failed import in the tick).
THEOREM ControlCorrect == ServerOpenSpec => []ControlAgreement
<1>1. ServerInv => ControlAgreement
  BY DEF ServerInv
<1> QED BY <1>1, ServerInvInit, ServerInvStep, PTL DEF ServerOpenSpec
-----------------------------------------------------------------------------
(***************************************************************************)
(* The buffers: descriptors, textures and the counts of captures.          *)
(***************************************************************************)

\* The thread has a texture message in hand, whose descriptors are open.
Handling == pc \in {"check", "bufs"}

\* A connection that is not on the list has no buffer and no captures.
ForgottenIsNew == \A c \in Conns \ clients : client[c] = NewClient

\* Every buffer is sent once: what is still in a socket is not open in OBS, and
\* nowhere else in a socket.
WireOnce ==
    /\ \A c \in Conns : \A i \in 1..Len(toServer[c]) :
         toServer[c][i].tex # NoTex =>
            toServer[c][i].tex <= ntex /\ toServer[c][i].tex \notin openFds
    /\ \A c, d \in Conns :
         \A i \in 1..Len(toServer[c]), j \in 1..Len(toServer[d]) :
            toServer[c][i].tex = toServer[d][j].tex /\ toServer[c][i].tex # NoTex
              => c = d /\ i = j
    /\ \A t \in openFds : t <= ntex

\* FdsAccountedFor, one descriptor at a time.
HeldOnce ==
    /\ \A t \in Texs : t \in openFds <=>
         \/ \E c \in clients : client[c].buf_fds = t
         \/ Handling /\ msg.tex = t
    /\ Handling => /\ msg.tex # NoTex
                   /\ \A c \in clients : client[c].buf_fds # msg.tex
    /\ \A c, d \in clients :
         c # d /\ client[c].buf_fds # NoTex => client[c].buf_fds # client[d].buf_fds

\* A buffer has a number, numbers grow, and 0 says that there is none.
Numbered ==
    \A c \in Conns :
        /\ client[c].buf_id <= bufid
        /\ client[c].buf_id = 0 <=> client[c].buf_fds = NoTex

\* A client's description is zeroed or that of its buffer, or of the message
\* in hand.
Described ==
    \A c \in clients :
        IF Handling /\ cur = c THEN client[c].tdata.tex \in {NoTex, msg.tex}
        ELSE client[c].buf_fds # NoTex => client[c].tdata.tex \in {NoTex, client[c].buf_fds}

\* A source with a texture is attached and knows the number of a buffer.
SourcesFit ==
    \A s \in Sources :
        /\ source[s].buf_id <= bufid
        /\ source[s].client_id <= clientid
        /\ source[s].texture # NoTexture => source[s].buf_id # 0 /\ source[s].client_id # NoConn

Attached(c) == {s \in Sources : source[s].client_id = c}

\* Few sources are attached at a time, however many there may ever be.
FewAttached == \A c \in Conns : IsFiniteSet(Attached(c))

BuffersInv ==
    /\ ForgottenIsNew
    /\ WireOnce
    /\ HeldOnce
    /\ Numbered
    /\ Described
    /\ SourcesFit
    /\ UpToDateTexture
    /\ FewAttached
    /\ ActivatedCoversSources

\* The types these proofs use.
LEMMA BufferTypes ==
    ASSUME ServerInv
    PROVE  /\ clients \subseteq Conns /\ clientid \in Nat /\ bufid \in Nat /\ ntex \in Nat
           /\ client \in [Conns -> Client] /\ source \in [Sources -> Source]
           /\ openFds \subseteq Texs /\ msg \in TexData
           /\ toServer \in [Conns -> Seq(GameMessage)]
           /\ pc \in {"recv", "check", "bufs"} => cur \in clients /\ cur \in Conns
BY MaxConnsAssumption, MaxTexAssumption
DEF ServerInv, ServerOpenTypeOK, ServerTypeOK, SockTypeOK, ThreadAt

LEMMA HeldAccounted ==
    ASSUME ServerInv, HeldOnce PROVE FdsAccountedFor
<1> DEFINE inHand == IF Handling THEN {msg.tex} ELSE {}
           held == {client[c].buf_fds : c \in clients} \ {NoTex}
<1>1. /\ \A c \in clients : client[c].buf_fds \in Texs \cup {NoTex}
      /\ msg.tex \in Texs \cup {NoTex} /\ openFds \subseteq Texs /\ NoTex \notin Texs
  <2>1. /\ clients \subseteq Conns /\ client \in [Conns -> Client]
        /\ msg \in TexData /\ openFds \subseteq Texs
    BY BufferTypes
  <2>2. \A c \in clients : client[c] \in Client
    BY <2>1
  <2>3. NoTex \notin Texs
    BY MaxTexAssumption DEF Texs
  <2> QED BY <2>1, <2>2, <2>3 DEF Client, TexData
<1>2. openFds = held \cup inHand
  <2>1. ASSUME NEW t \in openFds PROVE t \in held \cup inHand
    BY <1>1 DEF HeldOnce
  <2>2. ASSUME NEW t \in held \cup inHand PROVE t \in openFds
    BY <1>1 DEF HeldOnce
  <2> QED BY <2>1, <2>2
<1>3. held \cap inHand = {}
  BY DEF HeldOnce
<1> QED BY <1>2, <1>3 DEF FdsAccountedFor, HeldOnce, Handling

-----------------------------------------------------------------------------
(* Buffers in the sockets. *)

\* q holds what is left of p after some reads, and no other buffer.
Behind(q, p) ==
    \E k \in Nat : \A i \in 1..Len(q) :
        q[i].tex # NoTex => i + k \in 1..Len(p) /\ q[i] = p[i + k]

LEMMA TailBehind ==
    ASSUME NEW p \in Seq(GameMessage), p # <<>>
    PROVE  Behind(Tail(p), p)
<1>1. /\ Len(Tail(p)) = Len(p) - 1 /\ Len(p) \in Nat
      /\ \A i \in 1..Len(Tail(p)) : Tail(p)[i] = p[i + 1]
  BY HeadTailProperties, LenProperties
<1>2. \A i \in 1..Len(Tail(p)) : i + 1 \in 1..Len(p)
  BY <1>1
<1> QED BY <1>1, <1>2 DEF Behind

LEMMA SelfBehind ==
    ASSUME NEW p \in Seq(GameMessage)
    PROVE  Behind(p, p) /\ Behind(<<>>, p)
<1>1. \A i \in 1..Len(p) : i + 0 \in 1..Len(p) /\ p[i] = p[i + 0]
  BY LenProperties
<1>2. \A i \in 1..Len(<<>>) : FALSE
  OBVIOUS
<1>3. Behind(p, p)
  BY <1>1 DEF Behind
<1>4. Behind(<<>>, p)
  BY <1>2 DEF Behind
<1> QED BY <1>3, <1>4

LEMMA ClientDataBehind ==
    ASSUME NEW p, NEW exe PROVE Behind(<<ClientData(exe)>>, p)
<1>1. ASSUME NEW i \in 1..Len(<<ClientData(exe)>>)
      PROVE  <<ClientData(exe)>>[i].tex = NoTex
  <2>1. i = 1
    OBVIOUS
  <2> QED BY <2>1 DEF ClientData
<1> QED BY <1>1 DEF Behind

\* What is left of the sockets holds no buffer twice either.
LEMMA BehindApart ==
    ASSUME WireOnce, \A c \in Conns : Behind(toServer'[c], toServer[c]),
           NEW c \in Conns, NEW d \in Conns,
           NEW i \in 1..Len(toServer'[c]), NEW j \in 1..Len(toServer'[d]),
           toServer'[c][i].tex = toServer'[d][j].tex, toServer'[c][i].tex # NoTex
    PROVE  c = d /\ i = j
<1>1. PICK k \in Nat : \A n \in 1..Len(toServer'[c]) : toServer'[c][n].tex # NoTex =>
         n + k \in 1..Len(toServer[c]) /\ toServer'[c][n] = toServer[c][n + k]
  BY DEF Behind
<1>2. PICK l \in Nat : \A n \in 1..Len(toServer'[d]) : toServer'[d][n].tex # NoTex =>
         n + l \in 1..Len(toServer[d]) /\ toServer'[d][n] = toServer[d][n + l]
  BY DEF Behind
<1>3. c = d
  <2>1. toServer[c][i + k].tex = toServer[d][j + l].tex /\ toServer[c][i + k].tex # NoTex
    BY <1>1, <1>2
  <2> QED BY <1>1, <1>2, <2>1 DEF WireOnce
<1>4. i = j
  <2>1. /\ i + k \in 1..Len(toServer[c]) /\ j + k \in 1..Len(toServer[c])
        /\ toServer[c][i + k].tex = toServer[c][j + k].tex
        /\ toServer[c][i + k].tex # NoTex
    BY <1>1, <1>3
  <2>2. i + k = j + k
    BY <2>1 DEF WireOnce
  <2>3. i \in Int /\ j \in Int
    OBVIOUS
  <2> QED BY <2>2, <2>3
<1> QED BY <1>3, <1>4

\* Every buffer that is left was there.
LEMMA BehindWasThere ==
    ASSUME \A c \in Conns : Behind(toServer'[c], toServer[c]),
           NEW c \in Conns, NEW i \in 1..Len(toServer'[c]), toServer'[c][i].tex # NoTex
    PROVE  \E n \in 1..Len(toServer[c]) : toServer'[c][i] = toServer[c][n]
BY DEF Behind

\* Reading, closing and connecting send no buffer again.
LEMMA BehindKeeps ==
    ASSUME WireOnce, \A c \in Conns : Behind(toServer'[c], toServer[c]),
           ntex' = ntex, openFds' \subseteq openFds
    PROVE  WireOnce'
<1>1. ASSUME NEW c \in Conns, NEW i \in 1..Len(toServer'[c]), toServer'[c][i].tex # NoTex
      PROVE  toServer'[c][i].tex <= ntex' /\ toServer'[c][i].tex \notin openFds'
  BY <1>1, BehindWasThere DEF WireOnce
<1>2. \A t \in openFds' : t <= ntex'
  BY DEF WireOnce
<1> QED BY <1>1, <1>2, BehindApart DEF WireOnce

\* The descriptors of the message that is read are not open, nor in a socket
\* afterwards.
LEMMA ReceiveOnce ==
    ASSUME ServerInv, WireOnce, NEW c \in Conns, toServer[c] # <<>>,
           toServer' = [toServer EXCEPT ![c] = Tail(@)], ntex' = ntex,
           NEW t \in Texs, Head(toServer[c]).tex = t, openFds' = openFds \cup {t}
    PROVE  WireOnce' /\ t \notin openFds
<1>1. toServer \in [Conns -> Seq(GameMessage)] /\ toServer[c] \in Seq(GameMessage)
  BY BufferTypes
<1>2. /\ toServer'[c] = Tail(toServer[c])
      /\ \A d \in Conns \ {c} : toServer'[d] = toServer[d]
  BY <1>1
<1>3. /\ Len(Tail(toServer[c])) = Len(toServer[c]) - 1
      /\ \A i \in 1..Len(Tail(toServer[c])) : Tail(toServer[c])[i] = toServer[c][i + 1]
      /\ Len(toServer[c]) \in Nat \ {0} /\ Head(toServer[c]) = toServer[c][1]
  BY <1>1, HeadTailProperties, LenProperties, EmptySeq
<1>4. t \notin openFds /\ t <= ntex /\ t # NoTex /\ 1 \in 1..Len(toServer[c])
      /\ toServer[c][1].tex = t
  <2>1. t # NoTex
    BY MaxTexAssumption DEF Texs
  <2>2. 1 \in 1..Len(toServer[c])
    BY <1>3
  <2> QED BY <1>3, <2>1, <2>2 DEF WireOnce
<1>5. \A d \in Conns : Behind(toServer'[d], toServer[d])
  BY <1>1, <1>2, TailBehind, SelfBehind
<1>6. ASSUME NEW d \in Conns, NEW i \in 1..Len(toServer'[d])
      PROVE  toServer'[d][i].tex # t
  <2>1. CASE d = c
    <3>1. i \in 1..Len(Tail(toServer[c]))
      BY <1>2, <2>1
    <3>2. i + 1 \in 1..Len(toServer[c]) /\ i + 1 # 1
      BY <1>3, <3>1
    <3>3. toServer'[d][i] = toServer[c][i + 1]
      BY <1>2, <1>3, <2>1, <3>1
    <3>4. toServer[c][i + 1].tex # toServer[c][1].tex
      BY <1>4, <3>2 DEF WireOnce
    <3> QED BY <1>4, <3>3, <3>4
  <2>2. CASE d # c
    BY <1>2, <1>4, <2>2 DEF WireOnce
  <2> QED BY <2>1, <2>2
<1>7. ASSUME NEW d \in Conns, NEW i \in 1..Len(toServer'[d]), toServer'[d][i].tex # NoTex
      PROVE  toServer'[d][i].tex <= ntex' /\ toServer'[d][i].tex \notin openFds'
  BY <1>5, <1>6, <1>7, BehindWasThere DEF WireOnce
<1>8. \A u \in openFds' : u <= ntex'
  BY <1>4 DEF WireOnce
<1>9. WireOnce'
  BY <1>5, <1>7, <1>8, BehindApart DEF WireOnce
<1> QED BY <1>4, <1>9

\* A buffer that is exported is new.
LEMMA SendOnce ==
    ASSUME ServerInv, WireOnce, NEW c \in Conns, NEW n, SendTexture(c, n, toServer),
           openFds' = openFds
    PROVE  WireOnce'
<1> DEFINE m == TextureData(ntex + 1, n)
<1>1. /\ toServer \in [Conns -> Seq(GameMessage)] /\ toServer[c] \in Seq(GameMessage)
      /\ ntex \in Nat /\ ntex' = ntex + 1
  BY BufferTypes DEF SendTexture
<1>2. /\ toServer'[c] = Sent(toServer[c], m, obsEnd[c])
      /\ \A d \in Conns \ {c} : toServer'[d] = toServer[d]
  BY <1>1 DEF SendTexture
<1>3. m.tex = ntex + 1
  BY DEF TextureData
<1> HIDE DEF m
<1>4. \/ toServer'[c] = toServer[c]
      \/ /\ Len(toServer'[c]) = Len(toServer[c]) + 1
         /\ toServer'[c][Len(toServer[c]) + 1] = m
         /\ \A i \in 1..Len(toServer[c]) : toServer'[c][i] = toServer[c][i]
  BY <1>1, <1>2, AppendProperties DEF Sent
<1>5. Len(toServer[c]) \in Nat
  BY <1>1, LenProperties
<1>6. ASSUME NEW d \in Conns, NEW i \in 1..Len(toServer'[d])
      PROVE  \/ i \in 1..Len(toServer[d]) /\ toServer'[d][i] = toServer[d][i]
             \/ d = c /\ i = Len(toServer[c]) + 1 /\ toServer'[d][i].tex = ntex + 1
  <2>1. CASE d # c
    BY <1>2, <2>1
  <2>2. CASE d = c /\ toServer'[c] = toServer[c]
    BY <2>2
  <2>3. CASE d = c /\ toServer'[c] # toServer[c]
    <3>1. i \in 1..(Len(toServer[c]) + 1)
      BY <1>4, <2>3
    <3>2. i \in 1..Len(toServer[c]) \/ i = Len(toServer[c]) + 1
      BY <1>5, <3>1
    <3> QED BY <1>3, <1>4, <2>3, <3>2
  <2> QED BY <2>1, <2>2, <2>3
<1>7. \A d \in Conns : \A i \in 1..Len(toServer[d]) :
        toServer[d][i].tex # NoTex =>
          toServer[d][i].tex <= ntex /\ toServer[d][i].tex \notin openFds
  BY DEF WireOnce
<1>8. \A t \in openFds : t <= ntex /\ t \in Nat
  BY BufferTypes, MaxTexAssumption DEF WireOnce, Texs
<1>9. \A d \in Conns : \A i \in 1..Len(toServer[d]) : toServer[d][i].tex \in Nat
  <2>1. ASSUME NEW d \in Conns, NEW i \in 1..Len(toServer[d]) PROVE toServer[d][i].tex \in Nat
    <3>1. toServer[d][i] \in GameMessage
      BY <1>1, ElementOfSeq
    <3> QED BY <3>1, MaxTexAssumption DEF GameMessage, Texs
  <2> QED BY <2>1
<1>10. ASSUME NEW d \in Conns, NEW i \in 1..Len(toServer'[d]), toServer'[d][i].tex # NoTex
       PROVE  toServer'[d][i].tex <= ntex' /\ toServer'[d][i].tex \notin openFds'
  <2>1. CASE i \in 1..Len(toServer[d]) /\ toServer'[d][i] = toServer[d][i]
    <3>1. /\ toServer[d][i].tex <= ntex /\ toServer[d][i].tex \in Nat
          /\ toServer[d][i].tex \notin openFds
      BY <1>7, <1>9, <1>10, <2>1
    <3> QED BY <1>1, <2>1, <3>1
  <2>2. CASE toServer'[d][i].tex = ntex + 1
    BY <1>1, <1>8, <2>2
  <2> QED BY <1>6, <2>1, <2>2
<1>11. ASSUME NEW d \in Conns, NEW e \in Conns,
              NEW i \in 1..Len(toServer'[d]), NEW j \in 1..Len(toServer'[e]),
              toServer'[d][i].tex = toServer'[e][j].tex, toServer'[d][i].tex # NoTex
       PROVE  d = e /\ i = j
  <2>1. CASE /\ i \in 1..Len(toServer[d]) /\ toServer'[d][i] = toServer[d][i]
             /\ j \in 1..Len(toServer[e]) /\ toServer'[e][j] = toServer[e][j]
    BY <1>11, <2>1 DEF WireOnce
  <2>2. CASE /\ i \in 1..Len(toServer[d]) /\ toServer'[d][i] = toServer[d][i]
             /\ toServer'[e][j].tex = ntex + 1
    <3>1. toServer[d][i].tex <= ntex /\ toServer[d][i].tex = ntex + 1
      BY <1>7, <1>11, <2>2
    <3> QED BY <1>1, <3>1
  <2>3. CASE /\ toServer'[d][i].tex = ntex + 1
             /\ j \in 1..Len(toServer[e]) /\ toServer'[e][j] = toServer[e][j]
    <3>1. toServer[e][j].tex <= ntex /\ toServer[e][j].tex = ntex + 1
      BY <1>7, <1>11, <2>3
    <3> QED BY <1>1, <3>1
  <2> QED BY <1>6, <2>1, <2>2, <2>3
<1> QED BY <1>1, <1>8, <1>10, <1>11 DEF WireOnce

-----------------------------------------------------------------------------
(* Buffers of the clients: what each kind of step does to them. *)

\* The part of the invariant that is about the clients and the message in hand.
RecordsInv ==
    /\ ForgottenIsNew
    /\ HeldOnce
    /\ Numbered
    /\ Described

\* The thread keeps the message it has, or has none as before.
HandKept ==
    /\ Handling' <=> Handling
    /\ Handling => UNCHANGED <<cur, msg>>

SameBuffer(c) ==
    /\ client'[c].buf_id = client[c].buf_id
    /\ client'[c].buf_fds = client[c].buf_fds
    /\ client'[c].tdata = client[c].tdata

\* No buffer comes or goes; the one connection that may join the list has none.
BuffersKept ==
    /\ UNCHANGED <<openFds, bufid>>
    /\ clients \subseteq clients'
    /\ \A c \in Conns : SameBuffer(c)
    /\ \A c \in Conns \ clients : client'[c] = client[c]
    /\ HandKept

\* c forgets its buffer (activate_client).
BufferForgotten(c) ==
    /\ UNCHANGED <<clients, bufid>>
    /\ openFds' = openFds \ {client[c].buf_fds}
    /\ \A d \in Conns \ {c} : client'[d] = client[d]
    /\ client'[c].buf_id = 0 /\ client'[c].buf_fds = NoTex /\ client'[c].tdata = NoData
    /\ HandKept

\* c is dropped, with the message in hand if there is one.
Dropped(c) ==
    /\ Handling => cur = c
    /\ Cleanup(c, IF Handling THEN {msg.tex} ELSE {})
    /\ ~Handling'
    /\ UNCHANGED <<clientid, bufid, source>>

LEMMA NewClientBuffer ==
    /\ NewClient.buf_id = 0 /\ NewClient.buf_fds = NoTex
    /\ NewClient.tdata = NoData /\ NewClient.tdata.tex = NoTex
    /\ NewClient.activated = 0
BY DEF NewClient, NoData

LEMMA BuffersKeptInv ==
    ASSUME ServerInv, ServerInv', RecordsInv, BuffersKept
    PROVE  RecordsInv'
<1>1. clients \subseteq Conns /\ clients' \subseteq Conns
  BY DEF ServerInv, ServerOpenTypeOK, ServerTypeOK
<1>2. ForgottenIsNew'
  BY DEF RecordsInv, ForgottenIsNew, BuffersKept
<1>3. \A c \in clients' \ clients : client[c] = NewClient
  BY <1>1 DEF RecordsInv, ForgottenIsNew
<1>4. \A c \in clients' \ clients : client[c].buf_fds = NoTex /\ client[c].tdata.tex = NoTex
  BY <1>3, NewClientBuffer
<1>5. /\ UNCHANGED openFds
      /\ \A c \in Conns : client'[c].buf_fds = client[c].buf_fds
                          /\ client'[c].tdata = client[c].tdata
      /\ Handling' <=> Handling
      /\ Handling => cur' = cur /\ msg' = msg
  BY DEF BuffersKept, SameBuffer, HandKept
<1>6. HeldOnce'
  <2>1. ASSUME NEW t \in Texs
        PROVE (\E c \in clients' : client'[c].buf_fds = t) <=> (\E c \in clients : client[c].buf_fds = t)
    <3>1. t # NoTex
      BY MaxTexAssumption DEF Texs
    <3> QED BY <1>1, <1>4, <1>5, <3>1 DEF BuffersKept
  <2>2. \A t \in Texs : t \in openFds' <=>
          \/ \E c \in clients' : client'[c].buf_fds = t
          \/ Handling' /\ msg'.tex = t
    BY <1>5, <2>1 DEF RecordsInv, HeldOnce
  <2>3. Handling' => msg'.tex # NoTex /\ \A c \in clients' : client'[c].buf_fds # msg'.tex
    BY <1>1, <1>4, <1>5 DEF RecordsInv, HeldOnce
  <2>4. ASSUME NEW c \in clients', NEW d \in clients', c # d, client'[c].buf_fds # NoTex
        PROVE  client'[c].buf_fds # client'[d].buf_fds
    BY <1>1, <1>4, <1>5, <2>4 DEF RecordsInv, HeldOnce
  <2> QED BY <2>2, <2>3, <2>4 DEF HeldOnce
<1>7. Numbered'
  BY DEF RecordsInv, Numbered, BuffersKept, SameBuffer
<1>8. Described'
  <2> SUFFICES ASSUME NEW c \in clients'
               PROVE  IF Handling' /\ cur' = c THEN client'[c].tdata.tex \in {NoTex, msg'.tex}
                      ELSE client'[c].buf_fds # NoTex
                             => client'[c].tdata.tex \in {NoTex, client'[c].buf_fds}
    BY DEF Described
  <2>1. CASE c \in clients
    BY <1>1, <1>5, <2>1 DEF RecordsInv, Described
  <2>2. CASE c \notin clients
    BY <1>1, <1>4, <1>5, <2>2
  <2> QED BY <2>1, <2>2
<1> QED BY <1>2, <1>6, <1>7, <1>8 DEF RecordsInv

LEMMA BufferForgottenInv ==
    ASSUME ServerInv, ServerInv', RecordsInv, NEW c \in clients, BufferForgotten(c)
    PROVE  RecordsInv'
<1>1. /\ clients \subseteq Conns /\ clients' = clients /\ c \in Conns /\ bufid \in Nat
      /\ NoData.tex = NoTex
  BY BufferTypes DEF BufferForgotten, NoData
<1>2. /\ openFds' = openFds \ {client[c].buf_fds}
      /\ \A d \in Conns \ {c} : client'[d] = client[d]
      /\ client'[c].buf_id = 0 /\ client'[c].buf_fds = NoTex /\ client'[c].tdata.tex = NoTex
      /\ bufid' = bufid
      /\ Handling' <=> Handling
      /\ Handling => cur' = cur /\ msg' = msg
  BY <1>1 DEF BufferForgotten, HandKept
<1>3. ForgottenIsNew'
  BY <1>1, <1>2 DEF RecordsInv, ForgottenIsNew
<1>4. HeldOnce'
  <2>1. ASSUME NEW t \in Texs
        PROVE t \in openFds' <=> \/ \E d \in clients : client'[d].buf_fds = t
                                 \/ Handling /\ msg.tex = t
    <3>1. t # NoTex
      BY MaxTexAssumption DEF Texs
    <3>2. CASE t = client[c].buf_fds
      BY <1>1, <1>2, <3>1, <3>2 DEF RecordsInv, HeldOnce
    <3>3. CASE t # client[c].buf_fds
      BY <1>1, <1>2, <3>1, <3>3 DEF RecordsInv, HeldOnce
    <3> QED BY <3>2, <3>3
  <2>2. Handling' => msg'.tex # NoTex /\ \A d \in clients' : client'[d].buf_fds # msg'.tex
    BY <1>1, <1>2 DEF RecordsInv, HeldOnce
  <2>3. \A d, e \in clients' :
          d # e /\ client'[d].buf_fds # NoTex => client'[d].buf_fds # client'[e].buf_fds
    BY <1>1, <1>2 DEF RecordsInv, HeldOnce
  <2> QED BY <1>1, <1>2, <2>1, <2>2, <2>3 DEF HeldOnce
<1>5. Numbered'
  BY <1>1, <1>2 DEF RecordsInv, Numbered
<1>6. Described'
  BY <1>1, <1>2 DEF RecordsInv, Described
<1> QED BY <1>3, <1>4, <1>5, <1>6 DEF RecordsInv

LEMMA DroppedInv ==
    ASSUME ServerInv, ServerInv', RecordsInv, NEW c \in clients, Dropped(c)
    PROVE  RecordsInv'
<1>1. /\ clients \subseteq Conns /\ clients' = clients \ {c} /\ c \in Conns
      /\ client \in [Conns -> Client] /\ bufid \in Nat /\ bufid' = bufid
      /\ openFds' = openFds \ ({client[c].buf_fds} \cup (IF Handling THEN {msg.tex} ELSE {}))
      /\ client' = [client EXCEPT ![c] = NewClient]
      /\ ~Handling' /\ (Handling => cur = c)
  BY BufferTypes DEF Dropped, Cleanup
<1>2. client'[c] = NewClient /\ \A d \in Conns \ {c} : client'[d] = client[d]
  BY <1>1
<1>3. ForgottenIsNew'
  BY <1>1, <1>2 DEF RecordsInv, ForgottenIsNew
<1>4. HeldOnce'
  <2>1. ASSUME NEW t \in Texs
        PROVE  t \in openFds' <=> \E d \in clients' : client'[d].buf_fds = t
    <3>1. t # NoTex
      BY MaxTexAssumption DEF Texs
    <3>2. CASE t = client[c].buf_fds
      BY <1>1, <1>2, <3>1, <3>2 DEF RecordsInv, HeldOnce
    <3>3. CASE t # client[c].buf_fds /\ Handling /\ t = msg.tex
      BY <1>1, <1>2, <3>1, <3>3 DEF RecordsInv, HeldOnce
    <3>4. CASE t # client[c].buf_fds /\ ~(Handling /\ t = msg.tex)
      <4>1. t \in openFds' <=> t \in openFds
        BY <1>1, <3>4
      <4>2. t \in openFds <=> \E d \in clients : client[d].buf_fds = t
        BY <3>4 DEF RecordsInv, HeldOnce
      <4>3. (\E d \in clients : client[d].buf_fds = t) <=> \E d \in clients' : client'[d].buf_fds = t
        BY <1>1, <1>2, <3>4
      <4> QED BY <4>1, <4>2, <4>3
    <3> QED BY <3>2, <3>3, <3>4
  <2>2. \A d, e \in clients' :
          d # e /\ client'[d].buf_fds # NoTex => client'[d].buf_fds # client'[e].buf_fds
    BY <1>1, <1>2 DEF RecordsInv, HeldOnce
  <2> QED BY <1>1, <2>1, <2>2 DEF HeldOnce
<1>5. Numbered'
  BY <1>1, <1>2, NewClientBuffer DEF RecordsInv, Numbered
<1>6. Described'
  BY <1>1, <1>2 DEF RecordsInv, Described
<1> QED BY <1>3, <1>4, <1>5, <1>6 DEF RecordsInv

LEMMA ReceivedInv ==
    ASSUME ServerInv, ServerInv', RecordsInv, WireOnce, RecvTexture
    PROVE  RecordsInv' /\ WireOnce'
<1> DEFINE t == Head(toServer[cur]).tex
           m == Head(toServer[cur])
<1>1. /\ cur \in clients /\ cur \in Conns /\ clients \subseteq Conns
      /\ client \in [Conns -> Client] /\ toServer[cur] \in Seq(GameMessage)
  BY BufferTypes DEF RecvTexture
<1>2. /\ ~Handling /\ Handling' /\ cur' = cur
      /\ UNCHANGED <<clients, bufid, ntex>>
      /\ toServer[cur] # <<>> /\ toServer' = [toServer EXCEPT ![cur] = Tail(@)]
      /\ client' = [client EXCEPT ![cur].tdata = [tex |-> t, nfd |-> m.nfd]]
      /\ msg' = [tex |-> t, nfd |-> Received(m.nfd)]
      /\ openFds' = openFds \cup {t}
      /\ m.type = "texture"
  BY DEF RecvTexture, Handling
<1>3. m \in GameMessage
  BY <1>1, <1>2, ReadType
<1>4. t \in Texs /\ t # NoTex
  BY <1>2, <1>3, MaxTexAssumption DEF GameMessage, Texs
<1>5. /\ client'[cur].tdata.tex = t
      /\ client'[cur].buf_id = client[cur].buf_id
      /\ client'[cur].buf_fds = client[cur].buf_fds
      /\ \A d \in Conns \ {cur} : client'[d] = client[d]
      /\ msg'.tex = t
  BY <1>1, <1>2 DEF Client
<1> HIDE DEF t, m
<1>6. WireOnce' /\ t \notin openFds
  BY <1>1, <1>2, <1>4, ReceiveOnce DEF t
<1>7. ForgottenIsNew'
  BY <1>1, <1>2, <1>5 DEF RecordsInv, ForgottenIsNew
<1>8. HeldOnce'
  <2>1. \A d \in clients : client'[d].buf_fds = client[d].buf_fds
    BY <1>1, <1>5
  <2>2. \A d \in clients : client[d].buf_fds # t
    BY <1>4, <1>6 DEF RecordsInv, HeldOnce
  <2>3. \A u \in Texs : u \in openFds' <=>
          (\E d \in clients' : client'[d].buf_fds = u) \/ (Handling' /\ msg'.tex = u)
    BY <1>2, <1>5, <2>1 DEF RecordsInv, HeldOnce
  <2>4. \A d, e \in clients' :
          d # e /\ client'[d].buf_fds # NoTex => client'[d].buf_fds # client'[e].buf_fds
    BY <1>2, <2>1 DEF RecordsInv, HeldOnce
  <2> QED BY <1>2, <1>4, <1>5, <2>1, <2>2, <2>3, <2>4 DEF HeldOnce
<1>9. Numbered'
  BY <1>1, <1>2, <1>5 DEF RecordsInv, Numbered
<1>10. Described'
  BY <1>1, <1>2, <1>5 DEF RecordsInv, Described
<1> QED BY <1>6, <1>7, <1>8, <1>9, <1>10 DEF RecordsInv

LEMMA StoredInv ==
    ASSUME ServerInv, ServerInv', RecordsInv, StoreBuffers
    PROVE  RecordsInv'
<1>1. /\ cur \in clients /\ cur \in Conns /\ clients \subseteq Conns /\ bufid \in Nat
      /\ client \in [Conns -> Client]
  BY BufferTypes DEF StoreBuffers
<1>2. /\ Handling /\ ~Handling' /\ UNCHANGED clients /\ bufid' = bufid + 1
      /\ openFds' = openFds \ {client[cur].buf_fds}
      /\ client' = [client EXCEPT ![cur].buf_fds = msg.tex, ![cur].buf_id = bufid + 1]
  BY DEF StoreBuffers, Handling
<1>3. /\ client'[cur].buf_fds = msg.tex /\ client'[cur].buf_id = bufid + 1
      /\ client'[cur].tdata = client[cur].tdata
      /\ \A d \in Conns \ {cur} : client'[d] = client[d]
  BY <1>1, <1>2 DEF Client
<1>4. ForgottenIsNew'
  BY <1>1, <1>2, <1>3 DEF RecordsInv, ForgottenIsNew
<1>5. msg.tex # NoTex /\ \A d \in clients : client[d].buf_fds # msg.tex
  BY <1>2 DEF RecordsInv, HeldOnce
<1>6. HeldOnce'
  <2>1. ASSUME NEW t \in Texs
        PROVE  t \in openFds' <=> \E d \in clients' : client'[d].buf_fds = t
    <3>1. t # NoTex
      BY MaxTexAssumption DEF Texs
    <3>2. CASE t = client[cur].buf_fds
      BY <1>1, <1>2, <1>3, <1>5, <3>1, <3>2 DEF RecordsInv, HeldOnce
    <3>3. CASE t = msg.tex
      BY <1>1, <1>2, <1>3, <1>5, <3>3 DEF RecordsInv, HeldOnce
    <3>4. CASE t # client[cur].buf_fds /\ t # msg.tex
      <4>1. t \in openFds' <=> \E d \in clients : client[d].buf_fds = t
        BY <1>2, <3>4 DEF RecordsInv, HeldOnce
      <4>2. (\E d \in clients : client[d].buf_fds = t) <=> \E d \in clients' : client'[d].buf_fds = t
        BY <1>1, <1>2, <1>3, <3>4
      <4> QED BY <4>1, <4>2
    <3> QED BY <3>2, <3>3, <3>4
  <2>2. ASSUME NEW d \in clients', NEW e \in clients', d # e, client'[d].buf_fds # NoTex
        PROVE  client'[d].buf_fds # client'[e].buf_fds
    <3>1. CASE d = cur \/ e = cur
      BY <1>1, <1>2, <1>3, <1>5, <2>2, <3>1
    <3>2. CASE d # cur /\ e # cur
      BY <1>1, <1>2, <1>3, <2>2, <3>2 DEF RecordsInv, HeldOnce
    <3> QED BY <3>1, <3>2
  <2> QED BY <1>2, <2>1, <2>2 DEF HeldOnce
<1>7. Numbered'
  <2>1. ASSUME NEW d \in Conns \ {cur} PROVE client'[d].buf_id <= bufid'
    <3>1. client[d].buf_id \in Nat /\ client[d].buf_id <= bufid
      BY <1>1 DEF RecordsInv, Numbered, Client
    <3> QED BY <1>1, <1>2, <1>3, <3>1
  <2> QED BY <1>1, <1>2, <1>3, <1>5, <2>1 DEF RecordsInv, Numbered
<1>8. Described'
  BY <1>1, <1>2, <1>3 DEF RecordsInv, Described
<1> QED BY <1>4, <1>6, <1>7, <1>8 DEF RecordsInv

-----------------------------------------------------------------------------
(* What the sources show. *)

SourceKept(s) ==
    /\ source'[s].buf_id = source[s].buf_id
    /\ source'[s].client_id = source[s].client_id
    /\ source'[s].texture = source[s].texture

\* The source shows nothing afterwards; what it is attached to may change.
SourceBare(s) ==
    /\ source'[s].buf_id \in {0, source[s].buf_id}
    /\ source'[s].client_id <= clientid'
    /\ source'[s].texture = NoTexture

\* The buffer of c stays, is forgotten, is replaced, or c was not on the list.
BufferStep(c) ==
    \/ /\ c \in clients
       /\ client'[c].buf_id = client[c].buf_id
       /\ client'[c].buf_fds = client[c].buf_fds
       /\ Handling /\ cur = c => Handling' /\ cur' = c /\ msg' = msg
    \/ client'[c].buf_id = 0
    \/ client'[c].buf_id > bufid

LEMMA SourcesShow ==
    ASSUME ServerInv, ServerInv', SourcesFit, UpToDateTexture,
           bufid <= bufid', clientid <= clientid',
           \A s \in Sources : SourceKept(s) \/ SourceBare(s),
           \A c \in clients' : BufferStep(c)
    PROVE  SourcesFit' /\ UpToDateTexture'
<1>1. /\ bufid \in Nat /\ bufid' \in Nat /\ clientid \in Nat /\ clientid' \in Nat
      /\ source \in [Sources -> Source] /\ source' \in [Sources -> Source]
      /\ client \in [Conns -> Client] /\ client' \in [Conns -> Client]
      /\ clients' \subseteq Conns
  BY MaxConnsAssumption DEF ServerInv, ServerOpenTypeOK, ServerTypeOK
<1>2. ASSUME NEW s \in Sources
      PROVE  /\ source'[s].buf_id <= bufid'
             /\ source'[s].client_id <= clientid'
             /\ source'[s].texture # NoTexture =>
                  source'[s].buf_id # 0 /\ source'[s].client_id # NoConn
  <2>1. /\ source[s].buf_id \in Nat /\ source[s].buf_id <= bufid
        /\ source[s].client_id \in Nat /\ source[s].client_id <= clientid
    BY <1>1, MaxConnsAssumption DEF SourcesFit, Source, Conns
  <2>2. CASE SourceKept(s)
    BY <1>1, <2>1, <2>2 DEF SourceKept, SourcesFit
  <2>3. CASE SourceBare(s)
    BY <1>1, <2>1, <2>3 DEF SourceBare
  <2> QED BY <2>2, <2>3
<1>3. ASSUME NEW s \in Sources, source'[s].client_id \in clients', source'[s].texture # NoTexture,
             source'[s].buf_id = client'[source'[s].client_id].buf_id
      PROVE  /\ source'[s].texture.fds = client'[source'[s].client_id].buf_fds
             /\ \/ source'[s].texture.data = source'[s].texture.fds
                \/ /\ pc' \in {"check", "bufs"} /\ cur' = source'[s].client_id
                   /\ source'[s].texture.data = msg'.tex
  <2> DEFINE c == source[s].client_id
  <2>1. SourceKept(s)
    BY <1>3 DEF SourceBare
  <2>2. /\ source'[s].client_id = c /\ source'[s].texture = source[s].texture
        /\ source'[s].buf_id = source[s].buf_id /\ c \in clients'
        /\ source[s].buf_id # 0 /\ source[s].buf_id <= bufid /\ source[s].buf_id \in Nat
        /\ source[s].buf_id = client'[c].buf_id
    BY <1>1, <1>3, <2>1 DEF SourceKept, SourcesFit, Source
  <2>3. /\ c \in clients
        /\ client'[c].buf_id = client[c].buf_id
        /\ client'[c].buf_fds = client[c].buf_fds
        /\ Handling /\ cur = c => Handling' /\ cur' = c /\ msg' = msg
    <3>1. BufferStep(c)
      BY <2>2
    <3> QED BY <1>1, <2>2, <3>1 DEF BufferStep
  <2>4. /\ source[s].texture.fds = client[c].buf_fds
        /\ \/ source[s].texture.data = source[s].texture.fds
           \/ Handling /\ cur = c /\ source[s].texture.data = msg.tex
    BY <1>3, <2>2, <2>3 DEF UpToDateTexture, Handling
  <2> QED BY <2>2, <2>3, <2>4 DEF Handling
<1> QED BY <1>2, <1>3 DEF SourcesFit, UpToDateTexture

LEMMA ImportShows ==
    ASSUME ServerInv, ServerInv', BuffersInv, NEW s \in Sources, TickImport(s)
    PROVE  /\ BuffersKept /\ \A c \in Conns : client'[c].activated = client[c].activated
           /\ \A r \in Sources : source'[r].client_id = source[r].client_id
           /\ SourcesFit' /\ UpToDateTexture'
<1> DEFINE c == source[s].client_id
           cl == client[c]
<1>1. /\ c \in clients /\ c # NoConn /\ source[s].buf_id # cl.buf_id
      /\ UNCHANGED <<clients, clientid, bufid, pc, cur, msg, openFds>>
  BY DEF TickImport, threadVars
<1>2. /\ source \in [Sources -> Source] /\ client \in [Conns -> Client] /\ c \in Conns
      /\ cl \in Client /\ clients \subseteq Conns /\ bufid \in Nat
  BY <1>1, BufferTypes
<1>3. \/ /\ cl.tdata.tex # NoTex /\ cl.buf_fds # NoTex
         /\ source' = [source EXCEPT
               ![s].texture = [data |-> cl.tdata.tex, fds |-> cl.buf_fds],
               ![s].buf_id = cl.buf_id]
         /\ client' = [client EXCEPT ![c] = Imported(cl)]
      \/ /\ source' = [source EXCEPT ![s].texture = NoTexture, ![s].buf_id = cl.buf_id]
         /\ client' = [client EXCEPT ![c] = ImportFailed(cl)]
  BY DEF TickImport
<1>4. \E n \in {Imported(cl), ImportFailed(cl)} : client' = [client EXCEPT ![c] = n]
  BY <1>3
<1>5. \A n \in {Imported(cl), ImportFailed(cl)} :
        /\ n.activated = cl.activated /\ n.buf_id = cl.buf_id
        /\ n.buf_fds = cl.buf_fds /\ n.tdata = cl.tdata
  BY <1>2 DEF Imported, ImportFailed, Client
<1> HIDE DEF cl
<1>6. /\ \A d \in Conns \ {c} : client'[d] = client[d]
      /\ client'[c].activated = cl.activated /\ client'[c].buf_id = cl.buf_id
      /\ client'[c].buf_fds = cl.buf_fds /\ client'[c].tdata = cl.tdata
  BY <1>2, <1>4, <1>5
<1>7. \A d \in Conns : SameBuffer(d) /\ client'[d].activated = client[d].activated
  <2>1. SameBuffer(c) /\ client'[c].activated = client[c].activated
    BY <1>6 DEF SameBuffer, cl
  <2> QED BY <1>6, <2>1 DEF SameBuffer
<1>8. BuffersKept
  BY <1>1, <1>6, <1>7 DEF BuffersKept, HandKept, Handling
<1>9. \E t \in {[data |-> cl.tdata.tex, fds |-> cl.buf_fds], NoTexture} :
        /\ source'[s].texture = t /\ source'[s].buf_id = cl.buf_id
        /\ source'[s].client_id = c
        /\ \A r \in Sources \ {s} : source'[r] = source[r]
        /\ t # NoTexture => cl.tdata.tex # NoTex /\ cl.buf_fds # NoTex
  BY <1>2, <1>3 DEF Source
<1>10. \A r \in Sources : source'[r].client_id = source[r].client_id
  BY <1>9
<1>11. PICK t \in {[data |-> cl.tdata.tex, fds |-> cl.buf_fds], NoTexture} :
        /\ source'[s].texture = t /\ source'[s].buf_id = cl.buf_id
        /\ source'[s].client_id = c
        /\ \A r \in Sources \ {s} : source'[r] = source[r]
        /\ t # NoTexture => cl.tdata.tex # NoTex /\ cl.buf_fds # NoTex
  BY <1>9
<1>12. SourcesFit'
  <2>1. cl.buf_id <= bufid /\ (cl.buf_fds # NoTex => cl.buf_id # 0)
    BY <1>2 DEF BuffersInv, Numbered, cl
  <2>2. source'[s].client_id <= clientid' /\ source'[s].client_id # NoConn
    BY <1>1, <1>11 DEF BuffersInv, SourcesFit
  <2>3. \A r \in Sources \ {s} : source'[r] = source[r]
    BY <1>11
  <2> HIDE DEF c
  <2> QED BY <1>1, <1>11, <2>1, <2>2, <2>3 DEF BuffersInv, SourcesFit
<1>13. UpToDateTexture'
  <2> SUFFICES ASSUME NEW r \in Sources, source'[r].client_id \in clients',
                      source'[r].texture # NoTexture,
                      source'[r].buf_id = client'[source'[r].client_id].buf_id
               PROVE  /\ source'[r].texture.fds = client'[source'[r].client_id].buf_fds
                      /\ \/ source'[r].texture.data = source'[r].texture.fds
                         \/ /\ pc' \in {"check", "bufs"} /\ cur' = source'[r].client_id
                            /\ source'[r].texture.data = msg'.tex
    BY DEF UpToDateTexture
  <2>1. CASE r # s
    <3>1. source'[r] = source[r] /\ source[r].client_id \in Conns
      BY <1>1, <1>2, <1>11, <2>1
    <3> QED BY <1>1, <1>7, <2>1, <3>1 DEF BuffersInv, UpToDateTexture, SameBuffer
  <2>2. CASE r = s
    <3>1. /\ source'[s].texture = [data |-> cl.tdata.tex, fds |-> cl.buf_fds]
          /\ cl.tdata.tex # NoTex /\ cl.buf_fds # NoTex
      BY <1>11, <2>2
    <3>2. source'[s].texture.fds = cl.buf_fds /\ source'[s].texture.data = cl.tdata.tex
      BY <3>1
    <3>3. cl.tdata.tex = cl.buf_fds \/ (Handling /\ cur = c /\ cl.tdata.tex = msg.tex)
      BY <1>1, <3>1 DEF BuffersInv, Described, cl
    <3> QED BY <1>1, <1>6, <1>11, <2>2, <3>2, <3>3 DEF Handling
  <2> QED BY <2>1, <2>2
<1> QED BY <1>7, <1>8, <1>10, <1>12, <1>13

-----------------------------------------------------------------------------
(* The counts. *)

\* Counts and attachments of the clients on the list stay, or a source lets go;
\* a client that joins the list starts with none.
CountKept(c) ==
    \/ /\ c \in clients
       /\ client'[c].activated = client[c].activated
       /\ Attached(c)' \subseteq Attached(c)
    \/ /\ client'[c].activated = 0
       /\ Attached(c)' = {}

LEMMA CountsKept ==
    ASSUME ServerInv, ServerInv', FewAttached, ActivatedCoversSources, FewAttached',
           \A c \in clients' : CountKept(c)
    PROVE  ActivatedCoversSources'
<1> SUFFICES ASSUME NEW c \in clients'
             PROVE  client'[c].activated >= Cardinality(Attached(c)')
  BY DEF ActivatedCoversSources, Attached
<1>1. CountKept(c) /\ c \in Conns /\ client \in [Conns -> Client]
  BY DEF ServerInv, ServerOpenTypeOK, ServerTypeOK
<1>2. CASE client'[c].activated = 0 /\ Attached(c)' = {}
  BY <1>2, FS_EmptySet
<1>3. CASE /\ c \in clients
           /\ client'[c].activated = client[c].activated
           /\ Attached(c)' \subseteq Attached(c)
  <2>1. /\ Cardinality(Attached(c)') <= Cardinality(Attached(c))
        /\ Cardinality(Attached(c)') \in Nat /\ Cardinality(Attached(c)) \in Nat
    BY <1>1, <1>3, FS_Subset, FS_CardinalityType DEF FewAttached
  <2>2. client[c].activated >= Cardinality(Attached(c)) /\ client[c].activated \in Int
    BY <1>1, <1>3 DEF ActivatedCoversSources, Attached, Client
  <2> QED BY <1>3, <2>1, <2>2
<1> QED BY <1>1, <1>2, <1>3 DEF CountKept

LEMMA FewerAttached ==
    ASSUME FewAttached, NEW s, \A c \in Conns : Attached(c)' \subseteq Attached(c) \cup {s}
    PROVE  FewAttached'
<1> SUFFICES ASSUME NEW c \in Conns PROVE IsFiniteSet(Attached(c)')
  BY DEF FewAttached
<1>1. Attached(c)' \subseteq Attached(c) \cup {s}
  OBVIOUS
<1>2. IsFiniteSet(Attached(c))
  BY DEF FewAttached
<1>3. IsFiniteSet(Attached(c) \cup {s})
  BY <1>2, FS_AddElement
<1> QED BY <1>1, <1>3, FS_Subset

-----------------------------------------------------------------------------
(* The steps that bring no buffer and take none away. *)

SourceFree(s) ==
    /\ source'[s].buf_id \in {0, source[s].buf_id}
    /\ source'[s].client_id = NoConn
    /\ source'[s].texture = NoTexture

Quiet ==
    /\ BuffersKept
    /\ clientid <= clientid'
    /\ \A c \in Conns : client'[c].activated = client[c].activated
    /\ \A c \in clients' \ clients : c > clientid
    /\ \A s \in Sources : SourceKept(s) \/ SourceFree(s)

\* Attachments change only where a source's client_id does.
LEMMA AttachedKept ==
    ASSUME NEW c \in Conns,
           \A s \in Sources : source'[s].client_id \in {source[s].client_id, NoConn}
    PROVE  Attached(c)' \subseteq Attached(c)
BY DEF Attached, Conns

\* What the sockets hold is as before.
LEMMA WireKept ==
    ASSUME ServerInv, WireOnce, UNCHANGED <<toServer, ntex>>, openFds' \subseteq openFds
    PROVE  WireOnce'
<1>1. \A c \in Conns : Behind(toServer'[c], toServer[c])
  BY BufferTypes, SelfBehind
<1> QED BY <1>1, BehindKeeps

LEMMA QuietInv ==
    ASSUME ServerInv, ServerInv', BuffersInv, Quiet, WireOnce'
    PROVE  BuffersInv'
<1>1. /\ clients \subseteq Conns /\ clients' \subseteq Conns /\ bufid \in Nat
      /\ clientid \in Nat /\ clientid' \in Nat /\ client \in [Conns -> Client]
      /\ source \in [Sources -> Source]
  BY MaxConnsAssumption DEF ServerInv, ServerOpenTypeOK, ServerTypeOK
<1>2. RecordsInv'
  BY BuffersKeptInv DEF BuffersInv, RecordsInv, Quiet
<1>3. ASSUME NEW s \in Sources
      PROVE  /\ SourceKept(s) \/ SourceBare(s)
             /\ source'[s].client_id \in {source[s].client_id, NoConn}
  BY <1>1 DEF Quiet, SourceKept, SourceFree, SourceBare
<1>4. ASSUME NEW c \in clients' PROVE BufferStep(c)
  <2>1. CASE c \in clients
    BY <1>1, <2>1 DEF Quiet, BuffersKept, SameBuffer, HandKept, BufferStep
  <2>2. CASE c \notin clients
    BY <1>1, <2>2, NewClientBuffer
    DEF BuffersInv, ForgottenIsNew, Quiet, BuffersKept, BufferStep
  <2> QED BY <2>1, <2>2
<1>5. SourcesFit' /\ UpToDateTexture'
  <2>1. bufid <= bufid' /\ clientid <= clientid'
    BY <1>1 DEF Quiet, BuffersKept
  <2> QED BY <1>3, <1>4, <2>1, SourcesShow DEF BuffersInv
<1>6. \A c \in Conns : Attached(c)' \subseteq Attached(c)
  BY <1>3, AttachedKept
<1>7. FewAttached'
  <2>1. \A c \in Conns : Attached(c)' \subseteq Attached(c) \cup {0}
    BY <1>6
  <2> QED BY <2>1, FewerAttached DEF BuffersInv
<1>8. ASSUME NEW c \in clients' PROVE CountKept(c)
  <2>1. CASE c \in clients
    BY <1>1, <1>6, <2>1 DEF Quiet, CountKept
  <2>2. CASE c \notin clients
    <3>1. client'[c].activated = 0
      BY <1>1, <2>2, NewClientBuffer DEF BuffersInv, ForgottenIsNew, Quiet
    <3>2. Attached(c) = {}
      <4>1. c > clientid /\ c \in Nat
        BY <1>1, <2>2 DEF Quiet, Conns
      <4>2. ASSUME NEW s \in Sources PROVE source[s].client_id # c
        <5>1. source[s].client_id \in Nat /\ source[s].client_id <= clientid
          BY <1>1 DEF BuffersInv, SourcesFit, Source, Conns
        <5> QED BY <1>1, <4>1, <5>1
      <4> QED BY <4>2 DEF Attached
    <3> QED BY <1>1, <1>6, <3>1, <3>2 DEF CountKept
  <2> QED BY <2>1, <2>2
<1>9. ActivatedCoversSources'
  BY <1>7, <1>8, CountsKept DEF BuffersInv
<1> QED BY <1>2, <1>5, <1>7, <1>9 DEF BuffersInv, RecordsInv

LEMMA ThreadQuiet ==
    ASSUME ServerInv, ServerInv', BuffersInv,
           Poll \/ Accept \/ LoopEnd \/ LoopClient \/ RecvAgain \/ RecvClientData
             \/ CheckTexture \/ ShutdownEnd
    PROVE  BuffersInv'
<1>1. /\ client \in [Conns -> Client] /\ clientid \in Nat /\ cur \in Nat
      /\ toServer \in [Conns -> Seq(GameMessage)]
  BY MaxConnsAssumption, BufferTypes DEF ServerInv, ServerOpenTypeOK, ServerTypeOK, LoopOver
<1>2. /\ UNCHANGED <<openFds, bufid, source>>
      /\ clients' = clients \/ clients' = clients \cup {clientid + 1}
      /\ clientid <= clientid'
      /\ HandKept
  BY <1>1 DEF Poll, Accept, LoopEnd, LoopClient, RecvAgain, RecvClientData, CheckTexture,
     ShutdownEnd, NextClient, HandKept, Handling
<1>3. ASSUME NEW c \in Conns
      PROVE  /\ SameBuffer(c) /\ client'[c].activated = client[c].activated
             /\ c \notin clients => client'[c] = client[c]
  <2>1. CASE RecvClientData
    <3>1. cur \in clients /\ cur \in Conns
      BY <2>1, BufferTypes DEF RecvClientData
    <3>2. client' = [client EXCEPT ![cur].exe = Head(toServer[cur]).exe]
      BY <2>1 DEF RecvClientData
    <3> QED BY <1>1, <3>1, <3>2 DEF SameBuffer, Client
  <2>2. CASE client' = client
    BY <2>2 DEF SameBuffer
  <2> QED BY <2>1, <2>2 DEF Poll, Accept, LoopEnd, LoopClient, RecvAgain, CheckTexture,
             ShutdownEnd
<1>4. Quiet
  <2>1. \A s \in Sources : SourceKept(s)
    BY <1>2 DEF SourceKept
  <2>2. \A c \in clients' \ clients : c > clientid
    BY <1>1, <1>2
  <2> QED BY <1>2, <1>3, <2>1, <2>2 DEF Quiet, BuffersKept
<1>5. WireOnce'
  <2>1. ntex' = ntex
    BY DEF Poll, Accept, LoopEnd, LoopClient, RecvAgain, RecvClientData, CheckTexture,
           ShutdownEnd, sockVars
  <2>2. ASSUME NEW c \in Conns PROVE Behind(toServer'[c], toServer[c])
    <3>1. CASE RecvClientData
      <4>1. cur \in Conns /\ toServer[cur] # <<>>
        BY <3>1, BufferTypes DEF RecvClientData
      <4>2. toServer' = [toServer EXCEPT ![cur] = Tail(@)]
        BY <3>1 DEF RecvClientData
      <4> QED BY <1>1, <4>1, <4>2, TailBehind, SelfBehind
    <3>2. CASE ShutdownEnd
      <4>1. toServer'[c] = <<>>
        BY <3>2 DEF ShutdownEnd, CloseObsEnds
      <4> QED BY <1>1, <4>1, SelfBehind
    <3>3. CASE toServer' = toServer
      BY <1>1, <3>3, SelfBehind
    <3> QED BY <3>1, <3>2, <3>3 DEF Poll, Accept, LoopEnd, LoopClient, RecvAgain, CheckTexture,
               sockVars
  <2> QED BY <1>2, <2>1, <2>2, BehindKeeps DEF BuffersInv
<1> QED BY <1>4, <1>5, QuietInv

\* Sources let go, settings and times change.
LEMMA UIQuiet ==
    ASSUME ServerInv, ServerInv', BuffersInv,
           UNCHANGED <<clients, clientid, bufid, threadVars, openFds, sockVars>>,
           \A c \in Conns : SameBuffer(c) /\ client'[c].activated = client[c].activated,
           \A c \in Conns \ clients : client'[c] = client[c],
           \A s \in Sources : SourceKept(s) \/ SourceFree(s)
    PROVE  BuffersInv'
<1>1. /\ UNCHANGED <<clients, clientid, bufid, openFds, toServer, ntex>>
      /\ HandKept /\ clientid \in Nat
  BY BufferTypes DEF threadVars, sockVars, HandKept, Handling
<1>2. Quiet
  BY <1>1 DEF Quiet, BuffersKept
<1>3. WireOnce'
  BY <1>1, WireKept DEF BuffersInv
<1> QED BY <1>2, <1>3, QuietInv

LEMMA DetachedFree ==
    ASSUME ServerInv, NEW s \in Sources, source' = [source EXCEPT ![s] = Detached(source[s])]
    PROVE  \A r \in Sources : SourceKept(r) \/ SourceFree(r)
<1>1. source \in [Sources -> Source] /\ source[s] \in Source
  BY BufferTypes
<1>2. /\ Detached(source[s]).buf_id \in {0, source[s].buf_id}
      /\ Detached(source[s]).client_id = NoConn
      /\ Detached(source[s]).texture = NoTexture
  BY <1>1 DEF Detached, NoTextureLeft, Source
<1>3. source'[s] = Detached(source[s]) /\ \A r \in Sources \ {s} : source'[r] = source[r]
  BY <1>1
<1> QED BY <1>2, <1>3 DEF SourceKept, SourceFree

LEMMA SourceUIFree ==
    ASSUME ServerInv, NEW s \in Sources, SourceUI(s)
    PROVE  \A r \in Sources : SourceKept(r) \/ SourceFree(r)
<1>1. source \in [Sources -> Source] /\ source[s] \in Source
  BY BufferTypes
<1>2. CASE SourceCreate(s) \/ SourceDestroy(s)
  <2>1. \E src \in {NoSource} \cup {[NoSource EXCEPT !.mode = "hidden", !.window = w] : w \in Windows} :
          source' = [source EXCEPT ![s] = src]
    BY <1>2 DEF SourceCreate, SourceDestroy
  <2>2. \A src \in {NoSource} \cup {[NoSource EXCEPT !.mode = "hidden", !.window = w] : w \in Windows} :
          src.buf_id = 0 /\ src.client_id = NoConn /\ src.texture = NoTexture
    <3>1. NoSource.buf_id = 0 /\ NoSource.client_id = NoConn /\ NoSource.texture = NoTexture
      BY DEF NoSource
    <3>2. ASSUME NEW w
          PROVE  LET src == [NoSource EXCEPT !.mode = "hidden", !.window = w]
                 IN  src.buf_id = 0 /\ src.client_id = NoConn /\ src.texture = NoTexture
      BY DEF NoSource
    <3> QED BY <3>1, <3>2
  <2> QED BY <1>1, <2>1, <2>2 DEF SourceKept, SourceFree
<1>3. CASE SourceUpdate(s) \/ SourceShow(s) \/ SourceHide(s)
  <2>1. \/ \E w \in Windows : source' = [source EXCEPT ![s].window = w]
        \/ \E m \in Modes : source' = [source EXCEPT ![s].mode = m]
    BY <1>3 DEF SourceUpdate, SourceShow, SourceHide, Modes
  <2> QED BY <1>1, <2>1 DEF SourceKept, Source
<1> QED BY <1>2, <1>3 DEF SourceUI

\* One field of the record of c that says nothing of a buffer.
LEMMA FieldQuiet ==
    ASSUME ServerInv, NEW c \in clients, NEW x,
           \/ client' = [client EXCEPT ![c].unresponsive = x]
           \/ client' = [client EXCEPT ![c].timeout = x]
    PROVE  /\ \A d \in Conns : SameBuffer(d) /\ client'[d].activated = client[d].activated
           /\ \A d \in Conns \ clients : client'[d] = client[d]
<1>1. /\ client \in [Conns -> Client] /\ c \in Conns
      /\ client[c] \in Client
  BY BufferTypes
<1>2. \A d \in Conns \ {c} : client'[d] = client[d]
  BY <1>1
<1>3. SameBuffer(c) /\ client'[c].activated = client[c].activated
  BY <1>1 DEF SameBuffer, Client
<1> QED BY <1>1, <1>2, <1>3 DEF SameBuffer

LEMMA SourceQuiet ==
    ASSUME ServerInv, ServerInv', BuffersInv,
           \/ \E s \in Sources : TickGone(s) \/ TickTimeout(s) \/ SourceUI(s)
           \/ \E c \in Conns : Expire(c)
           \/ Unload
    PROVE  BuffersInv'
<1>1. UNCHANGED <<clients, clientid, bufid, threadVars, openFds, sockVars>>
  BY DEF TickGone, TickTimeout, SourceUI, Expire, Unload
<1>2. \A r \in Sources : SourceKept(r) \/ SourceFree(r)
  <2>1. ASSUME NEW s \in Sources, TickGone(s) \/ TickTimeout(s)
        PROVE  \A r \in Sources : SourceKept(r) \/ SourceFree(r)
    BY <2>1, DetachedFree DEF TickGone, TickTimeout
  <2>2. CASE source' = source
    BY <2>2 DEF SourceKept
  <2> QED BY <2>1, <2>2, SourceUIFree DEF Expire, Unload
<1>3. /\ \A d \in Conns : SameBuffer(d) /\ client'[d].activated = client[d].activated
      /\ \A d \in Conns \ clients : client'[d] = client[d]
  <2>1. ASSUME NEW s \in Sources, TickTimeout(s)
        PROVE  \E c \in clients : client' = [client EXCEPT ![c].unresponsive = TRUE]
    BY <2>1 DEF TickTimeout, UpToDate
  <2>2. ASSUME NEW c \in Conns, Expire(c)
        PROVE  c \in clients /\ client' = [client EXCEPT ![c].timeout = "expired"]
    BY <2>2 DEF Expire
  <2>3. CASE client' = client
    BY <2>3 DEF SameBuffer
  <2> QED BY <2>1, <2>2, <2>3, FieldQuiet DEF TickGone, SourceUI, Unload
<1> QED BY <1>1, <1>2, <1>3, UIQuiet

\* A step of a game brings a new buffer or none.
LEMMA GameQuiet ==
    ASSUME ServerInv, ServerInv', BuffersInv, AnyGame
    PROVE  BuffersInv'
<1>1. UNCHANGED <<clients, client, clientid, bufid, pc, cur, msg, openFds, source>>
  BY DEF AnyGame, serverVars, threadVars
<1>2. /\ toServer \in [Conns -> Seq(GameMessage)] /\ clientid \in Nat
      /\ nconn \in 0..MaxConns
  BY BufferTypes DEF ServerInv, ServerOpenTypeOK, SockTypeOK
<1>3. Quiet
  <2>1. HandKept /\ \A c \in Conns : SameBuffer(c)
    BY <1>1 DEF HandKept, Handling, SameBuffer
  <2>2. \A s \in Sources : SourceKept(s)
    BY <1>1 DEF SourceKept
  <2> QED BY <1>1, <1>2, <2>1, <2>2 DEF Quiet, BuffersKept
<1>4. WireOnce'
  <2>1. CASE AnyConnect
    <3>1. PICK exe \in Exes : Connect(exe)
      BY <2>1 DEF AnyConnect
    <3>2. \A c \in Conns : toServer'[c] \in {toServer[c], <<ClientData(exe)>>}
      BY <1>2, <3>1 DEF Connect
    <3>3. \A c \in Conns : Behind(toServer'[c], toServer[c])
      BY <1>2, <3>2, SelfBehind, ClientDataBehind
    <3> QED BY <1>1, <3>1, <3>3, BehindKeeps DEF BuffersInv, Connect
  <2>2. ASSUME NEW c \in Conns, AnyTexture(c) PROVE WireOnce'
    BY <1>1, <2>2, SendOnce DEF AnyTexture, BuffersInv
  <2>3. ASSUME NEW c \in Conns, AnyReadControl(c) \/ AnyHangup(c) PROVE WireOnce'
    BY <1>1, <2>3, WireKept, SendOnce DEF AnyReadControl, AnyHangup, BuffersInv
  <2> QED BY <2>1, <2>2, <2>3 DEF AnyGame
<1> QED BY <1>3, <1>4, QuietInv

-----------------------------------------------------------------------------
(* The steps that do. *)

LEMMA DropQuiet ==
    ASSUME ServerInv, ServerInv', BuffersInv, NEW c \in clients, Dropped(c)
    PROVE  BuffersInv'
<1>1. /\ client \in [Conns -> Client] /\ clients \subseteq Conns /\ c \in Conns
      /\ bufid \in Nat /\ clientid \in Nat /\ toServer \in [Conns -> Seq(GameMessage)]
  BY BufferTypes
<1>2. /\ clients' = clients \ {c} /\ client' = [client EXCEPT ![c] = NewClient]
      /\ UNCHANGED <<clientid, bufid, source, ntex>> /\ ~Handling' /\ (Handling => cur = c)
      /\ openFds' \subseteq openFds
      /\ toServer' = [d \in Conns |-> IF d \in {c} THEN <<>> ELSE toServer[d]]
  BY DEF Dropped, Cleanup, CloseObsEnds
<1>3. RecordsInv'
  BY DroppedInv DEF BuffersInv, RecordsInv
<1>4. WireOnce'
  <2>1. \A d \in Conns : Behind(toServer'[d], toServer[d])
    BY <1>1, <1>2, SelfBehind
  <2> QED BY <1>2, <2>1, BehindKeeps DEF BuffersInv
<1>5. \A d \in clients' : d \in clients /\ d \in Conns /\ d # c /\ client'[d] = client[d]
  BY <1>1, <1>2
<1>6. SourcesFit' /\ UpToDateTexture'
  <2>1. \A s \in Sources : SourceKept(s)
    BY <1>2 DEF SourceKept
  <2>2. \A d \in clients' : BufferStep(d)
    BY <1>2, <1>5 DEF BufferStep
  <2>3. bufid <= bufid' /\ clientid <= clientid'
    BY <1>1, <1>2
  <2> QED BY <2>1, <2>2, <2>3, SourcesShow DEF BuffersInv
<1>7. FewAttached' /\ \A d \in Conns : Attached(d)' = Attached(d)
  BY <1>2 DEF BuffersInv, FewAttached, Attached
<1>8. ActivatedCoversSources'
  <2>1. \A d \in clients' : CountKept(d)
    BY <1>5, <1>7 DEF CountKept
  <2> QED BY <1>7, <2>1, CountsKept DEF BuffersInv
<1> QED BY <1>3, <1>4, <1>6, <1>7, <1>8 DEF BuffersInv, RecordsInv

LEMMA ThreadDrops ==
    ASSUME ServerInv, ServerInv', BuffersInv,
           LoopUnresponsive \/ RecvEof \/ RejectTexture \/ ShutdownClient
    PROVE  BuffersInv'
<1>1. CASE LoopUnresponsive
  <2>1. cur \in clients /\ ~Handling
    BY <1>1 DEF LoopUnresponsive, ServerInv, ThreadAt, Handling
  <2>2. Dropped(cur)
    BY <1>1, <2>1 DEF LoopUnresponsive, Dropped, Handling
  <2> QED BY <2>1, <2>2, DropQuiet
<1>2. CASE RecvEof
  <2>1. cur \in clients /\ ~Handling
    BY <1>2 DEF RecvEof, ServerInv, ThreadAt, Handling
  <2>2. Dropped(cur)
    BY <1>2, <2>1 DEF RecvEof, NextClient, Dropped, Handling
  <2> QED BY <2>1, <2>2, DropQuiet
<1>3. CASE RejectTexture
  <2>1. cur \in clients /\ Handling
    BY <1>3 DEF RejectTexture, ServerInv, ThreadAt, Handling
  <2>2. Dropped(cur)
    BY <1>3, <2>1 DEF RejectTexture, NextClient, Dropped, Handling
  <2> QED BY <2>1, <2>2, DropQuiet
<1>4. CASE ShutdownClient
  <2>1. PICK c \in clients : Cleanup(c, {})
    BY <1>4 DEF ShutdownClient, First
  <2>2. Dropped(c)
    BY <1>4, <2>1 DEF ShutdownClient, threadVars, Dropped, Handling
  <2> QED BY <2>2, DropQuiet
<1> QED BY <1>1, <1>2, <1>3, <1>4

LEMMA MessageKeeps ==
    ASSUME ServerInv, ServerInv', BuffersInv, RecvTexture \/ StoreBuffers
    PROVE  BuffersInv'
<1>1. /\ client \in [Conns -> Client] /\ clients \subseteq Conns /\ cur \in Conns
      /\ bufid \in Nat /\ clientid \in Nat
  BY BufferTypes DEF RecvTexture, StoreBuffers
<1>2. RecordsInv' /\ WireOnce'
  <2>1. CASE RecvTexture
    BY <2>1, ReceivedInv DEF BuffersInv, RecordsInv
  <2>2. CASE StoreBuffers
    BY <2>2, StoredInv, WireKept DEF BuffersInv, RecordsInv, StoreBuffers, sockVars
  <2> QED BY <2>1, <2>2
<1>3. UNCHANGED <<clients, clientid, source>>
  BY DEF RecvTexture, StoreBuffers
<1>4. \A d \in Conns \ {cur} : client'[d] = client[d]
  BY <1>1 DEF RecvTexture, StoreBuffers
<1>5. client'[cur].activated = client[cur].activated
  BY <1>1 DEF RecvTexture, StoreBuffers, Client
<1>6. ASSUME NEW d \in clients' PROVE BufferStep(d)
  <2>1. CASE RecvTexture
    <3>1. ~Handling /\ client'[cur].buf_id = client[cur].buf_id
          /\ client'[cur].buf_fds = client[cur].buf_fds
      BY <1>1, <2>1 DEF RecvTexture, Handling, Client
    <3> QED BY <1>1, <1>3, <1>4, <3>1 DEF BufferStep
  <2>2. CASE StoreBuffers
    <3>1. client'[cur].buf_id = bufid + 1
      BY <1>1, <2>2 DEF StoreBuffers, Client
    <3>2. d # cur => d \in clients /\ client'[d] = client[d]
      BY <1>1, <1>3, <1>4
    <3> QED BY <1>1, <3>1, <3>2 DEF BufferStep
  <2> QED BY <2>1, <2>2
<1>7. SourcesFit' /\ UpToDateTexture'
  <2>1. \A s \in Sources : SourceKept(s)
    BY <1>3 DEF SourceKept
  <2>2. bufid <= bufid' /\ clientid <= clientid'
    BY <1>1, <1>3 DEF RecvTexture, StoreBuffers
  <2> QED BY <1>6, <2>1, <2>2, SourcesShow DEF BuffersInv
<1>8. FewAttached' /\ \A d \in Conns : Attached(d)' = Attached(d)
  BY <1>3 DEF BuffersInv, FewAttached, Attached
<1>9. ActivatedCoversSources'
  <2>1. \A d \in clients' : CountKept(d)
    BY <1>1, <1>3, <1>4, <1>5, <1>8 DEF CountKept
  <2> QED BY <1>8, <2>1, CountsKept DEF BuffersInv
<1> QED BY <1>2, <1>7, <1>8, <1>9 DEF BuffersInv, RecordsInv

LEMMA ImportKeeps ==
    ASSUME ServerInv, ServerInv', BuffersInv, NEW s \in Sources, TickImport(s)
    PROVE  BuffersInv'
<1>1. /\ BuffersKept /\ \A c \in Conns : client'[c].activated = client[c].activated
      /\ \A r \in Sources : source'[r].client_id = source[r].client_id
      /\ SourcesFit' /\ UpToDateTexture'
  BY ImportShows
<1>2. RecordsInv'
  BY <1>1, BuffersKeptInv DEF BuffersInv, RecordsInv
<1>3. UNCHANGED <<clients, toServer, ntex, openFds>>
  BY DEF TickImport
<1>4. WireOnce'
  BY <1>3, WireKept DEF BuffersInv
<1>5. FewAttached' /\ \A d \in Conns : Attached(d)' = Attached(d)
  BY <1>1 DEF BuffersInv, FewAttached, Attached
<1>6. ActivatedCoversSources'
  <2>1. \A d \in clients' : CountKept(d)
    BY <1>1, <1>3, <1>5, BufferTypes DEF CountKept
  <2> QED BY <1>5, <2>1, CountsKept DEF BuffersInv
<1> QED BY <1>1, <1>2, <1>4, <1>5, <1>6 DEF BuffersInv, RecordsInv

\* activate_client keeps the buffer of c or forgets it, and sets the count.
LEMMA ActivateSteps ==
    ASSUME ServerInv, NEW c \in clients, NEW n \in Int,
           Activate(c, [client[c] EXCEPT !.activated = n]), TickFrame
    PROVE  /\ BuffersKept \/ BufferForgotten(c)
           /\ client'[c].activated = n
           /\ \A d \in Conns \ {c} : client'[d] = client[d]
           /\ openFds' \subseteq openFds
<1> DEFINE cl == [client[c] EXCEPT !.activated = n]
<1>1. /\ client \in [Conns -> Client] /\ clients \subseteq Conns /\ c \in Conns
      /\ client[c] \in Client
  BY BufferTypes
<1>2. /\ cl.activated = n /\ cl.buf_id = client[c].buf_id
      /\ cl.buf_fds = client[c].buf_fds /\ cl.tdata = client[c].tdata
      /\ Restarted(cl).activated = n /\ Restarted(cl).buf_id = 0
      /\ Restarted(cl).buf_fds = NoTex /\ Restarted(cl).tdata = NoData
  BY <1>1 DEF Client, Restarted
<1>3. UNCHANGED <<clients, bufid>> /\ HandKept
  BY DEF TickFrame, threadVars, HandKept, Handling
<1> HIDE DEF cl
<1>4. CASE (cl.activated > 0) = (client[c].activated > 0)
  <2>1. client' = [client EXCEPT ![c] = cl] /\ UNCHANGED openFds
    BY <1>4 DEF Activate, cl
  <2>2. client'[c] = cl /\ \A d \in Conns \ {c} : client'[d] = client[d]
    BY <1>1, <2>1
  <2>3. \A d \in Conns : SameBuffer(d)
    <3>1. SameBuffer(c)
      BY <1>2, <2>2 DEF SameBuffer
    <3> QED BY <2>2, <3>1 DEF SameBuffer
  <2> QED BY <1>1, <1>2, <1>3, <2>1, <2>2, <2>3 DEF BuffersKept
<1>5. CASE (cl.activated > 0) # (client[c].activated > 0)
  <2>1. client' = [client EXCEPT ![c] = Restarted(cl)] /\ openFds' = openFds \ {client[c].buf_fds}
    BY <1>5 DEF Activate, cl
  <2>2. client'[c] = Restarted(cl) /\ \A d \in Conns \ {c} : client'[d] = client[d]
    BY <1>1, <2>1
  <2> QED BY <1>2, <1>3, <2>1, <2>2 DEF BufferForgotten
<1> QED BY <1>4, <1>5

\* What a source that takes or leaves c does to the buffers and what is shown.
LEMMA ActivateShows ==
    ASSUME ServerInv, ServerInv', BuffersInv, NEW c \in clients, NEW n \in Int,
           Activate(c, [client[c] EXCEPT !.activated = n]), TickFrame,
           \A s \in Sources : SourceKept(s) \/ SourceBare(s)
    PROVE  RecordsInv' /\ WireOnce' /\ SourcesFit' /\ UpToDateTexture'
<1>1. /\ BuffersKept \/ BufferForgotten(c)
      /\ \A d \in Conns \ {c} : client'[d] = client[d]
      /\ openFds' \subseteq openFds
  BY ActivateSteps
<1>2. /\ clients \subseteq Conns /\ bufid \in Nat /\ clientid \in Nat
      /\ UNCHANGED <<clients, clientid, bufid, toServer, ntex>>
  BY BufferTypes DEF TickFrame
<1>3. RecordsInv'
  BY <1>1, BuffersKeptInv, BufferForgottenInv DEF BuffersInv, RecordsInv
<1>4. WireOnce'
  BY <1>1, <1>2, WireKept DEF BuffersInv
<1>5. ASSUME NEW d \in clients' PROVE BufferStep(d)
  BY <1>1, <1>2, <1>5
  DEF BuffersKept, BufferForgotten, SameBuffer, HandKept, BufferStep
<1>6. SourcesFit' /\ UpToDateTexture'
  <2>1. bufid <= bufid' /\ clientid <= clientid'
    BY <1>2
  <2> QED BY <1>5, <2>1, SourcesShow DEF BuffersInv
<1> QED BY <1>3, <1>4, <1>6

LEMMA RematchKeeps ==
    ASSUME ServerInv, ServerInv', BuffersInv, NEW s \in Sources, TickRematch(s)
    PROVE  BuffersInv'
<1>0. PICK c \in clients : c = source[s].client_id
  BY DEF TickRematch, UpToDate
<1> DEFINE n == client[c].activated - 1
<1>1. /\ TickFrame /\ UNCHANGED clients
      /\ source' = [source EXCEPT ![s] = Detached(source[s])]
  BY DEF TickRematch, UpToDate, TickFrame
<1>2. /\ source[s].client_id = c /\ source \in [Sources -> Source] /\ client \in [Conns -> Client] /\ c \in Conns
      /\ clients \subseteq Conns /\ source[s] \in Source
  BY <1>0, BufferTypes
<1>3. n \in Int /\ client[c].activated \in Int
  BY <1>2 DEF Client
<1>4. Activate(c, [client[c] EXCEPT !.activated = n])
  BY <1>0, <1>2 DEF TickRematch, Client
<1>5. /\ \A r \in Sources : SourceKept(r) \/ SourceFree(r)
      /\ source'[s].client_id = NoConn
      /\ \A r \in Sources \ {s} : source'[r] = source[r]
  <2>1. Detached(source[s]).client_id = NoConn
    BY <1>2 DEF Detached, NoTextureLeft, Source
  <2> QED BY <1>1, <1>2, <2>1, DetachedFree
<1>6. \A r \in Sources : SourceKept(r) \/ SourceBare(r)
  BY <1>5 DEF SourceFree, SourceBare, ServerInv, ServerOpenTypeOK, ServerTypeOK
<1> HIDE DEF n
<1>7. RecordsInv' /\ WireOnce' /\ SourcesFit' /\ UpToDateTexture'
  BY <1>1, <1>3, <1>4, <1>6, ActivateShows
<1>8. /\ \A d \in Conns : Attached(d)' \subseteq Attached(d)
      /\ Attached(c)' = Attached(c) \ {s} /\ s \in Attached(c)
  <2>1. c # NoConn /\ NoConn \notin Conns
    BY <1>2 DEF Conns
  <2>2. \A r \in Sources : source'[r].client_id = IF r = s THEN NoConn ELSE source[r].client_id
    BY <1>5
  <2> QED BY <1>2, <2>1, <2>2 DEF Attached
<1>9. FewAttached'
  <2>1. \A d \in Conns : Attached(d)' \subseteq Attached(d) \cup {s}
    BY <1>8
  <2> QED BY <2>1, FewerAttached DEF BuffersInv
<1>10. client'[c].activated = n /\ \A d \in Conns \ {c} : client'[d] = client[d]
  BY <1>1, <1>3, <1>4, ActivateSteps
<1>11. ActivatedCoversSources'
  <2>1. client'[c].activated >= Cardinality(Attached(c)')
    <3>1. IsFiniteSet(Attached(c)) /\ client[c].activated >= Cardinality(Attached(c))
      BY <1>1, <1>2 DEF BuffersInv, FewAttached, ActivatedCoversSources, Attached
    <3>2. Cardinality(Attached(c) \ {s}) = Cardinality(Attached(c)) - 1
      BY <1>8, <3>1, FS_RemoveElement
    <3>3. Cardinality(Attached(c)) \in Nat
      BY <3>1, FS_CardinalityType
    <3>4. Cardinality(Attached(c)') = Cardinality(Attached(c)) - 1
      BY <1>8, <3>2
    <3>5. n = client[c].activated - 1
      BY DEF n
    <3> QED BY <1>3, <1>10, <3>1, <3>3, <3>4, <3>5
  <2>2. ASSUME NEW d \in clients', d # c
        PROVE  client'[d].activated >= Cardinality(Attached(d)')
    <3>1. d \in Conns \ {c} /\ client'[d] = client[d] /\ d \in clients
      BY <1>1, <1>2, <1>10, <2>2
    <3>2. IsFiniteSet(Attached(d)) /\ client[d].activated >= Cardinality(Attached(d))
          /\ client[d].activated \in Int
      BY <1>2, <3>1 DEF BuffersInv, FewAttached, ActivatedCoversSources, Attached, Client
    <3>3. /\ Cardinality(Attached(d)') <= Cardinality(Attached(d))
          /\ Cardinality(Attached(d)') \in Nat /\ Cardinality(Attached(d)) \in Nat
      BY <1>8, <1>9, <3>1, <3>2, FS_Subset, FS_CardinalityType DEF FewAttached
    <3> QED BY <3>1, <3>2, <3>3
  <2>3. \A d \in clients' : client'[d].activated >= Cardinality(Attached(d)')
    BY <2>1, <2>2
  <2> QED BY <2>3 DEF ActivatedCoversSources, Attached
<1> QED BY <1>7, <1>9, <1>11 DEF BuffersInv, RecordsInv

LEMMA AttachKeeps ==
    ASSUME ServerInv, ServerInv', BuffersInv, NEW s \in Sources, TickAttach(s)
    PROVE  BuffersInv'
<1>1. PICK c \in clients :
        /\ Activate(c, [client[c] EXCEPT !.activated = @ + 1])
        /\ source' = [source EXCEPT ![s].client_id = c]
  BY DEF TickAttach
<1> DEFINE n == client[c].activated + 1
<1>2. /\ source \in [Sources -> Source] /\ client \in [Conns -> Client] /\ c \in Conns
      /\ clients \subseteq Conns /\ source[s] \in Source /\ clientid \in Nat
      /\ TickFrame /\ UNCHANGED <<clients, clientid>>
      /\ source[s].client_id = NoConn /\ c <= clientid
  BY BufferTypes DEF TickAttach, TickFrame, ServerInv, AcceptedOnly
<1>3. n \in Int /\ client[c].activated \in Int
  BY <1>2 DEF Client
<1>4. Activate(c, [client[c] EXCEPT !.activated = n])
  BY <1>1, <1>2 DEF Client
<1>5. /\ source'[s].client_id = c /\ source'[s].texture = source[s].texture
      /\ source'[s].buf_id = source[s].buf_id
      /\ \A r \in Sources \ {s} : source'[r] = source[r]
  BY <1>1, <1>2 DEF Source
<1>6. \A r \in Sources : SourceKept(r) \/ SourceBare(r)
  <2>1. source[s].texture = NoTexture
    BY <1>2 DEF BuffersInv, SourcesFit
  <2> QED BY <1>2, <1>5, <2>1 DEF SourceKept, SourceBare
<1> HIDE DEF n
<1>7. RecordsInv' /\ WireOnce' /\ SourcesFit' /\ UpToDateTexture'
  BY <1>2, <1>3, <1>4, <1>6, ActivateShows
<1>8. /\ \A d \in Conns \ {c} : Attached(d)' = Attached(d)
      /\ Attached(c)' = Attached(c) \cup {s} /\ s \notin Attached(c)
  <2>1. c # NoConn /\ NoConn \notin Conns
    BY <1>2 DEF Conns
  <2>2. \A r \in Sources : source'[r].client_id = IF r = s THEN c ELSE source[r].client_id
    BY <1>5
  <2> QED BY <1>2, <2>1, <2>2 DEF Attached
<1>9. FewAttached'
  <2>1. \A d \in Conns : Attached(d)' \subseteq Attached(d) \cup {s}
    BY <1>8
  <2> QED BY <2>1, FewerAttached DEF BuffersInv
<1>10. client'[c].activated = n /\ \A d \in Conns \ {c} : client'[d] = client[d]
  BY <1>2, <1>3, <1>4, ActivateSteps
<1>11. ActivatedCoversSources'
  <2>1. client'[c].activated >= Cardinality(Attached(c)')
    <3>1. IsFiniteSet(Attached(c)) /\ client[c].activated >= Cardinality(Attached(c))
      BY <1>2 DEF BuffersInv, FewAttached, ActivatedCoversSources, Attached
    <3>2. Cardinality(Attached(c) \cup {s}) = Cardinality(Attached(c)) + 1
      BY <1>8, <3>1, FS_AddElement
    <3>3. Cardinality(Attached(c)) \in Nat
      BY <3>1, FS_CardinalityType
    <3>4. Cardinality(Attached(c)') = Cardinality(Attached(c)) + 1
      BY <1>8, <3>2
    <3>5. n = client[c].activated + 1
      BY DEF n
    <3> QED BY <1>3, <1>10, <3>1, <3>3, <3>4, <3>5
  <2>2. ASSUME NEW d \in clients', d # c
        PROVE  client'[d].activated >= Cardinality(Attached(d)')
    BY <1>2, <1>8, <1>10, <2>2 DEF BuffersInv, ActivatedCoversSources, Attached
  <2>3. \A d \in clients' : client'[d].activated >= Cardinality(Attached(d)')
    BY <2>1, <2>2
  <2> QED BY <2>3 DEF ActivatedCoversSources, Attached
<1> QED BY <1>7, <1>9, <1>11 DEF BuffersInv, RecordsInv

-----------------------------------------------------------------------------
(* The theorems. *)

LEMMA BuffersInvInit == ServerOpenInit => BuffersInv
<1> SUFFICES ASSUME ServerOpenInit PROVE BuffersInv OBVIOUS
<1>1. /\ clients = {} /\ client = [c \in Conns |-> NewClient] /\ clientid = 0 /\ bufid = 0
      /\ pc = "poll" /\ openFds = {} /\ source = [s \in Sources |-> NoSource]
      /\ toServer = [c \in Conns |-> <<>>] /\ ntex = 0
  BY DEF ServerOpenInit, ServerInit, SockInit
<1>2. ForgottenIsNew /\ HeldOnce /\ Described
  BY <1>1 DEF ForgottenIsNew, HeldOnce, Described, Handling
<1>3. WireOnce
  <2>1. \A c \in Conns : Len(toServer[c]) = 0
    BY <1>1
  <2> QED BY <1>1, <2>1 DEF WireOnce
<1>4. Numbered
  BY <1>1, NewClientBuffer DEF Numbered
<1>5. NoSource.buf_id = 0 /\ NoSource.client_id = NoConn /\ NoSource.texture = NoTexture
  BY DEF NoSource
<1>6. SourcesFit /\ UpToDateTexture
  BY <1>1, <1>5 DEF SourcesFit, UpToDateTexture
<1>7. FewAttached
  <2>1. \A c \in Conns : Attached(c) = {}
    BY <1>1, <1>5 DEF Attached, Conns
  <2> QED BY <2>1, FS_EmptySet DEF FewAttached
<1>8. ActivatedCoversSources
  BY <1>1 DEF ActivatedCoversSources
<1> QED BY <1>2, <1>3, <1>4, <1>6, <1>7, <1>8 DEF BuffersInv

LEMMA BuffersInvStep ==
    ServerInv /\ BuffersInv /\ [ServerOpenNext]_<<serverVars, sockVars>> => BuffersInv'
<1> SUFFICES ASSUME ServerInv, BuffersInv, [ServerOpenNext]_<<serverVars, sockVars>>
             PROVE  BuffersInv'
  OBVIOUS
<1>1. ServerInv'
  BY ServerInvStep
<1>2. CASE ServerThread
  BY <1>1, <1>2, ThreadQuiet, ThreadDrops, MessageKeeps DEF ServerThread
<1>3. ASSUME NEW s \in Sources, Tick(s) PROVE BuffersInv'
  BY <1>1, <1>3, SourceQuiet, ImportKeeps, RematchKeeps, AttachKeeps DEF Tick
<1>4. CASE (\E s \in Sources : SourceUI(s)) \/ (\E c \in Conns : Expire(c)) \/ Unload
  BY <1>1, <1>4, SourceQuiet
<1>5. CASE AnyGame
  BY <1>1, <1>5, GameQuiet
<1>6. CASE UNCHANGED <<serverVars, sockVars>>
  <2>1. UNCHANGED <<clients, client, clientid, bufid, threadVars, openFds, source, sockVars>>
    BY <1>6 DEF serverVars
  <2>2. /\ \A c \in Conns : SameBuffer(c)
        /\ \A s \in Sources : SourceKept(s)
    BY <2>1 DEF SameBuffer, SourceKept
  <2> QED BY <1>1, <2>1, <2>2, UIQuiet
<1> QED BY <1>2, <1>3, <1>4, <1>5, <1>6 DEF ServerOpenNext, ServerNext

\* Every descriptor received is held by exactly one client or by the message
\* in hand, whatever buffers are replaced, forgotten, rejected or dropped and
\* wherever the games hang up: none leaks and none is closed twice
\* (server_thread_run, server_cleanup_client, activate_client).
THEOREM DescriptorsCorrect == ServerOpenSpec => []FdsAccountedFor
<1>1. ServerInv /\ BuffersInv => FdsAccountedFor
  BY HeldAccounted DEF BuffersInv
<1> QED BY <1>1, ServerInvInit, ServerInvStep, BuffersInvInit, BuffersInvStep, PTL
        DEF ServerOpenSpec

\* A source whose number of the buffer is its client's shows that buffer, made
\* from its descriptors and its own description, although the thread stores a
\* message in two critical sections (vkcapture_source_video_tick).
THEOREM TexturesCorrect == ServerOpenSpec => []UpToDateTexture
<1>1. BuffersInv => UpToDateTexture
  BY DEF BuffersInv
<1> QED BY <1>1, ServerInvInit, ServerInvStep, BuffersInvInit, BuffersInvStep, PTL
        DEF ServerOpenSpec

\* A client's count of captures covers the sources that are attached to it, for
\* every number of sources: one that lets go never stops the capture of another,
\* and the count is never negative (activate_client).
THEOREM CountsCorrect == ServerOpenSpec => []ActivatedCoversSources
<1>1. BuffersInv => ActivatedCoversSources
  BY DEF BuffersInv
<1> QED BY <1>1, ServerInvInit, ServerInvStep, BuffersInvInit, BuffersInvStep, PTL
        DEF ServerOpenSpec
============================================================================
