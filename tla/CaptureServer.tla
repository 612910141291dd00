--------------------------- MODULE CaptureServer ---------------------------
(***************************************************************************)
(* The OBS side: src/vkcapture.c. One server thread (server_thread_run)    *)
(* owns the sockets; the sources are ticked by OBS's graphics thread and   *)
(* changed by its UI. They share server.clients under server.mutex.        *)
(*                                                                         *)
(* An action is one critical section, or one step of the server thread     *)
(* between two of them that another actor can notice.                      *)
(*                                                                         *)
(* server.clients is appended to with growing ids and erased from, so the  *)
(* array is always in the order of the ids: a set of ids stands for it,    *)
(* and "first in the array" is "smallest".                                 *)
(***************************************************************************)
EXTENDS CaptureProtocol, Integers, FiniteSets

CONSTANTS
    Sources,      \* sources of the OBS scenes
    Windows,      \* values of a source's "window" setting
    MaxActivated  \* bound: a client's count of captures, which a source that
                  \* is destroyed or times out never takes back

\* vkcapture_source_update: the empty setting, a name, or "exclude=" a name.
AnyWindow == [kind |-> "any", exe |-> NoExe]
Match(exe) == [kind |-> "match", exe |-> exe]
Exclude(exe) == [kind |-> "exclude", exe |-> exe]
WindowSettings == {AnyWindow} \cup [kind : {"match", "exclude"}, exe : Exes]

ASSUME WindowsAssumption == Windows \subseteq WindowSettings
ASSUME MaxActivatedAssumption == MaxActivated \in Nat \ {0}

VARIABLES
    clients,   \* server.clients: ids of the clients the plugin keeps
    client,    \* client[c]: the vkcapture_client_t of c
    clientid,  \* connections accepted so far
    bufid,     \* buffers received so far
    event,     \* server.eventfd is signalled
    quit,      \* server.quit
    pc,        \* where the server thread is
    cur,       \* the client it is at (its loop index)
    ready,     \* descriptors poll() reported, the listening socket as 0
    room,      \* descriptors the next recvmsg() has room for
    msg,       \* the texture message being handled
    openFds,   \* buffers whose descriptors are open in OBS
    source     \* source[s]: the vkcapture_source_t of s

threadVars == <<pc, cur, ready, room, msg>>
serverVars == <<clients, client, clientid, bufid, event, quit, threadVars,
                openFds, source>>

Listener == 0
LoopOver == MaxConns + 1  \* the thread's index is behind the last client

\* A texture's description; NoData is zeroed memory.
TexData == [tex : Texs \cup {NoTex}, nfd : 0..4]
NoData == [tex |-> NoTex, nfd |-> 0]

Timeouts == {"off", "armed", "expired"}

Client ==
    [activated : Int, buf_id : Nat, buf_fds : Texs \cup {NoTex},
     tdata : TexData, import_failures : Attempts, timeout : Timeouts,
     unresponsive : BOOLEAN, exe : Exes \cup {NoExe}]

\* The client server_thread_run pushes for an accepted connection.
NewClient ==
    [activated |-> 0, buf_id |-> 0, buf_fds |-> NoTex, tdata |-> NoData,
     import_failures |-> ImportDefault, timeout |-> "off",
     unresponsive |-> FALSE, exe |-> NoExe]

\* A texture is known by the description and the descriptors it was made from.
Texture == [data : Texs, fds : Texs]
NoTexture == [data |-> NoTex, fds |-> NoTex]

Modes == {"absent", "hidden", "showing"}

Source ==
    [mode : Modes, window : WindowSettings, client_id : Conns \cup {NoConn},
     buf_id : Nat, texture : Texture \cup {NoTexture}]

NoSource ==
    [mode |-> "absent", window |-> AnyWindow, client_id |-> NoConn,
     buf_id |-> 0, texture |-> NoTexture]

\* "poll" waits; "accept" follows it; "loop" is at the head of the loop over
\* the clients; "recv" is before recvmsg(); "check" and "bufs" are after the
\* first critical section of a texture message and before the second.
Pcs == {"poll", "accept", "loop", "recv", "check", "bufs", "shutdown", "done"}

ServerTypeOK ==
    /\ clients \subseteq Conns
    /\ client \in [Conns -> Client]
    /\ clientid \in 0..MaxConns
    /\ bufid \in Nat
    /\ event \in BOOLEAN
    /\ quit \in BOOLEAN
    /\ pc \in Pcs
    /\ cur \in 0..LoopOver
    /\ ready \subseteq Conns \cup {Listener}
    /\ room \in 0..20
    /\ msg \in TexData
    /\ openFds \subseteq Texs
    /\ source \in [Sources -> Source]

ServerInit ==
    /\ clients = {}
    /\ client = [c \in Conns |-> NewClient]
    /\ clientid = 0
    /\ bufid = 0
    /\ event = FALSE
    /\ quit = FALSE
    /\ pc = "poll"
    /\ cur = 0
    /\ ready = {}
    /\ room = 0
    /\ msg = NoData
    /\ openFds = {}
    /\ source = [s \in Sources |-> NoSource]

-----------------------------------------------------------------------------
(***************************************************************************)
(* The server thread                                                       *)
(***************************************************************************)

\* CMSG_SPACE(sizeof(int)) * 4 bytes hold this many descriptors.
MaxRoom == 20

\* recvmsg() stores the length it used, CMSG_SPACE of n descriptors, which is
\* not set again before the next recvmsg() of the same loop: room for n,
\* rounded up to an even number.
RoomAfter(n) == 2 * ((n + 1) \div 2)

Received(n) == IF n <= room THEN n ELSE room

\* The first element of a part cs of the array, as a set of one.
First(cs) == IF cs = {} THEN {LoopOver} ELSE {c \in cs : \A d \in cs : c <= d}

\* The element at the index after c's.
After(c) == First({d \in clients : d > c})

BugClientsNotPolled == IF clientid < nconn THEN {Listener} ELSE {}

\* What poll() would report now.
Events ==
    {c \in clients : Readable(c)}
        \cup (IF clientid < nconn THEN {Listener} ELSE {})

Poll ==
    /\ pc = "poll"
    /\ event \/ Events # {}
    /\ ready' = Events
    /\ event' = FALSE
    /\ pc' = IF event /\ quit THEN "shutdown" ELSE "accept"
    /\ UNCHANGED <<clients, client, clientid, bufid, quit, cur, room, msg,
                   openFds, source, sockVars>>

\* accept4() and da_push_back. server_add_fd leaves the new entry's revents
\* uninitialized, so the coming loop may or may not look at the new client.
Accept ==
    /\ pc = "accept"
    /\ IF Listener \in ready
         THEN /\ clientid' = clientid + 1
              /\ clients' = clients \cup {clientid + 1}
              /\ \E r \in SUBSET {clientid + 1} : ready' = (ready \ {Listener}) \cup r
         ELSE UNCHANGED <<clientid, clients, ready>>
    /\ pc' = "loop"
    /\ cur' \in First(clients')
    /\ UNCHANGED <<client, bufid, event, quit, room, msg, openFds, source, sockVars>>

BugCleanupKeepsFds(c, rejected) ==
    /\ CloseObsEnds({c})
    /\ openFds' = openFds \ rejected
    /\ clients' = clients \ {c}
    /\ client' = [client EXCEPT ![c] = NewClient]
    /\ UNCHANGED <<listening, nconn, gameEnd, toClient, ntex, told, lost>>

\* server_cleanup_client, with the descriptors of a message being rejected. The
\* client's memory is gone: client[c] is as if new, and stays so.
Cleanup(c, rejected) ==
    /\ CloseObsEnds({c})
    /\ openFds' = openFds \ ({client[c].buf_fds} \cup rejected)
    /\ clients' = clients \ {c}
    /\ client' = [client EXCEPT ![c] = NewClient]
    /\ UNCHANGED <<listening, nconn, gameEnd, toClient, ntex, told, lost>>

\* After an erase the loop's i++ steps over the element that took its place.
AfterErase(c) == UNION {After(d) : d \in After(c)}

LoopEnd ==
    /\ pc = "loop"
    /\ cur = LoopOver
    /\ pc' = "poll"
    /\ ready' = {}
    /\ cur' = 0
    /\ UNCHANGED <<clients, client, clientid, bufid, event, quit, room, msg,
                   openFds, source, sockVars>>

LoopUnresponsive ==
    /\ pc = "loop"
    /\ cur # LoopOver
    /\ client[cur].unresponsive
    /\ Cleanup(cur, {})
    /\ cur' \in AfterErase(cur)
    /\ UNCHANGED <<clientid, bufid, event, quit, pc, ready, room, msg, source>>

LoopClient ==
    /\ pc = "loop"
    /\ cur # LoopOver
    /\ ~client[cur].unresponsive
    /\ IF cur \in ready
         THEN pc' = "recv" /\ room' = MaxRoom /\ UNCHANGED cur
         ELSE cur' \in After(cur) /\ UNCHANGED <<pc, room>>
    /\ UNCHANGED <<clients, client, clientid, bufid, event, quit, ready, msg,
                   openFds, source, sockVars>>

\* Back to the loop over the clients, at one of cs.
NextClient(cs) ==
    /\ pc' = "loop"
    /\ cur' \in cs
    /\ room' = 0
    /\ msg' = NoData

RecvAgain ==
    /\ pc = "recv"
    /\ ~Readable(cur)
    /\ NextClient(After(cur))
    /\ UNCHANGED <<clients, client, clientid, bufid, event, quit, ready,
                   openFds, source, sockVars>>

BugEofIsAgain ==
    /\ pc = "recv"
    /\ toServer[cur] = <<>>
    /\ ~gameEnd[cur]
    /\ NextClient(After(cur))
    /\ UNCHANGED <<clients, client, clientid, bufid, event, quit, ready, openFds,
                   source, sockVars>>

\* End of file, or an error.
RecvEof ==
    /\ pc = "recv"
    /\ toServer[cur] = <<>>
    /\ ~gameEnd[cur]
    /\ Cleanup(cur, {})
    /\ NextClient(AfterErase(cur))
    /\ UNCHANGED <<clientid, bufid, event, quit, ready, source>>

RecvClientData ==
    /\ pc = "recv"
    /\ toServer[cur] # <<>>
    /\ LET m == Head(toServer[cur]) IN
         /\ m.type = "client"
         /\ client' = [client EXCEPT ![cur].exe = m.exe]
    /\ toServer' = [toServer EXCEPT ![cur] = Tail(@)]
    /\ NextClient(After(cur))
    /\ UNCHANGED <<clients, clientid, bufid, event, quit, ready, openFds, source,
                   listening, nconn, gameEnd, obsEnd, toClient, ntex, told, lost>>

\* First critical section: the description. The descriptors are already in
\* the process.
RecvTexture ==
    /\ pc = "recv"
    /\ toServer[cur] # <<>>
    /\ LET m == Head(toServer[cur])
           n == Received(m.nfd)
       IN /\ m.type = "texture"
          /\ client' = [client EXCEPT ![cur].tdata = [tex |-> m.tex, nfd |-> m.nfd]]
          /\ msg' = [tex |-> m.tex, nfd |-> n]
          /\ openFds' = openFds \cup {m.tex}
          /\ room' = RoomAfter(n)
    /\ toServer' = [toServer EXCEPT ![cur] = Tail(@)]
    /\ pc' = "check"
    /\ UNCHANGED <<clients, clientid, bufid, event, quit, cur, ready, source,
                   listening, nconn, gameEnd, obsEnd, toClient, ntex, told, lost>>

\* Outside the lock: client->tdata.nfd, which a tick may have zeroed, against
\* the number of descriptors received.
CheckTexture ==
    /\ pc = "check"
    /\ client[cur].tdata.nfd = msg.nfd
    /\ pc' = "bufs"
    /\ UNCHANGED <<clients, client, clientid, bufid, event, quit, cur, ready, room,
                   msg, openFds, source, sockVars>>

RejectTexture ==
    /\ pc = "check"
    /\ client[cur].tdata.nfd # msg.nfd
    /\ Cleanup(cur, {msg.tex})
    /\ NextClient(AfterErase(cur))
    /\ UNCHANGED <<clientid, bufid, event, quit, ready, source>>

BugBuffersKeepId ==
    /\ pc = "bufs"
    /\ bufid' = bufid + 1
    /\ openFds' = openFds \ {client[cur].buf_fds}
    /\ client' = [client EXCEPT ![cur].buf_fds = msg.tex,
                    ![cur].buf_id = IF @ = 0 THEN bufid + 1 ELSE @]
    /\ pc' = "recv"
    /\ msg' = NoData
    /\ UNCHANGED <<clients, clientid, event, quit, cur, ready, room, source, sockVars>>

\* Second critical section: the descriptors.
StoreBuffers ==
    /\ pc = "bufs"
    /\ bufid' = bufid + 1
    /\ openFds' = openFds \ {client[cur].buf_fds}
    /\ client' = [client EXCEPT ![cur].buf_fds = msg.tex, ![cur].buf_id = bufid + 1]
    /\ pc' = "recv"
    /\ msg' = NoData
    /\ UNCHANGED <<clients, clientid, event, quit, cur, ready, room, source, sockVars>>

\* After the main loop: every client in turn, then the listening socket, on
\* which connections may still be waiting.
ShutdownClient ==
    /\ pc = "shutdown"
    /\ clients # {}
    /\ \E c \in First(clients) : Cleanup(c, {})
    /\ UNCHANGED <<clientid, bufid, event, quit, threadVars, source>>

ShutdownEnd ==
    /\ pc = "shutdown"
    /\ clients = {}
    /\ listening' = FALSE
    /\ CloseObsEnds(Conns)
    /\ pc' = "done"
    /\ UNCHANGED <<clients, client, clientid, bufid, event, quit, cur, ready, room,
                   msg, openFds, source, nconn, gameEnd, toClient, ntex, told, lost>>

ServerThread ==
    \/ Poll \/ Accept
    \/ LoopEnd \/ LoopUnresponsive \/ LoopClient
    \/ RecvAgain \/ RecvEof \/ RecvClientData \/ RecvTexture
    \/ CheckTexture \/ RejectTexture \/ StoreBuffers
    \/ ShutdownClient \/ ShutdownEnd

-----------------------------------------------------------------------------
(***************************************************************************)
(* The sources, in critical sections of vkcapture_source_video_tick        *)
(***************************************************************************)

\* find_matching_client: the first client in the array that suits the setting.
Suits(w, c) ==
    \/ w.kind = "any"
    \/ w.kind = "match" /\ client[c].exe = w.exe
    \/ w.kind = "exclude" /\ client[c].exe # w.exe

Suitable(s) == {c \in clients : Suits(source[s].window, c)}

IsMatch(s, c) == c \in Suitable(s) /\ \A d \in Suitable(s) : c <= d

\* destroy_texture: without a texture it leaves buf_id as it is.
NoTextureLeft(src) ==
    IF src.texture = NoTexture THEN src
    ELSE [src EXCEPT !.texture = NoTexture, !.buf_id = 0]

Detached(src) == NoTextureLeft([src EXCEPT !.client_id = NoConn])

\* The control message that describes the client record cl.
ControlFor(cl) ==
    [capturing |-> cl.activated > 0, flags |-> Flags(cl.import_failures)]

\* activate_client, where it changes the client from captured to not captured
\* or back: the buffer is forgotten, the game is told, the timeout starts.
Restarted(cl) ==
    [cl EXCEPT !.buf_id = 0, !.buf_fds = NoTex, !.tdata = NoData,
               !.timeout = "armed"]

BugSilentStop(c, cl) ==
    IF (cl.activated > 0) = (client[c].activated > 0)
      THEN /\ client' = [client EXCEPT ![c] = cl]
           /\ UNCHANGED <<openFds, toClient, lost>>
      ELSE /\ client' = [client EXCEPT ![c] = Restarted(cl)]
           /\ openFds' = openFds \ {client[c].buf_fds}
           /\ IF cl.activated > 0 THEN WriteControl(c, ControlFor(cl))
              ELSE UNCHANGED <<toClient, lost>>

BugActivatedIsAFlag(c, cl) ==
    IF cl.activated > 1
      THEN UNCHANGED <<client, openFds, toClient, lost>>
      ELSE /\ client' = [client EXCEPT ![c] = Restarted(cl)]
           /\ openFds' = openFds \ {client[c].buf_fds}
           /\ WriteControl(c, ControlFor(cl))

\* The client goes from activated = client[c].activated to cl.activated.
Activate(c, cl) ==
    IF (cl.activated > 0) = (client[c].activated > 0)
      THEN /\ client' = [client EXCEPT ![c] = cl]
           /\ UNCHANGED <<openFds, toClient, lost>>
      ELSE /\ client' = [client EXCEPT ![c] = Restarted(cl)]
           /\ openFds' = openFds \ {client[c].buf_fds}
           /\ WriteControl(c, ControlFor(cl))

Ticking(s) == source[s].mode = "showing"

BugGoneKeepsId(s) ==
    /\ Ticking(s)
    /\ source[s].client_id # NoConn
    /\ source[s].client_id \notin clients
    /\ source' = [source EXCEPT ![s] = NoTextureLeft(@)]
    /\ UNCHANGED <<clients, client, clientid, bufid, event, quit, threadVars, openFds,
                   sockVars>>

\* The attached client is gone.
TickGone(s) ==
    /\ Ticking(s)
    /\ source[s].client_id # NoConn
    /\ source[s].client_id \notin clients
    /\ source' = [source EXCEPT ![s] = Detached(@)]
    /\ UNCHANGED <<clients, client, clientid, bufid, event, quit, threadVars, openFds,
                   sockVars>>

\* The client cl after an import: its timeout is off either way.
Imported(cl) == [cl EXCEPT !.timeout = "off"]

BugNoLastAttempt(cl) ==
    [cl EXCEPT !.timeout = "off", !.import_failures = @ + 1]

ImportFailed(cl) ==
    [cl EXCEPT !.timeout = "off",
               !.import_failures = IF @ < ImportFailuresMax THEN @ + 1 ELSE @]

\* The attached client has another buffer: make a texture of it. That may
\* fail, and does when there is no description or no descriptor; the client
\* is then asked to allocate in the next way, if there is one.
TickImport(s) ==
    LET c == source[s].client_id
        cl == client[c]
    IN
    /\ Ticking(s)
    /\ c # NoConn
    /\ c \in clients
    /\ source[s].buf_id # cl.buf_id
    /\ \/ /\ cl.tdata.tex # NoTex /\ cl.buf_fds # NoTex
          /\ source' = [source EXCEPT
                ![s].texture = [data |-> cl.tdata.tex, fds |-> cl.buf_fds],
                ![s].buf_id = cl.buf_id]
          /\ client' = [client EXCEPT ![c] = Imported(cl)]
          /\ UNCHANGED <<toClient, lost>>
       \/ /\ source' = [source EXCEPT ![s].texture = NoTexture, ![s].buf_id = cl.buf_id]
          /\ client' = [client EXCEPT ![c] = ImportFailed(cl)]
          /\ IF cl.import_failures < ImportFailuresMax
               THEN WriteControl(c, ControlFor(ImportFailed(cl)))
               ELSE UNCHANGED <<toClient, lost>>
    /\ UNCHANGED <<clients, clientid, bufid, event, quit, threadVars, openFds,
                   listening, nconn, gameEnd, obsEnd, toServer, ntex, told>>

\* Attached, with the client's present buffer.
UpToDate(s) ==
    /\ Ticking(s)
    /\ source[s].client_id \in clients
    /\ source[s].buf_id = client[source[s].client_id].buf_id

\* The window setting, or an earlier client, now says otherwise.
TickRematch(s) ==
    LET c == source[s].client_id IN
    /\ UpToDate(s)
    /\ ~IsMatch(s, c)
    /\ Activate(c, [client[c] EXCEPT !.activated = @ - 1])
    /\ source' = [source EXCEPT ![s] = Detached(@)]
    /\ UNCHANGED <<clients, clientid, bufid, event, quit, threadVars,
                   listening, nconn, gameEnd, obsEnd, toServer, ntex, told>>

\* No buffer within five seconds: leave the client for the thread to drop.
TickTimeout(s) ==
    LET c == source[s].client_id IN
    /\ UpToDate(s)
    /\ IsMatch(s, c)
    /\ client[c].timeout = "expired"
    /\ client' = [client EXCEPT ![c].unresponsive = TRUE]
    /\ event' = TRUE
    /\ source' = [source EXCEPT ![s] = Detached(@)]
    /\ UNCHANGED <<clients, clientid, bufid, quit, threadVars, openFds, sockVars>>

\* Not attached: take the first client that suits.
TickAttach(s) ==
    /\ Ticking(s)
    /\ source[s].client_id = NoConn
    /\ \E c \in clients :
          /\ IsMatch(s, c)
          /\ client[c].activated < MaxActivated
          /\ Activate(c, [client[c] EXCEPT !.activated = @ + 1])
          /\ source' = [source EXCEPT ![s].client_id = c]
    /\ UNCHANGED <<clients, clientid, bufid, event, quit, threadVars,
                   listening, nconn, gameEnd, obsEnd, toServer, ntex, told>>

Tick(s) ==
    \/ TickGone(s) \/ TickImport(s) \/ TickRematch(s) \/ TickTimeout(s)
    \/ TickAttach(s)

\* Five seconds pass since the client's timeout was set.
Expire(c) ==
    /\ c \in clients
    /\ client[c].timeout = "armed"
    /\ client' = [client EXCEPT ![c].timeout = "expired"]
    /\ UNCHANGED <<clients, clientid, bufid, event, quit, threadVars, openFds, source,
                   sockVars>>

(***************************************************************************)
(* The rest of a source's life, from OBS's UI: no lock is taken.           *)
(***************************************************************************)

SourceCreate(s) ==
    /\ source[s].mode = "absent"
    /\ ~quit
    /\ \E w \in Windows :
          source' = [source EXCEPT ![s] = [NoSource EXCEPT !.mode = "hidden", !.window = w]]

\* vkcapture_source_update.
SourceUpdate(s) ==
    /\ source[s].mode # "absent"
    /\ \E w \in Windows \ {source[s].window} :
          source' = [source EXCEPT ![s].window = w]

SourceShow(s) ==
    /\ source[s].mode = "hidden"
    /\ source' = [source EXCEPT ![s].mode = "showing"]

SourceHide(s) ==
    /\ source[s].mode = "showing"
    /\ source' = [source EXCEPT ![s].mode = "hidden"]

\* vkcapture_source_destroy: the client it is attached to is not told.
SourceDestroy(s) ==
    /\ source[s].mode # "absent"
    /\ source' = [source EXCEPT ![s] = NoSource]

SourceUI(s) ==
    /\ \/ SourceCreate(s) \/ SourceUpdate(s) \/ SourceShow(s) \/ SourceHide(s)
       \/ SourceDestroy(s)
    /\ UNCHANGED <<clients, client, clientid, bufid, event, quit, threadVars, openFds,
                   sockVars>>

BugUnloadWithoutWakeup ==
    /\ ~quit
    /\ \A s \in Sources : source[s].mode = "absent"
    /\ quit' = TRUE
    /\ UNCHANGED <<clients, client, clientid, bufid, event, threadVars, openFds, source,
                   sockVars>>

\* obs_module_unload; libobs has destroyed all sources before.
Unload ==
    /\ ~quit
    /\ \A s \in Sources : source[s].mode = "absent"
    /\ quit' = TRUE
    /\ event' = TRUE
    /\ UNCHANGED <<clients, client, clientid, bufid, threadVars, openFds, source,
                   sockVars>>

ServerNext ==
    \/ ServerThread
    \/ \E s \in Sources : Tick(s) \/ SourceUI(s)
    \/ \E c \in Conns : Expire(c)
    \/ Unload

\* The thread runs, OBS ticks every source of a shown scene each frame, and
\* time passes.
ServerFairness ==
    /\ WF_<<serverVars, sockVars>>(ServerThread)
    /\ \A s \in Sources : WF_<<serverVars, sockVars>>(Tick(s))
    /\ \A c \in Conns : WF_<<serverVars, sockVars>>(Expire(c))

-----------------------------------------------------------------------------
(***************************************************************************)
(* The plugin against any games: they connect, send buffers they were or   *)
(* were not asked for, read what they are told when they like, and hang up.*)
(***************************************************************************)

AnyConnect == \E exe \in Exes : Connect(exe)

AnyTexture(c) ==
    /\ gameEnd[c]
    /\ \E n \in NFds : SendTexture(c, n, toServer)
    /\ UNCHANGED <<listening, nconn, gameEnd, obsEnd, toClient, told>>

\* A present call reads one message and may send a buffer after it.
AnyReadControl(c) ==
    /\ ReadControl(c)
    /\ \/ UNCHANGED <<toServer, ntex, lost>>
       \/ \E n \in NFds : SendTexture(c, n, toServer)
    /\ UNCHANGED <<listening, nconn, gameEnd, obsEnd>>

AnyHangup(c) ==
    /\ gameEnd[c]
    /\ CloseGameEnd(c)
    /\ UNCHANGED <<listening, nconn, obsEnd, toServer, ntex, lost>>

AnyGame ==
    /\ \/ AnyConnect
       \/ \E c \in Conns : AnyTexture(c) \/ AnyReadControl(c) \/ AnyHangup(c)
    /\ UNCHANGED serverVars

ServerOpenInit == SockInit /\ ServerInit
ServerOpenNext == ServerNext \/ AnyGame
ServerOpenSpec ==
    ServerOpenInit /\ [][ServerOpenNext]_<<serverVars, sockVars>> /\ ServerFairness

-----------------------------------------------------------------------------
(***************************************************************************)
(* Properties                                                              *)
(***************************************************************************)

\* The variables have their types, the sockets included.
ServerOpenTypeOK == SockTypeOK /\ ServerTypeOK

\* The last thing OBS told c's game, read or still in the socket.
LastTold(c) == IF toClient[c] = <<>> THEN told[c] ELSE toClient[c][Len(toClient[c])]

\* Every change of what the plugin wants of a client is written to its socket:
\* whatever the sources, the imports and the thread did, the last message the
\* game has or will read says whether some source captures it and how to
\* allocate (activate_client, the failed import in the tick). Only a full
\* socket buffer, which the plugin logs and forgets, can break this.
ControlAgreement ==
    \A c \in clients :
        gameEnd[c] /\ ~lost[c] => LastTold(c) = ControlFor(client[c])

\* Each source that shows a client's present buffer shows that buffer: the
\* texture was made from the descriptors the client has now, and also from
\* their description, unless the thread is between the two critical sections
\* of a newer message, after which the tick sees a new buf_id.
UpToDateTexture ==
    \A s \in Sources :
        LET c == source[s].client_id
            t == source[s].texture
        IN  (c \in clients /\ t # NoTexture /\ source[s].buf_id = client[c].buf_id)
              => /\ t.fds = client[c].buf_fds
                 /\ \/ t.data = t.fds
                    \/ pc \in {"check", "bufs"} /\ cur = c /\ t.data = msg.tex

\* Every descriptor received is held by exactly one client or by the message
\* in hand: none leaks and none is closed twice, over replaced buffers,
\* restarts, rejected messages, cleanups and the shutdown.
FdsAccountedFor ==
    LET inHand == IF pc \in {"check", "bufs"} THEN {msg.tex} ELSE {}
        held == {client[c].buf_fds : c \in clients} \ {NoTex}
    IN  /\ openFds = held \cup inHand
        /\ held \cap inHand = {}
        /\ \A c, d \in clients :
              c # d /\ client[c].buf_fds # NoTex => client[c].buf_fds # client[d].buf_fds

\* The count of a client's captures covers the sources attached to it, so a
\* source that lets go never stops the capture of another one (and the count
\* never goes below zero). It may be more: a source that is destroyed does
\* not let go.
ActivatedCoversSources ==
    \A c \in clients :
        client[c].activated >= Cardinality({s \in Sources : source[s].client_id = c})

\* A client whose game has hung up leaves the list, although the loop steps
\* over the client after one it erases.
HungUpIsRemoved ==
    \A c \in Conns : (c \in clients /\ ~gameEnd[c]) ~> (c \notin clients)

\* A source that is shown does not stay with a client that is gone.
GoneIsNoticed ==
    \A s \in Sources, c \in Conns :
        (source[s].client_id = c /\ c \notin clients)
            ~> (source[s].client_id # c \/ source[s].mode # "showing")

\* obs_module_unload joins the thread: it ends, from wherever it is.
UnloadEnds == quit ~> pc = "done"

\* "5s timeout" (activate_client): a client that is captured and has not sent
\* a buffer since has its timeout set.
TimeoutCoversSilence ==
    \A c \in clients :
        client[c].activated > 0 /\ client[c].buf_fds = NoTex
            => client[c].timeout # "off"

\* "Client %d not responding, disconnecting..." (the tick): it is.
UnresponsiveIsDisconnected ==
    \A c \in Conns : client[c].unresponsive ~> (c \notin clients)
============================================================================
