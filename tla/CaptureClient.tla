--------------------------- MODULE CaptureClient ---------------------------
(***************************************************************************)
(* The game's side: src/capture.c and the part of a present call that      *)
(* drives it, vk_capture in src/vklayer.c and gl_capture in                *)
(* src/glinject.c. A game presents from one thread.                        *)
(*                                                                         *)
(* The hooks' own resources (images, memory, fences, queues) are not       *)
(* here: the exported buffer is a number, 0 when there is none, together   *)
(* with the allocation flags it was made with.                             *)
(***************************************************************************)
EXTENDS CaptureProtocol

CONSTANTS
    Games,  \* processes the library is loaded in
    ExeOf   \* the name of a game's executable

ASSUME ExeOfAssumption == ExeOf \in [Games -> Exes]

VARIABLE
    game    \* game[g]: the static `data` of capture.c and the hook's buffer

clientVars == <<game>>

Game ==
    [connfd : Conns \cup {NoConn}, accepted : BOOLEAN, capturing : BOOLEAN,
     flags : FlagSet, need_reinit : BOOLEAN,
     valid : BOOLEAN,               \* the hook still captures (data->valid)
     buf : Texs \cup {NoTex},       \* the exported buffer
     bufFlags : FlagSet]            \* the flags it was allocated with

ClientTypeOK == game \in [Games -> Game]

\* capture_init and a hook that has just been set up.
NewGame ==
    [connfd |-> NoConn, accepted |-> FALSE, capturing |-> FALSE,
     flags |-> Flags(ImportDefault), need_reinit |-> FALSE, valid |-> TRUE,
     buf |-> NoTex, bufFlags |-> Flags(ImportDefault)]

ClientInit == game = [g \in Games |-> NewGame]

-----------------------------------------------------------------------------
(***************************************************************************)
(* capture_update_socket, as what it makes of `data`.                      *)
(***************************************************************************)

BugFlagChangeMissed(d, m) ==
    [d EXCEPT !.accepted = m.capturing, !.flags = m.flags]

BugReinitOnEveryMessage(d, m) ==
    [d EXCEPT !.accepted = m.capturing, !.flags = m.flags,
              !.need_reinit = @ \/ d.capturing]

\* A control message m was read.
Heard(d, m) ==
    [d EXCEPT !.accepted = m.capturing,
              !.flags = m.flags,
              !.need_reinit = @ \/ (d.capturing /\ d.flags # m.flags)]

BugStaysAccepted(d) == [d EXCEPT !.connfd = NoConn]

BugStaysConnected(d) == [d EXCEPT !.accepted = FALSE]

\* The peer is gone: end of file or an error other than EAGAIN.
Disconnected(d) == [d EXCEPT !.connfd = NoConn, !.accepted = FALSE]

ShouldStop(d) ==
    d.capturing /\ (d.connfd = NoConn \/ ~d.accepted \/ d.need_reinit)

ShouldInit(d) == ~d.capturing /\ d.connfd # NoConn /\ d.accepted

BugFreedWithoutStop(d) == [d EXCEPT !.buf = NoTex, !.bufFlags = Flags(ImportDefault)]

\* vk_shtex_free, gl_free: release the buffer, then capture_stop.
Freed(d) ==
    [d EXCEPT !.capturing = FALSE, !.buf = NoTex, !.bufFlags = Flags(ImportDefault)]

\* vk_shtex_init, gl_init: a new buffer t, then capture_init_shtex.
Exported(d, t) ==
    [d EXCEPT !.capturing = TRUE, !.need_reinit = FALSE, !.buf = t,
              !.bufFlags = d.flags]

\* The first step after the socket: free a capture that must stop.
Stopped(d) == IF ShouldStop(d) THEN Freed(d) ELSE d

(***************************************************************************)
(* The rest of vk_capture and gl_capture after capture_update_socket has   *)
(* made `data` d and the game's sending queue ts. A window that is too     *)
(* small leaves a capture unstarted (valid_rect); a failed start disables  *)
(* the hook; a running capture is dropped when another swapchain is        *)
(* presented (swap # cur_swap) or the window has changed size.             *)
(***************************************************************************)
Capture(g, d, ts) ==
    LET s == Stopped(d) IN
    \/ /\ game' = [game EXCEPT ![g] = s]
       /\ toServer' = ts
       /\ UNCHANGED <<ntex, lost>>
    \/ /\ ShouldInit(s)
       /\ \E n \in NFds : SendTexture(s.connfd, n, ts)
       /\ game' = [game EXCEPT ![g] = Exported(s, ntex + 1)]
    \/ /\ ShouldInit(s)
       /\ game' = [game EXCEPT ![g] = [Freed(s) EXCEPT !.valid = FALSE]]
       /\ toServer' = ts
       /\ UNCHANGED <<ntex, lost>>
    \/ /\ s.capturing
       /\ game' = [game EXCEPT ![g] = Freed(s)]
       /\ toServer' = ts
       /\ UNCHANGED <<ntex, lost>>

(***************************************************************************)
(* A present call (OBS_QueuePresentKHR, eglSwapBuffers, glXSwapBuffers),   *)
(* by what capture_update_socket finds.                                    *)
(***************************************************************************)

\* Less than a second since the last check, a failed connect(), or EAGAIN.
PresentIdle(g) ==
    /\ game[g].valid
    /\ Capture(g, game[g], toServer)
    /\ UNCHANGED <<listening, nconn, gameEnd, obsEnd, toClient, told>>

\* Not connected: capture_try_connect succeeds, recv() returns EAGAIN. (An
\* answer that is there already is as if the next look at the socket found it.)
PresentConnect(g) ==
    /\ game[g].valid
    /\ game[g].connfd = NoConn
    /\ Connect(ExeOf[g])
    /\ game' = [game EXCEPT ![g] = Stopped([@ EXCEPT !.connfd = nconn + 1])]

PresentControl(g) ==
    LET c == game[g].connfd IN
    /\ game[g].valid
    /\ c # NoConn
    /\ ReadControl(c)
    /\ Capture(g, Heard(game[g], Head(toClient[c])), toServer)
    /\ UNCHANGED <<listening, nconn, gameEnd, obsEnd>>

PresentEof(g) ==
    LET c == game[g].connfd IN
    /\ game[g].valid
    /\ c # NoConn
    /\ GameSeesEof(c)
    /\ CloseGameEnd(c)
    /\ Capture(g, Disconnected(game[g]), toServer)
    /\ UNCHANGED <<listening, nconn, obsEnd>>

\* The swapchain or the GL context that is captured is destroyed
\* (OBS_DestroySwapchainKHR, eglDestroyContext, glXDestroyContext).
FreeCapture(g) ==
    /\ game[g].valid
    /\ game[g].capturing
    /\ game' = [game EXCEPT ![g] = Freed(@)]
    /\ UNCHANGED sockVars

\* A Vulkan game whose hook was disabled creates another device, whose hook is
\* not (OBS_CreateDevice); the socket and what was read from it remain.
NewDevice(g) ==
    /\ ~game[g].valid
    /\ game' = [game EXCEPT ![g].valid = TRUE]
    /\ UNCHANGED sockVars

\* The process ends, at any point; another may be started in its place.
Exit(g) ==
    LET c == game[g].connfd IN
    /\ c # NoConn
    /\ CloseGameEnd(c)
    /\ game' = [game EXCEPT ![g] = NewGame]
    /\ UNCHANGED <<ntex, listening, nconn, obsEnd, toServer, lost>>

\* A present that finds something new on the socket. Present calls keep
\* coming, and one a second looks at the socket.
PresentNews(g) == PresentControl(g) \/ PresentEof(g)

ClientNext ==
    \E g \in Games :
        \/ PresentIdle(g)
        \/ PresentConnect(g)
        \/ PresentNews(g)
        \/ FreeCapture(g)
        \/ NewDevice(g)
        \/ Exit(g)

ClientFairness == \A g \in Games : WF_<<clientVars, sockVars>>(PresentNews(g))

-----------------------------------------------------------------------------
(***************************************************************************)
(* The games against any server: it may write any control message at any   *)
(* time, read or not, close a connection or go away.                       *)
(***************************************************************************)

AnyWrite(c) ==
    /\ c <= nconn
    /\ obsEnd[c]
    /\ \E b \in BOOLEAN, n \in Attempts :
          WriteControl(c, [capturing |-> b, flags |-> Flags(n)])
    /\ UNCHANGED <<listening, nconn, gameEnd, obsEnd, toServer, ntex, told>>

AnyRead(c) ==
    /\ obsEnd[c]
    /\ toServer[c] # <<>>
    /\ toServer' = [toServer EXCEPT ![c] = Tail(@)]
    /\ UNCHANGED <<listening, nconn, gameEnd, obsEnd, toClient, ntex, told, lost>>

AnyClose(c) ==
    /\ obsEnd[c]
    /\ CloseObsEnds({c})
    /\ UNCHANGED <<listening, nconn, gameEnd, toClient, ntex, told, lost>>

AnyStop ==
    /\ listening
    /\ listening' = FALSE
    /\ CloseObsEnds(Conns)
    /\ UNCHANGED <<nconn, gameEnd, toClient, ntex, told, lost>>

AnyServer ==
    /\ \/ \E c \in Conns : AnyWrite(c) \/ AnyRead(c) \/ AnyClose(c)
       \/ AnyStop
    /\ UNCHANGED clientVars

ClientOpenInit == SockInit /\ ClientInit
ClientOpenNext == ClientNext \/ AnyServer
ClientOpenSpec ==
    ClientOpenInit /\ [][ClientOpenNext]_<<clientVars, sockVars>> /\ ClientFairness

-----------------------------------------------------------------------------
(***************************************************************************)
(* Properties                                                              *)
(***************************************************************************)

\* The variables have their types, the sockets included.
ClientOpenTypeOK == SockTypeOK /\ ClientTypeOK

\* Each game has a connection of its own, and its end of it is open.
OwnConnection ==
    \A g \in Games : game[g].connfd # NoConn =>
        /\ game[g].connfd <= nconn
        /\ gameEnd[game[g].connfd]
        /\ \A h \in Games \ {g} : game[h].connfd # game[g].connfd

\* What a game holds as OBS's orders is the last control message it read on
\* its present connection: nothing is left of an earlier connection's
\* permission (capture_update_socket, the branch for n <= 0).
OrdersAreCurrent ==
    \A g \in Games :
        /\ game[g].accepted => game[g].connfd # NoConn
        /\ game[g].connfd # NoConn => game[g].accepted = told[game[g].connfd].capturing
        /\ game[g].accepted => game[g].flags = told[game[g].connfd].flags

\* Between present calls a game exports a buffer only if it is connected, OBS
\* asked it to capture, and the buffer was allocated the way OBS last asked
\* for (capture_should_stop, need_reinit).
CaptureFollowsOrders ==
    \A g \in Games : game[g].capturing =>
        /\ game[g].connfd # NoConn
        /\ told[game[g].connfd].capturing
        /\ game[g].bufFlags = told[game[g].connfd].flags
        /\ game[g].buf # NoTex

\* A buffer in use is replaced within one present call only when the call
\* read other flags than it was allocated with: a game does not rebuild its
\* capture for a message that changes nothing (need_reinit is reset by
\* capture_init_shtex and set only on a change).
RebuildOnlyOnChange ==
    [][\A g \in Games :
          game[g].buf # NoTex /\ game'[g].buf \notin {NoTex, game[g].buf}
            => game'[g].flags # game[g].bufFlags]_<<clientVars, sockVars>>

\* Once OBS has closed a connection its game gives up the buffer and the
\* connection, unless its hook is disabled, which does not look again.
ClosedIsNoticed ==
    \A g \in Games, c \in Conns :
        (game[g].connfd = c /\ ~obsEnd[c])
            ~> (game[g].connfd # c \/ ~game[g].valid)
============================================================================
