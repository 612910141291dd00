-------------------------- MODULE CaptureProtocol --------------------------
(***************************************************************************)
(* The abstract socket "/com/obsproject/vkcapture" between the games, in   *)
(* which src/capture.c runs, and OBS, in which the plugin src/vkcapture.c  *)
(* runs, with the messages of src/capture.h.                               *)
(*                                                                         *)
(* A connection is named by its place in the order of connect() calls.     *)
(* The listen queue is FIFO, so accept4() returns connections in that      *)
(* order and the plugin's id of a client (++clientid) is the same number.  *)
(* Every message is one write of one fixed size, read by one read of the   *)
(* same size, so a stream is a sequence of messages.                       *)
(***************************************************************************)
EXTENDS Naturals, Sequences

CONSTANTS
    MaxConns,  \* bound: connections made in a behaviour
    MaxTex,    \* bound: buffers the games export in a behaviour
    SockBuf,   \* messages a socket's send buffer holds
    Exes,      \* names of game executables
    NoExe,     \* the empty name a client has until its first message is read
    NFds       \* numbers of planes, hence of descriptors, a buffer can have

ASSUME MaxConnsAssumption == MaxConns \in Nat
ASSUME MaxTexAssumption == MaxTex \in Nat
ASSUME SockBufAssumption == SockBuf \in Nat \ {0}
ASSUME NoExeAssumption == NoExe \notin Exes
ASSUME NFdsAssumption == NFds \subseteq 1..4

Conns == 1..MaxConns
NoConn == 0
Texs == 1..MaxTex
NoTex == 0

(***************************************************************************)
(* The n-th attempt to import a client's buffer asks for it to be          *)
(* allocated in the n-th way of enum vkcapture_import_attempt.             *)
(***************************************************************************)
ImportDefault == 0
ImportNoModifiers == 1
ImportLinear == 2
ImportLinearHostMapped == 3
ImportFailuresMax == ImportLinearHostMapped
Attempts == ImportDefault..ImportFailuresMax

FlagSet == [no_modifiers : BOOLEAN, linear : BOOLEAN, map_host : BOOLEAN]

\* fill_capture_control_data.
Flags(failures) ==
    [no_modifiers |-> failures = ImportNoModifiers,
     linear       |-> failures \in {ImportLinear, ImportLinearHostMapped},
     map_host     |-> failures = ImportLinearHostMapped]

\* struct capture_control_data, from OBS to a game.
Control == [capturing : BOOLEAN, flags : FlagSet]

\* What a game that has read nothing has been told: do not capture.
NotTold == [capturing |-> FALSE, flags |-> Flags(ImportDefault)]

\* struct capture_client_data and struct capture_texture_data, from a game to
\* OBS. A buffer's number stands for its description and for its descriptors.
ClientData(exe) == [type |-> "client", exe |-> exe, tex |-> NoTex, nfd |-> 0]
BugOnePlaneShort(t, n) == [type |-> "texture", exe |-> NoExe, tex |-> t, nfd |-> n - 1]

TextureData(t, n) == [type |-> "texture", exe |-> NoExe, tex |-> t, nfd |-> n]

GameMessage ==
    [type : {"client"}, exe : Exes, tex : {NoTex}, nfd : {0}]
        \cup [type : {"texture"}, exe : {NoExe}, tex : Texs, nfd : NFds]

VARIABLES
    listening,  \* OBS's listening socket is open
    nconn,      \* connections made so far
    gameEnd,    \* gameEnd[c]: the game's end of c is open
    obsEnd,     \* obsEnd[c]: OBS's end of c is open (from connect() on)
    toServer,   \* toServer[c]: messages the game sent and OBS has not read
    toClient,   \* toClient[c]: messages OBS sent and the game has not read
    ntex,       \* buffers the games exported so far
    told,       \* told[c]: the last control message the game read (history)
    lost        \* lost[c]: a message on c found the buffer full (history)

sockVars == <<listening, nconn, gameEnd, obsEnd, toServer, toClient, ntex, told,
              lost>>

SockTypeOK ==
    /\ listening \in BOOLEAN
    /\ nconn \in 0..MaxConns
    /\ gameEnd \in [Conns -> BOOLEAN]
    /\ obsEnd \in [Conns -> BOOLEAN]
    /\ toServer \in [Conns -> Seq(GameMessage)]
    /\ toClient \in [Conns -> Seq(Control)]
    /\ ntex \in 0..MaxTex
    /\ told \in [Conns -> Control]
    /\ lost \in [Conns -> BOOLEAN]

SockInit ==
    /\ listening = TRUE
    /\ nconn = 0
    /\ gameEnd = [c \in Conns |-> FALSE]
    /\ obsEnd = [c \in Conns |-> FALSE]
    /\ toServer = [c \in Conns |-> <<>>]
    /\ toClient = [c \in Conns |-> <<>>]
    /\ ntex = 0
    /\ told = [c \in Conns |-> NotTold]
    /\ lost = [c \in Conns |-> FALSE]

-----------------------------------------------------------------------------
(***************************************************************************)
(* Socket calls, as used by both sides. A send fails when the peer's end   *)
(* is closed or the buffer is full; both sides only log the error.         *)
(***************************************************************************)

\* A channel after a send to a peer whose end is (not) open.
Sent(queue, m, open) ==
    IF open /\ Len(queue) < SockBuf THEN Append(queue, m) ELSE queue

\* Game: connect() and the send of the client data that follows it.
Connect(exe) ==
    /\ listening
    /\ nconn < MaxConns
    /\ nconn' = nconn + 1
    /\ gameEnd' = [gameEnd EXCEPT ![nconn + 1] = TRUE]
    /\ obsEnd' = [obsEnd EXCEPT ![nconn + 1] = TRUE]
    /\ toServer' = [toServer EXCEPT ![nconn + 1] = <<ClientData(exe)>>]
    /\ UNCHANGED <<listening, toClient, ntex, told, lost>>

\* Game: a new buffer of n planes is exported and sent over c, where the
\* game's sending queues are ts.
SendTexture(c, n, ts) ==
    /\ ntex < MaxTex
    /\ ntex' = ntex + 1
    /\ toServer' = [ts EXCEPT ![c] = Sent(@, TextureData(ntex + 1, n), obsEnd[c])]
    /\ lost' = [lost EXCEPT ![c] = @ \/ Len(ts[c]) >= SockBuf]

\* Game: the recv() of one control message.
ReadControl(c) ==
    /\ toClient[c] # <<>>
    /\ told' = [told EXCEPT ![c] = Head(toClient[c])]
    /\ toClient' = [toClient EXCEPT ![c] = Tail(@)]

\* Game: what recv() returns when nothing more will come.
GameSeesEof(c) == toClient[c] = <<>> /\ ~obsEnd[c]

\* Game: close() of its end, or the end of the process. The kernel drops what
\* the game had not read; OBS can still read what the game had sent.
CloseGameEnd(c) ==
    /\ gameEnd' = [gameEnd EXCEPT ![c] = FALSE]
    /\ toClient' = [toClient EXCEPT ![c] = <<>>]
    /\ told' = [told EXCEPT ![c] = NotTold]

\* OBS: close() of the ends in cs, with the same effect the other way round.
CloseObsEnds(cs) ==
    /\ obsEnd' = [c \in Conns |-> obsEnd[c] /\ c \notin cs]
    /\ toServer' = [c \in Conns |-> IF c \in cs THEN <<>> ELSE toServer[c]]

\* OBS: write() of a control message.
WriteControl(c, m) ==
    /\ toClient' = [toClient EXCEPT ![c] = Sent(@, m, gameEnd[c])]
    /\ lost' = [lost EXCEPT ![c] = @ \/ (gameEnd[c] /\ Len(toClient[c]) >= SockBuf)]

\* OBS: poll() reports the connection readable, or closed.
Readable(c) == toServer[c] # <<>> \/ ~gameEnd[c]
============================================================================
