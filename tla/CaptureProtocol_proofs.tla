----------------------- MODULE CaptureProtocol_proofs -----------------------
(* Facts about the socket queues and the messages, for the other proofs. *)
EXTENDS CaptureProtocol, SequenceTheorems, TLAPS

\* A send keeps a queue a queue of messages (Sent).
LEMMA SentType ==
    ASSUME NEW S, NEW q \in Seq(S), NEW m \in S, NEW open \in BOOLEAN
    PROVE  Sent(q, m, open) \in Seq(S)
BY AppendProperties DEF Sent

\* A read takes a message off a queue and leaves a queue (recv, recvmsg).
LEMMA ReadType ==
    ASSUME NEW S, NEW q \in Seq(S), q # <<>>
    PROVE  Head(q) \in S /\ Tail(q) \in Seq(S)
BY HeadTailProperties

\* The last element of a queue outlives the reading of the first, unless it is
\* the first.
LEMMA LastOfTail ==
    ASSUME NEW S, NEW q \in Seq(S), q # <<>>
    PROVE  \/ Tail(q) = <<>> /\ q[Len(q)] = Head(q)
           \/ Tail(q) # <<>> /\ Tail(q)[Len(Tail(q))] = q[Len(q)]
<1>1. /\ Len(q) \in Nat \ {0} /\ Head(q) = q[1]
      /\ Tail(q) \in Seq(S) /\ Len(Tail(q)) = Len(q) - 1
      /\ \A i \in 1..Len(Tail(q)) : Tail(q)[i] = q[i + 1]
  BY HeadTailProperties, EmptySeq, LenProperties
<1>2. CASE Len(q) = 1
  <2>1. Len(Tail(q)) = 0
    BY <1>1, <1>2
  <2>2. Tail(q) = <<>>
    BY <1>1, <2>1, EmptySeq
  <2> QED BY <1>1, <1>2, <2>2
<1>3. CASE Len(q) # 1
  <2>1. /\ Len(q) - 1 \in 1..Len(Tail(q)) /\ (Len(q) - 1) + 1 = Len(q)
        /\ Len(Tail(q)) # 0
    BY <1>1, <1>3
  <2>2. Tail(q) # <<>>
    <3>1. Len(<<>>) = 0
      OBVIOUS
    <3> QED BY <2>1, <3>1
  <2> QED BY <1>1, <2>1, <2>2
<1> QED BY <1>2, <1>3

\* fill_capture_control_data makes well-formed flags for every attempt.
LEMMA FlagsType ==
    ASSUME NEW n PROVE Flags(n) \in FlagSet
BY DEF Flags, FlagSet

LEMMA NotToldType == NotTold \in Control
BY FlagsType DEF NotTold, Control

LEMMA TextureDataType ==
    ASSUME NEW t \in Texs, NEW n \in NFds
    PROVE  TextureData(t, n) \in GameMessage
BY DEF TextureData, GameMessage

LEMMA ClientDataType ==
    ASSUME NEW e \in Exes
    PROVE  ClientData(e) \in GameMessage
BY DEF ClientData, GameMessage

\* The initial sockets have their types.
LEMMA SockInitType == SockInit => SockTypeOK
<1> SUFFICES ASSUME SockInit PROVE SockTypeOK OBVIOUS
<1>1. <<>> \in Seq(GameMessage) /\ <<>> \in Seq(Control)
  OBVIOUS
<1> QED
  BY <1>1, NotToldType, MaxConnsAssumption, MaxTexAssumption DEF SockInit, SockTypeOK
============================================================================
