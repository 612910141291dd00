-------------------------- MODULE WlCursor_proofs --------------------------
(***************************************************************************)
(* What WlCursor keeps for every finite set of outputs, every set of       *)
(* shapes and any bounds: the plugin and the compositor act at their own   *)
(* pace, and what one of them believes of the other is right but for the   *)
(* events still on the wire. The invariant says so for each output on its  *)
(* own, and a step about one output leaves that of the others alone.       *)
(***************************************************************************)
EXTENDS WlCursor, FiniteSetTheorems, SequenceTheorems, TLAPS

-----------------------------------------------------------------------------
(***************************************************************************)
(* The inductive invariant: the wire es, seen by one output.               *)
(***************************************************************************)

\* An event about o of one of the kinds is on the wire es.
Waits(es, o, kinds) ==
    \E i \in DOMAIN es : es[i].out = o /\ es[i].kind \in kinds

\* At most one of this kind is.
Once(es, o, kind) ==
    \A i, j \in DOMAIN es :
        (es[i].out = o /\ es[i].kind = kind /\ es[j].out = o /\ es[j].kind = kind)
            => i = j

\* Each event of these kinds has one of the other kind behind it.
Followed(es, o, kinds, kind) ==
    \A i \in DOMAIN es :
        (es[i].out = o /\ es[i].kind \in kinds)
            => \E j \in DOMAIN es : j > i /\ es[j].out = o /\ es[j].kind = kind

PointerKinds == {"enter", "leave"}
InfoKinds == {"cursor_info", "cursor_info_damaged"}
BufferKinds == {"dmabuf_info", "shm_info"}

\* The last thing on the wire about the pointer is what the compositor told.
LastTold(es, o, t) ==
    \A i \in DOMAIN es :
        (es[i].out = o /\ es[i].kind \in PointerKinds)
            => \/ \E j \in DOMAIN es : j > i /\ es[j].out = o /\ es[j].kind \in PointerKinds
               \/ es[i].kind = "enter" /\ t = TRUE
               \/ es[i].kind = "leave" /\ t = FALSE

\* Each cursor_info is about the image im, and says that it is new unless the
\* texture shows it.
InfoIsCurrent(es, o, im, tex) ==
    \A i \in DOMAIN es :
        (es[i].out = o /\ es[i].kind \in InfoKinds)
            => es[i].hot = im /\ (es[i].kind = "cursor_info_damaged" \/ tex = im)

\* For an output o with d = data[o], s = stage[o], t = told[o], im = image[o],
\* where K are the outputs the plugin knows and P those there are:

\* only an output the plugin knows has a session, or events of one;
KnownPart(o, es, d, s, t, im, K) ==
    IF o \in K THEN s # "none" /\ ~Waits(es, o, {"global"})
    ELSE d = NewOutput /\ s = "none" /\ t = FALSE /\ im = Blank /\ ~Waits(es, o, SessionKinds)

\* it is announced once, and removed when it is gone;
GlobalPart(o, es, P) ==
    Once(es, o, "global") /\ (o \in P => ~Waits(es, o, {"global_remove"}))

\* the plugin holds a session that lives, a failure is on the wire until the
\* session is made anew, and one that will not be made anew has nothing left;
StagePart(o, es, d, s, t) ==
    /\ s \in Live \cup {"off"} => d.session = TRUE
    /\ Waits(es, o, {"failed"}) => s = "failed"
    /\ Waits(es, o, {"failed_disabled"}) => s = "off"
    /\ s = "off" => Waits(es, o, {"failed_disabled"})
    /\ (s = "failed" /\ ~Waits(es, o, {"failed"}))
         => d.buffer = FALSE /\ d.have_cursor = FALSE /\ t = FALSE /\ ~Waits(es, o, SessionKinds)

\* a session is described once, its buffers before init_done, and has been
\* committed to only with a buffer, without which there is no texture;
DescribedPart(o, es, d, s) ==
    /\ Once(es, o, "init_done")
    /\ Followed(es, o, BufferKinds, "init_done")
    /\ Waits(es, o, {"init_done"}) => s \in {"described", "off", "failed"}
    /\ (s = "described" /\ ~Waits(es, o, {"init_done"})) => d.buffer = FALSE
    /\ s \in {"waiting", "copied"} => d.buffer = TRUE
    /\ d.buffer = FALSE => d.texture = FALSE

\* one ready waits for each copy, behind the cursor_info that goes with it;
CopiedPart(o, es, s) ==
    /\ Once(es, o, "ready")
    /\ Followed(es, o, InfoKinds, "ready")
    /\ Waits(es, o, {"ready"}) => s \in {"copied", "off", "failed"}
    /\ s = "copied" => Waits(es, o, {"ready"})

\* once a cursor_info is handled the texture, if there is one, shows the image,
\* or is about to take it when the ready behind it is handled; the image is in
\* a buffer;
Shown(d, im) == IF d.texture = TRUE THEN d.tex ELSE im

ImagePart(o, es, d, im) ==
    im # Blank =>
        /\ d.buffer = TRUE
        /\ InfoIsCurrent(es, o, im, Shown(d, im))
        /\ ~Waits(es, o, InfoKinds) =>
              /\ d.hot = im
              /\ Shown(d, im) = im \/ (d.damaged = TRUE /\ Waits(es, o, {"ready"}))

\* and have_cursor is what the compositor told, once that is handled.
ToldPart(o, es, d, t) ==
    /\ LastTold(es, o, t)
    /\ ~Waits(es, o, PointerKinds) => d.have_cursor = t

OutputInv(o, es, d, s, t, im, K, P) ==
    /\ KnownPart(o, es, d, s, t, im, K)
    /\ GlobalPart(o, es, P)
    /\ StagePart(o, es, d, s, t)
    /\ DescribedPart(o, es, d, s)
    /\ CopiedPart(o, es, s)
    /\ ImagePart(o, es, d, im)
    /\ ToldPart(o, es, d, t)

\* The connection outlives the sources by the thread's teardown alone, and what
\* that has freed or forgotten is not found again; nothing waits for an output
\* unless there is a wlcursor on the connection, and then every output there is
\* is known or announced.
Connected ==
    /\ (instances = 0 /\ ending \in {"no", "unset", "closed"}) => ~wlcursor
    /\ (instances = 0 /\ ending = "no") => ~display
    /\ ending = "freed" => wlcursor
    /\ (~wlcursor \/ ending = "freed") => outputs = <<>> /\ severed = FALSE
    /\ ~Registered => \A i \in DOMAIN events : events[i].out = NoOutput
    /\ Registered => \A o \in present : o \in Known \/ Waits(events, o, {"global"})

OutputsInv ==
    \A o \in Outputs :
        OutputInv(o, events, data[o], stage[o], told[o], image[o], Known, present)

\* The compositor has nothing left of a connection that was closed.
NothingLeft ==
    \A o \in Outputs : stage[o] = "none" /\ told[o] = FALSE /\ image[o] = Blank

\* The inductive invariant.
WlInv ==
    /\ WlTypeOK
    /\ Connected
    /\ IF severed THEN NothingLeft ELSE OutputsInv

-----------------------------------------------------------------------------
(***************************************************************************)
(* Queues of events: what is taken, sent and dropped.                      *)
(***************************************************************************)

\* Everything that the invariant says of the events about o on the wire es is
\* also true of fs.
Kept(o, es, fs) ==
    /\ \A kinds : Waits(fs, o, kinds) <=> Waits(es, o, kinds)
    /\ \A kind : Once(es, o, kind) => Once(fs, o, kind)
    /\ \A kinds, kind : Followed(es, o, kinds, kind) => Followed(fs, o, kinds, kind)
    /\ \A t : LastTold(es, o, t) => LastTold(fs, o, t)
    /\ \A im, tex : InfoIsCurrent(es, o, im, tex) => InfoIsCurrent(fs, o, im, tex)

Wire == Seq(Events \cup {Dropped, Abandoned})

\* The events about o are the same, in the same order, one place further on.
LEMMA ShiftKeeps ==
    ASSUME NEW o, NEW es \in Wire, NEW fs \in Wire, NEW k \in {0, 1},
           \A i \in DOMAIN es : es[i].out = o => i - k \in DOMAIN fs /\ fs[i - k] = es[i],
           \A j \in DOMAIN fs : fs[j].out = o => j + k \in DOMAIN es /\ es[j + k] = fs[j]
    PROVE  Kept(o, es, fs)
<1>0. /\ DOMAIN es \subseteq Int /\ DOMAIN fs \subseteq Int
      /\ \A i \in DOMAIN es : i - k + k = i
      /\ \A i, j \in Int : j > i + k => j - k > i
      /\ \A i, j \in Int : j - k = i - k => i = j
      /\ \A i, j \in Int : i + k = j + k => i = j
  BY DEF Wire
<1>1. ASSUME NEW kinds  PROVE Waits(fs, o, kinds) <=> Waits(es, o, kinds)
  BY DEF Waits
<1>2. ASSUME NEW kind, Once(es, o, kind)  PROVE Once(fs, o, kind)
  BY <1>0, <1>2 DEF Once
<1>3. ASSUME NEW kinds, NEW kind, Followed(es, o, kinds, kind)
      PROVE  Followed(fs, o, kinds, kind)
  <2> SUFFICES ASSUME NEW j \in DOMAIN fs, fs[j].out = o, fs[j].kind \in kinds
               PROVE  \E n \in DOMAIN fs : n > j /\ fs[n].out = o /\ fs[n].kind = kind
    BY DEF Followed
  <2> PICK i \in DOMAIN es : i > j + k /\ es[i].out = o /\ es[i].kind = kind
    BY <1>3 DEF Followed
  <2>1. i - k \in DOMAIN fs /\ i - k > j /\ fs[i - k] = es[i]
    BY <1>0
  <2> QED BY <2>1
<1>4. ASSUME NEW t, LastTold(es, o, t)  PROVE LastTold(fs, o, t)
  <2> SUFFICES ASSUME NEW j \in DOMAIN fs, fs[j].out = o, fs[j].kind \in PointerKinds
               PROVE  \/ \E n \in DOMAIN fs : n > j /\ fs[n].out = o /\ fs[n].kind \in PointerKinds
                      \/ fs[j].kind = "enter" /\ t = TRUE
                      \/ fs[j].kind = "leave" /\ t = FALSE
    BY DEF LastTold
  <2>1. j + k \in DOMAIN es /\ es[j + k] = fs[j]
    OBVIOUS
  <2>2. CASE \E i \in DOMAIN es : i > j + k /\ es[i].out = o /\ es[i].kind \in PointerKinds
    <3> PICK i \in DOMAIN es : i > j + k /\ es[i].out = o /\ es[i].kind \in PointerKinds
      BY <2>2
    <3>1. i - k \in DOMAIN fs /\ i - k > j /\ fs[i - k] = es[i]
      BY <1>0
    <3> QED BY <3>1
  <2> QED BY <2>1, <2>2, <1>4 DEF LastTold
<1>5. ASSUME NEW im, NEW tex, InfoIsCurrent(es, o, im, tex)
      PROVE  InfoIsCurrent(fs, o, im, tex)
  BY <1>5 DEF InfoIsCurrent
<1> QED BY <1>1, <1>2, <1>3, <1>4, <1>5 DEF Kept

\* An event is taken from the wire.
LEMMA TailTakes ==
    ASSUME NEW o, NEW es \in Wire, es # <<>>
    PROVE  /\ Tail(es) \in Wire
           /\ Head(es) = es[1] /\ 1 \in DOMAIN es
           /\ \A kinds : Waits(es, o, kinds) <=>
                  \/ Head(es).out = o /\ Head(es).kind \in kinds
                  \/ Waits(Tail(es), o, kinds)
           /\ \A kind : Once(es, o, kind) =>
                  /\ Once(Tail(es), o, kind)
                  /\ Head(es).out = o /\ Head(es).kind = kind => ~Waits(Tail(es), o, {kind})
           /\ \A kinds, kind : Followed(es, o, kinds, kind) =>
                  /\ Followed(Tail(es), o, kinds, kind)
                  /\ Waits(Tail(es), o, kinds) => Waits(Tail(es), o, {kind})
                  /\ Head(es).out = o /\ Head(es).kind \in kinds => Waits(Tail(es), o, {kind})
           /\ \A t : LastTold(es, o, t) =>
                  /\ LastTold(Tail(es), o, t)
                  /\ (Head(es).out = o /\ Head(es).kind \in PointerKinds
                      /\ ~Waits(Tail(es), o, PointerKinds))
                        => t = (Head(es).kind = "enter")
           /\ \A im, tex : InfoIsCurrent(es, o, im, tex) =>
                  /\ InfoIsCurrent(Tail(es), o, im, tex)
                  /\ Head(es).out = o /\ Head(es).kind \in InfoKinds
                        => Head(es).hot = im /\ (Head(es).kind = "cursor_info_damaged" \/ tex = im)
           /\ Head(es).out # o => Kept(o, es, Tail(es))
<1> DEFINE fs == Tail(es)
           e == Head(es)
<1>0. /\ fs \in Wire /\ e = es[1] /\ 1 \in DOMAIN es
      /\ \A i \in DOMAIN es : i \in Int /\ (i = 1 \/ (i - 1 \in DOMAIN fs /\ fs[i - 1] = es[i]))
      /\ \A j \in DOMAIN fs : j \in Int /\ j >= 1 /\ j + 1 \in DOMAIN es /\ es[j + 1] = fs[j]
  BY DEF Wire
<1> HIDE DEF fs, e
<1>1. ASSUME NEW kinds
      PROVE  Waits(es, o, kinds) <=> (e.out = o /\ e.kind \in kinds) \/ Waits(fs, o, kinds)
  BY <1>0 DEF Waits
<1>2. ASSUME NEW kind, Once(es, o, kind)
      PROVE  /\ Once(fs, o, kind)
             /\ e.out = o /\ e.kind = kind => ~Waits(fs, o, {kind})
  <2>1. \A i, j \in Int : i + 1 = j + 1 => i = j
    OBVIOUS
  <2>2. Once(fs, o, kind)
    BY <1>0, <1>2, <2>1 DEF Once
  <2>3. \A j \in DOMAIN fs : j + 1 # 1
    BY <1>0
  <2> QED BY <1>0, <1>2, <2>2, <2>3 DEF Once, Waits
<1>3. ASSUME NEW kinds, NEW kind, Followed(es, o, kinds, kind)
      PROVE  /\ Followed(fs, o, kinds, kind)
             /\ Waits(fs, o, kinds) => Waits(fs, o, {kind})
             /\ e.out = o /\ e.kind \in kinds => Waits(fs, o, {kind})
  <2>1. ASSUME NEW j \in DOMAIN fs, fs[j].out = o, fs[j].kind \in kinds
        PROVE  \E n \in DOMAIN fs : n > j /\ fs[n].out = o /\ fs[n].kind = kind
    <3> PICK i \in DOMAIN es : i > j + 1 /\ es[i].out = o /\ es[i].kind = kind
      BY <1>0, <1>3, <2>1 DEF Followed
    <3>1. i - 1 \in DOMAIN fs /\ i - 1 > j /\ fs[i - 1] = es[i]
      BY <1>0
    <3> QED BY <3>1
  <2>2. ASSUME e.out = o, e.kind \in kinds  PROVE Waits(fs, o, {kind})
    <3> PICK i \in DOMAIN es : i > 1 /\ es[i].out = o /\ es[i].kind = kind
      BY <1>0, <1>3, <2>2 DEF Followed
    <3>1. i - 1 \in DOMAIN fs /\ fs[i - 1] = es[i]
      BY <1>0
    <3> QED BY <3>1 DEF Waits
  <2> QED BY <2>1, <2>2 DEF Followed, Waits
<1>4. ASSUME NEW t, LastTold(es, o, t)
      PROVE  /\ LastTold(fs, o, t)
             /\ (e.out = o /\ e.kind \in PointerKinds /\ ~Waits(fs, o, PointerKinds))
                    => t = (e.kind = "enter")
  <2>1. ASSUME NEW j \in DOMAIN fs, fs[j].out = o, fs[j].kind \in PointerKinds
        PROVE  \/ \E n \in DOMAIN fs : n > j /\ fs[n].out = o /\ fs[n].kind \in PointerKinds
               \/ fs[j].kind = "enter" /\ t = TRUE
               \/ fs[j].kind = "leave" /\ t = FALSE
    <3>1. CASE \E i \in DOMAIN es : i > j + 1 /\ es[i].out = o /\ es[i].kind \in PointerKinds
      <4> PICK i \in DOMAIN es : i > j + 1 /\ es[i].out = o /\ es[i].kind \in PointerKinds
        BY <3>1
      <4>1. i - 1 \in DOMAIN fs /\ i - 1 > j /\ fs[i - 1] = es[i]
        BY <1>0
      <4> QED BY <4>1
    <3>2. j + 1 \in DOMAIN es /\ es[j + 1] = fs[j]
      BY <1>0
    <3>3. CASE ~\E i \in DOMAIN es : i > j + 1 /\ es[i].out = o /\ es[i].kind \in PointerKinds
      BY <1>4, <2>1, <3>2, <3>3 DEF LastTold
    <3> QED BY <3>1, <3>3
  <2>2. ASSUME e.out = o, e.kind \in PointerKinds, ~Waits(fs, o, PointerKinds)
        PROVE  t = (e.kind = "enter")
    <3>1. ~\E i \in DOMAIN es : i > 1 /\ es[i].out = o /\ es[i].kind \in PointerKinds
      BY <1>0, <2>2 DEF Waits
    <3>2. (e.kind = "enter" /\ t = TRUE) \/ (e.kind = "leave" /\ t = FALSE)
      BY <1>0, <1>4, <2>2, <3>1 DEF LastTold
    <3> QED BY <3>2
  <2>3. LastTold(fs, o, t)
    BY <2>1 DEF LastTold
  <2> QED BY <2>2, <2>3
<1>5. ASSUME NEW im, NEW tex, InfoIsCurrent(es, o, im, tex)
      PROVE  /\ InfoIsCurrent(fs, o, im, tex)
             /\ e.out = o /\ e.kind \in InfoKinds
                    => e.hot = im /\ (e.kind = "cursor_info_damaged" \/ tex = im)
  BY <1>0, <1>5 DEF InfoIsCurrent
<1>6. ASSUME e.out # o  PROVE Kept(o, es, fs)
  <2>1. \A i \in DOMAIN es : es[i].out = o => i - 1 \in DOMAIN fs /\ fs[i - 1] = es[i]
    BY <1>0, <1>6
  <2>2. \A j \in DOMAIN fs : fs[j].out = o => j + 1 \in DOMAIN es /\ es[j + 1] = fs[j]
    BY <1>0
  <2> QED BY <1>0, <2>1, <2>2, ShiftKeeps
<1> QED BY <1>0, <1>1, <1>2, <1>3, <1>4, <1>5, <1>6 DEF fs, e

\* Two steps that keep what is about o.
LEMMA KeptTwice ==
    ASSUME NEW o, NEW es, NEW fs, NEW gs, Kept(o, es, fs), Kept(o, fs, gs)
    PROVE  Kept(o, es, gs)
  BY DEF Kept

\* Events are sent.
LEMMA SendAdds ==
    ASSUME NEW o, NEW es \in Wire, NEW new \in Wire
    PROVE  /\ es \o new \in Wire
           /\ \A kinds : Waits(es \o new, o, kinds) <=> Waits(es, o, kinds) \/ Waits(new, o, kinds)
           /\ \A kind :
                  (IF Waits(new, o, {kind}) THEN Once(new, o, kind) /\ ~Waits(es, o, {kind})
                   ELSE Once(es, o, kind)) => Once(es \o new, o, kind)
           /\ \A kinds, kind :
                  Followed(es, o, kinds, kind) /\ Followed(new, o, kinds, kind)
                      => Followed(es \o new, o, kinds, kind)
           /\ \A t : (IF Waits(new, o, PointerKinds) THEN LastTold(new, o, t)
                      ELSE LastTold(es, o, t)) => LastTold(es \o new, o, t)
           /\ \A im, tex : InfoIsCurrent(es, o, im, tex) /\ InfoIsCurrent(new, o, im, tex)
                               => InfoIsCurrent(es \o new, o, im, tex)
           /\ (\A i \in DOMAIN new : new[i].out # o) => Kept(o, es, es \o new)
<1> DEFINE fs == es \o new
           n == Len(es)
<1>0. /\ fs \in Wire /\ n \in Nat
      /\ \A i \in DOMAIN es : i \in Int /\ i <= n /\ i \in DOMAIN fs /\ fs[i] = es[i]
      /\ \A i \in DOMAIN new : i \in Int /\ i >= 1 /\ i + n \in DOMAIN fs /\ fs[i + n] = new[i]
      /\ \A i \in DOMAIN fs : /\ i \in Int
                              /\ \/ i <= n /\ i \in DOMAIN es /\ fs[i] = es[i]
                                 \/ i > n /\ i - n \in DOMAIN new /\ fs[i] = new[i - n]
  BY DEF Wire
<1> HIDE DEF fs, n
<1>1. ASSUME NEW kinds
      PROVE  Waits(fs, o, kinds) <=> Waits(es, o, kinds) \/ Waits(new, o, kinds)
  BY <1>0 DEF Waits
<1>2. ASSUME NEW kind, IF Waits(new, o, {kind}) THEN Once(new, o, kind) /\ ~Waits(es, o, {kind})
                       ELSE Once(es, o, kind)
      PROVE  Once(fs, o, kind)
  <2> SUFFICES ASSUME NEW i \in DOMAIN fs, NEW j \in DOMAIN fs,
                      fs[i].out = o, fs[i].kind = kind, fs[j].out = o, fs[j].kind = kind
               PROVE  i = j
    BY DEF Once
  <2>1. CASE Once(es, o, kind) /\ ~Waits(new, o, {kind})
    <3>1. i \in DOMAIN es /\ fs[i] = es[i] /\ j \in DOMAIN es /\ fs[j] = es[j]
      BY <1>0, <2>1 DEF Waits
    <3> QED BY <2>1, <3>1 DEF Once
  <2>2. CASE Once(new, o, kind) /\ ~Waits(es, o, {kind})
    <3>1. i - n \in DOMAIN new /\ fs[i] = new[i - n] /\ j - n \in DOMAIN new /\ fs[j] = new[j - n]
      BY <1>0, <2>2 DEF Waits
    <3>2. i - n = j - n
      BY <2>2, <3>1 DEF Once
    <3> QED BY <1>0, <3>2
  <2> QED BY <1>2, <2>1, <2>2
<1>3. ASSUME NEW kinds, NEW kind, Followed(es, o, kinds, kind), Followed(new, o, kinds, kind)
      PROVE  Followed(fs, o, kinds, kind)
  <2> SUFFICES ASSUME NEW i \in DOMAIN fs, fs[i].out = o, fs[i].kind \in kinds
               PROVE  \E j \in DOMAIN fs : j > i /\ fs[j].out = o /\ fs[j].kind = kind
    BY DEF Followed
  <2>1. CASE i \in DOMAIN es /\ fs[i] = es[i]
    <3> PICK j \in DOMAIN es : j > i /\ es[j].out = o /\ es[j].kind = kind
      BY <1>3, <2>1 DEF Followed
    <3> QED BY <1>0
  <2>2. CASE i - n \in DOMAIN new /\ fs[i] = new[i - n]
    <3> PICK j \in DOMAIN new : j > i - n /\ new[j].out = o /\ new[j].kind = kind
      BY <1>3, <2>2 DEF Followed
    <3>1. j + n > i /\ j + n \in DOMAIN fs /\ fs[j + n] = new[j]
      BY <1>0
    <3> QED BY <3>1
  <2> QED BY <1>0, <2>1, <2>2
<1>4. ASSUME NEW t, IF Waits(new, o, PointerKinds) THEN LastTold(new, o, t) ELSE LastTold(es, o, t)
      PROVE  LastTold(fs, o, t)
  <2> SUFFICES ASSUME NEW i \in DOMAIN fs, fs[i].out = o, fs[i].kind \in PointerKinds,
                      ~\E j \in DOMAIN fs : j > i /\ fs[j].out = o /\ fs[j].kind \in PointerKinds
               PROVE  \/ fs[i].kind = "enter" /\ t = TRUE
                      \/ fs[i].kind = "leave" /\ t = FALSE
    BY DEF LastTold
  <2>1. CASE Waits(new, o, PointerKinds)
    <3> PICK m \in DOMAIN new : new[m].out = o /\ new[m].kind \in PointerKinds
      BY <2>1 DEF Waits
    <3>1. m + n \in DOMAIN fs /\ fs[m + n] = new[m]
      BY <1>0
    <3>2. i - n \in DOMAIN new /\ fs[i] = new[i - n]
      BY <1>0, <3>1
    <3>3. ~\E j \in DOMAIN new : j > i - n /\ new[j].out = o /\ new[j].kind \in PointerKinds
      <4> SUFFICES ASSUME NEW j \in DOMAIN new, j > i - n, new[j].out = o,
                          new[j].kind \in PointerKinds
                   PROVE  FALSE
        OBVIOUS
      <4>1. j + n > i /\ j + n \in DOMAIN fs /\ fs[j + n] = new[j]
        BY <1>0
      <4> QED BY <4>1
    <3>4. LastTold(new, o, t)
      BY <1>4, <2>1
    <3> QED BY <3>2, <3>3, <3>4 DEF LastTold
  <2>2. CASE ~Waits(new, o, PointerKinds)
    <3>1. i \in DOMAIN es /\ fs[i] = es[i]
      BY <1>0, <2>2 DEF Waits
    <3>2. ~\E j \in DOMAIN es : j > i /\ es[j].out = o /\ es[j].kind \in PointerKinds
      BY <1>0
    <3>3. LastTold(es, o, t)
      BY <1>4, <2>2
    <3> QED BY <3>1, <3>2, <3>3 DEF LastTold
  <2> QED BY <2>1, <2>2
<1>5. ASSUME NEW im, NEW tex, InfoIsCurrent(es, o, im, tex), InfoIsCurrent(new, o, im, tex)
      PROVE  InfoIsCurrent(fs, o, im, tex)
  BY <1>0, <1>5 DEF InfoIsCurrent
<1>6. ASSUME \A i \in DOMAIN new : new[i].out # o
      PROVE  Kept(o, es, fs)
  <2>1. \A i \in DOMAIN es : es[i].out = o => i - 0 \in DOMAIN fs /\ fs[i - 0] = es[i]
    <3>1. \A i \in DOMAIN es : i - 0 = i
      BY <1>0
    <3> QED BY <1>0, <3>1
  <2>2. \A i \in DOMAIN fs : fs[i].out = o => i + 0 \in DOMAIN es /\ es[i + 0] = fs[i]
    <3>1. \A i \in DOMAIN fs : i + 0 = i
      BY <1>0
    <3> QED BY <1>0, <1>6, <3>1
  <2> QED BY <1>0, <2>1, <2>2, ShiftKeeps
<1> QED BY <1>0, <1>1, <1>2, <1>3, <1>4, <1>5, <1>6 DEF fs

\* The events of a session that is destroyed are dropped.
LEMMA UnheardDrops ==
    ASSUME NEW o \in Outputs, NEW es \in Wire
    PROVE  /\ Unheard(o, es) \in Wire
           /\ ~Waits(Unheard(o, es), o, SessionKinds)
           /\ \A kind \in GlobalKinds :
                  Waits(Unheard(o, es), o, {kind}) <=> Waits(es, o, {kind})
           /\ Once(es, o, "global") => Once(Unheard(o, es), o, "global")
           /\ \A p \in Outputs : p # o => Kept(p, es, Unheard(o, es))
<1> DEFINE fs == Unheard(o, es)
<1>0. /\ fs \in Wire /\ DOMAIN fs = DOMAIN es /\ DOMAIN es \subseteq Int
      /\ \A i \in DOMAIN es :
            fs[i] = IF es[i].out = o /\ es[i].kind \in SessionKinds THEN Dropped ELSE es[i]
  BY DEF Wire, Unheard
<1> HIDE DEF fs
<1>1. Dropped.out \notin Outputs /\ GlobalKinds \cap SessionKinds = {} /\ "global" \in GlobalKinds
  BY NoOutputAssumption DEF Dropped, GlobalKinds, SessionKinds
<1>2. ~Waits(fs, o, SessionKinds)
  BY <1>0, <1>1 DEF Waits
<1>3. ASSUME NEW kind \in GlobalKinds
      PROVE  Waits(fs, o, {kind}) <=> Waits(es, o, {kind})
  BY <1>0, <1>1 DEF Waits
<1>4. Once(es, o, "global") => Once(fs, o, "global")
  BY <1>0, <1>1 DEF Once
<1>5. ASSUME NEW p \in Outputs, p # o
      PROVE  Kept(p, es, fs)
  <2>1. \A i \in DOMAIN es : i - 0 = i /\ i + 0 = i
    BY <1>0
  <2>2. \A i \in DOMAIN es : es[i].out = p \/ fs[i].out = p => fs[i] = es[i]
    BY <1>0, <1>1, <1>5
  <2> QED BY <1>0, <2>1, <2>2, ShiftKeeps
<1> QED BY <1>0, <1>2, <1>3, <1>4, <1>5 DEF fs

\* Where no event of a session waits, nothing is out of order.
LEMMA NothingWaits ==
    ASSUME NEW o, NEW es, ~Waits(es, o, SessionKinds)
    PROVE  /\ \A kinds \in SUBSET SessionKinds : ~Waits(es, o, kinds)
           /\ Once(es, o, "init_done") /\ Once(es, o, "ready")
           /\ Followed(es, o, BufferKinds, "init_done")
           /\ Followed(es, o, InfoKinds, "ready")
           /\ \A t : LastTold(es, o, t)
           /\ \A im, tex : InfoIsCurrent(es, o, im, tex)
<1>1. \A i \in DOMAIN es : es[i].out = o => es[i].kind \notin SessionKinds
  BY DEF Waits
<1>2. /\ BufferKinds \subseteq SessionKinds /\ InfoKinds \subseteq SessionKinds
      /\ PointerKinds \subseteq SessionKinds
      /\ {"init_done", "ready"} \subseteq SessionKinds
  BY DEF BufferKinds, InfoKinds, PointerKinds, SessionKinds
<1> QED BY <1>1, <1>2 DEF Waits, Once, Followed, LastTold, InfoIsCurrent

\* Nothing waits on an empty wire.
LEMMA EmptyWire ==
    ASSUME NEW o
    PROVE  <<>> \in Wire /\ \A kinds : ~Waits(<<>>, o, kinds)
  BY DEF Wire, Waits

-----------------------------------------------------------------------------
(***************************************************************************)
(* wlcursor->outputs: a list that has no output twice.                     *)
(***************************************************************************)

ListOf(list) == list \in Seq(Outputs) /\ IsInjective(list)

\* wl_list_insert of a new output
LEMMA AppendAdds ==
    ASSUME NEW list, ListOf(list), NEW o \in Outputs, o \notin Range(list)
    PROVE  ListOf(Append(list, o)) /\ Range(Append(list, o)) = Range(list) \cup {o}
<1> DEFINE new == Append(list, o)
<1>1. /\ new \in Seq(Outputs) /\ DOMAIN new = 1..(Len(list) + 1) /\ Len(list) \in Nat
      /\ DOMAIN list = 1..Len(list)
      /\ \A i \in 1..Len(list) : new[i] = list[i]
      /\ new[Len(list) + 1] = o
  BY DEF ListOf
<1> HIDE DEF new
<1>2. \A i \in DOMAIN new : i \in DOMAIN list \/ i = Len(list) + 1
  BY <1>1
<1>3. DOMAIN list \subseteq DOMAIN new /\ Len(list) + 1 \in DOMAIN new
  BY <1>1
<1>4. IsInjective(new)
  BY <1>1, <1>2 DEF IsInjective, ListOf, Range
<1>5. Range(new) = Range(list) \cup {o}
  BY <1>1, <1>2, <1>3 DEF Range
<1> QED BY <1>1, <1>4, <1>5 DEF ListOf, new

\* wl_list_remove
LEMMA RemoveRemoves ==
    ASSUME NEW list, ListOf(list), NEW o
    PROVE  ListOf(RemoveFirst(list, o)) /\ Range(RemoveFirst(list, o)) = Range(list) \ {o}
<1> DEFINE new == RemoveFirst(list, o)
<1>0. list \in Seq(Outputs) /\ DOMAIN list = 1..Len(list) /\ Len(list) \in Nat
  BY DEF ListOf
<1>1. CASE o \notin Range(list)
  <2>1. new = list
    BY <1>0, <1>1 DEF RemoveFirst, Range
  <2> QED BY <2>1, <1>1
<1>2. CASE o \in Range(list)
  <2> PICK k \in 1..Len(list) : list[k] = o
    BY <1>0, <1>2 DEF Range
  <2>1. SelectInSeq(list, LAMBDA v : v = o) = k
    <3>1. {i \in 1..Len(list) : list[i] = o} = {k}
      BY <1>0 DEF ListOf, IsInjective
    <3>2. Min({k}) = k
      BY DEF Min
    <3> QED BY <3>1, <3>2 DEF SelectInSeq
  <2>2. new = SubSeq(list, 1, k - 1) \o SubSeq(list, k + 1, Len(list))
    BY <2>1 DEF RemoveFirst, RemoveAt
  <2> DEFINE front == SubSeq(list, 1, k - 1)
             back == SubSeq(list, k + 1, Len(list))
  <2>3. /\ front \in Seq(Outputs) /\ Len(front) = k - 1
        /\ \A n \in 1..(k - 1) : front[n] = list[n]
    BY <1>0
  <2>4. /\ back \in Seq(Outputs) /\ Len(back) = Len(list) - k
        /\ \A n \in 1..(Len(list) - k) : back[n] = list[k + n]
    <3>1. /\ k + 1 \in Int /\ Len(list) \in Int
          /\ \A i \in (k + 1)..Len(list) : list[i] \in Outputs
      BY <1>0
    <3>2. /\ back \in Seq(Outputs)
          /\ Len(back) = IF k + 1 <= Len(list) THEN Len(list) - (k + 1) + 1 ELSE 0
          /\ \A n \in 1..(Len(list) - (k + 1) + 1) : back[n] = list[(k + 1) + n - 1]
      BY <3>1, SubSeqProperties
    <3> HIDE DEF back
    <3>3. Len(list) - (k + 1) + 1 = Len(list) - k
      BY <1>0
    <3>4. Len(back) = Len(list) - k
      <4>1. k \in Int /\ k <= Len(list)
        BY <1>0
      <4>2. CASE k + 1 <= Len(list)
        BY <3>2, <3>3, <4>2
      <4>3. CASE ~(k + 1 <= Len(list))
        <5>1. \A m, n \in Int : m <= n /\ ~(m + 1 <= n) => n = m
          OBVIOUS
        <5>2. Len(list) = k
          BY <3>1, <4>1, <4>3, <5>1
        <5>3. Len(list) - k = 0
          BY <4>1, <5>2
        <5> QED BY <3>2, <4>3, <5>3
      <4> QED BY <4>2, <4>3
    <3>5. ASSUME NEW n \in 1..(Len(list) - k)  PROVE back[n] = list[k + n]
      <4>1. (k + 1) + n - 1 = k + n
        BY <1>0
      <4> QED BY <3>2, <3>3, <4>1
    <3> QED BY <3>2, <3>4, <3>5
  <2>a. new = front \o back
    BY <2>2
  <2> HIDE DEF front, back, new
  <2>5. /\ new \in Seq(Outputs) /\ Len(new) = Len(list) - 1
        /\ \A n \in 1..(Len(list) - 1) :
              new[n] = IF n < k THEN front[n] ELSE back[n - (k - 1)]
        <3>1. /\ front \in Seq(Outputs) /\ back \in Seq(Outputs)
          /\ Len(front) + Len(back) = Len(list) - 1
      BY <1>0, <2>3, <2>4
    <3>2. /\ new \in Seq(Outputs) /\ Len(new) = Len(front) + Len(back)
          /\ \A n \in 1..(Len(front) + Len(back)) :
                new[n] = IF n <= Len(front) THEN front[n] ELSE back[n - Len(front)]
      BY <2>a, <3>1, ConcatProperties
    <3>3. ASSUME NEW n \in 1..(Len(list) - 1)
          PROVE  new[n] = IF n < k THEN front[n] ELSE back[n - (k - 1)]
      <4>1. n <= k - 1 <=> n < k
        BY <1>0
      <4> QED BY <2>3, <3>1, <3>2, <4>1
    <3> QED BY <3>1, <3>2, <3>3
  <2>6. \A n \in 1..(Len(list) - 1) : new[n] = IF n < k THEN list[n] ELSE list[n + 1]
    <3> TAKE n \in 1..(Len(list) - 1)
    <3>1. CASE n < k
      BY <2>3, <2>5, <3>1
    <3>2. CASE ~(n < k)
      <4>1. n - (k - 1) \in 1..(Len(list) - k) /\ k + (n - (k - 1)) = n + 1
        BY <1>0, <3>2
      <4> QED BY <2>4, <2>5, <3>2, <4>1
    <3> QED BY <3>1, <3>2
  <2> DEFINE at(n) == IF n < k THEN n ELSE n + 1
  <2>7. \A n \in DOMAIN new : at(n) \in DOMAIN list /\ at(n) # k /\ new[n] = list[at(n)]
    BY <1>0, <2>5, <2>6
  <2>8. \A i \in DOMAIN list : i # k => \E n \in DOMAIN new : at(n) = i
    <3> TAKE i \in DOMAIN list
    <3> HAVE i # k
    <3>1. CASE i < k
      <4>1. i \in DOMAIN new /\ at(i) = i
        BY <1>0, <2>5, <3>1
      <4> QED BY <4>1
    <3>2. CASE ~(i < k)
      <4>1. i - 1 \in DOMAIN new /\ at(i - 1) = i
        BY <1>0, <2>5, <3>2
      <4> QED BY <4>1
    <3> QED BY <3>1, <3>2
  <2>9. \A m, n \in DOMAIN new : at(m) = at(n) => m = n
    BY <1>0, <2>5
  <2> HIDE DEF at
  <2>10. IsInjective(new)
    BY <2>7, <2>9 DEF IsInjective, ListOf
  <2>11. \A i \in DOMAIN list : list[i] = o <=> i = k
    BY <1>0 DEF ListOf, IsInjective
  <2>12. Range(new) = Range(list) \ {o}
    <3>1. ASSUME NEW n \in DOMAIN new  PROVE new[n] \in Range(list) \ {o}
      BY <2>7, <2>11 DEF Range
    <3>2. ASSUME NEW i \in DOMAIN list, list[i] # o  PROVE list[i] \in Range(new)
      <4> PICK n \in DOMAIN new : at(n) = i
        BY <2>8, <2>11, <3>2
      <4> QED BY <2>7 DEF Range
    <3> QED BY <3>1, <3>2 DEF Range
  <2> QED BY <2>5, <2>10, <2>12 DEF ListOf, new
<1> QED BY <1>1, <1>2

\* An order of the outputs there are has each of them, once.
LEMMA OrderHasAll ==
    ASSUME NEW S \in SUBSET Outputs, NEW order \in SetToSeqs(S)
    PROVE  ListOf(order) /\ Range(order) = S
<1> DEFINE n == Cardinality(S)
<1>1. IsFiniteSet(S) /\ n \in Nat
  BY OutputsAssumption, FS_Subset, FS_CardinalityType
<1>2. order \in [1..n -> S] /\ \A i, j \in 1..n : i # j => order[i] # order[j]
  BY DEF SetToSeqs
<1>3. IsFiniteSet(1..n) /\ Cardinality(1..n) = n
  BY <1>1, FS_Interval
<1> HIDE DEF n
<1>4. IsInjective(order)
  BY <1>2 DEF IsInjective
<1>5. order \in Injection(1..n, S)
  BY <1>2, <1>4 DEF Injection
<1>6. order \in Surjection(1..n, S)
  BY <1>1, <1>3, <1>5, FS_Injection DEF n
<1>7. Range(order) = S
  BY <1>2, <1>6 DEF Surjection, Range
<1>8. order \in Seq(Outputs)
  BY <1>1, <1>2
<1> QED BY <1>4, <1>7, <1>8 DEF ListOf

-----------------------------------------------------------------------------
(***************************************************************************)
(* What a step does to the invariant of one output.                        *)
(***************************************************************************)

\* What happens to other outputs leaves an output's invariant alone.
LEMMA OthersKeep ==
    ASSUME NEW o, NEW es, NEW fs, Kept(o, es, fs),
           NEW d, NEW s, NEW t, NEW im, NEW K, NEW P, NEW L, NEW Q,
           OutputInv(o, es, d, s, t, im, K, P),
           o \in L <=> o \in K, o \in Q => o \in P
    PROVE  OutputInv(o, fs, d, s, t, im, L, Q)
<1>1. KnownPart(o, fs, d, s, t, im, L)
  BY DEF Kept, OutputInv, KnownPart
<1>2. GlobalPart(o, fs, Q)
  BY DEF Kept, OutputInv, GlobalPart
<1>3. StagePart(o, fs, d, s, t)
  BY DEF Kept, OutputInv, StagePart
<1>4. DescribedPart(o, fs, d, s)
  BY DEF Kept, OutputInv, DescribedPart
<1>5. CopiedPart(o, fs, s)
  BY DEF Kept, OutputInv, CopiedPart
<1>6. ImagePart(o, fs, d, im)
  BY DEF Kept, OutputInv, ImagePart
<1>7. ToldPart(o, fs, d, t)
  BY DEF Kept, OutputInv, ToldPart
<1> QED BY <1>1, <1>2, <1>3, <1>4, <1>5, <1>6, <1>7 DEF OutputInv

\* session_handle_cursor_buffer_info
LEMMA BufferInfoKeeps ==
    ASSUME NEW o, NEW es \in Wire, es # <<>>, Head(es).out = o, Head(es).kind \in BufferKinds,
           NEW d \in OutputData, NEW s, NEW t, NEW im, NEW K, NEW P,
           OutputInv(o, es, d, s, t, im, K, P),
           NEW b \in BOOLEAN, NEW x \in BOOLEAN, x => b, NEW e \in OutputData,
           e = IF d.buffer = TRUE THEN d ELSE [d EXCEPT !.buffer = b, !.texture = x]
    PROVE  OutputInv(o, Tail(es), e, s, t, im, K, P)
<1> USE TailTakes
<1>0. /\ e.session = d.session /\ e.tex = d.tex /\ e.hot = d.hot
      /\ e.damaged = d.damaged /\ e.have_cursor = d.have_cursor
      /\ d.buffer = TRUE => e = d
      /\ d.buffer = FALSE => e.buffer = b /\ e.texture = x
      /\ d.buffer \in BOOLEAN
  BY DEF OutputData
<1>a. /\ BufferKinds \subseteq SessionKinds /\ BufferKinds \cap InfoKinds = {}
      /\ BufferKinds \cap PointerKinds = {}
      /\ BufferKinds \cap (GlobalKinds \cup {"init_done", "ready", "failed", "failed_disabled"}) = {}
  BY DEF BufferKinds, SessionKinds, InfoKinds, PointerKinds, GlobalKinds
<1>1. KnownPart(o, Tail(es), e, s, t, im, K)
  BY <1>a DEF OutputInv, KnownPart
<1>2. GlobalPart(o, Tail(es), P)
  BY <1>a DEF OutputInv, GlobalPart
<1>3. StagePart(o, Tail(es), e, s, t)
  BY <1>0, <1>a DEF OutputInv, StagePart, GlobalKinds
<1>4. DescribedPart(o, Tail(es), e, s)
  BY <1>0, <1>a DEF OutputInv, DescribedPart
<1>5. CopiedPart(o, Tail(es), s)
  BY <1>a DEF OutputInv, CopiedPart
<1>6. ImagePart(o, Tail(es), e, im)
  BY <1>0, <1>a DEF OutputInv, ImagePart
<1>7. ToldPart(o, Tail(es), e, t)
  BY <1>0, <1>a DEF OutputInv, ToldPart
<1> QED BY <1>1, <1>2, <1>3, <1>4, <1>5, <1>6, <1>7 DEF OutputInv

\* The stage after a commit; a session that failed takes none.
Commit(s) == IF s \in Live THEN "waiting" ELSE s

\* session_handle_init_done
LEMMA InitDoneKeeps ==
    ASSUME NEW o, NEW es \in Wire, es # <<>>, Head(es).out = o, Head(es).kind = "init_done",
           NEW d \in OutputData, NEW s \in Stages, NEW t, NEW im, NEW K, NEW P,
           OutputInv(o, es, d, s, t, im, K, P),
           NEW r, r = IF d.buffer = TRUE THEN Commit(s) ELSE s
    PROVE  OutputInv(o, Tail(es), d, r, t, im, K, P)
<1> USE TailTakes
<1>a. s \in {"described", "off", "failed"}
  <2>1. Waits(es, o, {"init_done"})
    OBVIOUS
  <2> QED BY <2>1 DEF OutputInv, DescribedPart
<1>0. /\ s \in {"described", "off", "failed"}
      /\ r = s \/ (r = "waiting" /\ s = "described" /\ d.buffer = TRUE)
      /\ s = "described" => r = "waiting" \/ d.buffer = FALSE
  <2>1. d.buffer \in BOOLEAN
    BY DEF OutputData
  <2> QED BY <1>a, <2>1 DEF Commit, Live
<1>1. KnownPart(o, Tail(es), d, r, t, im, K)
  BY <1>0 DEF OutputInv, KnownPart, SessionKinds
<1>2. GlobalPart(o, Tail(es), P)
  BY DEF OutputInv, GlobalPart
<1>3. StagePart(o, Tail(es), d, r, t)
  <2>1. "init_done" \in SessionKinds
    BY DEF SessionKinds
  <2>2. \A kinds : Waits(es, o, kinds) <=> "init_done" \in kinds \/ Waits(Tail(es), o, kinds)
    <3>1. ASSUME NEW kinds
          PROVE  Waits(es, o, kinds) <=> \/ Head(es).out = o /\ Head(es).kind \in kinds
                                         \/ Waits(Tail(es), o, kinds)
      BY TailTakes, ZenonT(40)
    <3> QED BY ONLY <3>1, Head(es).out = o, Head(es).kind = "init_done"
  <2>3. StagePart(o, es, d, s, t)
    BY DEF OutputInv
  <2>4. s # "failed" \/ Waits(es, o, {"failed"})
    BY ONLY <2>1, <2>2, <2>3 DEF StagePart
  <2> QED BY ONLY <1>0, <2>2, <2>3, <2>4 DEF StagePart, Live
<1>4. DescribedPart(o, Tail(es), d, r)
  <2>1. ~Waits(Tail(es), o, {"init_done"})
    BY DEF OutputInv, DescribedPart
  <2>2. DescribedPart(o, es, d, s)
    BY DEF OutputInv
  <2>3. Once(Tail(es), o, "init_done")
    BY <2>2 DEF DescribedPart
  <2>4. Followed(Tail(es), o, BufferKinds, "init_done")
    BY <2>2 DEF DescribedPart
  <2>5. d.buffer = FALSE => d.texture = FALSE
    BY <2>2 DEF DescribedPart
  <2> QED BY <1>0, <2>1, <2>3, <2>4, <2>5 DEF DescribedPart
<1>5. CopiedPart(o, Tail(es), r)
  <2>1. CopiedPart(o, es, s)
    BY DEF OutputInv
  <2>2. Waits(Tail(es), o, {"ready"}) => s \in {"off", "failed"}
    BY <1>a, <2>1 DEF CopiedPart
  <2>3. r # "copied"
    BY <1>0
  <2>4. Waits(Tail(es), o, {"ready"}) => r \in {"off", "failed"}
    BY <1>0, <2>2
  <2> QED BY <2>1, <2>3, <2>4 DEF CopiedPart
<1>6. ImagePart(o, Tail(es), d, im)
  BY DEF OutputInv, ImagePart, InfoKinds
<1>7. ToldPart(o, Tail(es), d, t)
  BY DEF OutputInv, ToldPart, PointerKinds
<1> QED BY <1>1, <1>2, <1>3, <1>4, <1>5, <1>6, <1>7 DEF OutputInv

\* session_handle_cursor_info
LEMMA CursorInfoKeeps ==
    ASSUME NEW o, NEW es \in Wire, es # <<>>, Head(es).out = o, Head(es).kind \in InfoKinds,
           NEW d \in OutputData, NEW s \in Stages, NEW t, NEW im, NEW K, NEW P,
           OutputInv(o, es, d, s, t, im, K, P),
           NEW e, e = [d EXCEPT !.hot = Head(es).hot,
                                !.damaged = Damaged(o, Head(es).kind = "cursor_info_damaged")]
    PROVE  OutputInv(o, Tail(es), e, s, t, im, K, P)
<1> USE TailTakes
<1>0. /\ e.session = d.session /\ e.buffer = d.buffer /\ e.texture = d.texture
      /\ e.tex = d.tex /\ e.have_cursor = d.have_cursor /\ e.hot = Head(es).hot
      /\ Head(es).kind = "cursor_info_damaged" => e.damaged = TRUE
  BY DEF OutputData, Damaged
<1>b. Shown(e, im) = Shown(d, im)
  BY <1>0 DEF Shown
<1>a. /\ InfoKinds \subseteq SessionKinds /\ BufferKinds \cap InfoKinds = {}
      /\ InfoKinds \cap PointerKinds = {}
      /\ InfoKinds \cap (GlobalKinds \cup {"init_done", "ready", "failed", "failed_disabled"}) = {}
  BY DEF BufferKinds, SessionKinds, InfoKinds, PointerKinds, GlobalKinds
<1>1. KnownPart(o, Tail(es), e, s, t, im, K)
  BY <1>a DEF OutputInv, KnownPart
<1>2. GlobalPart(o, Tail(es), P)
  <2>1. GlobalPart(o, es, P)
    BY DEF OutputInv
  <2> QED BY <2>1, ZenonT(40) DEF GlobalPart
<1>3. StagePart(o, Tail(es), e, s, t)
  BY <1>0, <1>a DEF OutputInv, StagePart
<1>4. DescribedPart(o, Tail(es), e, s)
  BY <1>0, <1>a DEF OutputInv, DescribedPart
<1>5. CopiedPart(o, Tail(es), s)
  BY <1>a DEF OutputInv, CopiedPart
<1>6. ImagePart(o, Tail(es), e, im)
  <2>1. Waits(Tail(es), o, {"ready"})
    BY DEF OutputInv, CopiedPart
  <2>2. ASSUME im # Blank
        PROVE  /\ InfoIsCurrent(Tail(es), o, im, Shown(d, im)) /\ d.buffer = TRUE
               /\ Head(es).hot = im
               /\ Head(es).kind = "cursor_info_damaged" \/ Shown(d, im) = im
    <3>1. InfoIsCurrent(es, o, im, Shown(d, im)) /\ d.buffer = TRUE
      BY <2>2 DEF OutputInv, ImagePart
    <3> DEFINE tex == Shown(d, im)
    <3>2. InfoIsCurrent(es, o, im, tex)
      BY <3>1
    <3> HIDE DEF tex
    <3>3. /\ InfoIsCurrent(Tail(es), o, im, tex)
          /\ Head(es).hot = im /\ (Head(es).kind = "cursor_info_damaged" \/ tex = im)
      BY <3>2, ZenonT(40)
    <3> QED BY ONLY <3>1, <3>3 DEF tex
  <2> QED BY <1>0, <1>b, <2>1, <2>2 DEF ImagePart
<1>7. ToldPart(o, Tail(es), e, t)
  BY <1>0, <1>a DEF OutputInv, ToldPart
<1> QED BY <1>1, <1>2, <1>3, <1>4, <1>5, <1>6, <1>7 DEF OutputInv

\* session_handle_cursor_enter and session_handle_cursor_leave
LEMMA PointerKeeps ==
    ASSUME NEW o, NEW es \in Wire, es # <<>>, Head(es).out = o, Head(es).kind \in PointerKinds,
           NEW d \in OutputData, NEW s \in Stages, NEW t \in BOOLEAN, NEW im, NEW K, NEW P,
           OutputInv(o, es, d, s, t, im, K, P),
           NEW b \in BOOLEAN, b <=> Head(es).kind = "enter",
           NEW e, e = [d EXCEPT !.have_cursor = b]
    PROVE  OutputInv(o, Tail(es), e, s, t, im, K, P)
<1> USE TailTakes
<1>0. /\ e.session = d.session /\ e.buffer = d.buffer /\ e.texture = d.texture
      /\ Shown(e, im) = Shown(d, im)
      /\ e.damaged = d.damaged /\ e.hot = d.hot /\ e.have_cursor = b
  BY DEF OutputData, Shown
<1>a. /\ PointerKinds \subseteq SessionKinds /\ BufferKinds \cap PointerKinds = {}
      /\ InfoKinds \cap PointerKinds = {}
      /\ PointerKinds \cap (GlobalKinds \cup {"init_done", "ready", "failed", "failed_disabled"}) = {}
  BY DEF BufferKinds, SessionKinds, InfoKinds, PointerKinds, GlobalKinds
<1>b. Waits(es, o, SessionKinds)
  BY <1>a
<1>1. KnownPart(o, Tail(es), e, s, t, im, K)
  BY <1>a, <1>b DEF OutputInv, KnownPart
<1>2. GlobalPart(o, Tail(es), P)
  BY DEF OutputInv, GlobalPart
<1>3. StagePart(o, Tail(es), e, s, t)
  BY <1>0, <1>a, <1>b DEF OutputInv, StagePart
<1>4. DescribedPart(o, Tail(es), e, s)
  BY <1>0, <1>a DEF OutputInv, DescribedPart
<1>5. CopiedPart(o, Tail(es), s)
  BY <1>a DEF OutputInv, CopiedPart
<1>6. ImagePart(o, Tail(es), e, im)
  BY <1>0, <1>a DEF OutputInv, ImagePart
<1>7. ToldPart(o, Tail(es), e, t)
  <2>1. LastTold(Tail(es), o, t)
    BY DEF OutputInv, ToldPart
  <2>2. ~Waits(Tail(es), o, PointerKinds) => t = (Head(es).kind = "enter")
    BY DEF OutputInv, ToldPart
  <2>3. ~Waits(Tail(es), o, PointerKinds) => b = t
    BY <2>2
  <2> QED BY <1>0, <2>1, <2>3 DEF ToldPart
<1> QED BY <1>1, <1>2, <1>3, <1>4, <1>5, <1>6, <1>7 DEF OutputInv

\* session_handle_ready
LEMMA ReadyKeeps ==
    ASSUME NEW o, NEW es \in Wire, es # <<>>, Head(es).out = o, Head(es).kind = "ready",
           NEW d \in OutputData, NEW s \in Stages, NEW t, NEW im \in Images, NEW K, NEW P,
           OutputInv(o, es, d, s, t, im, K, P),
           NEW e, e = [d EXCEPT !.tex = IF d.damaged = TRUE /\ d.texture = TRUE THEN im ELSE @]
    PROVE  OutputInv(o, Tail(es), e, Commit(s), t, im, K, P)
<1> USE TailTakes
<1> DEFINE r == Commit(s)
<1>0. /\ e.session = d.session /\ e.buffer = d.buffer /\ e.texture = d.texture
      /\ e.damaged = d.damaged /\ e.hot = d.hot /\ e.have_cursor = d.have_cursor
      /\ Shown(e, im) = IF d.damaged = TRUE THEN im ELSE Shown(d, im)
  BY DEF OutputData, Shown
<1>a. /\ s \in {"copied", "off", "failed"}
      /\ (s = "copied" /\ r = "waiting") \/ (s \in {"off", "failed"} /\ r = s)
  BY DEF OutputInv, CopiedPart, Commit, Live
<1>b. ~Waits(Tail(es), o, {"ready"})
  BY DEF OutputInv, CopiedPart
<1>c. Waits(es, o, SessionKinds)
  <2>1. "ready" \in SessionKinds
    BY DEF SessionKinds
  <2> QED BY <2>1
<1> HIDE DEF r
<1>1. KnownPart(o, Tail(es), e, r, t, im, K)
  BY <1>a, <1>c DEF OutputInv, KnownPart
<1>2. GlobalPart(o, Tail(es), P)
  BY DEF OutputInv, GlobalPart
<1>3. StagePart(o, Tail(es), e, r, t)
  BY <1>0, <1>a, <1>c DEF OutputInv, StagePart, Live
<1>4. DescribedPart(o, Tail(es), e, r)
  BY <1>0, <1>a DEF OutputInv, DescribedPart
<1>5. CopiedPart(o, Tail(es), r)
  BY <1>a, <1>b DEF OutputInv, CopiedPart
<1>6. ImagePart(o, Tail(es), e, im)
  <2>1. ~Waits(es, o, InfoKinds)
    <3>1. Followed(es, o, InfoKinds, "ready") /\ "ready" \notin InfoKinds
      BY DEF OutputInv, CopiedPart, InfoKinds
    <3>2. ~Waits(Tail(es), o, InfoKinds)
      BY <1>b, <3>1
    <3>3. Waits(es, o, InfoKinds) <=> Head(es).kind \in InfoKinds \/ Waits(Tail(es), o, InfoKinds)
      OBVIOUS
    <3> QED BY <3>1, <3>2, <3>3
  <2>2. im # Blank => d.buffer = TRUE /\ d.hot = im /\ (Shown(d, im) = im \/ d.damaged = TRUE)
    BY <2>1 DEF OutputInv, ImagePart
  <2>3. ~Waits(Tail(es), o, InfoKinds)
    BY <2>1
  <2>4. InfoIsCurrent(Tail(es), o, im, Shown(e, im))
    BY <2>3 DEF InfoIsCurrent, Waits
  <2> QED BY <1>0, <2>2, <2>4 DEF ImagePart
<1>7. ToldPart(o, Tail(es), e, t)
  BY <1>0 DEF OutputInv, ToldPart, PointerKinds
<1> QED BY <1>1, <1>2, <1>3, <1>4, <1>5, <1>6, <1>7 DEF OutputInv, r

\* An output with no session, a new one, or one that failed and was reset.
LEMMA FreshOutput ==
    ASSUME NEW o, NEW es, NEW d, NEW s, NEW t, NEW im, NEW K, NEW P,
           ~Waits(es, o, SessionKinds), KnownPart(o, es, d, s, t, im, K), GlobalPart(o, es, P),
           d.buffer = FALSE, d.texture = FALSE, d.have_cursor = FALSE, t = FALSE, im = Blank,
           s \in {"none", "new", "failed"}, s = "new" => d.session = TRUE
    PROVE  OutputInv(o, es, d, s, t, im, K, P)
<1>1. /\ {"failed"} \subseteq SessionKinds /\ {"failed_disabled"} \subseteq SessionKinds
      /\ {"init_done"} \subseteq SessionKinds /\ {"ready"} \subseteq SessionKinds
  BY DEF SessionKinds
<1>2. /\ ~Waits(es, o, {"failed"}) /\ ~Waits(es, o, {"failed_disabled"})
      /\ ~Waits(es, o, {"init_done"}) /\ ~Waits(es, o, {"ready"})
  BY <1>1, NothingWaits
<1>3. StagePart(o, es, d, s, t)
  BY <1>2 DEF StagePart, Live
<1>4. DescribedPart(o, es, d, s)
  BY <1>2, NothingWaits DEF DescribedPart
<1>5. CopiedPart(o, es, s)
  BY <1>2, NothingWaits DEF CopiedPart
<1>6. ImagePart(o, es, d, im)
  BY DEF ImagePart
<1>7. ToldPart(o, es, d, t)
  BY NothingWaits DEF ToldPart
<1> QED BY <1>3, <1>4, <1>5, <1>6, <1>7 DEF OutputInv

\* handle_global, after wl_cursor_init
LEMMA GlobalKeeps ==
    ASSUME NEW o, NEW es \in Wire, es # <<>>, Head(es).out = o, Head(es).kind = "global",
           NEW d, NEW s, NEW t, NEW im, NEW K, NEW P, NEW L, o \in L,
           OutputInv(o, es, d, s, t, im, K, P)
    PROVE  /\ o \notin K
           /\ OutputInv(o, Tail(es), Captured(NewOutput), "new", FALSE, Blank, L, P)
<1> USE TailTakes
<1>1. Waits(es, o, {"global"})
  OBVIOUS
<1>2. o \notin K /\ ~Waits(es, o, SessionKinds)
  BY <1>1 DEF OutputInv, KnownPart
<1>3. ~Waits(Tail(es), o, SessionKinds)
  BY <1>2
<1>4. ~Waits(Tail(es), o, {"global"})
  BY DEF OutputInv, GlobalPart
<1>5. GlobalPart(o, Tail(es), P)
  BY DEF OutputInv, GlobalPart
<1>6. KnownPart(o, Tail(es), Captured(NewOutput), "new", FALSE, Blank, L)
  BY <1>4 DEF KnownPart
<1>7. /\ Captured(NewOutput).buffer = FALSE /\ Captured(NewOutput).have_cursor = FALSE
      /\ Captured(NewOutput).texture = FALSE
      /\ Captured(NewOutput).session = TRUE
  BY DEF Captured, NewOutput
<1> QED BY <1>2, <1>3, <1>5, <1>6, <1>7, FreshOutput

\* handle_global_remove
LEMMA GlobalRemoveKeeps ==
    ASSUME NEW o \in Outputs, NEW es \in Wire, es # <<>>,
           Head(es).out = o, Head(es).kind = "global_remove",
           NEW d, NEW s, NEW t, NEW im, NEW K, NEW P, NEW L, o \notin L,
           OutputInv(o, es, d, s, t, im, K, P)
    PROVE  /\ o \notin P
           /\ OutputInv(o, Unheard(o, Tail(es)), NewOutput, "none", FALSE, Blank, L, P)
<1> DEFINE fs == Unheard(o, Tail(es))
<1>1. Waits(es, o, {"global_remove"})
  BY TailTakes
<1>2. o \notin P
  BY <1>1 DEF OutputInv, GlobalPart
<1>3. Tail(es) \in Wire /\ Once(Tail(es), o, "global")
  BY TailTakes DEF OutputInv, GlobalPart
<1>4. ~Waits(fs, o, SessionKinds) /\ Once(fs, o, "global")
  BY <1>3, UnheardDrops
<1> HIDE DEF fs
<1>5. GlobalPart(o, fs, P)
  BY <1>2, <1>4 DEF GlobalPart
<1>6. KnownPart(o, fs, NewOutput, "none", FALSE, Blank, L)
  BY <1>4 DEF KnownPart
<1>7. NewOutput.buffer = FALSE /\ NewOutput.texture = FALSE /\ NewOutput.have_cursor = FALSE
  BY DEF NewOutput
<1>8. OutputInv(o, fs, NewOutput, "none", FALSE, Blank, L, P)
  BY <1>4, <1>5, <1>6, <1>7, FreshOutput
<1> QED BY <1>2, <1>8 DEF fs

\* session_handle_failed
LEMMA FailedKeeps ==
    ASSUME NEW o \in Outputs, NEW es \in Wire, es # <<>>,
           Head(es).out = o, Head(es).kind \in {"failed", "failed_disabled"},
           NEW d, NEW s, NEW t, NEW im, NEW K, NEW P,
           OutputInv(o, es, d, s, t, im, K, P)
    PROVE  /\ o \in K
           /\ Head(es).kind = "failed" =>
                OutputInv(o, Unheard(o, Tail(es)), Reset(d), s, FALSE, Blank, K, P)
           /\ Head(es).kind = "failed_disabled" =>
                OutputInv(o, Unheard(o, Tail(es)), Captured(Reset(d)), "new", FALSE, Blank, K, P)
<1> DEFINE fs == Unheard(o, Tail(es))
<1>0. {"failed", "failed_disabled"} \subseteq SessionKinds
  BY DEF SessionKinds
<1>1. Waits(es, o, SessionKinds) /\ Waits(es, o, {Head(es).kind})
  BY <1>0, TailTakes
<1>2. o \in K /\ ~Waits(es, o, {"global"})
  BY <1>1 DEF OutputInv, KnownPart
<1>3. /\ Tail(es) \in Wire /\ Once(Tail(es), o, "global")
      /\ ~Waits(Tail(es), o, {"global"})
      /\ o \in P => ~Waits(Tail(es), o, {"global_remove"})
  BY <1>2, TailTakes DEF OutputInv, GlobalPart
<1>4. /\ ~Waits(fs, o, SessionKinds) /\ Once(fs, o, "global")
      /\ ~Waits(fs, o, {"global"})
      /\ o \in P => ~Waits(fs, o, {"global_remove"})
  BY <1>3, UnheardDrops DEF GlobalKinds
<1> HIDE DEF fs
<1>5. GlobalPart(o, fs, P)
  BY <1>4 DEF GlobalPart
<1>6. /\ Reset(d).buffer = FALSE /\ Reset(d).texture = FALSE /\ Reset(d).have_cursor = FALSE
      /\ Captured(Reset(d)).texture = FALSE
      /\ Captured(Reset(d)).buffer = FALSE /\ Captured(Reset(d)).have_cursor = FALSE
      /\ Captured(Reset(d)).session = TRUE
  BY DEF Captured, Reset, NewOutput
<1>7. ASSUME Head(es).kind = "failed"
      PROVE  OutputInv(o, fs, Reset(d), s, FALSE, Blank, K, P)
  <2>1. s = "failed"
    BY <1>1, <1>7 DEF OutputInv, StagePart
  <2>2. KnownPart(o, fs, Reset(d), s, FALSE, Blank, K)
    BY <1>2, <1>4, <2>1 DEF KnownPart
  <2> QED BY <1>4, <1>5, <1>6, <2>1, <2>2, FreshOutput
<1>8. OutputInv(o, fs, Captured(Reset(d)), "new", FALSE, Blank, K, P)
  <2>1. KnownPart(o, fs, Captured(Reset(d)), "new", FALSE, Blank, K)
    BY <1>2, <1>4 DEF KnownPart
  <2> QED BY <1>4, <1>5, <1>6, <2>1, FreshOutput
<1> QED BY <1>2, <1>7, <1>8 DEF fs

\* One event is sent.
LEMMA OneEvent ==
    ASSUME NEW o, NEW e \in Events
    PROVE  /\ <<e>> \in Wire
           /\ \A kinds : Waits(<<e>>, o, kinds) <=> e.out = o /\ e.kind \in kinds
           /\ \A kind : Once(<<e>>, o, kind)
           /\ \A kinds, kind : e.kind \notin kinds => Followed(<<e>>, o, kinds, kind)
           /\ \A t \in BOOLEAN :
                 (e.kind \in PointerKinds => (t <=> e.kind = "enter")) => LastTold(<<e>>, o, t)
           /\ \A im, tex : e.kind \notin InfoKinds => InfoIsCurrent(<<e>>, o, im, tex)
<1>1. /\ <<e>> \in Wire /\ DOMAIN <<e>> = {1} /\ <<e>>[1] = e
  BY DEF Wire
<1>2. ASSUME NEW kinds  PROVE Waits(<<e>>, o, kinds) <=> e.out = o /\ e.kind \in kinds
  BY <1>1 DEF Waits
<1>3. ASSUME NEW kind  PROVE Once(<<e>>, o, kind)
  BY <1>1 DEF Once
<1>4. ASSUME NEW kinds, NEW kind, e.kind \notin kinds  PROVE Followed(<<e>>, o, kinds, kind)
  BY <1>1, <1>4 DEF Followed
<1>5. ASSUME NEW t \in BOOLEAN, e.kind \in PointerKinds => (t <=> e.kind = "enter")
      PROVE  LastTold(<<e>>, o, t)
  <2>1. e.kind \in PointerKinds =>
            (e.kind = "enter" /\ t = TRUE) \/ (e.kind = "leave" /\ t = FALSE)
    BY <1>5 DEF PointerKinds
  <2> QED BY <1>1, <2>1 DEF LastTold
<1>6. ASSUME NEW im, NEW tex, e.kind \notin InfoKinds  PROVE InfoIsCurrent(<<e>>, o, im, tex)
  BY <1>1, <1>6 DEF InfoIsCurrent
<1> QED BY <1>1, <1>2, <1>3, <1>4, <1>5, <1>6

\* A new session is described.
LEMMA DescribeKeeps ==
    ASSUME NEW o \in Outputs, NEW es \in Wire, NEW new \in Wire,
           \A i \in DOMAIN new : new[i].out = o,
           NEW n \in Nat \ {0}, DOMAIN new = 1..n,
           \A i \in DOMAIN new : new[i].kind = "init_done" <=> i = n,
           \A i \in DOMAIN new : i # n => new[i].kind \in BufferKinds,
           NEW d, NEW s, s = "new", NEW t, NEW im, NEW K, NEW P,
           OutputInv(o, es, d, s, t, im, K, P)
    PROVE  OutputInv(o, es \o new, d, "described", t, im, K, P)
<1> USE SendAdds
<1>0. \A i \in DOMAIN new : new[i].kind \in BufferKinds \cup {"init_done"}
  OBVIOUS
<1>1. ~Waits(es, o, {"init_done"}) /\ ~Waits(es, o, {"ready"})
      /\ ~Waits(es, o, {"failed"}) /\ ~Waits(es, o, {"failed_disabled"})
  BY DEF OutputInv, DescribedPart, CopiedPart, StagePart
<1>2. /\ Once(new, o, "init_done")
      /\ Followed(new, o, BufferKinds, "init_done")
      /\ \A kinds : kinds \cap (BufferKinds \cup {"init_done"}) = {} => ~Waits(new, o, kinds)
  <2>1. Once(new, o, "init_done")
    BY DEF Once
  <2>2. Followed(new, o, BufferKinds, "init_done")
    BY DEF Followed, BufferKinds
  <2>3. ASSUME NEW kinds, kinds \cap (BufferKinds \cup {"init_done"}) = {}
        PROVE  ~Waits(new, o, kinds)
    BY <1>0, <2>3 DEF Waits
  <2> QED BY <2>1, <2>2, <2>3
<1>3. /\ ~Waits(new, o, {"global"}) /\ ~Waits(new, o, {"global_remove"})
      /\ ~Waits(new, o, {"ready"}) /\ ~Waits(new, o, {"failed"})
      /\ ~Waits(new, o, {"failed_disabled"})
      /\ ~Waits(new, o, InfoKinds) /\ ~Waits(new, o, PointerKinds)
  <2>1. ASSUME NEW kinds \in {{"global"}, {"global_remove"}, {"ready"}, {"failed"},
                              {"failed_disabled"}, InfoKinds, PointerKinds}
        PROVE  ~Waits(new, o, kinds)
    <3>1. kinds \cap (BufferKinds \cup {"init_done"}) = {}
      BY <2>1 DEF BufferKinds, InfoKinds, PointerKinds
    <3> QED BY <1>2, <3>1
  <2> QED BY <2>1
<1>4. /\ Followed(new, o, InfoKinds, "ready")
      /\ \A x, tex : InfoIsCurrent(new, o, x, tex)
  BY <1>3 DEF Waits, Followed, InfoIsCurrent
<1>5. o \in K
  BY DEF OutputInv, KnownPart
<1>6. KnownPart(o, es \o new, d, "described", t, im, K)
  BY <1>3, <1>5 DEF OutputInv, KnownPart
<1>7. GlobalPart(o, es \o new, P)
  BY <1>3 DEF OutputInv, GlobalPart
<1>8. StagePart(o, es \o new, d, "described", t)
  BY <1>1, <1>3 DEF OutputInv, StagePart, Live
<1>9. DescribedPart(o, es \o new, d, "described")
  <2>1. n \in DOMAIN new /\ new[n].kind = "init_done"
    OBVIOUS
  <2>2. Waits(es \o new, o, {"init_done"})
    <3>1. Waits(new, o, {"init_done"})
      BY <2>1 DEF Waits
    <3> QED BY <3>1
  <2>3. Once(es \o new, o, "init_done")
    BY <1>1, <1>2 DEF OutputInv, DescribedPart
  <2>4. Followed(es, o, BufferKinds, "init_done")
    BY DEF OutputInv, DescribedPart
  <2>5. Followed(es \o new, o, BufferKinds, "init_done")
    BY <1>2, <2>4
  <2>6. d.buffer = FALSE => d.texture = FALSE
    BY DEF OutputInv, DescribedPart
  <2> QED BY <2>2, <2>3, <2>5, <2>6 DEF DescribedPart
<1>10. CopiedPart(o, es \o new, "described")
  BY <1>1, <1>3, <1>4 DEF OutputInv, CopiedPart
<1>11. ImagePart(o, es \o new, d, im)
  BY <1>3, <1>4 DEF OutputInv, ImagePart
<1>12. ToldPart(o, es \o new, d, t)
  BY <1>3 DEF OutputInv, ToldPart
<1> QED BY <1>6, <1>7, <1>8, <1>9, <1>10, <1>11, <1>12 DEF OutputInv

\* The session is told where the pointer is.
LEMMA NotifyKeeps ==
    ASSUME NEW o \in Outputs, NEW es \in Wire, NEW e \in Events, e.out = o,
           NEW d, NEW s \in Live \ {"new"}, NEW t \in BOOLEAN, NEW im, NEW K, NEW P,
           OutputInv(o, es, d, s, t, im, K, P),
           e.kind = IF t THEN "leave" ELSE "enter"
    PROVE  OutputInv(o, es \o <<e>>, d, s, ~t, im, K, P)
<1> DEFINE fs == es \o <<e>>
<1>0. /\ \A kinds : Waits(fs, o, kinds) <=> Waits(es, o, kinds) \/ e.kind \in kinds
      /\ \A kind : kind \notin PointerKinds => (Once(es, o, kind) => Once(fs, o, kind))
      /\ \A kinds, kind : kinds \cap PointerKinds = {} =>
            (Followed(es, o, kinds, kind) => Followed(fs, o, kinds, kind))
      /\ \A x, tex : InfoIsCurrent(es, o, x, tex) => InfoIsCurrent(fs, o, x, tex)
      /\ LastTold(fs, o, ~t)
      /\ e.kind \in PointerKinds
  <2>1. e.kind \in PointerKinds /\ (~t <=> e.kind = "enter") /\ e.kind \notin InfoKinds
    BY DEF PointerKinds, InfoKinds
  <2>2. <<e>> \in Wire /\ Waits(<<e>>, o, PointerKinds) /\ LastTold(<<e>>, o, ~t)
    BY <2>1, OneEvent
  <2>3. LastTold(fs, o, ~t)
    BY <2>2, SendAdds
  <2>4. ASSUME NEW kinds  PROVE Waits(fs, o, kinds) <=> Waits(es, o, kinds) \/ e.kind \in kinds
    BY <2>2, OneEvent, SendAdds
  <2>5. ASSUME NEW kind, kind \notin PointerKinds, Once(es, o, kind)  PROVE Once(fs, o, kind)
    <3>1. ~Waits(<<e>>, o, {kind})
      BY <2>1, <2>5, OneEvent
    <3> QED BY <2>2, <2>5, <3>1, SendAdds
  <2>6. ASSUME NEW kinds, NEW kind, kinds \cap PointerKinds = {}, Followed(es, o, kinds, kind)
        PROVE  Followed(fs, o, kinds, kind)
    <3>1. Followed(<<e>>, o, kinds, kind)
      BY <2>1, <2>6, OneEvent
    <3> QED BY <2>2, <2>6, <3>1, SendAdds
  <2>7. ASSUME NEW x, NEW tex, InfoIsCurrent(es, o, x, tex)  PROVE InfoIsCurrent(fs, o, x, tex)
    <3>1. InfoIsCurrent(<<e>>, o, x, tex)
      BY <2>1, OneEvent
    <3> QED BY <2>2, <2>7, <3>1, SendAdds
  <2> QED BY <2>1, <2>3, <2>4, <2>5, <2>6, <2>7
<1> HIDE DEF fs
<1>a. /\ PointerKinds \cap (GlobalKinds \cup {"init_done", "ready", "failed", "failed_disabled"}) = {}
      /\ InfoKinds \cap PointerKinds = {} /\ BufferKinds \cap PointerKinds = {}
      /\ "global" \in GlobalKinds /\ "global_remove" \in GlobalKinds
  BY DEF InfoKinds, BufferKinds, PointerKinds, GlobalKinds
<1>b. s # "none" /\ s # "failed"
  BY DEF Live
<1>1. KnownPart(o, fs, d, s, ~t, im, K)
  BY <1>0, <1>a, <1>b DEF OutputInv, KnownPart
<1>2. GlobalPart(o, fs, P)
  BY <1>0, <1>a DEF OutputInv, GlobalPart
<1>3. StagePart(o, fs, d, s, ~t)
  BY <1>0, <1>a, <1>b DEF OutputInv, StagePart
<1>4. DescribedPart(o, fs, d, s)
  BY <1>0, <1>a DEF OutputInv, DescribedPart
<1>5. CopiedPart(o, fs, s)
  BY <1>0, <1>a DEF OutputInv, CopiedPart
<1>6. ImagePart(o, fs, d, im)
  BY <1>0, <1>a DEF OutputInv, ImagePart
<1>7. ToldPart(o, fs, d, ~t)
  BY <1>0 DEF ToldPart
<1> QED BY <1>1, <1>2, <1>3, <1>4, <1>5, <1>6, <1>7 DEF OutputInv, fs

\* The pointer is copied into the buffer.
LEMMA CopyCursorKeeps ==
    ASSUME NEW o \in Outputs, NEW es \in Wire, NEW e \in Events, NEW r \in Events,
           e.out = o, r.out = o, r.kind = "ready",
           NEW d, NEW s, s = "waiting", NEW t, NEW im, NEW x, NEW K, NEW P,
           OutputInv(o, es, d, s, t, im, K, P),
           e.kind = IF im = x THEN "cursor_info" ELSE "cursor_info_damaged",
           e.hot = x, x # Blank
    PROVE  OutputInv(o, es \o <<e, r>>, d, "copied", t, x, K, P)
<1> DEFINE new == <<e, r>>
           fs == es \o new
<1>0. /\ new \in Wire /\ DOMAIN new = {1, 2} /\ new[1] = e /\ new[2] = r
      /\ e.kind \in InfoKinds
  BY DEF Wire, InfoKinds
<1>a. ~Waits(es, o, {"ready"})
  BY DEF OutputInv, CopiedPart
<1>b. ~Waits(es, o, InfoKinds)
  <2>1. ASSUME Waits(es, o, InfoKinds)  PROVE Waits(es, o, {"ready"})
    BY <2>1 DEF OutputInv, CopiedPart, Followed, Waits
  <2> QED BY <1>a, <2>1
<1>c. im # Blank => Shown(d, im) = im
  BY <1>a, <1>b DEF OutputInv, ImagePart
<1>h. d.buffer = TRUE
  BY DEF OutputInv, DescribedPart
<1> HIDE DEF new
<1>d. /\ \A kinds : Waits(new, o, kinds) <=> e.kind \in kinds \/ "ready" \in kinds
      /\ Once(new, o, "ready")
      /\ Followed(new, o, InfoKinds, "ready") /\ Followed(new, o, BufferKinds, "init_done")
      /\ InfoIsCurrent(new, o, x, Shown(d, x))
  <2>1. ASSUME NEW kinds  PROVE Waits(new, o, kinds) <=> e.kind \in kinds \/ "ready" \in kinds
    BY <1>0 DEF Waits
  <2>2. Once(new, o, "ready")
    BY <1>0 DEF Once, InfoKinds
  <2>3. Followed(new, o, InfoKinds, "ready") /\ Followed(new, o, BufferKinds, "init_done")
    <3>1. r.kind \notin InfoKinds /\ r.kind \notin BufferKinds /\ e.kind \notin BufferKinds
      BY <1>0 DEF InfoKinds, BufferKinds
    <3>2. 2 \in DOMAIN new /\ 2 > 1 /\ new[2].out = o /\ new[2].kind = "ready"
      BY <1>0
    <3> QED BY <1>0, <3>1, <3>2 DEF Followed
  <2>4. InfoIsCurrent(new, o, x, Shown(d, x))
    <3>1. r.kind \notin InfoKinds
      BY DEF InfoKinds
    <3>2. e.kind = "cursor_info_damaged" \/ Shown(d, x) = x
      BY <1>c
    <3> QED BY <1>0, <3>1, <3>2 DEF InfoIsCurrent
  <2> QED BY <2>1, <2>2, <2>3, <2>4
<1>e. /\ InfoKinds \cap (GlobalKinds \cup {"init_done", "failed", "failed_disabled"}) = {}
      /\ InfoKinds \cap PointerKinds = {} /\ "ready" \notin PointerKinds
      /\ "global" \in GlobalKinds /\ "global_remove" \in GlobalKinds
  BY DEF InfoKinds, BufferKinds, PointerKinds, GlobalKinds
<1>f. \A kinds : Waits(fs, o, kinds) <=> Waits(es, o, kinds) \/ Waits(new, o, kinds)
  BY <1>0, SendAdds
<1>g. /\ ~Waits(new, o, {"global"}) /\ ~Waits(new, o, {"global_remove"})
      /\ ~Waits(new, o, {"init_done"}) /\ ~Waits(new, o, {"failed"})
      /\ ~Waits(new, o, {"failed_disabled"}) /\ ~Waits(new, o, PointerKinds)
      /\ Waits(new, o, {"ready"}) /\ Waits(new, o, InfoKinds)
  BY <1>0, <1>d, <1>e
<1>1. KnownPart(o, fs, d, "copied", t, x, K)
  BY <1>f, <1>g DEF OutputInv, KnownPart
<1>2. GlobalPart(o, fs, P)
  BY <1>0, <1>f, <1>g, SendAdds DEF OutputInv, GlobalPart
<1>3. StagePart(o, fs, d, "copied", t)
  BY <1>f, <1>g DEF OutputInv, StagePart, Live
<1>4. DescribedPart(o, fs, d, "copied")
  BY <1>0, <1>d, <1>f, <1>g, SendAdds DEF OutputInv, DescribedPart
<1>5. CopiedPart(o, fs, "copied")
  BY <1>0, <1>a, <1>d, <1>f, <1>g, SendAdds DEF OutputInv, CopiedPart
<1>6. ImagePart(o, fs, d, x)
  <2>1. InfoIsCurrent(es, o, x, Shown(d, x))
    BY <1>b DEF InfoIsCurrent, Waits
  <2> QED BY <1>0, <1>h, <1>d, <1>f, <1>g, <2>1, SendAdds DEF ImagePart
<1>7. ToldPart(o, fs, d, t)
  BY <1>0, <1>f, <1>g, SendAdds DEF OutputInv, ToldPart
<1> QED BY <1>1, <1>2, <1>3, <1>4, <1>5, <1>6, <1>7 DEF OutputInv, fs, new

\* An event that says nothing of the pointer or the buffer's image is sent.
LEMMA PlainAdds ==
    ASSUME NEW o, NEW es \in Wire, NEW e \in Events, e.out = o,
           e.kind \in GlobalKinds \cup {"ready", "failed", "failed_disabled"}
    PROVE  /\ \A kinds : Waits(es \o <<e>>, o, kinds) <=> Waits(es, o, kinds) \/ e.kind \in kinds
           /\ \A kind : Once(es, o, kind) /\ (kind = e.kind => ~Waits(es, o, {kind}))
                            => Once(es \o <<e>>, o, kind)
           /\ Followed(es, o, BufferKinds, "init_done")
                  => Followed(es \o <<e>>, o, BufferKinds, "init_done")
           /\ Followed(es, o, InfoKinds, "ready") => Followed(es \o <<e>>, o, InfoKinds, "ready")
           /\ \A t : LastTold(es, o, t) => LastTold(es \o <<e>>, o, t)
           /\ \A im, tex : InfoIsCurrent(es, o, im, tex) => InfoIsCurrent(es \o <<e>>, o, im, tex)
           /\ e.kind \notin InfoKinds /\ e.kind \notin PointerKinds /\ e.kind \notin BufferKinds
           /\ e.kind # "init_done"
<1>1. /\ e.kind \notin InfoKinds /\ e.kind \notin PointerKinds /\ e.kind \notin BufferKinds
      /\ e.kind # "init_done"
  BY DEF InfoKinds, PointerKinds, BufferKinds, GlobalKinds
<1>2. /\ <<e>> \in Wire /\ ~Waits(<<e>>, o, PointerKinds)
      /\ Followed(<<e>>, o, BufferKinds, "init_done") /\ Followed(<<e>>, o, InfoKinds, "ready")
      /\ \A im, tex : InfoIsCurrent(<<e>>, o, im, tex)
  BY <1>1, OneEvent
<1>3. ASSUME NEW kinds
      PROVE  Waits(es \o <<e>>, o, kinds) <=> Waits(es, o, kinds) \/ e.kind \in kinds
  BY <1>2, OneEvent, SendAdds
<1>4. ASSUME NEW kind, Once(es, o, kind), kind = e.kind => ~Waits(es, o, {kind})
      PROVE  Once(es \o <<e>>, o, kind)
  <2>1. /\ Once(<<e>>, o, kind)
        /\ Waits(<<e>>, o, {kind}) => kind = e.kind
    BY OneEvent
  <2> QED BY <1>2, <1>4, <2>1, SendAdds
<1>5. /\ Followed(es, o, BufferKinds, "init_done")
             => Followed(es \o <<e>>, o, BufferKinds, "init_done")
      /\ Followed(es, o, InfoKinds, "ready") => Followed(es \o <<e>>, o, InfoKinds, "ready")
  BY <1>2, SendAdds
<1>6. \A t : LastTold(es, o, t) => LastTold(es \o <<e>>, o, t)
  BY <1>2, SendAdds
<1>7. \A im, tex : InfoIsCurrent(es, o, im, tex) => InfoIsCurrent(es \o <<e>>, o, im, tex)
  BY <1>2, SendAdds
<1> QED BY <1>1, <1>3, <1>4, <1>5, <1>6, <1>7

\* A frame is copied: the session has nothing to say of the pointer.
LEMMA CopyFrameKeeps ==
    ASSUME NEW o \in Outputs, NEW es \in Wire, NEW e \in Events, e.out = o, e.kind = "ready",
           NEW d, NEW s, s = "waiting", NEW t, NEW im, NEW K, NEW P,
           OutputInv(o, es, d, s, t, im, K, P)
    PROVE  OutputInv(o, es \o <<e>>, d, "copied", t, im, K, P)
<1> DEFINE fs == es \o <<e>>
<1> USE PlainAdds
<1>0. ~Waits(es, o, {"ready"})
  BY DEF OutputInv, CopiedPart
<1>1. KnownPart(o, fs, d, "copied", t, im, K)
  BY DEF OutputInv, KnownPart
<1>2. GlobalPart(o, fs, P)
  BY DEF OutputInv, GlobalPart
<1>3. StagePart(o, fs, d, "copied", t)
  BY DEF OutputInv, StagePart, Live
<1>4. DescribedPart(o, fs, d, "copied")
  BY DEF OutputInv, DescribedPart
<1>5. CopiedPart(o, fs, "copied")
  BY <1>0 DEF OutputInv, CopiedPart
<1>6. ImagePart(o, fs, d, im)
  BY DEF OutputInv, ImagePart
<1>7. ToldPart(o, fs, d, t)
  BY DEF OutputInv, ToldPart
<1> QED BY <1>1, <1>2, <1>3, <1>4, <1>5, <1>6, <1>7 DEF OutputInv, fs

\* A session fails.
LEMMA FailKeeps ==
    ASSUME NEW o \in Outputs, NEW es \in Wire, NEW e \in Events, e.out = o,
           NEW d, NEW s \in Live, NEW t, NEW im, NEW K, NEW P,
           OutputInv(o, es, d, s, t, im, K, P),
           NEW r, \/ r = "off" /\ e.kind = "failed_disabled"
                  \/ r = "failed" /\ e.kind = "failed"
    PROVE  OutputInv(o, es \o <<e>>, d, r, t, im, K, P)
<1> DEFINE fs == es \o <<e>>
<1> USE PlainAdds
<1>0. /\ ~Waits(es, o, {"failed"}) /\ ~Waits(es, o, {"failed_disabled"})
      /\ s # "none"
  BY DEF OutputInv, StagePart, Live
<1>a. e.kind \in {"failed", "failed_disabled"}
  OBVIOUS
<1>1. KnownPart(o, fs, d, r, t, im, K)
  BY <1>0, <1>a DEF OutputInv, KnownPart
<1>2. GlobalPart(o, fs, P)
  BY <1>a DEF OutputInv, GlobalPart
<1>3. StagePart(o, fs, d, r, t)
  BY <1>0, <1>a DEF OutputInv, StagePart, Live
<1>4. DescribedPart(o, fs, d, r)
  BY <1>a DEF OutputInv, DescribedPart
<1>5. CopiedPart(o, fs, r)
  BY <1>a DEF OutputInv, CopiedPart
<1>6. ImagePart(o, fs, d, im)
  BY <1>a DEF OutputInv, ImagePart
<1>7. ToldPart(o, fs, d, t)
  BY <1>a DEF OutputInv, ToldPart
<1> QED BY <1>1, <1>2, <1>3, <1>4, <1>5, <1>6, <1>7 DEF OutputInv, fs

\* An output comes or goes, and the registry says so.
LEMMA PlugKeeps ==
    ASSUME NEW o \in Outputs, NEW es \in Wire, NEW e \in Events, e.out = o,
           NEW d, NEW s, NEW t, NEW im, NEW K, NEW P, NEW Q,
           OutputInv(o, es, d, s, t, im, K, P),
           \/ e.kind = "global_remove" /\ o \notin Q
           \/ e.kind = "global" /\ o \notin K /\ ~Waits(es, o, GlobalKinds)
    PROVE  OutputInv(o, es \o <<e>>, d, s, t, im, K, Q)
<1> DEFINE fs == es \o <<e>>
<1> USE PlainAdds
<1>a. e.kind \in GlobalKinds /\ e.kind \notin SessionKinds
  BY DEF GlobalKinds, SessionKinds
<1>1. KnownPart(o, fs, d, s, t, im, K)
  BY <1>a DEF OutputInv, KnownPart
<1>2. GlobalPart(o, fs, Q)
  <2>1. CASE e.kind = "global_remove" /\ o \notin Q
    BY <1>a, <2>1 DEF OutputInv, GlobalPart
  <2>2. CASE e.kind = "global" /\ o \notin K /\ ~Waits(es, o, GlobalKinds)
    <3>1. ~Waits(es, o, {"global"}) /\ ~Waits(es, o, {"global_remove"})
      BY <2>2 DEF Waits, GlobalKinds
    <3> QED BY <1>a, <2>2, <3>1 DEF OutputInv, GlobalPart
  <2> QED BY <2>1, <2>2
<1>b. e.kind \notin {"init_done", "ready", "failed", "failed_disabled"}
  BY <1>a DEF SessionKinds
<1>3. StagePart(o, fs, d, s, t)
  BY <1>a, <1>b DEF OutputInv, StagePart
<1>4. DescribedPart(o, fs, d, s)
  BY <1>a, <1>b DEF OutputInv, DescribedPart
<1>5. CopiedPart(o, fs, s)
  BY <1>a, <1>b DEF OutputInv, CopiedPart
<1>6. ImagePart(o, fs, d, im)
  BY <1>a, <1>b DEF OutputInv, ImagePart
<1>7. ToldPart(o, fs, d, t)
  BY <1>a DEF OutputInv, ToldPart
<1> QED BY <1>1, <1>2, <1>3, <1>4, <1>5, <1>6, <1>7 DEF OutputInv, fs

-----------------------------------------------------------------------------
(***************************************************************************)
(* The invariant holds at first, and every step keeps it.                  *)
(***************************************************************************)

\* A step about o leaves the rest to OthersKeep.
LEMMA OneOutput ==
    ASSUME OutputsInv, NEW o \in Outputs,
           OutputInv(o, events', data'[o], stage'[o], told'[o], image'[o], Known', present'),
           \A p \in Outputs : p # o =>
               /\ Kept(p, events, events')
               /\ data'[p] = data[p] /\ stage'[p] = stage[p]
               /\ told'[p] = told[p] /\ image'[p] = image[p]
               /\ p \in Known' <=> p \in Known
               /\ p \in present' => p \in present
    PROVE  OutputsInv'
<1> SUFFICES ASSUME NEW p \in Outputs
             PROVE  OutputInv(p, events', data'[p], stage'[p], told'[p], image'[p], Known', present')
  BY DEF OutputsInv
<1>1. CASE p = o
  BY <1>1
<1>2. CASE p # o
  <2>1. OutputInv(p, events, data[p], stage[p], told[p], image[p], Known, present)
    BY DEF OutputsInv
  <2>2. OutputInv(p, events', data[p], stage[p], told[p], image[p], Known', present')
    BY <1>2, <2>1, OthersKeep
  <2> QED BY <1>2, <2>2
<1> QED BY <1>1, <1>2

\* Nothing is known and nothing waits at first.
LEMMA WlInvInit == WlInit => WlInv
<1> SUFFICES ASSUME WlInit PROVE WlInv
  OBVIOUS
<1>1. outputs = <<>> /\ events = <<>> /\ Known = {} /\ IsInjective(outputs)
  BY DEF WlInit, Known, IsInjective
<1>2. WlTypeOK
  <2>1. NewOutput \in OutputData
    BY DEF NewOutput, OutputData, Images
  <2>2. data \in [Outputs -> OutputData]
    BY <2>1 DEF WlInit
  <2>3. /\ stage \in [Outputs -> Stages] /\ told \in [Outputs -> BOOLEAN]
        /\ image \in [Outputs -> Images]
    BY DEF WlInit, Stages, Images
  <2>4. 0 \in 0..MaxSources /\ outputs \in Seq(Outputs) /\ events \in Wire
    BY <1>1, BoundsAssumption DEF Wire
  <2> QED BY <1>1, <2>2, <2>3, <2>4 DEF WlInit, WlTypeOK, Endings, Wire
<1>3. Connected
  BY <1>1 DEF WlInit, Connected, Registered
<1>4. ASSUME NEW o \in Outputs
      PROVE  OutputInv(o, events, data[o], stage[o], told[o], image[o], Known, present)
  <2>1. /\ data[o] = NewOutput /\ stage[o] = "none" /\ told[o] = FALSE /\ image[o] = Blank
        /\ o \notin Known /\ \A kinds : ~Waits(events, o, kinds)
    BY <1>1, EmptyWire DEF WlInit
  <2>2. KnownPart(o, events, data[o], stage[o], told[o], image[o], Known)
    BY <2>1 DEF KnownPart
  <2>3. GlobalPart(o, events, present)
    BY <1>1, <2>1 DEF GlobalPart, Once
  <2>4. data[o].buffer = FALSE /\ data[o].texture = FALSE /\ data[o].have_cursor = FALSE
    BY <2>1 DEF NewOutput
  <2> QED BY <2>1, <2>2, <2>3, <2>4, FreshOutput
<1>5. ~severed
  BY DEF WlInit
<1> QED BY <1>2, <1>3, <1>4, <1>5 DEF WlInv, OutputsInv

\* wl_cursor_init, with all it needs
LEMMA CursorFoundKeeps ==
    ASSUME WlInv, ~wlcursor, CursorFound, events' = <<>>, UNCHANGED present
    PROVE  /\ outputs' \in Seq(Outputs) /\ IsInjective(outputs)'
           /\ data' \in [Outputs -> OutputData]
           /\ stage' \in [Outputs -> Stages] /\ told' \in [Outputs -> BOOLEAN]
           /\ image' \in [Outputs -> Images]
           /\ Known' = present /\ OutputsInv'
<1>0. PICK order \in SetToSeqs(present) :
          /\ outputs' = order
          /\ \E k \in 0..Len(order) : data' = CapturedAll(present, Announced(order, k))
  BY DEF CursorFound
<1>1. PICK k \in 0..Len(order) : data' = CapturedAll(present, Announced(order, k))
  BY <1>0
<1>2. present \in SUBSET Outputs /\ outputs = <<>> /\ Known = {} /\ OutputsInv
  BY DEF WlInv, WlTypeOK, Connected, Known
<1>3. ListOf(order) /\ Range(order) = present
  BY <1>2, OrderHasAll
<1>4. Known' = present /\ outputs' \in Seq(Outputs) /\ IsInjective(outputs)'
  BY <1>0, <1>3 DEF Known, Range, ListOf, IsInjective
<1>5. ASSUME NEW o \in Outputs
      PROVE  data'[o] = IF o \in present THEN Captured(NewOutput) ELSE NewOutput
  <2>1. Captured(Captured(NewOutput)) = Captured(NewOutput)
    BY DEF Captured, NewOutput
  <2>2. o \notin present => Announced(order, k)[o] = NewOutput
    BY <1>3 DEF Announced, Range
  <2>3. Announced(order, k)[o] \in {NewOutput, Captured(NewOutput)}
    BY DEF Announced
  <2> QED BY <1>1, <2>1, <2>2, <2>3 DEF CapturedAll
<1>6. data' \in [Outputs -> OutputData]
  <2>1. NewOutput \in OutputData /\ Captured(NewOutput) \in OutputData
    BY DEF NewOutput, OutputData, Captured, Images
  <2>2. data' = [o \in Outputs |-> data'[o]]
    BY <1>1 DEF CapturedAll
  <2> QED BY <1>5, <2>1, <2>2
<1>7. /\ stage' \in [Outputs -> Stages] /\ told' \in [Outputs -> BOOLEAN]
      /\ image' \in [Outputs -> Images]
  BY DEF CursorFound, NewSessions, WlInv, WlTypeOK, Stages, Live, Images
<1>8. ASSUME NEW o \in Outputs
      PROVE  OutputInv(o, events', data'[o], stage'[o], told'[o], image'[o], Known', present')
  <2>1. OutputInv(o, events, data[o], stage[o], told[o], image[o], Known, present)
    BY <1>2 DEF OutputsInv
  <2>2. /\ stage[o] = "none" /\ told[o] = FALSE /\ image[o] = Blank
    BY <1>2, <2>1 DEF OutputInv, KnownPart
  <2>3. /\ stage'[o] = IF o \in present THEN "new" ELSE "none"
        /\ told'[o] = FALSE /\ image'[o] = Blank
    BY <2>2 DEF CursorFound, NewSessions
  <2>4. /\ data'[o].buffer = FALSE /\ data'[o].texture = FALSE /\ data'[o].have_cursor = FALSE
        /\ o \in present => data'[o].session = TRUE
    BY <1>5 DEF Captured, NewOutput
  <2>5. events' = <<>> /\ \A kinds : ~Waits(<<>>, o, kinds)
    BY EmptyWire
  <2>6. KnownPart(o, events', data'[o], stage'[o], told'[o], image'[o], Known')
    BY <1>4, <1>5, <2>3, <2>5 DEF KnownPart
  <2>7. GlobalPart(o, events', present')
    BY <2>5 DEF GlobalPart, Once
  <2> QED BY <2>3, <2>4, <2>5, <2>6, <2>7, FreshOutput
<1> QED BY <1>4, <1>6, <1>7, <1>8 DEF OutputsInv

\* Nothing that the invariant of the outputs is about changes.
LEMMA OutputsUnchanged ==
    ASSUME OutputsInv, UNCHANGED <<outputs, data, present, sessionVars>>,
           \A o \in Outputs : Kept(o, events, events')
    PROVE  OutputsInv'
<1> USE DEF sessionVars
<1>1. Known' = Known
  BY DEF Known
<1> SUFFICES ASSUME NEW o \in Outputs
             PROVE  OutputInv(o, events', data'[o], stage'[o], told'[o], image'[o], Known', present')
  BY DEF OutputsInv
<1>2. OutputInv(o, events, data[o], stage[o], told[o], image[o], Known, present)
  BY DEF OutputsInv
<1>3. OutputInv(o, events', data[o], stage[o], told[o], image[o], Known, present)
  BY <1>2, OthersKeep
<1> QED BY <1>1, <1>3

\* The wire as it is.
LEMMA SameKept == \A o, es : Kept(o, es, es)
  BY DEF Kept

\* No event on the wire is about an output.
AboutNone(es) == \A i \in DOMAIN es : es[i].out = NoOutput

LEMMA NoneKept ==
    ASSUME NEW es, NEW fs, AboutNone(es), AboutNone(fs), NEW o \in Outputs
    PROVE  Kept(o, es, fs)
<1>1. /\ \A i \in DOMAIN es : es[i].out # o
      /\ \A i \in DOMAIN fs : fs[i].out # o
  BY NoOutputAssumption DEF AboutNone
<1> QED BY <1>1 DEF Kept, Waits, Once, Followed, LastTold, InfoIsCurrent

\* There is no wl_cursor_t, or one without outputs.
LEMMA NothingKnown ==
    ASSUME Known' = {}, AboutNone(events'),
           \A o \in Outputs : /\ data'[o] = NewOutput /\ stage'[o] = "none"
                              /\ told'[o] = FALSE /\ image'[o] = Blank
    PROVE  OutputsInv'
<1> SUFFICES ASSUME NEW o \in Outputs
             PROVE  OutputInv(o, events', data'[o], stage'[o], told'[o], image'[o], Known', present')
  BY DEF OutputsInv
<1>1. \A i \in DOMAIN events' : events'[i].out # o
  BY NoOutputAssumption DEF AboutNone
<1>2. \A kinds : ~Waits(events', o, kinds)
  BY <1>1 DEF Waits
<1>3. KnownPart(o, events', data'[o], stage'[o], told'[o], image'[o], Known')
  BY <1>2 DEF KnownPart
<1>4. GlobalPart(o, events', present')
  BY <1>1, <1>2 DEF GlobalPart, Once
<1>5. data'[o].buffer = FALSE /\ data'[o].texture = FALSE /\ data'[o].have_cursor = FALSE
  BY DEF NewOutput
<1> QED BY <1>2, <1>3, <1>4, <1>5, FreshOutput

\* Every output's data is new, and no session is left.
LEMMA FreshTypes ==
    ASSUME data' = [o \in Outputs |-> NewOutput], NoSessions
    PROVE  /\ data' \in [Outputs -> OutputData]
           /\ stage' \in [Outputs -> Stages] /\ told' \in [Outputs -> BOOLEAN]
           /\ image' \in [Outputs -> Images]
           /\ \A o \in Outputs : /\ data'[o] = NewOutput /\ stage'[o] = "none"
                                 /\ told'[o] = FALSE /\ image'[o] = Blank
<1>1. NewOutput \in OutputData /\ "none" \in Stages /\ Blank \in Images
  BY DEF NewOutput, OutputData, Images, Stages
<1> QED BY <1>1 DEF NoSessions

\* A source is created.
LEMMA CreateStep ==
    ASSUME WlInv, SourceCreate
    PROVE  WlInv'
<1> USE DEF SourceCreate, userVars, sessionVars
<1>0. instances \in Nat /\ instances' \in 0..MaxSources /\ instances' # 0
  BY BoundsAssumption DEF WlInv, WlTypeOK
<1>t. display' \in BOOLEAN
  BY DEF WlInv, WlTypeOK
<1>1. CASE ~wlcursor /\ CursorInit /\ supports
  <2>1. CursorFound /\ events' = <<>> /\ UNCHANGED present /\ crashed' \in BOOLEAN
    BY <1>1 DEF CursorInit, MayCrash
  <2>2. wlcursor' = TRUE /\ abandoned' = abandoned
    BY <2>1 DEF CursorFound
  <2>3. WlTypeOK'
    BY <1>0, <1>t, <1>1, <2>1, <2>2, CursorFoundKeeps DEF WlInv, WlTypeOK
  <2>4. severed = FALSE /\ ending # "freed"
    BY <1>1 DEF WlInv, Connected
  <2>5. Connected'
    BY <1>0, <1>1, <2>1, <2>2, <2>4, CursorFoundKeeps DEF Connected, Registered
  <2>6. OutputsInv'
    BY <1>1, <2>1, CursorFoundKeeps
  <2> QED BY <2>3, <2>4, <2>5, <2>6 DEF WlInv
<1>2. CASE /\ UNCHANGED <<wlcursor, outputs, data, sessionVars>>
           /\ events' = events \/ (~wlcursor /\ events' = <<>>)
           /\ abandoned' \in BOOLEAN /\ crashed' \in BOOLEAN
  <2>1. Known' = Known /\ IsInjective(outputs)' /\ Registered' = Registered
    BY <1>2 DEF Known, Registered, IsInjective, WlInv, WlTypeOK
  <2>e. events' \in Wire
    <3>1. events \in Wire /\ <<>> \in Wire
      BY DEF WlInv, WlTypeOK, Wire
    <3> QED BY <1>2, <3>1
  <2>2. WlTypeOK'
    BY <1>0, <1>t, <1>2, <2>1, <2>e DEF WlInv, WlTypeOK, Wire
  <2>3. Connected'
    BY <1>0, <1>2, <2>1 DEF WlInv, Connected, Registered
  <2>4. ASSUME NEW o \in Outputs  PROVE Kept(o, events, events')
    <3>1. CASE events' = events
      BY <3>1, SameKept
    <3>2. CASE ~wlcursor /\ events' = <<>>
      <4>1. AboutNone(events) /\ AboutNone(events')
        BY <3>2 DEF WlInv, Connected, Registered, AboutNone
      <4> QED BY <4>1, NoneKept
    <3> QED BY <1>2, <3>1, <3>2
  <2>5. IF severed' THEN NothingLeft' ELSE OutputsInv'
    BY <1>2, <2>4, OutputsUnchanged DEF WlInv, NothingLeft
  <2> QED BY <2>2, <2>3, <2>5 DEF WlInv
<1>3. CASE ~wlcursor /\ CursorInit /\ ~supports
  BY <1>2, <1>3 DEF CursorInit, CursorNotFound, MayCrash
<1>4. CASE ~wlcursor /\ CursorInitClosed
  BY <1>2, <1>4 DEF CursorInitClosed, MayCrash, WlInv, WlTypeOK
<1>5. CASE ~(display' /\ ~wlcursor)
  BY <1>2, <1>5 DEF WlInv, WlTypeOK
<1> QED BY <1>1, <1>3, <1>4, <1>5

\* The thread frees the wl_cursor_t.
LEMMA FreeStep ==
    ASSUME WlInv, FreeCursor
    PROVE  WlInv'
<1> USE DEF FreeCursor, userVars
<1>1. Known' = {} /\ IsInjective(outputs)'
  BY DEF Known, IsInjective
<1>2. events' \in Wire /\ AboutNone(events')
  BY DEF Unlistened, Dropped, Abandoned, AboutNone, Wire, WlInv, WlTypeOK
<1>3. /\ data' \in [Outputs -> OutputData]
      /\ stage' \in [Outputs -> Stages] /\ told' \in [Outputs -> BOOLEAN]
      /\ image' \in [Outputs -> Images]
      /\ \A o \in Outputs : /\ data'[o] = NewOutput /\ stage'[o] = "none"
                            /\ told'[o] = FALSE /\ image'[o] = Blank
  BY FreshTypes
<1>4. crashed' \in BOOLEAN /\ abandoned' \in BOOLEAN /\ outputs' \in Seq(Outputs)
  BY DEF MayCrash, WlInv, WlTypeOK
<1>5. WlTypeOK'
  BY <1>1, <1>2, <1>3, <1>4 DEF WlInv, WlTypeOK, Wire, Endings
<1>6. Connected'
  BY <1>2 DEF WlInv, Connected, Registered, AboutNone
<1>7. OutputsInv'
  BY <1>1, <1>2, <1>3, NothingKnown
<1> QED BY <1>5, <1>6, <1>7 DEF WlInv

\* The thread closes the display.
LEMMA CloseStep ==
    ASSUME WlInv, CloseDisplay
    PROVE  WlInv'
<1> USE DEF CloseDisplay, userVars
<1>1. Known' = Known /\ IsInjective(outputs)'
  BY DEF Known, IsInjective, WlInv, WlTypeOK
<1>2. events' \in Wire /\ AboutNone(events')
  BY DEF AboutNone, Wire
<1>3. /\ stage' \in [Outputs -> Stages] /\ told' \in [Outputs -> BOOLEAN]
      /\ image' \in [Outputs -> Images] /\ NothingLeft'
  <2>1. "none" \in Stages /\ Blank \in Images
    BY DEF Images, Stages
  <2> QED BY <2>1 DEF NoSessions, NothingLeft
<1>4. WlTypeOK'
  BY <1>1, <1>2, <1>3 DEF WlInv, WlTypeOK, Wire, Endings
<1>5. Connected'
  BY <1>2 DEF WlInv, WlTypeOK, Connected, Registered, AboutNone
<1>6. ASSUME ~wlcursor  PROVE OutputsInv'
  <2>1. Known' = {} /\ OutputsInv
    BY <1>1, <1>6 DEF WlInv, Connected, Known
  <2>2. \A o \in Outputs : data'[o] = NewOutput
    BY <1>1, <2>1 DEF OutputsInv, OutputInv, KnownPart
  <2> QED BY <1>2, <1>3, <2>1, <2>2, NothingKnown DEF NothingLeft
<1> QED BY <1>3, <1>4, <1>5, <1>6 DEF WlInv

\* Sources come and go, and the thread tears down.
LEMMA SourceStep ==
    ASSUME WlInv, SourceNext
    PROVE  WlInv'
<1>1. ASSUME UNCHANGED <<severed, abandoned, crashed, outputs, data, events, userVars, sessionVars>>,
             Connected', instances' \in 0..MaxSources, ending' \in Endings,
             display' \in BOOLEAN, wlcursor' \in BOOLEAN
      PROVE  WlInv'
  <2> USE <1>1 DEF userVars, sessionVars
  <2>1. Known' = Known /\ IsInjective(outputs)'
    BY DEF Known, IsInjective, WlInv, WlTypeOK
  <2>2. WlTypeOK'
    BY <2>1 DEF WlInv, WlTypeOK
  <2>3. OutputsInv => OutputsInv'
    BY SameKept, OutputsUnchanged
  <2> QED BY <2>2, <2>3 DEF WlInv, NothingLeft
<1>2. CASE SourceDestroy
  <2> USE <1>2 DEF SourceDestroy, cursorVars, userVars, sessionVars, OneLess, IsLast
  <2>1. instances' \in 0..MaxSources /\ ending' \in Endings
    BY BoundsAssumption DEF WlInv, WlTypeOK, Endings
  <2>2. Connected'
    BY DEF WlInv, Connected, Known, Registered
  <2> QED BY <1>1, <2>1, <2>2 DEF WlInv, WlTypeOK
<1>3. CASE UnsetCursor
  <2> USE <1>3 DEF UnsetCursor, userVars, sessionVars
  <2>1. Connected'
    BY DEF WlInv, WlTypeOK, Connected, Known, Registered
  <2> QED BY <1>1, <2>1 DEF WlInv, WlTypeOK, Endings
<1>4. CASE UnsetDisplay
  <2> USE <1>4 DEF UnsetDisplay, userVars, sessionVars
  <2>1. Connected'
    BY DEF WlInv, WlTypeOK, Connected, Known, Registered
  <2> QED BY <1>1, <2>1 DEF WlInv, WlTypeOK, Endings
<1> QED BY <1>2, <1>3, <1>4, CreateStep, FreeStep, CloseStep DEF SourceNext

\* An event about an output is handled for a wlcursor on its own connection.
LEMMA DispatchedRegistered ==
    ASSUME WlInv, NEW o \in Outputs, NEW kinds, Dispatched(o, kinds)
    PROVE  Registered /\ severed = FALSE /\ OutputsInv
<1>1. events \in Wire /\ events # <<>> /\ Head(events).out = o
  BY DEF WlInv, WlTypeOK, Wire, Dispatched, Dispatching
<1>2. 1 \in DOMAIN events /\ events[1].out # NoOutput
  BY <1>1, TailTakes, NoOutputAssumption
<1>3. Registered
  BY <1>2 DEF WlInv, Connected
<1> QED BY <1>3 DEF WlInv, WlTypeOK, Registered

\* A handler for o keeps the invariant if it keeps that of o.
LEMMA HandlerStep ==
    ASSUME WlInv, NEW o \in Outputs, NEW kinds, Dispatched(o, kinds),
           ListOf(outputs'), events' \in Wire,
           NEW d \in OutputData, NEW s \in Stages, NEW t \in BOOLEAN, NEW im \in Images,
           data' = [data EXCEPT ![o] = d], stage' = [stage EXCEPT ![o] = s],
           told' = [told EXCEPT ![o] = t], image' = [image EXCEPT ![o] = im],
           OutputInv(o, events', d, s, t, im, Known', present),
           o \in Known' \/ o \notin present,
           \A p \in Outputs : p # o => Kept(p, events, events') /\ (p \in Known' <=> p \in Known)
    PROVE  WlInv'
<1>1. Registered /\ severed = FALSE /\ OutputsInv
  BY DispatchedRegistered
<1> USE DEF Dispatched, sourceVars, cursorVars, userVars
<1>2. WlTypeOK'
  <2>1. /\ data' \in [Outputs -> OutputData] /\ stage' \in [Outputs -> Stages]
        /\ told' \in [Outputs -> BOOLEAN] /\ image' \in [Outputs -> Images]
    BY DEF WlInv, WlTypeOK
  <2>2. outputs' \in Seq(Outputs) /\ IsInjective(outputs)' /\ events' \in Wire
    BY DEF IsInjective, ListOf
  <2> QED BY <2>1, <2>2 DEF WlInv, WlTypeOK, Wire
<1>3. OutputsInv'
  <2>1. /\ data'[o] = d /\ stage'[o] = s /\ told'[o] = t /\ image'[o] = im
        /\ \A p \in Outputs : p # o =>
              /\ data'[p] = data[p] /\ stage'[p] = stage[p]
              /\ told'[p] = told[p] /\ image'[p] = image[p]
    BY DEF WlInv, WlTypeOK
  <2>2. present' = present
    OBVIOUS
  <2>3. OutputInv(o, events', data'[o], stage'[o], told'[o], image'[o], Known', present')
    BY <2>1, <2>2
  <2> QED BY <1>1, <2>1, <2>2, <2>3, OneOutput
<1>4. Connected'
  <2>1. ASSUME NEW p \in present  PROVE p \in Known' \/ Waits(events', p, {"global"})
    <3>1. p \in Outputs /\ (p \in Known \/ Waits(events, p, {"global"}))
      BY <1>1 DEF WlInv, WlTypeOK, Connected
    <3> QED BY <3>1 DEF Kept
  <2> QED BY <1>1, <2>1 DEF WlInv, Connected, Registered
<1> QED BY <1>1, <1>2, <1>3, <1>4 DEF WlInv

\* A handler that only takes the event off the wire.
LEMMA HandleStep ==
    ASSUME WlInv, NEW o \in Outputs, NEW kinds, Handle(o, kinds), kinds \subseteq SessionKinds,
           NEW d \in OutputData, NEW s \in Stages,
           data' = [data EXCEPT ![o] = d], stage' = [stage EXCEPT ![o] = s],
           UNCHANGED <<told, image>>,
           OutputInv(o, Tail(events), d, s, told[o], image[o], Known, present)
    PROVE  WlInv'
<1>1. /\ events \in Wire /\ events # <<>> /\ Head(events).out = o /\ Head(events).kind \in kinds
      /\ Dispatched(o, kinds) /\ events' = Tail(events) /\ outputs' = outputs
  BY DEF WlInv, WlTypeOK, Wire, Handle, Dispatched, Dispatching
<1>2. ListOf(outputs') /\ Known' = Known
  BY <1>1 DEF WlInv, WlTypeOK, Known, ListOf
<1>3. /\ told[o] \in BOOLEAN /\ image[o] \in Images
      /\ told' = [told EXCEPT ![o] = told[o]] /\ image' = [image EXCEPT ![o] = image[o]]
  BY DEF WlInv, WlTypeOK
<1>4. events' \in Wire /\ \A p \in Outputs : p # o => Kept(p, events, events')
  BY <1>1, TailTakes
<1>5. o \in Known
  <2>1. Waits(events, o, SessionKinds)
    BY <1>1, TailTakes
  <2>2. OutputInv(o, events, data[o], stage[o], told[o], image[o], Known, present)
    BY <1>1, DispatchedRegistered DEF OutputsInv
  <2> QED BY <2>1, <2>2 DEF OutputInv, KnownPart
<1>6. OutputInv(o, events', d, s, told[o], image[o], Known', present)
  BY <1>1, <1>2
<1>7. /\ o \in Known' \/ o \notin present
      /\ \A p \in Outputs : p # o => Kept(p, events, events') /\ (p \in Known' <=> p \in Known)
  BY <1>2, <1>4, <1>5
<1>8. ListOf(outputs') /\ events' \in Wire
  BY <1>2, <1>4
<1>9. Dispatched(o, kinds)
  BY <1>1
<1> DEFINE t == told[o]
           im == image[o]
<1>10. /\ t \in BOOLEAN /\ im \in Images
       /\ told' = [told EXCEPT ![o] = t] /\ image' = [image EXCEPT ![o] = im]
       /\ OutputInv(o, events', d, s, t, im, Known', present)
  BY <1>3, <1>6
<1> HIDE DEF t, im
<1> QED BY <1>7, <1>8, <1>9, <1>10, HandlerStep, ZenonT(40)

\* What is known of o before one of its events is handled.
LEMMA HandlerStarts ==
    ASSUME WlInv, NEW o \in Outputs, NEW kinds, Dispatched(o, kinds)
    PROVE  /\ events \in Wire /\ events # <<>>
           /\ Head(events).out = o /\ Head(events).kind \in kinds
           /\ Tail(events) \in Wire
           /\ \A p \in Outputs : p # o => Kept(p, events, Tail(events))
           /\ data[o] \in OutputData /\ stage[o] \in Stages
           /\ told[o] \in BOOLEAN /\ image[o] \in Images
           /\ OutputInv(o, events, data[o], stage[o], told[o], image[o], Known, present)
           /\ ListOf(outputs) /\ Range(outputs) = Known /\ Known \in SUBSET Outputs
<1>1. /\ events \in Wire /\ events # <<>> /\ Head(events).out = o /\ Head(events).kind \in kinds
  BY DEF WlInv, WlTypeOK, Wire, Dispatched, Dispatching
<1>2. Tail(events) \in Wire /\ \A p \in Outputs : p # o => Kept(p, events, Tail(events))
  BY <1>1, TailTakes
<1>3. /\ data[o] \in OutputData /\ stage[o] \in Stages
      /\ told[o] \in BOOLEAN /\ image[o] \in Images
      /\ OutputInv(o, events, data[o], stage[o], told[o], image[o], Known, present)
  BY DispatchedRegistered DEF WlInv, WlTypeOK, OutputsInv
<1>4. ListOf(outputs) /\ Range(outputs) = Known /\ Known \in SUBSET Outputs
  BY DEF WlInv, WlTypeOK, ListOf, Known, Range
<1> QED BY <1>1, <1>2, <1>3, <1>4

\* Nothing happens to an output, or to what is on the wire.
LEMMA QuietStep ==
    ASSUME WlInv,
           UNCHANGED <<sourceVars, display, wlcursor, severed, abandoned, outputs, data, events,
                       supports, present, sessionVars>>,
           crashed' \in BOOLEAN,
           enabled' \in SUBSET present, pointer' \in enabled' \cup {NoOutput}, shape' \in Shapes
    PROVE  WlInv'
<1> USE DEF sourceVars, sessionVars
<1>1. Known' = Known /\ IsInjective(outputs)' /\ Registered' = Registered
  BY DEF Known, Registered, WlInv, WlTypeOK, IsInjective
<1>2. WlTypeOK'
  BY <1>1 DEF WlInv, WlTypeOK
<1>3. Connected'
  BY <1>1 DEF WlInv, Connected
<1>4. OutputsInv => OutputsInv'
  BY SameKept, OutputsUnchanged
<1> QED BY <1>2, <1>3, <1>4 DEF WlInv, NothingLeft

\* cursor_update: every handler, what is skipped, and what is used though gone.
LEMMA DispatchStep ==
    ASSUME WlInv, Dispatch
    PROVE  WlInv'
<1>1. CASE SkipDropped \/ HandleAbandoned
  <2> USE DEF sourceVars, cursorVars, userVars, sessionVars
  <2>0. /\ events # <<>> /\ Head(events) \in {Dropped, Abandoned}
        /\ events' = Tail(events) /\ crashed' \in BOOLEAN
        /\ UNCHANGED <<sourceVars, display, wlcursor, severed, abandoned, outputs, data,
                       userVars, sessionVars>>
    BY <1>1 DEF SkipDropped, HandleAbandoned, Dispatching, MayCrash, WlInv, WlTypeOK
  <2> USE <2>0
  <2>1. /\ events \in Wire /\ Head(events).out = NoOutput /\ events' \in Wire
        /\ \A i \in DOMAIN events' : i + 1 \in DOMAIN events /\ events'[i] = events[i + 1]
    BY DEF WlInv, WlTypeOK, Wire, Dropped, Abandoned
  <2>2. ASSUME NEW p \in Outputs  PROVE Kept(p, events, events')
    BY <2>1, TailTakes, NoOutputAssumption
  <2>4. Known' = Known /\ Registered' = Registered /\ IsInjective(outputs)'
    BY DEF Known, Registered, IsInjective, WlInv, WlTypeOK
  <2>3. WlTypeOK'
    BY <2>1, <2>4 DEF WlInv, WlTypeOK, Wire
  <2>5. Connected'
    <3>1. ASSUME NEW p \in present  PROVE Waits(events', p, {"global"}) <=> Waits(events, p, {"global"})
      BY <2>2 DEF WlInv, WlTypeOK, Kept
    <3> QED BY <2>1, <2>4, <3>1 DEF WlInv, Connected
  <2>6. OutputsInv => OutputsInv'
    BY <2>2, OutputsUnchanged
  <2> QED BY <2>3, <2>5, <2>6 DEF WlInv, NothingLeft
<1>11. CASE RenderGone
  BY <1>11, QuietStep DEF RenderGone, userVars, WlInv, WlTypeOK
<1>2. ASSUME NEW o \in Outputs, HandleGlobal(o)  PROVE WlInv'
  <2> DEFINE kinds == {"global"}
  <2>1. Dispatched(o, kinds)
    BY <1>2 DEF HandleGlobal
  <2> HIDE DEF kinds
  <2> USE <2>1, HandlerStarts
  <2>2. Head(events).kind = "global"
    BY DEF kinds
  <2>3. /\ o \notin Known
        /\ OutputInv(o, Tail(events), Captured(NewOutput), "new", FALSE, Blank,
                     Known \cup {o}, present)
    BY <2>2, GlobalKeeps
  <2>4. /\ ListOf(Append(outputs, o)) /\ Range(Append(outputs, o)) = Known \cup {o}
    BY <2>3, AppendAdds
  <2>5. /\ Captured(NewOutput) \in OutputData /\ "new" \in Stages /\ Blank \in Images
    BY DEF Captured, NewOutput, OutputData, Stages, Live, Images
  <2>6. /\ stage' = [stage EXCEPT ![o] = "new"] /\ told' = [told EXCEPT ![o] = FALSE]
        /\ image' = [image EXCEPT ![o] = Blank]
    BY <1>2 DEF HandleGlobal, NewSessions, WlInv, WlTypeOK
  <2>7. /\ outputs' = Append(outputs, o) /\ events' = Tail(events)
        /\ data' = [data EXCEPT ![o] = Captured(NewOutput)]
    BY <1>2 DEF HandleGlobal
  <2>8. /\ ListOf(outputs') /\ events' \in Wire /\ Known' = Known \cup {o}
        /\ OutputInv(o, events', Captured(NewOutput), "new", FALSE, Blank, Known', present)
        /\ \A p \in Outputs : p # o => Kept(p, events, events') /\ (p \in Known' <=> p \in Known)
    <3>1. Known' = Known \cup {o}
      BY <2>4, <2>7 DEF Known, Range
    <3> QED BY <2>3, <2>4, <2>7, <3>1
  <2>9. o \in Known' /\ FALSE \in BOOLEAN
    BY <2>8
  <2> QED BY <2>5, <2>6, <2>7, <2>8, <2>9, HandlerStep
<1>3. ASSUME NEW o \in Outputs, HandleGlobalRemove(o)  PROVE WlInv'
  <2> DEFINE kinds == {"global_remove"}
             fs == Unheard(o, Tail(events))
  <2>1. Dispatched(o, kinds)
    BY <1>3 DEF HandleGlobalRemove
  <2> HIDE DEF kinds
  <2> USE <2>1, HandlerStarts
  <2>2. Head(events).kind = "global_remove"
    BY DEF kinds
  <2>3. o \notin present /\ OutputInv(o, fs, NewOutput, "none", FALSE, Blank, Known \ {o}, present)
    BY <2>2, GlobalRemoveKeeps
  <2>4. /\ ListOf(RemoveFirst(outputs, o)) /\ Range(RemoveFirst(outputs, o)) = Known \ {o}
    BY RemoveRemoves
  <2>5. /\ NewOutput \in OutputData /\ "none" \in Stages /\ Blank \in Images
    BY DEF NewOutput, OutputData, Stages, Live, Images
  <2>6. /\ stage' = [stage EXCEPT ![o] = "none"] /\ told' = [told EXCEPT ![o] = FALSE]
        /\ image' = [image EXCEPT ![o] = Blank]
    BY <1>3 DEF HandleGlobalRemove, NoSession
  <2>7. /\ outputs' = RemoveFirst(outputs, o) /\ events' = fs
        /\ data' = [data EXCEPT ![o] = NewOutput]
    BY <1>3 DEF HandleGlobalRemove
  <2>8. fs \in Wire /\ \A p \in Outputs : p # o => Kept(p, events, fs)
    BY UnheardDrops, KeptTwice
  <2> HIDE DEF fs
  <2>9. /\ ListOf(outputs') /\ events' \in Wire /\ Known' = Known \ {o}
        /\ OutputInv(o, events', NewOutput, "none", FALSE, Blank, Known', present)
        /\ \A p \in Outputs : p # o => Kept(p, events, events') /\ (p \in Known' <=> p \in Known)
    <3>1. Known' = Known \ {o}
      BY <2>4, <2>7 DEF Known, Range
    <3> QED BY <2>3, <2>4, <2>7, <2>8, <3>1
  <2> QED BY <2>3, <2>5, <2>6, <2>7, <2>9, HandlerStep
<1>4. ASSUME NEW o \in Outputs, HandleFailed(o)  PROVE WlInv'
  <2> DEFINE kinds == {"failed_disabled", "failed"}
             fs == Unheard(o, Tail(events))
  <2>1. Dispatched(o, kinds)
    BY <1>4 DEF HandleFailed
  <2> HIDE DEF kinds
  <2> USE <2>1, HandlerStarts
  <2>2. Head(events).kind \in {"failed", "failed_disabled"}
    BY DEF kinds
  <2>3. /\ o \in Known
        /\ Head(events).kind = "failed" =>
             OutputInv(o, fs, Reset(data[o]), stage[o], FALSE, Blank, Known, present)
        /\ Head(events).kind = "failed_disabled" =>
             OutputInv(o, fs, Captured(Reset(data[o])), "new", FALSE, Blank, Known, present)
    BY <2>2, FailedKeeps
  <2>4. /\ Reset(data[o]) \in OutputData /\ Captured(Reset(data[o])) \in OutputData
        /\ "new" \in Stages /\ Blank \in Images
    BY DEF Reset, Captured, NewOutput, OutputData, Stages, Live, Images
  <2>5. fs \in Wire /\ \A p \in Outputs : p # o => Kept(p, events, fs)
    BY UnheardDrops, KeptTwice
  <2>6. outputs' = outputs /\ events' = fs
    BY <1>4 DEF HandleFailed
  <2> HIDE DEF fs
  <2>9. /\ ListOf(outputs') /\ events' \in Wire /\ Known' = Known
        /\ \A p \in Outputs : p # o => Kept(p, events, events')
    BY <2>5, <2>6 DEF Known
  <2>7. CASE Head(events).kind = "failed_disabled"
    <3>1. /\ stage' = [stage EXCEPT ![o] = "new"] /\ told' = [told EXCEPT ![o] = FALSE]
          /\ image' = [image EXCEPT ![o] = Blank]
          /\ data' = [data EXCEPT ![o] = Captured(Reset(data[o]))]
      <4>1. NewSessions({o}) /\ data' = [data EXCEPT ![o] = Captured(Reset(@))]
        BY <1>4, <2>7 DEF HandleFailed
      <4> QED BY <4>1 DEF NewSessions, WlInv, WlTypeOK
    <3>2. OutputInv(o, events', Captured(Reset(data[o])), "new", FALSE, Blank, Known', present)
      BY <2>3, <2>6, <2>7, <2>9
    <3> QED BY <2>3, <2>4, <2>9, <3>1, <3>2, HandlerStep
  <2>8. CASE Head(events).kind = "failed"
    <3>1. /\ stage' = [stage EXCEPT ![o] = stage[o]] /\ told' = [told EXCEPT ![o] = FALSE]
          /\ image' = [image EXCEPT ![o] = Blank]
          /\ data' = [data EXCEPT ![o] = Reset(data[o])]
      BY <1>4, <2>8 DEF HandleFailed, WlInv, WlTypeOK
    <3>2. OutputInv(o, events', Reset(data[o]), stage[o], FALSE, Blank, Known', present)
      BY <2>3, <2>6, <2>8, <2>9
    <3> QED BY <2>3, <2>4, <2>9, <3>1, <3>2, HandlerStep
  <2> QED BY <2>2, <2>7, <2>8
<1>5. ASSUME NEW o \in Outputs, HandleCursorBufferInfo(o)  PROVE WlInv'
  <2> DEFINE kinds == {"dmabuf_info", "shm_info"}
  <2>1. Handle(o, kinds) /\ Dispatched(o, kinds) /\ kinds \subseteq SessionKinds
    BY <1>5 DEF HandleCursorBufferInfo, Handle, SessionKinds
  <2> HIDE DEF kinds
  <2> USE <2>1, HandlerStarts
  <2>2. Head(events).kind \in BufferKinds
    BY DEF kinds, BufferKinds
  <2>3. \E b, x \in BOOLEAN :
            /\ x => b
            /\ data' = [data EXCEPT ![o] = IF data[o].buffer = TRUE THEN data[o]
                                   ELSE [data[o] EXCEPT !.buffer = b, !.texture = x]]
    <3>0. /\ data \in [Outputs -> OutputData]
          /\ data[o].buffer \in BOOLEAN /\ data[o].texture \in BOOLEAN
      BY DEF WlInv, WlTypeOK, OutputData
    <3>1. CASE Head(events).kind = "dmabuf_info" \/ data[o].buffer
      <4>1. data' = data
        BY <1>5, <3>1 DEF HandleCursorBufferInfo
      <4>2. data[o].buffer = FALSE => data[o].texture = FALSE
        BY DEF OutputInv, DescribedPart
      <4>3. data[o].buffer = FALSE => [data[o] EXCEPT !.buffer = FALSE, !.texture = FALSE] = data[o]
        BY <4>2 DEF OutputData
      <4> WITNESS FALSE \in BOOLEAN, FALSE \in BOOLEAN
      <4> QED BY <3>0, <4>1, <4>3
    <3>2. CASE ~(Head(events).kind = "dmabuf_info" \/ data[o].buffer)
      <4>1. PICK b \in BOOLEAN, x \in BOOLEAN :
                (x => b) /\ data' = [data EXCEPT ![o].buffer = b, ![o].texture = x]
        BY <1>5, <3>2 DEF HandleCursorBufferInfo
      <4>2. data[o].buffer = FALSE
        BY <3>0, <3>2
      <4> WITNESS b \in BOOLEAN, x \in BOOLEAN
      <4> QED BY <3>0, <4>1, <4>2
    <3> QED BY <3>1, <3>2
  <2>p. PICK b \in BOOLEAN, x \in BOOLEAN :
            /\ x => b
            /\ data' = [data EXCEPT ![o] = IF data[o].buffer = TRUE THEN data[o]
                                   ELSE [data[o] EXCEPT !.buffer = b, !.texture = x]]
    BY <2>3
  <2> DEFINE d == IF data[o].buffer = TRUE THEN data[o]
                  ELSE [data[o] EXCEPT !.buffer = b, !.texture = x]
  <2>4. d \in OutputData
    <3>1. data[o] \in OutputData
      OBVIOUS
    <3> QED BY ONLY <3>1 DEF OutputData
  <2>5. data' = [data EXCEPT ![o] = d]
    BY <2>p
  <2>6. OutputInv(o, Tail(events), d, stage[o], told[o], image[o], Known, present)
    BY <2>2, <2>4, <2>p, BufferInfoKeeps
  <2>7. stage' = [stage EXCEPT ![o] = stage[o]] /\ UNCHANGED <<told, image>>
    BY <1>5 DEF HandleCursorBufferInfo, sessionVars, WlInv, WlTypeOK
  <2> HIDE DEF d
  <2> QED BY <2>4, <2>5, <2>6, <2>7, HandleStep
<1>6. ASSUME NEW o \in Outputs, HandleInitDone(o)  PROVE WlInv'
  <2> DEFINE kinds == {"init_done"}
             s == IF data[o].buffer = TRUE THEN Commit(stage[o]) ELSE stage[o]
  <2>1. Handle(o, kinds) /\ Dispatched(o, kinds) /\ kinds \subseteq SessionKinds
    BY <1>6 DEF HandleInitDone, Handle, SessionKinds
  <2> HIDE DEF kinds
  <2> USE <2>1, HandlerStarts
  <2>2. Head(events).kind = "init_done"
    BY DEF kinds
  <2>3. OutputInv(o, Tail(events), data[o], s, told[o], image[o], Known, present)
    BY <2>2, InitDoneKeeps
  <2>4. s \in Stages
    BY DEF Commit, Stages, Live
  <2>5. data[o].buffer \in BOOLEAN
    BY DEF OutputData
  <2>6. /\ stage' = [stage EXCEPT ![o] = s]
        /\ data' = [data EXCEPT ![o] = data[o]] /\ UNCHANGED <<told, image>>
    BY <1>6, <2>5 DEF HandleInitDone, Committed, Commit, WlInv, WlTypeOK
  <2> HIDE DEF s
  <2> QED BY <2>3, <2>4, <2>6, HandleStep
<1>7. ASSUME NEW o \in Outputs, HandleCursorInfo(o)  PROVE WlInv'
  <2> DEFINE kinds == {"cursor_info", "cursor_info_damaged"}
             d == [data[o] EXCEPT !.hot = Head(events).hot,
                                  !.damaged = Damaged(o, Head(events).kind = "cursor_info_damaged")]
  <2>1. Handle(o, kinds) /\ Dispatched(o, kinds) /\ kinds \subseteq SessionKinds
    BY <1>7 DEF HandleCursorInfo, Handle, SessionKinds
  <2> HIDE DEF kinds
  <2> USE <2>1, HandlerStarts
  <2>2. Head(events).kind \in InfoKinds
    BY DEF kinds, InfoKinds
  <2>3. OutputInv(o, Tail(events), d, stage[o], told[o], image[o], Known, present)
    BY <2>2, CursorInfoKeeps
  <2>4. d \in OutputData
    <3>1. Head(events) \in Events
      <4>1. Head(events) \in Events \cup {Dropped, Abandoned}
        BY TailTakes DEF Wire
      <4> QED BY <4>1, NoOutputAssumption DEF Dropped, Abandoned
    <3>2. Head(events).hot \in Images
      BY <3>1 DEF Events
    <3>3. data[o] \in OutputData
      OBVIOUS
    <3> QED BY ONLY <3>2, <3>3 DEF OutputData, Damaged
  <2>5. /\ data' = [data EXCEPT ![o] = d]
        /\ stage' = [stage EXCEPT ![o] = stage[o]] /\ UNCHANGED <<told, image>>
    BY <1>7 DEF HandleCursorInfo, sessionVars, WlInv, WlTypeOK
  <2> HIDE DEF d
  <2> QED BY <2>3, <2>4, <2>5, HandleStep
<1>8. ASSUME NEW o \in Outputs, NEW b \in BOOLEAN,
             IF b THEN HandleCursorEnter(o) ELSE HandleCursorLeave(o)
      PROVE  WlInv'
  <2> DEFINE kinds == IF b THEN {"enter"} ELSE {"leave"}
             d == [data[o] EXCEPT !.have_cursor = b]
  <2>1. Handle(o, kinds) /\ Dispatched(o, kinds) /\ kinds \subseteq SessionKinds
    BY <1>8 DEF HandleCursorEnter, HandleCursorLeave, Handle, SessionKinds
  <2> HIDE DEF kinds
  <2> USE <2>1, HandlerStarts
  <2>2. Head(events).kind \in PointerKinds /\ (b <=> Head(events).kind = "enter")
    BY DEF kinds, PointerKinds
  <2>4. d \in OutputData /\ d = [data[o] EXCEPT !.have_cursor = b]
    BY DEF OutputData
  <2>5. /\ data' = [data EXCEPT ![o] = d]
        /\ stage' = [stage EXCEPT ![o] = stage[o]] /\ UNCHANGED <<told, image>>
    BY <1>8 DEF HandleCursorEnter, HandleCursorLeave, sessionVars, WlInv, WlTypeOK
  <2> HIDE DEF d
  <2>3. OutputInv(o, Tail(events), d, stage[o], told[o], image[o], Known, present)
    <3> DEFINE t == told[o]
    <3>1. t \in BOOLEAN /\ OutputInv(o, events, data[o], stage[o], t, image[o], Known, present)
      OBVIOUS
    <3>2. events \in Wire /\ events # <<>> /\ Head(events).out = o
      OBVIOUS
    <3>3. data[o] \in OutputData /\ stage[o] \in Stages
      OBVIOUS
    <3> HIDE DEF t
    <3>4. OutputInv(o, Tail(events), d, stage[o], t, image[o], Known, present)
      BY ONLY <2>2, <2>4, <3>1, <3>2, <3>3, PointerKeeps
    <3> QED BY <3>4 DEF t
  <2> QED BY <2>3, <2>4, <2>5, HandleStep
<1>9. ASSUME NEW o \in Outputs, HandleReady(o)  PROVE WlInv'
  <2> DEFINE kinds == {"ready"}
             d == [data[o] EXCEPT
                      !.tex = IF data[o].damaged = TRUE /\ data[o].texture = TRUE
                              THEN image[o] ELSE @]
  <2>1. Handle(o, kinds) /\ Dispatched(o, kinds) /\ kinds \subseteq SessionKinds
    BY <1>9 DEF HandleReady, Handle, SessionKinds
  <2> HIDE DEF kinds
  <2> USE <2>1, HandlerStarts
  <2>2. Head(events).kind = "ready"
    BY DEF kinds
  <2>3. OutputInv(o, Tail(events), d, Commit(stage[o]), told[o], image[o], Known, present)
    BY <2>2, ReadyKeeps
  <2>4. d \in OutputData /\ Commit(stage[o]) \in Stages
    BY DEF OutputData, Commit, Stages, Live
  <2>5. data[o].damaged \in BOOLEAN /\ data[o].texture \in BOOLEAN
    BY DEF OutputData
  <2>6. /\ data' = [data EXCEPT ![o] = d]
        /\ stage' = [stage EXCEPT ![o] = Commit(stage[o])] /\ UNCHANGED <<told, image>>
    BY <1>9, <2>5 DEF HandleReady, Committed, Commit, WlInv, WlTypeOK
  <2> HIDE DEF d
  <2> QED BY <2>3, <2>4, <2>6, HandleStep
<1>10. ASSUME NEW o \in Outputs, HandleCursorEnter(o) \/ HandleCursorLeave(o)  PROVE WlInv'
  <2>1. \E b \in BOOLEAN : IF b THEN HandleCursorEnter(o) ELSE HandleCursorLeave(o)
    <3>1. CASE HandleCursorEnter(o)
      <4> WITNESS TRUE \in BOOLEAN
      <4> QED BY <3>1
    <3>2. CASE HandleCursorLeave(o)
      <4> WITNESS FALSE \in BOOLEAN
      <4> QED BY <3>2
    <3> QED BY <1>10, <3>1, <3>2
  <2> QED BY <1>8, <2>1
<1> QED BY <1>1, <1>2, <1>3, <1>4, <1>5, <1>6, <1>7, <1>9, <1>10, <1>11 DEF Dispatch

\* The compositor sends events about o.
LEMMA SendsAbout ==
    ASSUME NEW o \in Outputs, NEW es \in Wire, NEW new \in Wire,
           \A i \in DOMAIN new : new[i].out = o
    PROVE  /\ es \o new \in Wire
           /\ \A p \in Outputs : p # o => Kept(p, es, es \o new)
<1>1. es \o new \in Wire
  BY SendAdds
<1>2. ASSUME NEW p \in Outputs, p # o  PROVE Kept(p, es, es \o new)
  <2>1. \A i \in DOMAIN new : new[i].out # p
    BY <1>2
  <2> QED BY <2>1, SendAdds
<1> QED BY <1>1, <1>2

\* A session that the compositor has is of the connection that wlcursor is on.
LEMMA SessionRegistered ==
    ASSUME WlInv, NEW o \in Outputs, stage[o] # "none"
    PROVE  Registered /\ severed = FALSE /\ OutputsInv
<1>1. severed = FALSE /\ OutputsInv
  BY DEF WlInv, WlTypeOK, NothingLeft
<1>2. OutputInv(o, events, data[o], stage[o], told[o], image[o], Known, present)
  BY <1>1 DEF OutputsInv
<1>3. o \in Known
  BY <1>2 DEF OutputInv, KnownPart
<1>4. outputs # <<>>
  BY <1>3 DEF Known
<1> QED BY <1>1, <1>4 DEF WlInv, WlTypeOK, Connected, Registered

\* A session of o sends, and its own stage, told and image change.
LEMMA SendStep ==
    ASSUME WlInv, NEW o \in Outputs, stage[o] # "none",
           events' \in Wire, \A p \in Outputs : p # o => Kept(p, events, events'),
           UNCHANGED <<sourceVars, cursorVars, outputs, data, userVars>>,
           stage' \in [Outputs -> Stages], told' \in [Outputs -> BOOLEAN],
           image' \in [Outputs -> Images],
           \A p \in Outputs : p # o =>
               stage'[p] = stage[p] /\ told'[p] = told[p] /\ image'[p] = image[p],
           OutputInv(o, events', data[o], stage'[o], told'[o], image'[o], Known, present)
    PROVE  WlInv'
<1>1. Registered /\ severed = FALSE /\ OutputsInv
  BY SessionRegistered
<1> USE DEF sourceVars, cursorVars, userVars
<1>2. \A p \in Outputs : p # o => Kept(p, events, events')
  OBVIOUS
<1>3. Known' = Known /\ present' = present
  BY DEF Known
<1>4. WlTypeOK'
  <2>2. outputs' \in Seq(Outputs) /\ IsInjective(outputs)' /\ events' \in Wire
    BY DEF IsInjective, WlInv, WlTypeOK
  <2> QED BY <2>2 DEF WlInv, WlTypeOK, Wire
<1>5. OutputsInv'
  <2>1. \A p \in Outputs : data'[p] = data[p]
    OBVIOUS
  <2>2. OutputInv(o, events', data'[o], stage'[o], told'[o], image'[o], Known', present')
    BY <1>3, <2>1
  <2> QED BY <1>1, <1>2, <1>3, <2>1, <2>2, OneOutput
<1>6. Connected'
  <2>1. o \in Known
    <3>1. OutputInv(o, events, data[o], stage[o], told[o], image[o], Known, present)
      BY <1>1 DEF OutputsInv
    <3> QED BY <3>1 DEF OutputInv, KnownPart
  <2>2. ASSUME NEW p \in present  PROVE p \in Known \/ Waits(events', p, {"global"})
    <3>1. p \in Outputs /\ (p \in Known \/ Waits(events, p, {"global"}))
      BY <1>1 DEF WlInv, WlTypeOK, Connected
    <3> QED BY <1>2, <2>1, <3>1 DEF Kept
  <2> QED BY <1>1, <1>3, <2>2 DEF WlInv, Connected, Registered
<1> QED BY <1>1, <1>4, <1>5, <1>6 DEF WlInv

\* The compositor's sessions.
LEMMA SessionStep ==
    ASSUME WlInv, SessionNext
    PROVE  WlInv'
<1>1. PICK o \in Outputs :
          \/ Describe(o) \/ Notify(o) \/ CopyCursor(o) \/ CopyFrame(o)
          \/ FailDisabled(o) \/ Fail(o)
  BY DEF SessionNext
<1>2. UNCHANGED <<sourceVars, cursorVars, outputs, data, userVars>>
  BY DEF SessionNext
<1>0. OutputsInv
  <2>1. stage[o] # "none"
    BY <1>1 DEF Describe, Notify, CopyCursor, CopyFrame, FailDisabled, Fail, Live
  <2> QED BY <2>1, SessionRegistered
<1>3. /\ events \in Wire
      /\ data[o] \in OutputData /\ stage[o] \in Stages
      /\ told[o] \in BOOLEAN /\ image[o] \in Images
      /\ stage \in [Outputs -> Stages] /\ told \in [Outputs -> BOOLEAN]
      /\ image \in [Outputs -> Images] /\ shape \in Shapes
      /\ OutputInv(o, events, data[o], stage[o], told[o], image[o], Known, present)
  BY <1>0 DEF WlInv, WlTypeOK, OutputsInv, Wire
<1>4. /\ told = [told EXCEPT ![o] = told[o]] /\ image = [image EXCEPT ![o] = image[o]]
      /\ stage = [stage EXCEPT ![o] = stage[o]]
  BY <1>3
<1>5. \A k \in GlobalKinds \cup SessionKinds :
          Event(o, k) \in Events /\ Event(o, k).out = o /\ Event(o, k).kind = k
  BY DEF Event, Events, Images
<1>6. \A e \in Events : <<e>> \in Wire /\ DOMAIN <<e>> = {1} /\ <<e>>[1] = e
  BY DEF Wire
<1> DEFINE t == told[o]
           im == image[o]
           s == stage[o]
           d == data[o]
<1>7. /\ events \in Wire
      /\ d \in OutputData /\ s \in Stages /\ t \in BOOLEAN /\ im \in Images
      /\ OutputInv(o, events, d, s, t, im, Known, present)
  BY <1>3
<1>8. CASE Describe(o)
  <2>0. stage[o] = "new" /\ stage' = [stage EXCEPT ![o] = "described"] /\ UNCHANGED <<told, image>>
    BY <1>8 DEF Describe
  <2>1. PICK infos \in {<<"shm_info">>, <<"dmabuf_info">>, <<"dmabuf_info", "shm_info">>} :
            Send([i \in 1..Len(infos) |-> Event(o, infos[i])] \o <<Event(o, "init_done")>>)
    BY <1>8 DEF Describe
  <2> DEFINE first == [i \in 1..Len(infos) |-> Event(o, infos[i])]
             new == first \o <<Event(o, "init_done")>>
             n == Len(infos) + 1
  <2>2. /\ Len(infos) \in {1, 2} /\ n \in Nat \ {0}
        /\ \A i \in 1..Len(infos) : infos[i] \in BufferKinds
    BY <2>1 DEF BufferKinds
  <2>3. /\ DOMAIN new = 1..n /\ new \in Wire
        /\ \A i \in 1..n : new[i] = IF i = n THEN Event(o, "init_done") ELSE Event(o, infos[i])
    <3>1. BufferKinds \subseteq SessionKinds /\ "init_done" \in SessionKinds
      BY DEF BufferKinds, SessionKinds
    <3>2. first \in Wire /\ Len(first) = Len(infos)
      BY <1>5, <2>2, <3>1 DEF Wire
    <3>3. <<Event(o, "init_done")>> \in Wire
      BY <1>5, <1>6, <3>1
    <3> HIDE DEF first
    <3>4. new \in Wire /\ DOMAIN new = 1..n
      BY <2>2, <3>2, <3>3 DEF Wire
    <3>5. ASSUME NEW i \in 1..n
          PROVE  new[i] = IF i = n THEN Event(o, "init_done") ELSE Event(o, infos[i])
      <4>1. CASE i = n
        BY <2>2, <3>2, <3>3, <4>1 DEF Wire
      <4>2. CASE i # n
        <5>1. i \in 1..Len(infos) /\ new[i] = first[i]
          BY <2>2, <3>2, <3>3, <4>2 DEF Wire
        <5> QED BY <4>2, <5>1 DEF first
      <4> QED BY <4>1, <4>2
    <3> QED BY <3>4, <3>5
  <2> HIDE DEF new, n, t, im, s, d
  <2>4. /\ \A i \in DOMAIN new : new[i].out = o
        /\ \A i \in DOMAIN new : new[i].kind = "init_done" <=> i = n
        /\ \A i \in DOMAIN new : i # n => new[i].kind \in BufferKinds
    <3> SUFFICES ASSUME NEW i \in DOMAIN new
                 PROVE  /\ new[i].out = o
                        /\ new[i].kind = "init_done" <=> i = n
                        /\ i # n => new[i].kind \in BufferKinds
      OBVIOUS
    <3>1. CASE i = n
      BY <2>2, <2>3, <3>1 DEF Event
    <3>2. CASE i # n
      <4>1. i \in 1..Len(infos) /\ new[i] = Event(o, infos[i])
        BY <2>2, <2>3, <3>2 DEF n
      <4> QED BY <2>2, <3>2, <4>1 DEF Event, BufferKinds
    <3> QED BY <3>1, <3>2
  <2>5. OutputInv(o, events \o new, d, "described", t, im, Known, present)
    <3>1. s = "new"
      BY <2>0 DEF s
    <3> QED BY <1>7, <2>2, <2>3, <2>4, <3>1, DescribeKeeps
  <2>6. events' = events \o new
    BY <2>1 DEF Send, new
  <2>7. /\ stage'[o] = "described" /\ told'[o] = t /\ image'[o] = im
        /\ stage' \in [Outputs -> Stages] /\ told' = told /\ image' = image
        /\ \A p \in Outputs : p # o => stage'[p] = stage[p]
    BY <1>3, <2>0 DEF Stages, Live, t, im
  <2>8. OutputInv(o, events', data[o], stage'[o], told'[o], image'[o], Known, present)
    BY <2>5, <2>6, <2>7 DEF d
  <2>9. events' \in Wire /\ \A p \in Outputs : p # o => Kept(p, events, events')
    BY <1>3, <2>3, <2>4, <2>6, SendsAbout
  <2> QED BY <1>2, <1>3, <2>0, <2>7, <2>8, <2>9, SendStep
<1>9. CASE Notify(o)
  <2> DEFINE e == Event(o, IF t THEN "leave" ELSE "enter")
  <2>1. s \in Live \ {"new"} /\ events' = events \o <<e>> /\ UNCHANGED <<stage, image>>
    BY <1>9 DEF Notify, Send
  <2>2. /\ told'[o] = ~t /\ told' \in [Outputs -> BOOLEAN]
        /\ \A p \in Outputs : p # o => told'[p] = told[p]
    BY <1>3, <1>9 DEF Notify
  <2>3. e \in Events /\ e.out = o /\ e.kind = IF t THEN "leave" ELSE "enter"
    <3>1. "leave" \in SessionKinds /\ "enter" \in SessionKinds
      BY DEF SessionKinds
    <3> QED BY <1>5, <3>1
  <2> HIDE DEF e, t, im, s, d
  <2>4. OutputInv(o, events \o <<e>>, d, s, ~t, im, Known, present)
    BY <1>7, <2>1, <2>3, NotifyKeeps
  <2>5. OutputInv(o, events', data[o], stage'[o], told'[o], image'[o], Known, present)
    BY <2>1, <2>2, <2>4 DEF d, s, im
  <2>6. events' \in Wire /\ \A p \in Outputs : p # o => Kept(p, events, events')
    BY <1>3, <1>6, <2>1, <2>3, SendsAbout
  <2>7. stage[o] # "none"
    BY <2>1 DEF s, Live
  <2> QED BY <1>2, <1>3, <2>1, <2>2, <2>5, <2>6, <2>7, SendStep
<1>10. CASE CopyCursor(o)
  <2> DEFINE e == CursorInfo(o, IF im = shape THEN "cursor_info" ELSE "cursor_info_damaged", shape)
             r == Event(o, "ready")
             new == <<e, r>>
  <2>1. /\ s = "waiting" /\ events' = events \o new
        /\ stage' = [stage EXCEPT ![o] = "copied"] /\ image' = [image EXCEPT ![o] = shape]
        /\ told' = told
    BY <1>10 DEF CopyCursor, Send
  <2>2. /\ stage'[o] = "copied" /\ stage' \in [Outputs -> Stages]
        /\ image'[o] = shape /\ image' \in [Outputs -> Images]
        /\ \A p \in Outputs : p # o => stage'[p] = stage[p] /\ image'[p] = image[p]
    BY <1>3, <2>1 DEF Stages, Live, Images
  <2>3. /\ e \in Events /\ e.out = o /\ e.hot = shape
        /\ e.kind = IF im = shape THEN "cursor_info" ELSE "cursor_info_damaged"
        /\ r \in Events /\ r.out = o /\ r.kind = "ready"
    <3>1. {"ready", "cursor_info", "cursor_info_damaged"} \subseteq SessionKinds
      BY DEF SessionKinds
    <3>2. shape \in Images
      BY <1>3 DEF Images
    <3> QED BY <1>5, <3>1, <3>2 DEF CursorInfo, Events
  <2> HIDE DEF e, r, t, im, s, d
  <2>4. OutputInv(o, events \o new, d, "copied", t, shape, Known, present)
    BY <1>3, <1>7, <2>1, <2>3, BlankAssumption, CopyCursorKeeps
  <2>5. new \in Wire /\ \A i \in DOMAIN new : new[i].out = o
    BY <2>3 DEF Wire
  <2> HIDE DEF new
  <2>6. OutputInv(o, events', data[o], stage'[o], told'[o], image'[o], Known, present)
    BY <2>1, <2>2, <2>4 DEF d, t
  <2>7. events' \in Wire /\ \A p \in Outputs : p # o => Kept(p, events, events')
    BY <1>3, <2>1, <2>5, SendsAbout
  <2>8. stage[o] # "none"
    BY <2>1 DEF s
  <2> QED BY <1>2, <1>3, <2>1, <2>2, <2>6, <2>7, <2>8, SendStep
<1>11. ASSUME NEW k \in {"ready", "failed_disabled", "failed"}, NEW x \in Stages,
              events' = events \o <<Event(o, k)>>, s \in Live,
              stage' = [stage EXCEPT ![o] = x], UNCHANGED <<told, image>>,
              OutputInv(o, events \o <<Event(o, k)>>, d, x, t, im, Known, present)
       PROVE  WlInv'
  <2>1. /\ stage'[o] = x /\ stage' \in [Outputs -> Stages]
        /\ \A p \in Outputs : p # o => stage'[p] = stage[p]
    BY <1>3, <1>11
  <2>2. Event(o, k) \in Events /\ Event(o, k).out = o
    BY <1>5 DEF SessionKinds
  <2>3. OutputInv(o, events', data[o], stage'[o], told'[o], image'[o], Known, present)
    BY <1>11, <2>1
  <2>4. events' \in Wire /\ \A p \in Outputs : p # o => Kept(p, events, events')
    BY <1>3, <1>6, <1>11, <2>2, SendsAbout
  <2>5. stage[o] # "none"
    BY <1>11 DEF Live
  <2> QED BY <1>2, <1>3, <1>11, <2>1, <2>3, <2>4, <2>5, SendStep
<1>12. CASE CopyFrame(o)
  <2>1. /\ s = "waiting" /\ events' = events \o <<Event(o, "ready")>>
        /\ stage' = [stage EXCEPT ![o] = "copied"] /\ UNCHANGED <<told, image>>
    BY <1>12 DEF CopyFrame, Send
  <2>2. Event(o, "ready") \in Events /\ Event(o, "ready").out = o /\ Event(o, "ready").kind = "ready"
    BY <1>5 DEF SessionKinds
  <2> HIDE DEF t, im, s, d
  <2>3. OutputInv(o, events \o <<Event(o, "ready")>>, d, "copied", t, im, Known, present)
    BY <1>7, <2>1, <2>2, CopyFrameKeeps
  <2> QED BY <1>11, <2>1, <2>3 DEF Stages, Live
<1>13. CASE FailDisabled(o) \/ Fail(o)
  <2> PICK x, k :
          /\ (x = "off" /\ k = "failed_disabled") \/ (x = "failed" /\ k = "failed")
          /\ s \in Live /\ events' = events \o <<Event(o, k)>>
          /\ stage' = [stage EXCEPT ![o] = x] /\ UNCHANGED <<told, image>>
    BY <1>13 DEF FailDisabled, Fail, Send
  <2>2. Event(o, k) \in Events /\ Event(o, k).out = o /\ Event(o, k).kind = k
    BY <1>5 DEF SessionKinds
  <2> HIDE DEF t, im, s, d
  <2>3. OutputInv(o, events \o <<Event(o, k)>>, d, x, t, im, Known, present)
    BY <1>7, <2>2, FailKeeps
  <2> QED BY <1>11, <2>3 DEF Stages
<1> QED BY <1>1, <1>8, <1>9, <1>10, <1>12, <1>13

\* The user plugs and unplugs o.
LEMMA PlugStep ==
    ASSUME WlInv, NEW o \in Outputs, Plug(o) \/ Unplug(o),
           UNCHANGED <<sourceVars, cursorVars, outputs, data, supports, sessionVars>>
    PROVE  WlInv'
<1> USE DEF sourceVars, cursorVars, sessionVars
<1> DEFINE e == Event(o, IF Plug(o) THEN "global" ELSE "global_remove")
           lost == IF abandoned THEN <<Abandoned>> ELSE <<>>
           new == IF Registered THEN <<e>> ELSE <<>>
           es == events \o lost
<1>1. events \in Wire
  BY DEF WlInv, WlTypeOK, Wire
<1>2. /\ Known' = Known /\ Registered' = Registered
      /\ outputs' \in Seq(Outputs) /\ IsInjective(outputs)'
  BY DEF Known, Registered, WlInv, WlTypeOK, IsInjective
<1>3. /\ present' \in SUBSET Outputs /\ enabled' \in SUBSET present'
      /\ pointer' \in enabled' \cup {NoOutput} /\ shape' = shape
      /\ \A p \in Outputs : p # o => (p \in present' => p \in present)
  BY DEF Plug, Unplug, WlInv, WlTypeOK
<1>4. /\ e \in Events /\ e.out = o /\ e.kind = IF Plug(o) THEN "global" ELSE "global_remove"
      /\ <<e>> \in Wire /\ DOMAIN <<e>> = {1} /\ <<e>>[1] = e
  BY DEF Event, Events, Images, GlobalKinds, Wire
<1>5. /\ Plug(o) => /\ o \notin Known /\ o \in present'
                    /\ \A i \in DOMAIN events : events[i].out # o
      /\ ~Plug(o) => Unplug(o) /\ o \notin present'
  BY DEF Plug, Unplug
<1>6. lost \in Wire /\ AboutNone(lost) /\ new \in Wire
  <2>1. <<>> \in Wire /\ AboutNone(<<>>)
    BY DEF Wire, AboutNone
  <2>2. <<Abandoned>> \in Wire /\ AboutNone(<<Abandoned>>)
    BY DEF Wire, AboutNone, Abandoned
  <2> QED BY <1>4, <2>1, <2>2
<1>7. events' = es \o new
  <2>1. events' = events \o (lost \o new)
    <3>1. CASE Plug(o)
      BY <3>1 DEF Plug, Announce, Send
    <3>2. CASE ~Plug(o)
      BY <1>5, <3>2 DEF Unplug, Announce, Send
    <3> QED BY <3>1, <3>2
  <2> HIDE DEF lost, new
  <2> QED BY <1>1, <1>6, <2>1, ConcatAssociative DEF Wire
<1> HIDE DEF e, lost
<1>8. es \in Wire /\ \A p \in Outputs : Kept(p, events, es)
  <2>1. ASSUME NEW p \in Outputs  PROVE \A i \in DOMAIN lost : lost[i].out # p
    BY <1>6, NoOutputAssumption DEF AboutNone
  <2> QED BY <1>1, <1>6, <2>1, SendAdds
<1>9. AboutNone(events) => AboutNone(es)
  BY <1>1, <1>6 DEF AboutNone, Wire
<1> HIDE DEF es
<1>10. CASE Registered
  <2>1. severed = FALSE /\ OutputsInv /\ events' = es \o <<e>>
    BY <1>7, <1>10 DEF WlInv, WlTypeOK, Registered
  <2>2. events' \in Wire /\ \A p \in Outputs : p # o => Kept(p, es, events')
    BY <1>4, <1>8, <2>1, SendsAbout
  <2>3. \A p \in Outputs : p # o => Kept(p, events, events')
    BY <1>8, <2>2, KeptTwice
  <2>4. OutputInv(o, es, data[o], stage[o], told[o], image[o], Known, present)
    <3>1. OutputInv(o, events, data[o], stage[o], told[o], image[o], Known, present)
      BY <2>1 DEF OutputsInv
    <3> QED BY <1>8, <3>1, OthersKeep
  <2>5. Plug(o) => ~Waits(es, o, GlobalKinds)
    BY <1>5, <1>8 DEF Kept, Waits
  <2>6. \/ e.kind = "global_remove" /\ o \notin present'
        \/ e.kind = "global" /\ o \notin Known /\ ~Waits(es, o, GlobalKinds)
    BY <1>4, <1>5, <2>5
  <2>7. OutputInv(o, es \o <<e>>, data[o], stage[o], told[o], image[o], Known, present')
    BY <1>4, <1>8, <2>4, <2>6, PlugKeeps
  <2>8. OutputsInv'
    <3>1. \A p \in Outputs : data'[p] = data[p]
      OBVIOUS
    <3>2. OutputInv(o, events', data'[o], stage'[o], told'[o], image'[o], Known', present')
      BY <1>2, <2>1, <2>7
    <3> QED BY <1>2, <1>3, <2>1, <2>3, <3>1, <3>2, OneOutput
  <2>9. WlTypeOK'
    BY <1>2, <1>3, <2>2 DEF Wire, WlInv, WlTypeOK
  <2>10. ASSUME NEW p \in present'  PROVE p \in Known \/ Waits(events', p, {"global"})
    <3>1. CASE p = o
      <4>1. Plug(o) /\ e.kind = "global"
        BY <1>4, <1>5, <3>1
      <4>2. Waits(<<e>>, o, {"global"})
        BY <1>4, <4>1 DEF Waits
      <4> QED BY <1>4, <1>8, <2>1, <3>1, <4>2, SendAdds
    <3>2. CASE p # o
      <4>1. p \in Outputs /\ (p \in Known \/ Waits(events, p, {"global"}))
        BY <1>3, <1>10, <3>2 DEF WlInv, Connected
      <4> QED BY <2>3, <3>2, <4>1 DEF Kept
    <3> QED BY <3>1, <3>2
  <2>11. Connected'
    BY <1>2, <1>10, <2>10 DEF WlInv, Connected, Registered
  <2> QED BY <2>1, <2>8, <2>9, <2>11 DEF WlInv
<1>11. CASE ~Registered
  <2>1. events' = es /\ AboutNone(events) /\ AboutNone(events')
    <3>1. AboutNone(events)
      BY <1>11 DEF WlInv, Connected, AboutNone
    <3>2. es \o <<>> = es
      BY <1>8, ConcatEmptySeq DEF Wire
    <3> QED BY <1>7, <1>9, <1>11, <3>1, <3>2
  <2>2. WlTypeOK'
    BY <1>2, <1>3, <1>8, <2>1 DEF Wire, WlInv, WlTypeOK
  <2>3. Connected'
    BY <1>2, <1>11, <2>1 DEF WlInv, Connected, Registered, AboutNone
  <2>4. ASSUME OutputsInv  PROVE OutputsInv'
    <3>1. \A p \in Outputs : data'[p] = data[p] /\ Kept(p, events, events')
      BY <1>8, <2>1
    <3>2. OutputInv(o, events, data[o], stage[o], told[o], image[o], Known, present)
      BY <2>4 DEF OutputsInv
    <3>3. \A i \in DOMAIN events : events[i].out # o
      BY <2>1, NoOutputAssumption DEF AboutNone
    <3>4. OutputInv(o, events, data[o], stage[o], told[o], image[o], Known, present')
      BY <3>2, <3>3 DEF OutputInv, GlobalPart, Waits
    <3>5. OutputInv(o, events', data'[o], stage'[o], told'[o], image'[o], Known', present')
      BY <1>2, <3>1, <3>4, OthersKeep
    <3> QED BY <1>2, <1>3, <2>4, <3>1, <3>5, OneOutput
  <2>5. severed => NothingLeft'
    BY DEF WlInv, NothingLeft
  <2> QED BY <2>2, <2>3, <2>4, <2>5 DEF WlInv
<1> QED BY <1>10, <1>11

\* The user.
LEMMA UserStep ==
    ASSUME WlInv, UserNext
    PROVE  WlInv'
<1>1. UNCHANGED <<sourceVars, cursorVars, outputs, data, supports, sessionVars>>
  BY DEF UserNext
<1>2. ASSUME NEW o \in Outputs, Plug(o) \/ Unplug(o)  PROVE WlInv'
  BY <1>1, <1>2, PlugStep
<1>3. /\ enabled \in SUBSET present /\ pointer \in enabled \cup {NoOutput} /\ shape \in Shapes
      /\ NoOutput \notin present /\ crashed \in BOOLEAN
  BY NoOutputAssumption DEF WlInv, WlTypeOK
<1>4. ASSUME NEW o \in Outputs, Switch(o)  PROVE WlInv'
  BY <1>1, <1>3, <1>4, QuietStep DEF Switch, cursorVars
<1>5. ASSUME NEW o \in Outputs \cup {NoOutput}, Move(o)  PROVE WlInv'
  BY <1>1, <1>3, <1>5, QuietStep DEF Move, cursorVars
<1>6. ASSUME NEW s \in Shapes, Reshape(s)  PROVE WlInv'
  BY <1>1, <1>3, <1>6, QuietStep DEF Reshape, cursorVars
<1> QED BY <1>2, <1>4, <1>5, <1>6 DEF UserNext

\* Every step keeps the invariant.
LEMMA WlInvStep == WlInv /\ [WlNext]_wlVars => WlInv'
<1> SUFFICES ASSUME WlInv, [WlNext]_wlVars PROVE WlInv'
  OBVIOUS
<1>1. CASE UNCHANGED wlVars
  BY <1>1, QuietStep DEF wlVars, cursorVars, userVars, WlInv, WlTypeOK
<1>2. CASE WlNext
  BY <1>2, SourceStep, DispatchStep, SessionStep, UserStep DEF WlNext
<1> QED BY <1>1, <1>2

-----------------------------------------------------------------------------
(***************************************************************************)
(* What the invariant says when nothing waits.                             *)
(***************************************************************************)

\* No event about o is on the wire: its picture and its pointer are those of
\* the compositor, and its session is not failing.
LEMMA WhenHeard ==
    ASSUME WlInv, ~severed, NEW o \in Outputs, Heard(o)
    PROVE  /\ image[o] # Blank => Shown(data[o], image[o]) = image[o] /\ data[o].hot = image[o]
           /\ data[o].have_cursor = told[o]
           /\ stage[o] \in {"none", "new", "described", "waiting", "failed"}
           /\ stage[o] \in {"failed", "described"} => data[o].buffer = FALSE
           /\ stage[o] = "waiting" => data[o].buffer = TRUE
           /\ data[o].buffer = FALSE => data[o].texture = FALSE
<1>1. /\ OutputInv(o, events, data[o], stage[o], told[o], image[o], Known, present)
      /\ stage[o] \in Stages
  BY DEF WlInv, WlTypeOK, OutputsInv
<1>2. \A kinds : ~Waits(events, o, kinds)
  BY DEF Heard, Waits
<1>3. image[o] # Blank => Shown(data[o], image[o]) = image[o] /\ data[o].hot = image[o]
  BY <1>1, <1>2 DEF OutputInv, ImagePart
<1>4. data[o].have_cursor = told[o]
  BY <1>1, <1>2 DEF OutputInv, ToldPart
<1>5. stage[o] # "off" /\ (stage[o] = "failed" => data[o].buffer = FALSE)
  BY <1>1, <1>2 DEF OutputInv, StagePart
<1>6. stage[o] # "copied"
  BY <1>1, <1>2 DEF OutputInv, CopiedPart
<1>7. /\ stage[o] = "described" => data[o].buffer = FALSE
      /\ stage[o] = "waiting" => data[o].buffer = TRUE
      /\ data[o].buffer = FALSE => data[o].texture = FALSE
  BY <1>1, <1>2 DEF OutputInv, DescribedPart
<1> QED BY <1>1, <1>3, <1>4, <1>5, <1>6, <1>7 DEF Stages, Live

\* No output that wl_cursor_render looks at has a pointer and a texture.
LEMMA NothingDrawn ==
    ASSUME \A o \in Known : ~(data[o].have_cursor /\ data[o].texture)
    PROVE  Drawn = NoOutput
  BY DEF Drawn, Known

\* One has.
LEMMA OneDrawn ==
    ASSUME outputs \in Seq(Outputs), IsInjective(outputs),
           NEW p \in Known, data[p].have_cursor /\ data[p].texture,
           \A o \in Known : o # p => ~(data[o].have_cursor /\ data[o].texture)
    PROVE  Drawn = p
<1> DEFINE shown == {i \in DOMAIN outputs :
                        data[outputs[i]].have_cursor /\ data[outputs[i]].texture}
<1>1. PICK k \in DOMAIN outputs : outputs[k] = p
  BY DEF Known
<1>2. k \in Int
  BY <1>1
<1>3. shown = {k}
  BY <1>1 DEF IsInjective, Known
<1> HIDE DEF shown
<1>4. (CHOOSE i \in shown : \A j \in shown : i <= j) = k
  BY <1>2, <1>3
<1>5. shown # {}
  BY <1>3
<1>6. Drawn = outputs[CHOOSE i \in shown : \A j \in shown : i <= j]
  BY <1>5 DEF Drawn, shown
<1> QED BY <1>1, <1>4, <1>6

\* With nothing left to do, the pointer's output alone can be drawn.
LEMMA AtRestDraws == WlInv => CursorAtRest
<1> SUFFICES ASSUME WlInv, AtRest
             PROVE  IF pointer = NoOutput THEN Drawn = NoOutput
                    ELSE \/ Lost(pointer) /\ Drawn = NoOutput
                         \/ Drawn = pointer /\ data[pointer].tex = shape
  BY DEF CursorAtRest
<1>1. /\ outputs \in Seq(Outputs) /\ IsInjective(outputs) /\ Known \subseteq Outputs
      /\ pointer \in present \cup {NoOutput} /\ present \subseteq Outputs
      /\ shape # Blank /\ ~severed /\ OutputsInv
      /\ \A o \in Outputs : data[o] \in OutputData
  BY BlankAssumption DEF WlInv, WlTypeOK, Known, AtRest, Registered
<1>2. \A o \in Outputs : Heard(o)
  BY DEF AtRest, Heard
<1>3. ASSUME NEW o \in Known, o # pointer
      PROVE  ~(data[o].have_cursor /\ data[o].texture)
  <2>1. o \in Outputs /\ stage[o] # "none"
    <3>1. o \in Outputs
      BY <1>1
    <3>2. OutputInv(o, events, data[o], stage[o], told[o], image[o], Known, present)
      BY <1>1, <3>1 DEF OutputsInv
    <3> QED BY <3>1, <3>2 DEF OutputInv, KnownPart
  <2>2. stage[o] \in Live => told[o] = FALSE
    BY <1>3, <2>1 DEF AtRest
  <2> QED BY <1>1, <1>2, <2>1, <2>2, WhenHeard DEF Live
<1>4. CASE pointer = NoOutput
  <2>1. \A o \in Known : o # pointer
    BY <1>1, <1>4, NoOutputAssumption
  <2> QED BY <1>3, <1>4, <2>1, NothingDrawn
<1>5. CASE pointer # NoOutput
  <2>1. pointer \in Outputs /\ pointer \in Known
    <3>1. pointer \in Known \/ Waits(events, pointer, {"global"})
      BY <1>1, <1>5 DEF WlInv, Connected, AtRest
    <3>2. pointer \in Outputs
      BY <1>1, <1>5
    <3> QED BY <1>2, <3>1, <3>2 DEF Heard, Waits
  <2>2. stage[pointer] # "none"
    <3>1. OutputInv(pointer, events, data[pointer], stage[pointer], told[pointer],
                    image[pointer], Known, present)
      BY <1>1, <2>1 DEF OutputsInv
    <3> QED BY <2>1, <3>1 DEF OutputInv, KnownPart
  <2>3. CASE stage[pointer] \in {"failed", "described"}
    <3>1. data[pointer].buffer = FALSE /\ data[pointer].texture = FALSE
      BY <1>1, <1>2, <2>1, <2>3, WhenHeard
    <3>2. \A o \in Known : ~(data[o].have_cursor /\ data[o].texture)
      BY <1>3, <3>1
    <3>3. Drawn = NoOutput
      BY <3>2, NothingDrawn
    <3>4. Lost(pointer)
      BY <2>3, <3>1 DEF Lost
    <3> QED BY <1>5, <3>3, <3>4
  <2>4. CASE stage[pointer] = "waiting"
    <3>1. told[pointer] = TRUE /\ image[pointer] = shape
      BY <2>1, <2>4 DEF AtRest, Live
    <3>2. /\ data[pointer].have_cursor = TRUE /\ data[pointer].buffer = TRUE
          /\ Shown(data[pointer], shape) = shape
      BY <1>1, <1>2, <2>1, <2>4, <3>1, WhenHeard
    <3>3. CASE data[pointer].texture = TRUE
      <4>1. Drawn = pointer
        BY <1>1, <1>3, <2>1, <3>2, <3>3, OneDrawn
      <4>2. data[pointer].tex = shape
        BY <3>2, <3>3 DEF Shown
      <4> QED BY <1>5, <4>1, <4>2
    <3>4. CASE data[pointer].texture = FALSE
      <4>1. \A o \in Known : ~(data[o].have_cursor /\ data[o].texture)
        BY <1>3, <3>4
      <4>2. Drawn = NoOutput
        BY <4>1, NothingDrawn
      <4>3. Lost(pointer)
        BY <3>2, <3>4 DEF Lost
      <4> QED BY <1>5, <4>2, <4>3
    <3>5. data[pointer].texture \in BOOLEAN
      BY <1>1, <2>1 DEF OutputData
    <3> QED BY <3>3, <3>4, <3>5
  <2>5. stage[pointer] # "new"
    BY <2>1 DEF AtRest, Live
  <2> QED BY <1>1, <1>2, <2>1, <2>2, <2>3, <2>4, <2>5, WhenHeard
<1> QED BY <1>4, <1>5

-----------------------------------------------------------------------------
(***************************************************************************)
(* What follows for every behaviour.                                       *)
(***************************************************************************)

\* The invariant holds in every state of every behaviour.
LEMMA WlInvAlways == WlSpec => []WlInv
  BY WlInvInit, WlInvStep, PTL DEF WlSpec

\* Every variable keeps its type; in particular no output is listed twice in
\* wlcursor->outputs, and the pointer is on an output that is on.
THEOREM CursorTypes == WlSpec => []WlTypeOK
<1>1. WlInv => WlTypeOK
  BY DEF WlInv
<1> QED BY <1>1, WlInvAlways, PTL

\* Every output in wlcursor->outputs has a session or one that failed for good,
\* unless the connection was closed under wlcursor; and the compositor keeps no
\* session for any other (capture_output and its callers, output_data_reset,
\* handle_global_remove).
THEOREM OneSession == WlSpec => []OneSessionPerOutput
<1>1. WlInv => OneSessionPerOutput
  <2> SUFFICES ASSUME WlInv, NEW o \in Outputs
               PROVE  /\ o \in Known /\ ~severed => data[o].session \/ stage[o] = "failed"
                      /\ stage[o] \in Live \cup {"off"} => o \in Known /\ data[o].session
    BY DEF OneSessionPerOutput
  <2>1. CASE severed
    BY <2>1 DEF WlInv, NothingLeft, Live
  <2>2. CASE ~severed
    <3>1. /\ OutputInv(o, events, data[o], stage[o], told[o], image[o], Known, present)
          /\ stage[o] \in Stages
      BY <2>2 DEF WlInv, WlTypeOK, OutputsInv
    <3>2. stage[o] \in Live \cup {"off"} => data[o].session = TRUE
      BY <3>1 DEF OutputInv, StagePart
    <3>3. stage[o] # "none" <=> o \in Known
      BY <3>1 DEF OutputInv, KnownPart
    <3> QED BY <3>1, <3>2, <3>3 DEF Stages, Live
  <2> QED BY <2>1, <2>2
<1> QED BY <1>1, WlInvAlways, PTL

\* When no event of an output waits, its texture, if it has one, its position
\* and its hotspot are of the image last copied (session_handle_cursor_info,
\* session_handle_ready).
THEOREM PictureCurrent == WlSpec => []PictureIsCurrent
<1>1. WlInv => PictureIsCurrent
  <2> SUFFICES ASSUME WlInv, NEW o \in Known,
                      data[o].texture, image[o] # Blank, Heard(o)
               PROVE  data[o].tex = image[o] /\ data[o].hot = image[o]
    BY DEF PictureIsCurrent
  <2>1. o \in Outputs /\ data[o].texture = TRUE
    BY DEF WlInv, WlTypeOK, Known, OutputData
  <2>2. ~severed
    BY <2>1 DEF WlInv, NothingLeft
  <2> QED BY <2>1, <2>2, WhenHeard DEF Shown
<1> QED BY <1>1, WlInvAlways, PTL

\* When neither side has anything left to do, and the connection that wlcursor
\* was made on is open, wl_cursor_render draws the pointer where and as it is,
\* or its output's session is lost. The teardown that cursor_destroy makes step
\* by step, with sources created in between, is one of the things that may have
\* gone before.
THEOREM RestCorrect == WlSpec => []CursorAtRest
  BY AtRestDraws, WlInvAlways, PTL

\* Without sources, and with the thread done, there is no connection
\* (cursor_destroy).
THEOREM TornDown == WlSpec => []CursorTornDown
<1>1. WlInv => CursorTornDown
  BY DEF WlInv, Connected, CursorTornDown
<1> QED BY <1>1, WlInvAlways, PTL
=============================================================================
