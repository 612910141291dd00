---------------------------- MODULE VkLayer_proofs ----------------------------
(***************************************************************************)
(* What the layer of VkLayer keeps, for any numbers of devices, queues,    *)
(* swapchains, images and exports.                                         *)
(*                                                                         *)
(* The handlers of VkLayer are functions of the state, so the lemmas are   *)
(* about a state x that is any element of State; the state of the system   *)
(* is Now, and Now' the next one. From the inside out: waiting for frames, *)
(* the rings, the copy, the exported buffer, then the calls of the layer,  *)
(* and the inductive invariants                                            *)
(*                                                                         *)
(*   Sound     the fences, rings, devices and swapchains fit each other,   *)
(*   Whole     what is held is one whole export, of the captured           *)
(*             swapchain, and all copies go there (one device),            *)
(*   AllTurns  the presents wait for frames whose turn is not due (a queue *)
(*             and a swapchain for each device).                           *)
(***************************************************************************)
EXTENDS VkLayer, Integers, FiniteSetTheorems, SequenceTheorems, WellFoundedInduction, TLAPS

-----------------------------------------------------------------------------
(***************************************************************************)
(* The state of the layer, as the record its handlers are functions of.    *)
(***************************************************************************)

\* struct vk_data and struct vk_swap_data, a ring, a copy and a present.
DeviceData ==
    [live : BOOLEAN, valid : BOOLEAN, cur_swap : Swaps \cup {NoSwap},
     graphics_queue : Queues \cup {NoQueue}]
SwapData ==
    [live : BOOLEAN, listed : BOOLEAN, images : 0..MaxImages, valid_rect : BOOLEAN,
     export : [Parts -> Exports \cup {NoExport}]]
Ring == [busy : Seq(BOOLEAN), next : 1..MaxImages]
Copy == [frame : 1..MaxImages, swap : Swaps, to : Exports]
Present == [swap : Swaps, wait : Waits]

\* What Now is an element of.
State ==
    [capturing : BOOLEAN, dev : [Devices -> DeviceData], swap : [Swaps -> SwapData],
     ring : [Queues -> Ring], held : SUBSET (Parts \X Exports),
     gpu : [Queues -> Seq(Copy)], shown : [Queues -> Seq(Present)]]

-----------------------------------------------------------------------------
(***************************************************************************)
(* Waiting for frames                                                      *)
(***************************************************************************)

\* A set of numbers up to n that has any has a greatest.
LEMMA MaxIsGreatest ==
    ASSUME NEW n \in Nat, NEW S \in SUBSET (0..n), S # {}
    PROVE  Max(S) \in S /\ \A k \in S : k <= Max(S)
<1> DEFINE R == OpToRel(<, Nat)
           T == {n - k : k \in S}
<1>1. IsWellFoundedOn(R, Nat)
  BY NatLessThanWellFounded, Zenon
<1>2. \A i, j \in Nat : <<i, j>> \in R <=> i < j
  BY DEF OpToRel
<1>3. T \subseteq Nat /\ T # {}
  OBVIOUS
<1> HIDE DEF R, T
<1>4. PICK i \in T : \A j \in T : ~(<<j, i>> \in R)
  BY <1>1, <1>3, WFMin
<1>5. PICK m \in S : i = n - m
  BY DEF T
<1>6. ASSUME NEW k \in S  PROVE m >= k
  <2>1. n - k \in T
    BY DEF T
  <2>2. ~(n - k < i)
    BY <1>2, <1>3, <1>4, <2>1
  <2> QED BY <1>5, <2>2
<1>7. \E x \in S : \A y \in S : x >= y
  BY <1>6
<1>8. Max(S) \in S /\ \A y \in S : Max(S) >= y
  BY <1>7 DEF Max
<1> QED BY <1>8

\* All but the first m.
LEMMA Suffix ==
    ASSUME NEW S, NEW es \in Seq(S), NEW m \in 0..Len(es)
    PROVE  LET fs == SubSeq(es, m + 1, Len(es))
           IN  /\ fs \in Seq(S) /\ Len(fs) = Len(es) - m
               /\ DOMAIN fs = 1..(Len(es) - m)
               /\ \A i \in DOMAIN fs : fs[i] = es[m + i] /\ m + i \in DOMAIN es
<1> DEFINE fs == SubSeq(es, m + 1, Len(es))
           n == Len(es)
<1>0. n \in Nat /\ m \in Nat /\ m <= n
  OBVIOUS
<1>1. /\ m + 1 \in Int /\ n \in Int
      /\ \A i \in (m + 1)..n : es[i] \in S
  BY <1>0
<1>2. /\ fs \in Seq(S)
      /\ Len(fs) = IF m + 1 <= n THEN n - (m + 1) + 1 ELSE 0
      /\ \A i \in 1..(n - (m + 1) + 1) : fs[i] = es[(m + 1) + i - 1]
  BY <1>1, SubSeqProperties
<1> HIDE DEF fs, n
<1>3. n - (m + 1) + 1 = n - m
  BY <1>0
<1>4. Len(fs) = n - m
  <2>1. CASE m + 1 <= n
    BY <1>2, <1>3, <2>1
  <2>2. CASE ~(m + 1 <= n)
    <3>1. n - m = 0
      BY <1>0, <2>2
    <3> QED BY <1>2, <2>2, <3>1
  <2> QED BY <2>1, <2>2
<1>5. DOMAIN fs = 1..(n - m)
  BY <1>2, <1>4
<1>6. ASSUME NEW i \in 1..(n - m)  PROVE fs[i] = es[m + i] /\ m + i \in 1..n
  <2>1. (m + 1) + i - 1 = m + i /\ m + i \in 1..n
    BY <1>0
  <2> QED BY <1>2, <1>3, <2>1
<1>7. DOMAIN es = 1..n
  BY DEF n
<1> QED BY <1>2, <1>4, <1>5, <1>6, <1>7 DEF fs, n

\* What is left of a queue's copies after some of the first have completed,
\* those in S among them.
Left(es, fs, S) ==
    \E m \in 0..Len(es) :
        /\ Len(fs) = Len(es) - m
        /\ DOMAIN fs = 1..(Len(es) - m)
        /\ \A i \in DOMAIN fs : fs[i] = es[m + i] /\ m + i \in DOMAIN es /\ m + i \notin S

\* What follows the last element of S has none of S.
LEMMA AfterTheLast ==
    ASSUME NEW C, NEW es \in Seq(C), NEW S \in SUBSET DOMAIN es
    PROVE  LET fs == SubSeq(es, Max(S \cup {0}) + 1, Len(es))
           IN  fs \in Seq(C) /\ Left(es, fs, S)
<1> DEFINE m == Max(S \cup {0})
           fs == SubSeq(es, m + 1, Len(es))
<1>1. m \in S \cup {0} /\ \A k \in S : k <= m
  <2>1. Len(es) \in Nat /\ S \cup {0} \in SUBSET (0..Len(es)) /\ S \cup {0} # {}
    OBVIOUS
  <2> QED BY <2>1, MaxIsGreatest
<1> HIDE DEF m
<1>2. m \in 0..Len(es)
  BY <1>1
<1>3. /\ fs \in Seq(C) /\ Len(fs) = Len(es) - m
      /\ DOMAIN fs = 1..(Len(es) - m)
      /\ \A i \in DOMAIN fs : fs[i] = es[m + i] /\ m + i \in DOMAIN es
  BY <1>2, Suffix
<1> HIDE DEF fs
<1>4. ASSUME NEW i \in DOMAIN fs  PROVE m + i \notin S
  BY <1>1, <1>2, <1>3
<1>5. Left(es, fs, S)
  BY <1>2, <1>3, <1>4 DEF Left
<1> QED BY <1>3, <1>5 DEF fs, m

-----------------------------------------------------------------------------
(***************************************************************************)
(* Waiting: what is left of the copies when frames were waited for         *)
(***************************************************************************)

\* FramesInFlight of a state.
InFlight(x) ==
    \A q \in Queues : \A i, j \in DOMAIN x.gpu[q] :
        /\ x.gpu[q][i].frame \in DOMAIN x.ring[q].busy
        /\ x.ring[q].busy[x.gpu[q][i].frame] = TRUE
        /\ x.gpu[q][i].frame = x.gpu[q][j].frame => i = j

\* No copy of y is new since x.
NoneNew(x, y) ==
    \A q \in Queues : \A i \in DOMAIN y.gpu[q] :
        \E j \in DOMAIN x.gpu[q] : y.gpu[q][i] = x.gpu[q][j]

\* The copies of queue q that have to complete.
Due(x, W, q) ==
    {i \in DOMAIN x.gpu[q] : LET f == x.gpu[q][i].frame
                             IN  <<q, f>> \in W /\ x.ring[q].busy[f]}

\* vk_shtex_destroy_fence: the fences are cleared, and copies complete.
LEMMA WaitedIs ==
    ASSUME NEW x \in State, NEW W
    PROVE  LET y == Waited(x, W)
           IN  /\ y \in State
               /\ y.capturing = x.capturing /\ y.dev = x.dev /\ y.swap = x.swap
               /\ y.held = x.held /\ y.shown = x.shown
               /\ \A q \in Queues :
                     /\ Len(y.ring[q].busy) = Len(x.ring[q].busy)
                     /\ DOMAIN y.ring[q].busy = DOMAIN x.ring[q].busy
                     /\ y.ring[q].next = x.ring[q].next
                     /\ \A f \in DOMAIN x.ring[q].busy :
                          y.ring[q].busy[f] = (x.ring[q].busy[f] /\ <<q, f>> \notin W)
                     /\ Left(x.gpu[q], y.gpu[q], Due(x, W, q))
<1> DEFINE after(q) == SubSeq(x.gpu[q], Max(Due(x, W, q) \cup {0}) + 1, Len(x.gpu[q]))
           cleared(q) == [f \in DOMAIN x.ring[q].busy |-> x.ring[q].busy[f] /\ <<q, f>> \notin W]
           gpus == [q \in Queues |-> after(q)]
           rings == [q \in Queues |-> [x.ring[q] EXCEPT !.busy = cleared(q)]]
           y == Waited(x, W)
<1>1. y = [x EXCEPT !.gpu = gpus, !.ring = rings]
  BY DEF Waited, Due
<1>2. ASSUME NEW q \in Queues
      PROVE  after(q) \in Seq(Copy) /\ Left(x.gpu[q], after(q), Due(x, W, q))
  <2>1. x.gpu[q] \in Seq(Copy) /\ Due(x, W, q) \in SUBSET DOMAIN x.gpu[q]
    BY DEF State, Due
  <2> QED BY <2>1, AfterTheLast
<1>3. ASSUME NEW q \in Queues
      PROVE  /\ cleared(q) \in Seq(BOOLEAN) /\ Len(cleared(q)) = Len(x.ring[q].busy)
             /\ DOMAIN cleared(q) = DOMAIN x.ring[q].busy
             /\ x.ring[q] \in Ring
  <2>1. x.ring[q] \in Ring /\ x.ring[q].busy \in Seq(BOOLEAN)
    BY DEF State, Ring
  <2> DEFINE n == Len(x.ring[q].busy)
  <2>2. n \in Nat /\ DOMAIN x.ring[q].busy = 1..n
    BY <2>1
  <2> HIDE DEF n
  <2>3. cleared(q) \in [1..n -> BOOLEAN]
    BY <2>2
  <2>4. cleared(q) \in Seq(BOOLEAN) /\ Len(cleared(q)) = n
    BY <2>2, <2>3
  <2> QED BY <2>1, <2>4 DEF n
<1> HIDE DEF after, cleared
<1>4. gpus \in [Queues -> Seq(Copy)] /\ rings \in [Queues -> Ring]
  <2>1. ASSUME NEW q \in Queues  PROVE [x.ring[q] EXCEPT !.busy = cleared(q)] \in Ring
    BY <1>3 DEF Ring
  <2> QED BY <1>2, <2>1
<1>5. \A q \in Queues : /\ gpus[q] = after(q)
                        /\ rings[q].busy = cleared(q) /\ rings[q].next = x.ring[q].next
  BY <1>3 DEF Ring
<1> HIDE DEF gpus, rings
<1>6. /\ y \in State
      /\ y.capturing = x.capturing /\ y.dev = x.dev /\ y.swap = x.swap
      /\ y.held = x.held /\ y.shown = x.shown /\ y.gpu = gpus /\ y.ring = rings
  BY <1>1, <1>4 DEF State
<1>7. \A q \in Queues : \A f \in DOMAIN x.ring[q].busy :
          cleared(q)[f] = (x.ring[q].busy[f] /\ <<q, f>> \notin W)
  BY DEF cleared
<1> HIDE DEF y
<1>8. ASSUME NEW q \in Queues
      PROVE  /\ Len(y.ring[q].busy) = Len(x.ring[q].busy)
             /\ DOMAIN y.ring[q].busy = DOMAIN x.ring[q].busy
             /\ y.ring[q].next = x.ring[q].next
             /\ \A f \in DOMAIN x.ring[q].busy :
                  y.ring[q].busy[f] = (x.ring[q].busy[f] /\ <<q, f>> \notin W)
             /\ Left(x.gpu[q], y.gpu[q], Due(x, W, q))
  BY <1>2, <1>3, <1>5, <1>6, <1>7
<1> QED BY <1>6, <1>8 DEF y

\* What is left has no frame that was waited for.
LEMMA WaitedKeeps ==
    ASSUME NEW x \in State, NEW W, InFlight(x)
    PROVE  /\ InFlight(Waited(x, W)) /\ NoneNew(x, Waited(x, W))
           /\ \A q \in Queues : \A i \in DOMAIN Waited(x, W).gpu[q] :
                 <<q, Waited(x, W).gpu[q][i].frame>> \notin W
           /\ \A q \in Queues : FramesOf(x, q) \subseteq W => Waited(x, W).gpu[q] = <<>>
<1> DEFINE y == Waited(x, W)
<1> HIDE DEF y
<1>0. /\ y \in State
      /\ \A q \in Queues :
            /\ DOMAIN y.ring[q].busy = DOMAIN x.ring[q].busy
            /\ \A f \in DOMAIN x.ring[q].busy :
                 y.ring[q].busy[f] = (x.ring[q].busy[f] /\ <<q, f>> \notin W)
            /\ Left(x.gpu[q], y.gpu[q], Due(x, W, q))
  BY WaitedIs DEF y
<1>1. ASSUME NEW q \in Queues
      PROVE  /\ \A i, j \in DOMAIN y.gpu[q] :
                  /\ y.gpu[q][i].frame \in DOMAIN y.ring[q].busy
                  /\ y.ring[q].busy[y.gpu[q][i].frame] = TRUE
                  /\ y.gpu[q][i].frame = y.gpu[q][j].frame => i = j
             /\ \A i \in DOMAIN y.gpu[q] :
                   /\ <<q, y.gpu[q][i].frame>> \notin W
                   /\ \E j \in DOMAIN x.gpu[q] : y.gpu[q][i] = x.gpu[q][j]
  <2>1. PICK m \in 0..Len(x.gpu[q]) :
            /\ DOMAIN y.gpu[q] = 1..(Len(x.gpu[q]) - m)
            /\ \A i \in DOMAIN y.gpu[q] :
                  /\ y.gpu[q][i] = x.gpu[q][m + i] /\ m + i \in DOMAIN x.gpu[q]
                  /\ m + i \notin Due(x, W, q)
    BY <1>0 DEF Left
  <2>0. \A i, j \in DOMAIN x.gpu[q] :
            /\ x.gpu[q][i].frame \in DOMAIN x.ring[q].busy
            /\ x.ring[q].busy[x.gpu[q][i].frame] = TRUE
            /\ x.gpu[q][i].frame = x.gpu[q][j].frame => i = j
    BY DEF InFlight
  <2>2. ASSUME NEW i \in DOMAIN y.gpu[q]
        PROVE  /\ y.gpu[q][i].frame \in DOMAIN x.ring[q].busy
               /\ x.ring[q].busy[y.gpu[q][i].frame] = TRUE
               /\ <<q, y.gpu[q][i].frame>> \notin W
    <3>1. y.gpu[q][i] = x.gpu[q][m + i] /\ m + i \in DOMAIN x.gpu[q] /\ m + i \notin Due(x, W, q)
      BY <2>1
    <3>2. x.ring[q].busy[x.gpu[q][m + i].frame] = TRUE
      BY <2>0, <3>1
    <3>3. <<q, x.gpu[q][m + i].frame>> \notin W
      BY <3>1, <3>2 DEF Due
    <3> QED BY <2>0, <3>1, <3>2, <3>3
  <2>3. ASSUME NEW i \in DOMAIN y.gpu[q], NEW j \in DOMAIN y.gpu[q],
               y.gpu[q][i].frame = y.gpu[q][j].frame
        PROVE  i = j
    <3>1. m + i = m + j
      <4>1. /\ y.gpu[q][i] = x.gpu[q][m + i] /\ m + i \in DOMAIN x.gpu[q]
            /\ y.gpu[q][j] = x.gpu[q][m + j] /\ m + j \in DOMAIN x.gpu[q]
        BY <2>1
      <4> QED BY <2>0, <2>3, <4>1
    <3>2. i \in Int /\ j \in Int /\ m \in Int
      BY <2>1
    <3> QED BY <3>1, <3>2
  <2>4. \A i \in DOMAIN y.gpu[q] : y.ring[q].busy[y.gpu[q][i].frame] = TRUE
    BY <1>0, <2>2
  <2>5. \A i \in DOMAIN y.gpu[q] : \E j \in DOMAIN x.gpu[q] : y.gpu[q][i] = x.gpu[q][j]
    BY <2>1
  <2> QED BY <1>0, <2>2, <2>3, <2>4, <2>5
<1>2. ASSUME NEW q \in Queues, FramesOf(x, q) \subseteq W  PROVE y.gpu[q] = <<>>
  <2>1. y.gpu[q] \in Seq(Copy)
    BY <1>0 DEF State
  <2>2. ASSUME NEW i \in DOMAIN y.gpu[q]  PROVE FALSE
    <3>1. /\ y.gpu[q][i].frame \in DOMAIN x.ring[q].busy
          /\ <<q, y.gpu[q][i].frame>> \notin W
      BY <1>0, <1>1
    <3> QED BY <1>2, <3>1 DEF FramesOf
  <2>3. Len(y.gpu[q]) \in Nat /\ DOMAIN y.gpu[q] = 1..Len(y.gpu[q])
    BY <2>1
  <2>4. Len(y.gpu[q]) = 0
    <3>1. 1 \notin DOMAIN y.gpu[q]
      BY <2>2
    <3> QED BY <2>3, <3>1
  <2> QED BY <2>1, <2>4
<1>3. InFlight(y)
  BY <1>1 DEF InFlight
<1>4. NoneNew(x, y)
  BY <1>1 DEF NoneNew
<1> QED BY <1>1, <1>2, <1>3, <1>4 DEF y

-----------------------------------------------------------------------------
(***************************************************************************)
(* The rings of the queues                                                 *)
(***************************************************************************)

\* The next frame of a ring is one of its frames.
RingsFit(x) ==
    \A q \in Queues :
        /\ Len(x.ring[q].busy) <= MaxImages
        /\ x.ring[q].busy # <<>> => x.ring[q].next <= Len(x.ring[q].busy)

\* Only the rings, the copies and the presents may have changed, and no copy
\* is new.
Settles(x, y) ==
    /\ y \in State
    /\ y.capturing = x.capturing /\ y.dev = x.dev /\ y.swap = x.swap /\ y.held = x.held
    /\ NoneNew(x, y)

\* The frames W are waited for.
LEMMA WaitedSettles ==
    ASSUME NEW x \in State, NEW W, InFlight(x), RingsFit(x)
    PROVE  /\ Settles(x, Waited(x, W)) /\ InFlight(Waited(x, W)) /\ RingsFit(Waited(x, W))
           /\ Waited(x, W).shown = x.shown
           /\ \A q \in Queues : FramesOf(x, q) \subseteq W => Waited(x, W).gpu[q] = <<>>
<1> DEFINE y == Waited(x, W)
<1> HIDE DEF y
<1>1. /\ y \in State
      /\ y.capturing = x.capturing /\ y.dev = x.dev /\ y.swap = x.swap
      /\ y.held = x.held /\ y.shown = x.shown
      /\ \A q \in Queues : Len(y.ring[q].busy) = Len(x.ring[q].busy)
                           /\ y.ring[q].next = x.ring[q].next
  BY WaitedIs DEF y
<1>2. /\ InFlight(y) /\ NoneNew(x, y)
      /\ \A q \in Queues : FramesOf(x, q) \subseteq W => y.gpu[q] = <<>>
  BY WaitedKeeps DEF y
<1>3. RingsFit(y)
  <2> SUFFICES ASSUME NEW q \in Queues
               PROVE  /\ Len(y.ring[q].busy) <= MaxImages
                      /\ y.ring[q].busy # <<>> => y.ring[q].next <= Len(y.ring[q].busy)
    BY DEF RingsFit
  <2>1. y.ring[q].busy \in Seq(BOOLEAN) /\ x.ring[q].busy \in Seq(BOOLEAN)
    BY <1>1 DEF State, Ring
  <2>2. y.ring[q].busy # <<>> => x.ring[q].busy # <<>>
    BY <1>1, <2>1
  <2> QED BY <1>1, <2>2 DEF RingsFit
<1> QED BY <1>1, <1>2, <1>3 DEF Settles, y

\* The rings of the queues Q go.
LEMMA DestroyedSettles ==
    ASSUME NEW x \in State, NEW Q \in SUBSET Queues, InFlight(x), RingsFit(x)
    PROVE  LET y == FramesDestroyed(x, Q)
           IN  /\ Settles(x, y) /\ InFlight(y) /\ RingsFit(y)
               /\ \A q \in Q : y.gpu[q] = <<>> /\ y.ring[q] = NoFrames
               /\ \A q \in Queues \ Q : /\ Len(y.ring[q].busy) = Len(x.ring[q].busy)
                                        /\ y.ring[q].next = x.ring[q].next
               /\ \A q \in Queues :
                     /\ DOMAIN y.shown[q] = DOMAIN x.shown[q]
                     /\ Len(y.shown[q]) = Len(x.shown[q])
                     /\ \A i \in DOMAIN x.shown[q] :
                           /\ y.shown[q][i].swap = x.shown[q][i].swap
                           /\ y.shown[q][i].wait =
                                 IF x.shown[q][i].wait \in Semaphores
                                    /\ x.shown[q][i].wait[1] \in Q
                                 THEN Destroyed ELSE x.shown[q][i].wait
<1> DEFINE W == UNION {FramesOf(x, q) : q \in Q}
           w == Waited(x, W)
           Gone(v) == v \in Semaphores /\ v[1] \in Q
           after(p) == IF Gone(p.wait) THEN [p EXCEPT !.wait = Destroyed] ELSE p
           rings == [q \in Queues |-> IF q \in Q THEN NoFrames ELSE w.ring[q]]
           shows == [q \in Queues |-> [i \in DOMAIN w.shown[q] |-> after(w.shown[q][i])]]
           y == FramesDestroyed(x, Q)
<1>1. y = [w EXCEPT !.ring = rings, !.shown = shows]
  BY DEF FramesDestroyed
<1>2. /\ Settles(x, w) /\ InFlight(w) /\ RingsFit(w) /\ w.shown = x.shown /\ w \in State
      /\ \A q \in Q : w.gpu[q] = <<>>
      /\ \A q \in Queues : Len(w.ring[q].busy) = Len(x.ring[q].busy)
                           /\ w.ring[q].next = x.ring[q].next
  <2>1. \A q \in Q : FramesOf(x, q) \subseteq W
    OBVIOUS
  <2> HIDE DEF W
  <2> QED BY <2>1, WaitedIs, WaitedSettles DEF Settles
<1> HIDE DEF w, y
<1>3. rings \in [Queues -> Ring]
  <2>1. NoFrames \in Ring
    BY MaxImagesAssumption DEF NoFrames, Ring
  <2> QED BY <1>2, <2>1 DEF State
<1>4. ASSUME NEW p \in Present
      PROVE  /\ after(p) \in Present /\ after(p).swap = p.swap
             /\ after(p).wait = IF Gone(p.wait) THEN Destroyed ELSE p.wait
  BY DEF Present, Waits
<1> HIDE DEF after
<1>5. ASSUME NEW q \in Queues
      PROVE  /\ shows[q] \in Seq(Present) /\ DOMAIN shows[q] = DOMAIN x.shown[q]
             /\ Len(shows[q]) = Len(x.shown[q])
             /\ \A i \in DOMAIN x.shown[q] : shows[q][i] = after(x.shown[q][i])
  <2>1. x.shown[q] \in Seq(Present) /\ w.shown[q] = x.shown[q]
    BY <1>2 DEF State
  <2> DEFINE n == Len(x.shown[q])
  <2>2. n \in Nat /\ DOMAIN x.shown[q] = 1..n
    BY <2>1
  <2> HIDE DEF n
  <2>3. shows[q] = [i \in 1..n |-> after(x.shown[q][i])]
    BY <2>1, <2>2
  <2>4. shows[q] \in [1..n -> Present]
    BY <1>4, <2>1, <2>2, <2>3
  <2>5. shows[q] \in Seq(Present) /\ Len(shows[q]) = n
    BY <2>2, <2>4
  <2> QED BY <2>2, <2>3, <2>5 DEF n
<1>6. shows \in [Queues -> Seq(Present)]
  BY <1>5
<1> HIDE DEF rings, shows
<1>7. /\ y \in State /\ y.ring = rings /\ y.shown = shows /\ y.gpu = w.gpu
      /\ y.capturing = w.capturing /\ y.dev = w.dev /\ y.swap = w.swap /\ y.held = w.held
  BY <1>1, <1>2, <1>3, <1>6 DEF State
<1>8. \A q \in Queues : y.ring[q] = IF q \in Q THEN NoFrames ELSE w.ring[q]
  BY <1>7 DEF rings
<1>9. Settles(x, y)
  BY <1>2, <1>7 DEF Settles, NoneNew
<1>10. InFlight(y)
  BY <1>2, <1>7, <1>8 DEF InFlight
<1>11. RingsFit(y)
  BY <1>2, <1>8, MaxImagesAssumption DEF RingsFit, NoFrames
<1>12. ASSUME NEW q \in Queues
       PROVE  /\ DOMAIN y.shown[q] = DOMAIN x.shown[q]
              /\ Len(y.shown[q]) = Len(x.shown[q])
              /\ \A i \in DOMAIN x.shown[q] :
                    /\ y.shown[q][i].swap = x.shown[q][i].swap
                    /\ y.shown[q][i].wait = IF Gone(x.shown[q][i].wait) THEN Destroyed
                                            ELSE x.shown[q][i].wait
  <2>1. \A i \in DOMAIN x.shown[q] : x.shown[q][i] \in Present
    BY DEF State
  <2> QED BY <1>4, <1>5, <1>7, <2>1
<1> QED BY <1>2, <1>7, <1>8, <1>9, <1>10, <1>11, <1>12 DEF y

-----------------------------------------------------------------------------
(***************************************************************************)
(* The copy of a presented image                                           *)
(***************************************************************************)

\* vk_shtex_create_frame_objects: the ring of q has at least n frames.
LEMMA RingForIs ==
    ASSUME NEW x \in State, NEW q \in Queues, NEW n \in 1..MaxImages,
           InFlight(x), RingsFit(x)
    PROVE  LET r == RingFor(x, q, n)
           IN  /\ Settles(x, r) /\ InFlight(r) /\ RingsFit(r)
               /\ n <= Len(r.ring[q].busy)
               /\ r.ring[q].next \in DOMAIN r.ring[q].busy
               /\ Len(x.ring[q].busy) >= n => r = x
               /\ ~(Len(x.ring[q].busy) >= n) =>
                     /\ Len(r.ring[q].busy) = n /\ r.ring[q].next = 1
                     /\ r.gpu[q] = <<>>
                     /\ r.shown = FramesDestroyed(x, {q}).shown
                     /\ \A p \in Queues \ {q} : /\ Len(r.ring[p].busy) = Len(x.ring[p].busy)
                                                /\ r.ring[p].next = x.ring[p].next
<1>0. MaxImages \in Nat /\ n \in Nat /\ 1 <= n /\ n <= MaxImages
  BY MaxImagesAssumption
<1>1. x.ring[q] \in Ring
  BY DEF State
<1>2. CASE Len(x.ring[q].busy) >= n
  <2>1. RingFor(x, q, n) = x
    BY <1>2 DEF RingFor
  <2>2. Settles(x, x)
    BY DEF Settles, NoneNew
  <2>3. x.ring[q].next \in DOMAIN x.ring[q].busy
    <3>1. x.ring[q].busy # <<>> /\ Len(x.ring[q].busy) \in Nat
      BY <1>0, <1>1, <1>2 DEF Ring
    <3>2. x.ring[q].next <= Len(x.ring[q].busy) /\ x.ring[q].next \in 1..MaxImages
      BY <1>1, <3>1 DEF RingsFit, Ring
    <3> QED BY <1>1, <3>1, <3>2 DEF Ring
  <2>4. n <= Len(x.ring[q].busy)
    BY <1>0, <1>1, <1>2 DEF Ring
  <2> QED BY <1>2, <2>1, <2>2, <2>3, <2>4
<1>3. CASE ~(Len(x.ring[q].busy) >= n)
  <2> DEFINE y == FramesDestroyed(x, {q})
             fresh == [busy |-> [f \in 1..n |-> FALSE], next |-> 1]
             r == RingFor(x, q, n)
  <2>1. r = [y EXCEPT !.ring[q] = fresh]
    BY <1>3 DEF RingFor
  <2>2. /\ Settles(x, y) /\ InFlight(y) /\ RingsFit(y) /\ y.gpu[q] = <<>>
        /\ \A p \in Queues \ {q} : /\ Len(y.ring[p].busy) = Len(x.ring[p].busy)
                                   /\ y.ring[p].next = x.ring[p].next
    BY DestroyedSettles
  <2>3. /\ fresh \in Ring /\ Len(fresh.busy) = n /\ fresh.next = 1
        /\ DOMAIN fresh.busy = 1..n
    <3>1. [f \in 1..n |-> FALSE] \in [1..n -> BOOLEAN]
      OBVIOUS
    <3>2. [f \in 1..n |-> FALSE] \in Seq(BOOLEAN) /\ Len([f \in 1..n |-> FALSE]) = n
      BY <1>0, <3>1
    <3> QED BY <1>0, <3>2 DEF Ring
  <2> HIDE DEF y, fresh, r
  <2>4. y \in State
    BY <2>2 DEF Settles
  <2>5. /\ r \in State /\ r.capturing = y.capturing /\ r.dev = y.dev /\ r.swap = y.swap
        /\ r.held = y.held /\ r.gpu = y.gpu /\ r.shown = y.shown
        /\ \A p \in Queues : r.ring[p] = IF p = q THEN fresh ELSE y.ring[p]
    BY <2>1, <2>3, <2>4 DEF State
  <2>6. Settles(x, r)
    BY <2>2, <2>5 DEF Settles, NoneNew
  <2>7. InFlight(r)
    <3> SUFFICES ASSUME NEW p \in Queues, NEW i \in DOMAIN r.gpu[p], NEW j \in DOMAIN r.gpu[p]
                 PROVE  /\ r.gpu[p][i].frame \in DOMAIN r.ring[p].busy
                        /\ r.ring[p].busy[r.gpu[p][i].frame] = TRUE
                        /\ r.gpu[p][i].frame = r.gpu[p][j].frame => i = j
      BY DEF InFlight
    <3>1. p # q
      BY <2>2, <2>5
    <3>2. r.ring[p] = y.ring[p] /\ r.gpu[p] = y.gpu[p]
      BY <2>5, <3>1
    <3>3. i \in DOMAIN y.gpu[p] /\ j \in DOMAIN y.gpu[p]
      BY <3>2
    <3> QED BY <2>2, <3>2, <3>3 DEF InFlight
  <2>8. RingsFit(r)
    <3> SUFFICES ASSUME NEW p \in Queues
                 PROVE  /\ Len(r.ring[p].busy) <= MaxImages
                        /\ r.ring[p].busy # <<>> => r.ring[p].next <= Len(r.ring[p].busy)
      BY DEF RingsFit
    <3>1. CASE p = q
      BY <1>0, <2>3, <2>5, <3>1
    <3>2. CASE p # q
      BY <2>2, <2>5, <3>2 DEF RingsFit
    <3> QED BY <3>1, <3>2
  <2>9. n <= Len(r.ring[q].busy) /\ r.ring[q].next \in DOMAIN r.ring[q].busy
    BY <1>0, <2>3, <2>5
  <2>10. \A p \in Queues \ {q} : /\ Len(r.ring[p].busy) = Len(x.ring[p].busy)
                                 /\ r.ring[p].next = x.ring[p].next
    BY <2>2, <2>5
  <2>11. Len(r.ring[q].busy) = n /\ r.ring[q].next = 1 /\ r.gpu[q] = <<>> /\ r.shown = y.shown
    BY <2>2, <2>3, <2>5
  <2> QED BY <1>3, <2>6, <2>7, <2>8, <2>9, <2>10, <2>11 DEF r, y
<1> QED BY <1>2, <1>3

\* The frame of queue q that comes next, when it is to copy swapchain s.
NextFrame(x, q, s) == RingFor(x, q, x.swap[s].images).ring[q].next

\* As Settles, but queue q may have a new copy, of swapchain s.
CopiesOne(x, z, q, s) ==
    /\ z \in State
    /\ z.capturing = x.capturing /\ z.dev = x.dev /\ z.swap = x.swap /\ z.held = x.held
    /\ \A p \in Queues : \A i \in DOMAIN z.gpu[p] :
          \/ \E j \in DOMAIN x.gpu[p] : z.gpu[p][i] = x.gpu[p][j]
          \/ p = q /\ z.gpu[p][i].swap = s /\ z.gpu[p][i].to = x.swap[s].export["image"]

\* vk_shtex_capture.
LEMMA CopiedIs ==
    ASSUME NEW x \in State, NEW q \in Queues, NEW s \in Swaps, NEW submitted \in BOOLEAN,
           InFlight(x), RingsFit(x), x.swap[s].images \in 1..MaxImages,
           x.swap[s].export["image"] \in Exports
    PROVE  LET z == Copied(x, q, s, submitted)
               r == RingFor(x, q, x.swap[s].images)
           IN  /\ CopiesOne(x, z, q, s) /\ InFlight(z) /\ RingsFit(z)
               /\ NextFrame(x, q, s) \in 1..MaxImages
               /\ z.shown = r.shown
               /\ \A p \in Queues :
                     /\ Len(z.ring[p].busy) = Len(r.ring[p].busy)
                     /\ z.ring[p].next = IF p = q THEN FrameAfter(r.ring[q].next, Len(r.ring[q].busy))
                                         ELSE r.ring[p].next
<1> DEFINE n == x.swap[s].images
           r == RingFor(x, q, n)
           f == r.ring[q].next
           W == {<<q, f>>}
           y == Waited(r, W)
           w == [y EXCEPT !.ring[q].next = FrameAfter(f, Len(y.ring[q].busy))]
           copy == [frame |-> f, swap |-> s, to |-> x.swap[s].export["image"]]
           v == [w EXCEPT !.ring[q].busy[f] = TRUE, !.gpu[q] = Append(@, copy)]
           z == Copied(x, q, s, submitted)
<1>1. z = IF submitted THEN v ELSE w
  BY DEF Copied
<1>0. n \in 1..MaxImages
  OBVIOUS
<1>2. /\ Settles(x, r) /\ InFlight(r) /\ RingsFit(r) /\ f \in DOMAIN r.ring[q].busy /\ r \in State
  <2> HIDE DEF n, y, w, copy, v, z
  <2>1. Settles(x, r) /\ InFlight(r) /\ RingsFit(r) /\ f \in DOMAIN r.ring[q].busy
    BY <1>0, RingForIs
  <2> QED BY <2>1 DEF Settles
<1> HIDE DEF n, r
<1>3. /\ y \in State
      /\ Settles(r, y) /\ InFlight(y) /\ RingsFit(y) /\ y.shown = r.shown
      /\ \A p \in Queues : /\ Len(y.ring[p].busy) = Len(r.ring[p].busy)
                           /\ DOMAIN y.ring[p].busy = DOMAIN r.ring[p].busy
                           /\ y.ring[p].next = r.ring[p].next
      /\ \A i \in DOMAIN y.gpu[q] : y.gpu[q][i].frame # f
  <2>1. \A p \in Queues : \A i \in DOMAIN y.gpu[p] : <<p, y.gpu[p][i].frame>> \notin W
    BY <1>2, WaitedKeeps
  <2>2. \A i \in DOMAIN y.gpu[q] : y.gpu[q][i].frame # f
    BY <2>1
  <2> HIDE DEF W
  <2>3. /\ Settles(r, y) /\ InFlight(y) /\ RingsFit(y) /\ y.shown = r.shown
    BY <1>2, WaitedSettles
  <2>4. \A p \in Queues : /\ Len(y.ring[p].busy) = Len(r.ring[p].busy)
                          /\ DOMAIN y.ring[p].busy = DOMAIN r.ring[p].busy
                          /\ y.ring[p].next = r.ring[p].next
    BY <1>2, WaitedIs
  <2> QED BY <2>2, <2>3, <2>4 DEF Settles
<1> HIDE DEF y
<1>4. Settles(x, y)
  BY <1>2, <1>3 DEF Settles, NoneNew
<1>5. y.ring[q] \in Ring /\ DOMAIN y.ring[q].busy = 1..Len(y.ring[q].busy)
      /\ Len(y.ring[q].busy) \in Nat /\ Len(y.ring[q].busy) <= MaxImages
      /\ f \in 1..Len(y.ring[q].busy) /\ y.ring[q].busy \in Seq(BOOLEAN)
      /\ f \in 1..MaxImages
  <2>1. y.ring[q] \in Ring /\ r.ring[q] \in Ring
    BY <1>2, <1>3 DEF State
  <2>2. Len(y.ring[q].busy) \in Nat /\ DOMAIN y.ring[q].busy = 1..Len(y.ring[q].busy)
        /\ y.ring[q].busy \in Seq(BOOLEAN)
    BY <2>1 DEF Ring
  <2>3. Len(y.ring[q].busy) <= MaxImages /\ f \in 1..MaxImages
    BY <1>3, <2>1 DEF RingsFit, Ring
  <2> QED BY <1>2, <1>3, <2>1, <2>2, <2>3
<1>6. FrameAfter(f, Len(y.ring[q].busy)) \in 1..Len(y.ring[q].busy)
  <2> DEFINE m == Len(y.ring[q].busy)
  <2>1. f \in 1..m /\ m \in Nat
    BY <1>5
  <2> HIDE DEF m, f
  <2>2. (f % m) + 1 \in 1..m
    BY <2>1
  <2> QED BY <2>2 DEF FrameAfter, m
<1> HIDE DEF f
<1>7. /\ w \in State /\ w.capturing = y.capturing /\ w.dev = y.dev /\ w.swap = y.swap
      /\ w.held = y.held /\ w.gpu = y.gpu /\ w.shown = y.shown
      /\ \A p \in Queues :
            /\ w.ring[p].busy = y.ring[p].busy
            /\ w.ring[p].next = IF p = q THEN FrameAfter(f, Len(y.ring[q].busy))
                                ELSE y.ring[p].next
  <2> DEFINE a == FrameAfter(f, Len(y.ring[q].busy))
  <2>1. a \in 1..MaxImages
    BY <1>5, <1>6, MaxImagesAssumption
  <2> HIDE DEF a
  <2> DEFINE g == [y.ring[q] EXCEPT !.next = a]
  <2>2. g \in Ring /\ g.busy = y.ring[q].busy /\ g.next = a
    BY <1>5, <2>1 DEF Ring
  <2>3. w = [y EXCEPT !.ring[q] = g]
    BY DEF a
  <2> HIDE DEF g
  <2> QED BY <1>3, <2>2, <2>3 DEF State, a
<1>8. RingsFit(w)
  <2> SUFFICES ASSUME NEW p \in Queues
               PROVE  /\ Len(w.ring[p].busy) <= MaxImages
                      /\ w.ring[p].busy # <<>> => w.ring[p].next <= Len(w.ring[p].busy)
    BY DEF RingsFit
  <2>1. CASE p = q
    BY <1>5, <1>6, <1>7, <2>1
  <2>2. CASE p # q
    BY <1>3, <1>7, <2>2 DEF RingsFit
  <2> QED BY <2>1, <2>2
<1>9. InFlight(w)
  <2> HIDE DEF w
  <2> SUFFICES ASSUME NEW p \in Queues, NEW i \in DOMAIN w.gpu[p], NEW j \in DOMAIN w.gpu[p]
               PROVE  /\ w.gpu[p][i].frame \in DOMAIN w.ring[p].busy
                      /\ w.ring[p].busy[w.gpu[p][i].frame] = TRUE
                      /\ w.gpu[p][i].frame = w.gpu[p][j].frame => i = j
    BY DEF InFlight
  <2> QED BY <1>3, <1>7 DEF InFlight
<1> HIDE DEF w
<1>10. copy \in Copy /\ copy.frame = f /\ copy.swap = s /\ copy.to = x.swap[s].export["image"]
  BY <1>5 DEF Copy
<1> HIDE DEF copy
<1>11. /\ v \in State /\ v.capturing = w.capturing /\ v.dev = w.dev /\ v.swap = w.swap
       /\ v.held = w.held /\ v.shown = w.shown
       /\ \A p \in Queues :
             /\ v.ring[p].next = w.ring[p].next
             /\ v.ring[p].busy = IF p = q THEN [w.ring[q].busy EXCEPT ![f] = TRUE] ELSE w.ring[p].busy
             /\ v.gpu[p] = IF p = q THEN Append(w.gpu[q], copy) ELSE w.gpu[p]
       /\ Len(v.ring[q].busy) = Len(w.ring[q].busy)
  <2> DEFINE b == [w.ring[q].busy EXCEPT ![f] = TRUE]
             g == [w.ring[q] EXCEPT !.busy = b]
             h == Append(w.gpu[q], copy)
             m == Len(w.ring[q].busy)
  <2>1. w.ring[q] \in Ring /\ w.gpu[q] \in Seq(Copy) /\ w.ring[q].busy \in Seq(BOOLEAN)
    BY <1>7 DEF State, Ring
  <2>2. b \in Seq(BOOLEAN) /\ Len(b) = m
    <3>1. m \in Nat /\ DOMAIN w.ring[q].busy = 1..m
      BY <2>1
    <3>2. w.ring[q].busy \in [1..m -> BOOLEAN]
      BY <2>1
    <3> HIDE DEF m
    <3>3. b \in [1..m -> BOOLEAN]
      BY <3>1, <3>2
    <3> HIDE DEF b
    <3> QED BY <3>1, <3>3
  <2>3. h \in Seq(Copy)
    BY <1>10, <2>1
  <2> HIDE DEF b, h
  <2>4. g \in Ring /\ g.busy = b /\ g.next = w.ring[q].next
    BY <2>1, <2>2 DEF Ring
  <2>5. v = [w EXCEPT !.ring[q] = g, !.gpu[q] = h]
    BY DEF b, h
  <2> HIDE DEF g
  <2> DEFINE rings == [w.ring EXCEPT ![q] = g]
             gpus == [w.gpu EXCEPT ![q] = h]
  <2>7. w.ring \in [Queues -> Ring] /\ w.gpu \in [Queues -> Seq(Copy)]
    BY <1>7 DEF State
  <2>8. /\ rings \in [Queues -> Ring] /\ gpus \in [Queues -> Seq(Copy)]
        /\ \A p \in Queues : /\ rings[p] = IF p = q THEN g ELSE w.ring[p]
                             /\ gpus[p] = IF p = q THEN h ELSE w.gpu[p]
    BY <2>3, <2>4, <2>7
  <2>9. v = [w EXCEPT !.ring = rings, !.gpu = gpus]
    BY <1>7, <2>5 DEF State
  <2> HIDE DEF rings, gpus
  <2>6. /\ v \in State /\ v.capturing = w.capturing /\ v.dev = w.dev /\ v.swap = w.swap
        /\ v.held = w.held /\ v.shown = w.shown
        /\ \A p \in Queues : /\ v.ring[p] = IF p = q THEN g ELSE w.ring[p]
                             /\ v.gpu[p] = IF p = q THEN h ELSE w.gpu[p]
    <3> HIDE DEF v
    <3>1. v.ring = rings /\ v.gpu = gpus /\ v \in State /\ v.capturing = w.capturing
          /\ v.dev = w.dev /\ v.swap = w.swap /\ v.held = w.held /\ v.shown = w.shown
      BY <1>7, <2>8, <2>9 DEF State
    <3> QED BY <2>8, <3>1
  <2> QED BY <2>2, <2>4, <2>6 DEF b, h
<1> HIDE DEF v
<1>12. RingsFit(v)
  <2> SUFFICES ASSUME NEW p \in Queues
               PROVE  /\ Len(v.ring[p].busy) <= MaxImages
                      /\ v.ring[p].busy # <<>> => v.ring[p].next <= Len(v.ring[p].busy)
    BY DEF RingsFit
  <2>1. w.ring[q].busy # <<>>
    BY <1>5, <1>7
  <2> QED BY <1>8, <1>11, <2>1 DEF RingsFit
<1>13. ASSUME NEW p \in Queues
       PROVE  \A i, j \in DOMAIN v.gpu[p] :
                  /\ v.gpu[p][i].frame \in DOMAIN v.ring[p].busy
                  /\ v.ring[p].busy[v.gpu[p][i].frame] = TRUE
                  /\ v.gpu[p][i].frame = v.gpu[p][j].frame => i = j
  <2>1. CASE p # q
    BY <1>9, <1>11, <2>1 DEF InFlight
  <2>2. CASE p = q
    <3> DEFINE k == Len(w.gpu[q])
    <3>1. w.gpu[q] \in Seq(Copy) /\ k \in Nat /\ DOMAIN w.gpu[q] = 1..k
      BY <1>7 DEF State
    <3>2. /\ DOMAIN v.gpu[q] = 1..(k + 1)
          /\ v.gpu[q][k + 1] = copy
          /\ \A i \in 1..k : v.gpu[q][i] = w.gpu[q][i]
      <4>1. v.gpu[q] = Append(w.gpu[q], copy)
        BY <1>11
      <4> QED BY <3>1, <4>1
    <3> HIDE DEF k
    <3>3. \A i, j \in 1..k :
             /\ w.gpu[q][i].frame \in DOMAIN w.ring[q].busy
             /\ w.ring[q].busy[w.gpu[q][i].frame] = TRUE
             /\ w.gpu[q][i].frame = w.gpu[q][j].frame => i = j
      BY <1>9, <3>1 DEF InFlight
    <3>4. \A i \in 1..k : w.gpu[q][i].frame # f
      BY <1>3, <1>7, <3>1
    <3>5. /\ f \in DOMAIN v.ring[q].busy /\ v.ring[q].busy[f] = TRUE
          /\ DOMAIN v.ring[q].busy = DOMAIN w.ring[q].busy
          /\ \A g \in DOMAIN w.ring[q].busy \ {f} : v.ring[q].busy[g] = w.ring[q].busy[g]
      BY <1>5, <1>7, <1>11
    <3>6. ASSUME NEW i \in 1..(k + 1), NEW j \in 1..(k + 1)
          PROVE  /\ v.gpu[q][i].frame \in DOMAIN v.ring[q].busy
                 /\ v.ring[q].busy[v.gpu[q][i].frame] = TRUE
                 /\ v.gpu[q][i].frame = v.gpu[q][j].frame => i = j
      <4>1. i \in 1..k \/ i = k + 1
        BY <3>1
      <4>2. j \in 1..k \/ j = k + 1
        BY <3>1
      <4>3. CASE i = k + 1
        BY <1>10, <3>2, <3>4, <3>5, <4>2, <4>3
      <4>4. CASE i \in 1..k
        <5>1. v.gpu[q][i] = w.gpu[q][i] /\ w.gpu[q][i].frame # f
          BY <3>2, <3>4, <4>4
        <5>2. /\ w.gpu[q][i].frame \in DOMAIN w.ring[q].busy
              /\ w.ring[q].busy[w.gpu[q][i].frame] = TRUE
          BY <3>3, <4>4
        <5>3. v.gpu[q][i].frame = v.gpu[q][j].frame => i = j
          BY <1>10, <3>2, <3>3, <4>2, <4>4, <5>1
        <5> QED BY <3>5, <5>1, <5>2, <5>3
      <4> QED BY <4>1, <4>3, <4>4
    <3> QED BY <2>2, <3>2, <3>6
  <2> QED BY <2>1, <2>2
<1>14. InFlight(v)
  BY <1>13 DEF InFlight
<1>15. ASSUME NEW p \in Queues, NEW i \in DOMAIN w.gpu[p]
       PROVE  \E j \in DOMAIN x.gpu[p] : w.gpu[p][i] = x.gpu[p][j]
  BY <1>4, <1>7 DEF Settles, NoneNew
<1>16. ASSUME NEW p \in Queues, NEW i \in DOMAIN v.gpu[p]
       PROVE  \/ \E j \in DOMAIN x.gpu[p] : v.gpu[p][i] = x.gpu[p][j]
              \/ p = q /\ v.gpu[p][i] = copy
  <2>1. CASE p # q
    BY <1>11, <1>15, <2>1
  <2>2. CASE p = q
    <3>1. w.gpu[q] \in Seq(Copy)
      BY <1>7 DEF State
    <3>2. v.gpu[q] = Append(w.gpu[q], copy)
      BY <1>11
    <3>3. v.gpu[q][i] = copy \/ (i \in DOMAIN w.gpu[q] /\ v.gpu[q][i] = w.gpu[q][i])
      BY <2>2, <3>1, <3>2
    <3> QED BY <1>15, <2>2, <3>3
  <2> QED BY <2>1, <2>2
<1>17. CopiesOne(x, w, q, s) /\ CopiesOne(x, v, q, s)
  BY <1>4, <1>7, <1>10, <1>11, <1>15, <1>16 DEF CopiesOne, Settles
<1>18. \A p \in Queues :
          /\ Len(w.ring[p].busy) = Len(r.ring[p].busy)
          /\ Len(v.ring[p].busy) = Len(r.ring[p].busy)
          /\ w.ring[p].next = IF p = q THEN FrameAfter(f, Len(r.ring[q].busy))
                              ELSE r.ring[p].next
          /\ v.ring[p].next = w.ring[p].next
  BY <1>3, <1>7, <1>11
<1>19. NextFrame(x, q, s) = f /\ f \in 1..MaxImages
  BY <1>5 DEF NextFrame, f, r, n
<1>20. /\ CopiesOne(x, z, q, s) /\ InFlight(z) /\ RingsFit(z) /\ z.shown = r.shown
       /\ \A p \in Queues :
             /\ Len(z.ring[p].busy) = Len(r.ring[p].busy)
             /\ z.ring[p].next = IF p = q THEN FrameAfter(f, Len(r.ring[q].busy))
                                 ELSE r.ring[p].next
  BY <1>1, <1>3, <1>7, <1>8, <1>9, <1>11, <1>12, <1>14, <1>17, <1>18
<1> QED BY <1>19, <1>20 DEF z, f, r, n

-----------------------------------------------------------------------------
(***************************************************************************)
(* The exported buffer, and the present                                    *)
(***************************************************************************)

\* The presents and the turns of the frames have not changed, nor has what
\* the game made.
SameRings(x, y) ==
    /\ y.shown = x.shown
    /\ \A s \in Swaps : y.swap[s].live = x.swap[s].live /\ y.swap[s].images = x.swap[s].images
    /\ \A q \in Queues : /\ Len(y.ring[q].busy) = Len(x.ring[q].busy)
                         /\ y.ring[q].next = x.ring[q].next

\* What the swapchains in the list of device d export.
ExportedOn(x, d) == {<<p, x.swap[s].export[p]>> : p \in Parts, s \in ListedOn(x, d)}

\* A sequence without an element is the empty one.
LEMMA NothingLeft ==
    ASSUME NEW S, NEW es \in Seq(S), DOMAIN es = {}
    PROVE  es = <<>>
<1>1. Len(es) \in Nat /\ DOMAIN es = 1..Len(es)
  OBVIOUS
<1>2. 1 \notin DOMAIN es
  OBVIOUS
<1>3. Len(es) = 0
  BY <1>1, <1>2
<1> QED BY <1>3

\* vk_shtex_free.
LEMMA FreedIs ==
    ASSUME NEW x \in State, NEW d \in Devices, InFlight(x), RingsFit(x)
    PROVE  LET z == Freed(x, d)
           IN  /\ z \in State /\ InFlight(z) /\ RingsFit(z) /\ SameRings(x, z) /\ NoneNew(x, z)
               /\ z.capturing = FALSE
               /\ \A e \in Devices : z.dev[e] = IF e = d THEN [x.dev[d] EXCEPT !.cur_swap = NoSwap]
                                                ELSE x.dev[e]
               /\ \A s \in Swaps : z.swap[s] = IF s \in ListedOn(x, d)
                                               THEN [x.swap[s] EXCEPT !.export = NoExports]
                                               ELSE x.swap[s]
               /\ z.held = x.held \ ExportedOn(x, d)
               /\ \A q \in QueuesOf(d) : z.gpu[q] = <<>>
<1> DEFINE W == UNION {FramesOf(x, q) : q \in QueuesOf(d)}
           y == Waited(x, W)
           mine == ListedOn(y, d)
           gone == {<<p, y.swap[s].export[p]>> : p \in Parts, s \in mine}
           swaps == [s \in Swaps |-> IF s \in mine THEN [y.swap[s] EXCEPT !.export = NoExports]
                                     ELSE y.swap[s]]
           devs == [y.dev EXCEPT ![d] = [y.dev[d] EXCEPT !.cur_swap = NoSwap]]
           z == Freed(x, d)
<1>1. z = [y EXCEPT !.held = @ \ gone, !.swap = swaps, !.dev[d].cur_swap = NoSwap,
                    !.capturing = FALSE]
  BY DEF Freed
<1>2. /\ y \in State /\ y.dev = x.dev /\ y.swap = x.swap /\ y.held = x.held
      /\ InFlight(y) /\ RingsFit(y) /\ NoneNew(x, y)
      /\ SameRings(x, y)
  <2> HIDE DEF W
  <2>1. Settles(x, y) /\ InFlight(y) /\ RingsFit(y) /\ y.shown = x.shown
    BY WaitedSettles
  <2>2. \A q \in Queues : /\ Len(y.ring[q].busy) = Len(x.ring[q].busy)
                          /\ y.ring[q].next = x.ring[q].next
    BY WaitedIs
  <2> QED BY <2>1, <2>2 DEF Settles, SameRings
<1>3. ASSUME NEW q \in QueuesOf(d)  PROVE y.gpu[q] = <<>>
  <2>1. FramesOf(x, q) \subseteq W /\ q \in Queues
    BY DEF QueuesOf
  <2> HIDE DEF W
  <2> QED BY <2>1, WaitedSettles
<1>4. mine = ListedOn(x, d)
  BY <1>2 DEF ListedOn
<1> HIDE DEF y, z
<1>5. z = [y EXCEPT !.held = y.held \ gone, !.swap = swaps, !.dev = devs, !.capturing = FALSE]
  <2> HIDE DEF gone, swaps, mine
  <2>1. y.dev[d] \in DeviceData /\ y.dev \in [Devices -> DeviceData]
    BY <1>2 DEF State
  <2>2. [y.dev EXCEPT ![d].cur_swap = NoSwap] = devs
    BY <2>1
  <2> HIDE DEF devs
  <2> QED BY <1>1, <1>2, <2>2 DEF State
<1>6. devs \in [Devices -> DeviceData]
      /\ \A e \in Devices : devs[e] = IF e = d THEN [x.dev[d] EXCEPT !.cur_swap = NoSwap]
                                      ELSE x.dev[e]
  <2>1. y.dev \in [Devices -> DeviceData] /\ y.dev[d] \in DeviceData
    BY <1>2 DEF State
  <2>2. [y.dev[d] EXCEPT !.cur_swap = NoSwap] \in DeviceData
    BY <2>1 DEF DeviceData
  <2> QED BY <1>2, <2>1, <2>2
<1>7. swaps \in [Swaps -> SwapData]
  <2>1. ASSUME NEW s \in Swaps
        PROVE  y.swap[s] \in SwapData /\ [y.swap[s] EXCEPT !.export = NoExports] \in SwapData
    BY <1>2 DEF State, SwapData, NoExports
  <2> QED BY <2>1
<1>8. \A s \in Swaps : swaps[s] = IF s \in ListedOn(x, d)
                                  THEN [x.swap[s] EXCEPT !.export = NoExports]
                                  ELSE x.swap[s]
  BY <1>2, <1>4
<1>9. gone = ExportedOn(x, d)
  BY <1>2, <1>4 DEF ExportedOn
<1> HIDE DEF devs, swaps, gone, mine
<1>10. /\ z \in State /\ z.capturing = FALSE /\ z.dev = devs /\ z.swap = swaps
       /\ z.held = x.held \ gone /\ z.ring = y.ring /\ z.gpu = y.gpu /\ z.shown = y.shown
  BY <1>2, <1>5, <1>6, <1>7 DEF State
<1>11. InFlight(z) /\ RingsFit(z) /\ NoneNew(x, z)
  BY <1>2, <1>10 DEF InFlight, RingsFit, NoneNew
<1>12. SameRings(x, z)
  <2>1. \A s \in Swaps : x.swap[s] \in SwapData
    BY DEF State
  <2>2. \A s \in Swaps : z.swap[s].live = x.swap[s].live /\ z.swap[s].images = x.swap[s].images
    BY <1>8, <1>10, <2>1 DEF SwapData
  <2> QED BY <1>2, <1>10, <2>2 DEF SameRings
<1> QED BY <1>3, <1>6, <1>8, <1>9, <1>10, <1>11, <1>12 DEF z

\* vk_shtex_init_vulkan_tex.
LEMMA AllocatedIs ==
    ASSUME NEW x \in State, NEW s \in Swaps, NEW e \in Exports, NEW parts \in SUBSET Parts
    PROVE  LET z == Allocated(x, s, e, parts)
           IN  /\ z \in State
               /\ z.capturing = x.capturing /\ z.dev = x.dev /\ z.ring = x.ring /\ z.gpu = x.gpu
               /\ z.shown = x.shown
               /\ z.held = x.held \cup {<<p, e>> : p \in parts}
               /\ \A t \in Swaps \ {s} : z.swap[t] = x.swap[t]
               /\ z.swap[s].live = x.swap[s].live /\ z.swap[s].listed = x.swap[s].listed
               /\ z.swap[s].images = x.swap[s].images
               /\ z.swap[s].export \in [Parts -> Exports \cup {NoExport}]
               /\ \A p \in parts : z.swap[s].export[p] = e
<1> DEFINE got == [p \in Parts |-> IF p \in parts THEN e ELSE IF p = "image" THEN NoExport
                                   ELSE x.swap[s].export[p]]
           one == [x.swap[s] EXCEPT !.export = got]
           swaps == [x.swap EXCEPT ![s] = one]
           more == {<<p, e>> : p \in parts}
           z == Allocated(x, s, e, parts)
<1>1. x.swap \in [Swaps -> SwapData] /\ x.swap[s] \in SwapData
  BY DEF State
<1>2. z = [x EXCEPT !.held = x.held \cup more, !.swap = swaps]
  BY <1>1 DEF Allocated, State
<1>3. got \in [Parts -> Exports \cup {NoExport}] /\ \A p \in parts : got[p] = e
  BY <1>1 DEF SwapData
<1> HIDE DEF got
<1>4. /\ one \in SwapData /\ one.live = x.swap[s].live /\ one.listed = x.swap[s].listed
      /\ one.images = x.swap[s].images /\ one.export = got
  BY <1>1, <1>3 DEF SwapData
<1> HIDE DEF one
<1>5. swaps \in [Swaps -> SwapData] /\ swaps[s] = one /\ \A t \in Swaps \ {s} : swaps[t] = x.swap[t]
  BY <1>1, <1>4
<1>6. more \in SUBSET (Parts \X Exports)
  OBVIOUS
<1> HIDE DEF swaps, more, z
<1>7. /\ z \in State
      /\ z.capturing = x.capturing /\ z.dev = x.dev /\ z.ring = x.ring /\ z.gpu = x.gpu
      /\ z.shown = x.shown /\ z.held = x.held \cup more /\ z.swap = swaps
  BY <1>2, <1>5, <1>6 DEF State
<1> QED BY <1>3, <1>4, <1>5, <1>7 DEF z, more

\* The present of swapchain s on queue q is queued.
Presented(x, q, s, wait) ==
    [x EXCEPT !.shown[q] = Append(@, [swap |-> s, wait |-> wait])]

\* Only the presents of its queue change.
LEMMA PresentedIs ==
    ASSUME NEW x \in State, NEW q \in Queues, NEW s \in Swaps, NEW wait \in Waits
    PROVE  LET z == Presented(x, q, s, wait)
           IN  /\ z \in State
               /\ z.capturing = x.capturing /\ z.dev = x.dev /\ z.ring = x.ring /\ z.gpu = x.gpu
               /\ z.swap = x.swap /\ z.held = x.held
               /\ \A p \in Queues \ {q} : z.shown[p] = x.shown[p]
               /\ z.shown[q] = Append(x.shown[q], [swap |-> s, wait |-> wait])
<1> DEFINE p == [swap |-> s, wait |-> wait]
           shows == [x.shown EXCEPT ![q] = Append(x.shown[q], p)]
           z == Presented(x, q, s, wait)
<1>1. p \in Present
  BY DEF Present
<1> HIDE DEF p
<1>2. x.shown \in [Queues -> Seq(Present)] /\ Append(x.shown[q], p) \in Seq(Present)
  BY <1>1 DEF State
<1>3. /\ shows \in [Queues -> Seq(Present)] /\ shows[q] = Append(x.shown[q], p)
      /\ \A r \in Queues \ {q} : shows[r] = x.shown[r]
  BY <1>2
<1>4. z = [x EXCEPT !.shown = shows]
  BY DEF Presented, State, p
<1> HIDE DEF shows, z
<1>5. /\ z \in State
      /\ z.capturing = x.capturing /\ z.dev = x.dev /\ z.ring = x.ring /\ z.gpu = x.gpu
      /\ z.swap = x.swap /\ z.held = x.held /\ z.shown = shows
  BY <1>3, <1>4 DEF State
<1> QED BY <1>3, <1>5 DEF z, p

\* The variables are those of the state reached.
LEMMA BecomesIs ==
    ASSUME NEW x \in State, Becomes(x)
    PROVE  Now' = x
BY DEF Becomes, Now, State

-----------------------------------------------------------------------------
(***************************************************************************)
(* Sound: each part of the layer with the others, for any devices          *)
(***************************************************************************)

\* What is so of a device: one that is not valid captures nothing and copies
\* nothing.
DeviceSound(x, d) ==
    /\ x.dev[d].valid = TRUE => x.dev[d].live = TRUE
    /\ x.dev[d].graphics_queue \in QueuesOf(d) \cup {NoQueue}
    /\ x.dev[d].valid # TRUE => /\ x.dev[d].cur_swap = NoSwap
                                /\ \A q \in QueuesOf(d) : x.gpu[q] = <<>>
    /\ x.dev[d].cur_swap # NoSwap =>
          /\ DeviceOf[x.dev[d].cur_swap] = d
          /\ x.swap[x.dev[d].cur_swap].listed = TRUE
          /\ x.swap[x.dev[d].cur_swap].export["image"] \in Exports

\* A swapchain with an entry in the list exists, and has images and a device.
SwapSound(x, s) ==
    /\ x.swap[s].listed = TRUE => x.swap[s].live = TRUE
    /\ x.swap[s].live = TRUE => x.swap[s].images # 0
    /\ x.swap[s].live = TRUE => x.dev[DeviceOf[s]].live = TRUE

\* Between two calls: SoundBut device d, of which an export is being made.
SoundBut(x, d) ==
    /\ x \in State /\ InFlight(x) /\ RingsFit(x)
    /\ \A s \in Swaps : SwapSound(x, s)
    /\ \A e \in Devices \ {d} : DeviceSound(x, e)
    /\ x.dev[d].valid = TRUE => x.dev[d].live = TRUE
    /\ x.dev[d].graphics_queue \in QueuesOf(d) \cup {NoQueue}

\* What holds of the state between the calls of the game.
Sound(x) ==
    /\ x \in State /\ InFlight(x) /\ RingsFit(x)
    /\ \A s \in Swaps : SwapSound(x, s)
    /\ \A d \in Devices : DeviceSound(x, d)

\* vk_shtex_free, also when it is a start that failed.
LEMMA FreedSound ==
    ASSUME NEW x, NEW d \in Devices, SoundBut(x, d)
    PROVE  Sound(Freed(x, d)) /\ SameRings(x, Freed(x, d))
<1> DEFINE z == Freed(x, d)
<1>1. x \in State /\ InFlight(x) /\ RingsFit(x)
  BY DEF SoundBut
<1>2. /\ z \in State /\ InFlight(z) /\ RingsFit(z) /\ SameRings(x, z) /\ NoneNew(x, z)
      /\ \A e \in Devices : z.dev[e] = IF e = d THEN [x.dev[d] EXCEPT !.cur_swap = NoSwap]
                                       ELSE x.dev[e]
      /\ \A s \in Swaps : z.swap[s] = IF s \in ListedOn(x, d)
                                      THEN [x.swap[s] EXCEPT !.export = NoExports]
                                      ELSE x.swap[s]
      /\ \A q \in QueuesOf(d) : z.gpu[q] = <<>>
  <2>1. z \in State /\ InFlight(z) /\ RingsFit(z) /\ SameRings(x, z) /\ NoneNew(x, z)
    BY <1>1, FreedIs
  <2>2. \A e \in Devices : z.dev[e] = IF e = d THEN [x.dev[d] EXCEPT !.cur_swap = NoSwap]
                                     ELSE x.dev[e]
    BY <1>1, FreedIs
  <2>3. \A s \in Swaps : z.swap[s] = IF s \in ListedOn(x, d)
                                    THEN [x.swap[s] EXCEPT !.export = NoExports]
                                    ELSE x.swap[s]
    BY <1>1, FreedIs
  <2>4. \A q \in QueuesOf(d) : z.gpu[q] = <<>>
    BY <1>1, FreedIs
  <2> QED BY <2>1, <2>2, <2>3, <2>4
<1> HIDE DEF z
<1>3. \A e \in Devices : x.dev[e] \in DeviceData
  BY <1>1 DEF State
<1>4. /\ z.dev[d].valid = x.dev[d].valid /\ z.dev[d].live = x.dev[d].live
      /\ z.dev[d].graphics_queue = x.dev[d].graphics_queue /\ z.dev[d].cur_swap = NoSwap
      /\ \A e \in Devices \ {d} : z.dev[e] = x.dev[e]
  BY <1>2, <1>3 DEF DeviceData
<1>5. ASSUME NEW s \in Swaps
      PROVE  /\ z.swap[s].listed = x.swap[s].listed /\ z.swap[s].live = x.swap[s].live
             /\ z.swap[s].images = x.swap[s].images
             /\ DeviceOf[s] # d => z.swap[s] = x.swap[s]
  <2>1. x.swap[s] \in SwapData
    BY <1>1 DEF State
  <2> QED BY <1>2, <2>1 DEF SwapData, ListedOn
<1>6. \A s \in Swaps : SwapSound(z, s)
  <2> SUFFICES ASSUME NEW s \in Swaps  PROVE SwapSound(z, s)
    OBVIOUS
  <2>1. SwapSound(x, s) /\ DeviceOf[s] \in Devices
    BY DeviceOfAssumption DEF SoundBut
  <2>2. z.dev[DeviceOf[s]].live = x.dev[DeviceOf[s]].live
    BY <1>4, <2>1
  <2> QED BY <1>5, <2>1, <2>2 DEF SwapSound
<1>7. DeviceSound(z, d)
  BY <1>2, <1>4 DEF DeviceSound, SoundBut
<1>8. ASSUME NEW e \in Devices \ {d}  PROVE DeviceSound(z, e)
  <2>1. DeviceSound(x, e) /\ z.dev[e] = x.dev[e] /\ x.dev[e] \in DeviceData
    BY <1>3, <1>4 DEF SoundBut
  <2>2. ASSUME NEW q \in QueuesOf(e), x.gpu[q] = <<>>  PROVE z.gpu[q] = <<>>
    <3>1. q \in Queues
      BY DEF QueuesOf
    <3>2. z.gpu[q] \in Seq(Copy) /\ \A i \in DOMAIN z.gpu[q] : \E j \in DOMAIN x.gpu[q] : TRUE
      BY <1>2, <3>1 DEF State, NoneNew
    <3>3. DOMAIN z.gpu[q] = {}
      BY <2>2, <3>2
    <3> QED BY <3>2, <3>3, NothingLeft
  <2>3. ASSUME x.dev[e].cur_swap # NoSwap
        PROVE  z.swap[x.dev[e].cur_swap] = x.swap[x.dev[e].cur_swap]
    <3>1. x.dev[e].cur_swap \in Swaps /\ DeviceOf[x.dev[e].cur_swap] # d
      BY <2>1, <2>3 DEF DeviceSound, DeviceData
    <3> QED BY <1>5, <3>1
  <2> QED BY <2>1, <2>2, <2>3 DEF DeviceSound
<1>9. Sound(z)
  BY <1>2, <1>6, <1>7, <1>8 DEF Sound
<1> QED BY <1>2, <1>9 DEF z

\* SoundBut asks less.
LEMMA SoundIsSoundBut ==
    ASSUME NEW x, NEW d \in Devices, Sound(x)
    PROVE  SoundBut(x, d)
BY DEF Sound, SoundBut, DeviceSound

\* vk_shtex_init_vulkan_tex, whatever it gets.
LEMMA AllocatedSound ==
    ASSUME NEW x, NEW d \in Devices, NEW s \in Swaps, NEW e \in Exports,
           NEW parts \in SUBSET Parts, SoundBut(x, d), DeviceOf[s] = d
    PROVE  SoundBut(Allocated(x, s, e, parts), d) /\ SameRings(x, Allocated(x, s, e, parts))
<1> DEFINE z == Allocated(x, s, e, parts)
<1>1. x \in State /\ InFlight(x) /\ RingsFit(x)
  BY DEF SoundBut
<1>2. /\ z \in State
      /\ z.dev = x.dev /\ z.ring = x.ring /\ z.gpu = x.gpu /\ z.shown = x.shown
      /\ \A t \in Swaps \ {s} : z.swap[t] = x.swap[t]
      /\ z.swap[s].live = x.swap[s].live /\ z.swap[s].listed = x.swap[s].listed
      /\ z.swap[s].images = x.swap[s].images
  BY <1>1, AllocatedIs
<1> HIDE DEF z
<1>3. InFlight(z) /\ RingsFit(z) /\ SameRings(x, z)
  BY <1>1, <1>2 DEF InFlight, RingsFit, SameRings
<1>4. \A t \in Swaps : SwapSound(z, t)
  <2> SUFFICES ASSUME NEW t \in Swaps  PROVE SwapSound(z, t)
    OBVIOUS
  <2>1. SwapSound(x, t)
    BY DEF SoundBut
  <2> QED BY <1>2, <2>1 DEF SwapSound
<1>5. ASSUME NEW f \in Devices \ {d}  PROVE DeviceSound(z, f)
  <2>1. DeviceSound(x, f) /\ x.dev[f] \in DeviceData
    BY <1>1 DEF SoundBut, State
  <2>2. x.dev[f].cur_swap # NoSwap => x.dev[f].cur_swap \in Swaps \ {s}
    BY <2>1 DEF DeviceSound, DeviceData
  <2> QED BY <1>2, <2>1, <2>2 DEF DeviceSound
<1>6. SoundBut(z, d)
  BY <1>2, <1>3, <1>4, <1>5 DEF SoundBut
<1> QED BY <1>3, <1>6 DEF z

\* In z, device d has started to capture swapchain s, as export e.
Started(x, z, d, s, e) ==
    /\ z.capturing = TRUE /\ z.dev[d].cur_swap = s /\ z.dev[d].valid = TRUE
    /\ z.gpu = x.gpu /\ z.held = x.held \cup (Parts \X {e})
    /\ z.swap[s].export = [p \in Parts |-> e] /\ z.swap[s].listed = TRUE

\* vk_shtex_init, for a swapchain that has an entry in the list.
LEMMA ExportedSound ==
    ASSUME NEW x, NEW d \in Devices, NEW s \in Swaps, NEW e \in Exports,
           Sound(x), x.dev[d].valid = TRUE, DeviceOf[s] = d, x.swap[s].listed = TRUE
    PROVE  LET z == Exported(x, d, s, e)
           IN  Sound(z) /\ SameRings(x, z) /\ Started(x, z, d, s, e)
<1> DEFINE y == Allocated(x, s, e, Parts)
           z == Exported(x, d, s, e)
<1>1. z = [y EXCEPT !.dev[d].cur_swap = s, !.capturing = TRUE]
  BY DEF Exported
<1>2. SoundBut(y, d) /\ SameRings(x, y) /\ y \in State
  BY SoundIsSoundBut, AllocatedSound DEF SoundBut
<1>3. /\ y.dev = x.dev /\ y.ring = x.ring /\ y.gpu = x.gpu /\ y.shown = x.shown
      /\ y.swap[s].images = x.swap[s].images /\ y.swap[s].listed = x.swap[s].listed
      /\ y.swap[s].export \in [Parts -> Exports \cup {NoExport}]
      /\ \A p \in Parts : y.swap[s].export[p] = e
      /\ y.held = x.held \cup {<<p, e>> : p \in Parts}
  BY AllocatedIs DEF Sound
<1> HIDE DEF y, z
<1>4. y.swap[s].export = [p \in Parts |-> e] /\ y.held = x.held \cup (Parts \X {e})
  BY <1>3
<1>5. y.dev \in [Devices -> DeviceData] /\ y.dev[d] \in DeviceData
  BY <1>2 DEF State
<1> DEFINE one == [y.dev[d] EXCEPT !.cur_swap = s]
           devs == [y.dev EXCEPT ![d] = one]
<1>6. /\ one \in DeviceData /\ one.cur_swap = s /\ one.valid = y.dev[d].valid
      /\ one.live = y.dev[d].live /\ one.graphics_queue = y.dev[d].graphics_queue
  BY <1>5 DEF DeviceData
<1> HIDE DEF one
<1>7. devs \in [Devices -> DeviceData] /\ devs[d] = one /\ \A f \in Devices \ {d} : devs[f] = y.dev[f]
  BY <1>5, <1>6
<1>8. z = [y EXCEPT !.dev = devs, !.capturing = TRUE]
  BY <1>1, <1>2 DEF State, one
<1> HIDE DEF devs
<1>9. /\ z \in State /\ z.capturing = TRUE /\ z.dev = devs /\ z.swap = y.swap /\ z.ring = y.ring
      /\ z.held = y.held /\ z.gpu = y.gpu /\ z.shown = y.shown
  BY <1>2, <1>7, <1>8 DEF State
<1>10. InFlight(z) /\ RingsFit(z) /\ SameRings(x, z)
  BY <1>2, <1>9 DEF InFlight, RingsFit, SameRings, SoundBut
<1>11. \A t \in Swaps : SwapSound(z, t)
  <2> SUFFICES ASSUME NEW t \in Swaps  PROVE SwapSound(z, t)
    OBVIOUS
  <2>1. SwapSound(y, t) /\ DeviceOf[t] \in Devices
    BY <1>2, DeviceOfAssumption DEF SoundBut
  <2>2. z.dev[DeviceOf[t]].live = y.dev[DeviceOf[t]].live
    BY <1>6, <1>7, <1>9, <2>1
  <2> QED BY <1>9, <2>1, <2>2 DEF SwapSound
<1>12. DeviceSound(z, d)
  <2>1. z.dev[d].valid = TRUE
    BY <1>3, <1>6, <1>7, <1>9
  <2>2. z.dev[d].live = TRUE /\ z.dev[d].graphics_queue \in QueuesOf(d) \cup {NoQueue}
    BY <1>2, <1>6, <1>7, <1>9, <1>3 DEF SoundBut
  <2>3. z.dev[d].cur_swap = s /\ z.swap[s].listed = TRUE /\ z.swap[s].export["image"] \in Exports
    BY <1>3, <1>6, <1>7, <1>9 DEF Parts
  <2> QED BY <2>1, <2>2, <2>3 DEF DeviceSound
<1>13. ASSUME NEW f \in Devices \ {d}  PROVE DeviceSound(z, f)
  <2>1. DeviceSound(y, f)
    BY <1>2 DEF SoundBut
  <2> QED BY <1>7, <1>9, <2>1 DEF DeviceSound
<1>14. Sound(z)
  BY <1>9, <1>10, <1>11, <1>12, <1>13 DEF Sound
<1>15. z.dev[d].cur_swap = s /\ z.dev[d].valid = TRUE
  BY <1>3, <1>6, <1>7, <1>9
<1>16. Started(x, z, d, s, e)
  BY <1>3, <1>4, <1>9, <1>15 DEF Started
<1> QED BY <1>10, <1>14, <1>16 DEF z

\* vk_shtex_capture, on a queue of the device that captures.
LEMMA CopiedSound ==
    ASSUME NEW x, NEW d \in Devices, NEW q \in QueuesOf(d), NEW s \in Swaps,
           NEW submitted \in BOOLEAN, Sound(x), x.dev[d].valid = TRUE,
           x.swap[s].listed = TRUE, x.swap[s].export["image"] \in Exports
    PROVE  Sound(Copied(x, q, s, submitted)) /\ CopiesOne(x, Copied(x, q, s, submitted), q, s)
<1> DEFINE z == Copied(x, q, s, submitted)
<1>1. q \in Queues /\ DeviceOf[q] = d
  BY DEF QueuesOf
<1>2. x.swap[s].images \in 1..MaxImages
  <2>1. x.swap[s] \in SwapData /\ SwapSound(x, s)
    BY DEF Sound, State
  <2>2. x.swap[s].images \in 0..MaxImages /\ x.swap[s].images # 0
    BY <2>1 DEF SwapSound, SwapData
  <2> QED BY <2>2, MaxImagesAssumption
<1>3. InFlight(z) /\ RingsFit(z) /\ CopiesOne(x, z, q, s)
  BY <1>1, <1>2, CopiedIs DEF Sound
<1> HIDE DEF z
<1>4. /\ z \in State /\ z.dev = x.dev /\ z.swap = x.swap
      /\ \A p \in Queues : \A i \in DOMAIN z.gpu[p] :
            (\E j \in DOMAIN x.gpu[p] : z.gpu[p][i] = x.gpu[p][j]) \/ p = q
  BY <1>3 DEF CopiesOne
<1>5. \A t \in Swaps : SwapSound(z, t)
  BY <1>4 DEF Sound, SwapSound
<1>6. ASSUME NEW e \in Devices  PROVE DeviceSound(z, e)
  <2>1. DeviceSound(x, e)
    BY DEF Sound
  <2>2. ASSUME z.dev[e].valid # TRUE, NEW p \in QueuesOf(e)  PROVE z.gpu[p] = <<>>
    <3>1. p \in Queues /\ p # q /\ x.gpu[p] = <<>>
      BY <1>1, <1>4, <2>1, <2>2 DEF QueuesOf, DeviceSound
    <3>2. z.gpu[p] \in Seq(Copy) /\ DOMAIN z.gpu[p] = {}
      BY <1>4, <3>1 DEF State
    <3> QED BY <3>2, NothingLeft
  <2> QED BY <1>4, <2>1, <2>2 DEF DeviceSound
<1>7. Sound(z)
  BY <1>3, <1>4, <1>5, <1>6 DEF Sound
<1> QED BY <1>3, <1>7 DEF z

\* The present itself.
LEMMA PresentedSound ==
    ASSUME NEW x, NEW q \in Queues, NEW s \in Swaps, NEW wait \in Waits, Sound(x)
    PROVE  Sound(Presented(x, q, s, wait))
<1> DEFINE z == Presented(x, q, s, wait)
<1>1. /\ z \in State /\ z.dev = x.dev /\ z.ring = x.ring /\ z.gpu = x.gpu /\ z.swap = x.swap
  BY PresentedIs DEF Sound
<1> HIDE DEF z
<1>2. Sound(z)
  <2>1. InFlight(z) /\ RingsFit(z)
    BY <1>1 DEF Sound, InFlight, RingsFit
  <2>2. \A t \in Swaps : SwapSound(z, t)
    BY <1>1 DEF Sound, SwapSound
  <2>3. \A d \in Devices : DeviceSound(z, d)
    BY <1>1 DEF Sound, DeviceSound
  <2> QED BY <1>1, <2>1, <2>2, <2>3 DEF Sound
<1> QED BY <1>2 DEF z

-----------------------------------------------------------------------------
(***************************************************************************)
(* Whole: one export, that of the captured swapchain, for one device       *)
(***************************************************************************)

\* What is held is the whole export of the captured swapchain, and all copies
\* are into it.
Whole(x, d) ==
    IF x.dev[d].cur_swap = NoSwap
    THEN /\ x.capturing = FALSE
         /\ x.held = {}
         /\ \A q \in Queues : x.gpu[q] = <<>>
    ELSE /\ x.capturing = TRUE
         /\ \E e \in Exports :
               /\ x.swap[x.dev[d].cur_swap].export = [p \in Parts |-> e]
               /\ x.held = Parts \X {e}
               /\ \A q \in Queues : \A i \in DOMAIN x.gpu[q] :
                     x.gpu[q][i].swap = x.dev[d].cur_swap /\ x.gpu[q][i].to = e

\* One device has every queue and swapchain.
LEMMA QueuesOfOne ==
    ASSUME NEW d, Devices = {d}
    PROVE  QueuesOf(d) = Queues /\ \A s \in Swaps : DeviceOf[s] = d
BY DeviceOfAssumption DEF QueuesOf

\* vk_shtex_free finds all that is held in the list of the device.
LEMMA WholeIsCovered ==
    ASSUME NEW d, NEW x, Devices = {d}, Sound(x), Whole(x, d)
    PROVE  x.held \subseteq ExportedOn(x, d)
<1>1. CASE x.dev[d].cur_swap = NoSwap
  BY <1>1 DEF Whole
<1>2. CASE x.dev[d].cur_swap # NoSwap
  <2> DEFINE s == x.dev[d].cur_swap
  <2>1. PICK e \in Exports : x.swap[s].export = [p \in Parts |-> e] /\ x.held = Parts \X {e}
    BY <1>2 DEF Whole
  <2>2. s \in Swaps /\ DeviceOf[s] = d /\ x.swap[s].listed
    BY <1>2 DEF Sound, DeviceSound, State, DeviceData
  <2> HIDE DEF s
  <2>3. s \in ListedOn(x, d)
    BY <2>2 DEF ListedOn
  <2>4. ASSUME NEW h \in x.held  PROVE h \in ExportedOn(x, d)
    <3>1. PICK p \in Parts : h = <<p, e>>
      BY <2>1
    <3>2. x.swap[s].export[p] = e
      BY <2>1
    <3> QED BY <2>3, <3>1, <3>2 DEF ExportedOn
  <2> QED BY <2>4
<1> QED BY <1>1, <1>2

\* So nothing is held after it.
LEMMA FreedWhole ==
    ASSUME NEW d, NEW x, Devices = {d}, SoundBut(x, d), x.held \subseteq ExportedOn(x, d)
    PROVE  Whole(Freed(x, d), d)
<1> DEFINE z == Freed(x, d)
<1>0. x \in State /\ InFlight(x) /\ RingsFit(x) /\ d \in Devices /\ x.dev[d] \in DeviceData
  BY DEF SoundBut, State
<1>1. /\ z.capturing = FALSE /\ z.held = x.held \ ExportedOn(x, d)
      /\ \A q \in QueuesOf(d) : z.gpu[q] = <<>>
  BY <1>0, FreedIs
<1>2. z.dev[d] = [x.dev[d] EXCEPT !.cur_swap = NoSwap]
  BY <1>0, FreedIs
<1> HIDE DEF z
<1>3. z.dev[d].cur_swap = NoSwap
  BY <1>0, <1>2 DEF DeviceData
<1>4. z.held = {}
  BY <1>1
<1>5. Whole(z, d)
  BY <1>1, <1>3, <1>4, QueuesOfOne DEF Whole
<1> QED BY <1>5 DEF z

\* It also finds what a failed start has got.
LEMMA AllocatedIsCovered ==
    ASSUME NEW d, NEW x \in State, NEW s \in Swaps, NEW e \in Exports,
           NEW parts \in SUBSET Parts, Devices = {d}, x.held = {}, x.swap[s].listed = TRUE
    PROVE  Allocated(x, s, e, parts).held \subseteq ExportedOn(Allocated(x, s, e, parts), d)
<1> DEFINE z == Allocated(x, s, e, parts)
<1>1. /\ z.held = x.held \cup {<<p, e>> : p \in parts}
      /\ z.swap[s].listed = x.swap[s].listed
      /\ \A p \in parts : z.swap[s].export[p] = e
  BY AllocatedIs
<1> HIDE DEF z
<1>2. s \in ListedOn(z, d)
  BY <1>1, QueuesOfOne DEF ListedOn
<1>3. ASSUME NEW p \in parts  PROVE <<p, e>> \in ExportedOn(z, d)
  BY <1>1, <1>2 DEF ExportedOn
<1>4. z.held \subseteq ExportedOn(z, d)
  BY <1>1, <1>3
<1> QED BY <1>4 DEF z

\* vk_shtex_init gets a whole export.
LEMMA ExportedWhole ==
    ASSUME NEW d, NEW x, NEW s \in Swaps, NEW e \in Exports,
           Devices = {d}, Sound(x), Whole(x, d), x.capturing = FALSE,
           x.dev[d].valid = TRUE, x.swap[s].listed = TRUE
    PROVE  Whole(Exported(x, d, s, e), d)
<1> DEFINE z == Exported(x, d, s, e)
<1>1. Started(x, z, d, s, e)
  <2>1. d \in Devices /\ DeviceOf[s] = d
    BY QueuesOfOne
  <2> QED BY <2>1, ExportedSound
<1> HIDE DEF z
<1>2. x.held = {} /\ \A q \in Queues : x.gpu[q] = <<>>
  BY DEF Whole
<1>3. Whole(z, d)
  BY <1>1, <1>2, NoneAssumption DEF Whole, Started
<1> QED BY <1>3 DEF z

\* vk_shtex_capture copies into it.
LEMMA CopiedWhole ==
    ASSUME NEW d, NEW x, NEW z, NEW q \in Queues, NEW s \in Swaps, Devices = {d}, Whole(x, d),
           x.dev[d].cur_swap = s, CopiesOne(x, z, q, s)
    PROVE  Whole(z, d)
<1>1. /\ z.capturing = x.capturing /\ z.dev = x.dev /\ z.swap = x.swap /\ z.held = x.held
      /\ \A p \in Queues : \A i \in DOMAIN z.gpu[p] :
            \/ \E j \in DOMAIN x.gpu[p] : z.gpu[p][i] = x.gpu[p][j]
            \/ z.gpu[p][i].swap = s /\ z.gpu[p][i].to = x.swap[s].export["image"]
  BY DEF CopiesOne
<1>2. x.dev[d].cur_swap # NoSwap
  BY NoneAssumption
<1>3. PICK e \in Exports :
          /\ x.swap[s].export = [p \in Parts |-> e]
          /\ x.held = Parts \X {e}
          /\ \A p \in Queues : \A i \in DOMAIN x.gpu[p] : x.gpu[p][i].swap = s /\ x.gpu[p][i].to = e
  BY <1>2 DEF Whole
<1>4. x.swap[s].export["image"] = e
  BY <1>3 DEF Parts
<1>5. ASSUME NEW p \in Queues, NEW i \in DOMAIN z.gpu[p]
      PROVE  z.gpu[p][i].swap = s /\ z.gpu[p][i].to = e
  BY <1>1, <1>3, <1>4
<1>6. z.dev[d].cur_swap = s /\ s # NoSwap /\ z.capturing = TRUE
  BY <1>1, <1>2 DEF Whole
<1>7. z.swap[s].export = [p \in Parts |-> e] /\ z.held = Parts \X {e}
  BY <1>1, <1>3
<1> QED BY <1>5, <1>6, <1>7 DEF Whole

-----------------------------------------------------------------------------

\* What a present may have done before it copies or is passed on.
Reached(w, d) ==
    /\ Sound(w) /\ SameRings(Now, w)
    /\ Devices = {d} /\ Whole(Now, d) => Whole(w, d)
    /\ \/ w.dev[d].valid = dev[d].valid
       \/ dev[d].valid = TRUE /\ w.dev[d].valid = FALSE /\ w.capturing = FALSE

\* The present then copies the swapchain that is captured.
PassedOn(y, w, d, q, s) ==
    /\ w.dev[d].valid = TRUE /\ w.dev[d].cur_swap = s
    /\ w.swap[s].listed = TRUE /\ w.swap[s].export["image"] \in Exports
    /\ \E c \in QueuesOf(d), submitted \in BOOLEAN :
         \E wait \in {<<c, NextFrame(w, c, s)>>, Never, Own} :
            y = Presented(Copied(w, c, s, submitted), q, s, wait)

\* What becomes of the layer when swapchain s is presented on queue q.
PresentMade(d, q, s) ==
    \/ Now' = Now
    \/ \E w : Reached(w, d) /\ (Now' = Presented(w, q, s, Own) \/ PassedOn(Now', w, d, q, s))

\* Waits that concern no frame.
LEMMA OwnIsAWait == Own \in Waits /\ Never \in Waits
BY DEF Waits

\* The present goes on to the driver.
LEMMA PassOnIs ==
    ASSUME NEW w, NEW q \in Queues, NEW s \in Swaps, NEW wait \in Waits, Sound(w),
           PassOn(w, q, s, wait)
    PROVE  Now' = Presented(w, q, s, wait)
<1> DEFINE z == Presented(w, q, s, wait)
<1>1. z \in State
  BY PresentedIs DEF Sound
<1>2. Becomes(z)
  BY DEF PassOn, Presented
<1> HIDE DEF z
<1>3. Now' = z
  BY <1>1, <1>2, BecomesIs
<1> QED BY <1>3 DEF z

\* The present goes on to the driver after the copy.
LEMMA CopyAndPassOnIs ==
    ASSUME NEW d \in Devices, NEW w, NEW c \in QueuesOf(d), NEW q \in Queues, NEW s \in Swaps,
           Sound(w), w.dev[d].valid = TRUE, w.dev[d].cur_swap = s,
           CopyAndPassOn(w, c, q, s)
    PROVE  PassedOn(Now', w, d, q, s)
<1>1. /\ s # NoSwap /\ w.swap[s].listed = TRUE /\ w.swap[s].export["image"] \in Exports
      /\ c \in Queues
  BY NoneAssumption DEF Sound, DeviceSound, QueuesOf
<1>2. w.swap[s].images \in 1..MaxImages
  <2>1. w.swap[s] \in SwapData /\ SwapSound(w, s)
    BY DEF Sound, State
  <2>2. w.swap[s].images \in 0..MaxImages /\ w.swap[s].images # 0
    BY <1>1, <2>1 DEF SwapSound, SwapData
  <2> QED BY <2>2, MaxImagesAssumption
<1>3. PICK submitted \in BOOLEAN :
          \/ PassOn(Copied(w, c, s, submitted), q, s,
                    IF submitted THEN <<c, NextFrame(w, c, s)>> ELSE Never)
          \/ PassOn(Copied(w, c, s, submitted), q, s, Own)
  BY DEF CopyAndPassOn, NextFrame
<1> DEFINE z == Copied(w, c, s, submitted)
<1>4. Sound(z)
  BY <1>1, CopiedSound
<1>5. NextFrame(w, c, s) \in 1..MaxImages
  BY <1>1, <1>2, CopiedIs DEF Sound
<1> HIDE DEF z
<1>6. <<c, NextFrame(w, c, s)>> \in Waits
  BY <1>1, <1>5 DEF Waits, Semaphores
<1>7. PICK wait \in {<<c, NextFrame(w, c, s)>>, Never, Own} : PassOn(z, q, s, wait)
  BY <1>3 DEF z
<1>8. wait \in Waits
  BY <1>6, <1>7, OwnIsAWait
<1>9. Now' = Presented(z, q, s, wait)
  BY <1>4, <1>7, <1>8, PassOnIs
<1> QED BY <1>1, <1>7, <1>9 DEF PassedOn, z

-----------------------------------------------------------------------------
(***************************************************************************)
(* OBS_QueuePresentKHR                                                     *)
(***************************************************************************)

\* SameRings is transitive.
LEMMA SameRingsAgain ==
    ASSUME NEW x, NEW y, NEW z, SameRings(x, y), SameRings(y, z)
    PROVE  SameRings(x, z)
BY DEF SameRings

\* A present starts from the state the call finds.
LEMMA NowReached ==
    ASSUME NEW d, Sound(Now)
    PROVE  Reached(Now, d)
BY DEF Reached, SameRings, Now

\* vk_shtex_free, from a state that is reached.
LEMMA FreedReached ==
    ASSUME NEW d \in Devices, NEW w, Reached(w, d)
    PROVE  /\ Reached(Freed(w, d), d)
           /\ Freed(w, d).capturing = FALSE /\ Freed(w, d).dev[d].valid = w.dev[d].valid
<1> DEFINE z == Freed(w, d)
<1>1. Sound(w) /\ SoundBut(w, d) /\ w \in State /\ InFlight(w) /\ RingsFit(w)
  BY SoundIsSoundBut DEF Reached, Sound
<1>2. Sound(z) /\ SameRings(w, z)
  BY <1>1, FreedSound
<1>3. z.capturing = FALSE
  BY <1>1, FreedIs
<1>4. z.dev[d] = [w.dev[d] EXCEPT !.cur_swap = NoSwap]
  BY <1>1, FreedIs
<1>5. ASSUME Devices = {d}, Whole(Now, d)  PROVE Whole(z, d)
  <2>1. Whole(w, d)
    BY <1>5 DEF Reached
  <2>2. w.held \subseteq ExportedOn(w, d)
    BY <1>1, <1>5, <2>1, WholeIsCovered
  <2> QED BY <1>1, <1>5, <2>2, FreedWhole
<1> HIDE DEF z
<1>6. w.dev[d] \in DeviceData
  BY <1>1 DEF State
<1>7. z.dev[d].valid = w.dev[d].valid
  BY <1>4, <1>6 DEF DeviceData
<1>8. SameRings(Now, z)
  BY <1>2, SameRingsAgain DEF Reached
<1>9. Reached(z, d)
  BY <1>2, <1>3, <1>5, <1>7, <1>8 DEF Reached
<1> QED BY <1>3, <1>7, <1>9 DEF z

\* A start that fails: the export is freed and the device is no longer valid.
LEMMA FailedReached ==
    ASSUME NEW d \in Devices, NEW w, NEW s \in Swaps, NEW e \in Exports, NEW parts \in SUBSET Parts,
           Reached(w, d), w.capturing = FALSE, w.dev[d].valid = TRUE,
           dev[d].valid = TRUE, DeviceOf[s] = d, w.swap[s].listed = TRUE
    PROVE  Reached([Freed(Allocated(w, s, e, parts), d) EXCEPT !.dev[d].valid = FALSE], d)
<1> DEFINE a == Allocated(w, s, e, parts)
           y == Freed(a, d)
           z == [y EXCEPT !.dev[d].valid = FALSE]
<1>1. Sound(w) /\ SoundBut(w, d) /\ w \in State
  BY SoundIsSoundBut DEF Reached, Sound
<1>2. SoundBut(a, d) /\ SameRings(w, a)
  BY <1>1, AllocatedSound
<1>3. ASSUME Devices = {d}, Whole(Now, d)  PROVE a.held \subseteq ExportedOn(a, d)
  <2>1. w.held = {}
    BY <1>3 DEF Reached, Whole
  <2> QED BY <1>1, <1>3, <2>1, AllocatedIsCovered
<1> HIDE DEF a
<1>4. a \in State /\ InFlight(a) /\ RingsFit(a)
  BY <1>2 DEF SoundBut
<1>5. Sound(y) /\ SameRings(a, y)
  BY <1>2, FreedSound
<1>6. y.capturing = FALSE
  BY <1>4, FreedIs
<1>7. \A q \in QueuesOf(d) : y.gpu[q] = <<>>
  BY <1>4, FreedIs
<1>8. y.dev[d] = [a.dev[d] EXCEPT !.cur_swap = NoSwap]
  BY <1>4, FreedIs
<1>9. ASSUME Devices = {d}, Whole(Now, d)  PROVE Whole(y, d)
  BY <1>2, <1>3, <1>9, FreedWhole
<1> HIDE DEF y
<1>10. y \in State /\ y.dev \in [Devices -> DeviceData] /\ y.dev[d] \in DeviceData
       /\ a.dev[d] \in DeviceData
  BY <1>4, <1>5 DEF Sound, State
<1> DEFINE one == [y.dev[d] EXCEPT !.valid = FALSE]
           devs == [y.dev EXCEPT ![d] = one]
<1>11. /\ one \in DeviceData /\ one.valid = FALSE /\ one.cur_swap = NoSwap
       /\ one.live = y.dev[d].live /\ one.graphics_queue = y.dev[d].graphics_queue
  BY <1>8, <1>10 DEF DeviceData
<1>12. z = [y EXCEPT !.dev = devs]
  BY <1>10 DEF State
<1> HIDE DEF one
<1>13. devs \in [Devices -> DeviceData] /\ devs[d] = one /\ \A f \in Devices \ {d} : devs[f] = y.dev[f]
  BY <1>10, <1>11
<1> HIDE DEF devs, z
<1>14. /\ z \in State /\ z.capturing = FALSE /\ z.dev = devs /\ z.swap = y.swap /\ z.ring = y.ring
       /\ z.held = y.held /\ z.gpu = y.gpu /\ z.shown = y.shown
  BY <1>6, <1>10, <1>12, <1>13 DEF State
<1>15. Sound(z)
  <2>1. InFlight(z) /\ RingsFit(z)
    BY <1>5, <1>14 DEF InFlight, RingsFit, Sound
  <2>2. ASSUME NEW t \in Swaps  PROVE SwapSound(z, t)
    <3>1. SwapSound(y, t) /\ DeviceOf[t] \in Devices
      BY <1>5, DeviceOfAssumption DEF Sound
    <3>2. z.dev[DeviceOf[t]].live = y.dev[DeviceOf[t]].live
      BY <1>11, <1>13, <1>14, <3>1
    <3> QED BY <1>14, <3>1, <3>2 DEF SwapSound
  <2>3. DeviceSound(z, d)
    <3>1. DeviceSound(y, d)
      BY <1>5 DEF Sound
    <3> QED BY <1>7, <1>11, <1>13, <1>14, <3>1 DEF DeviceSound
  <2>4. ASSUME NEW f \in Devices \ {d}  PROVE DeviceSound(z, f)
    <3>1. DeviceSound(y, f)
      BY <1>5 DEF Sound
    <3> QED BY <1>13, <1>14, <3>1 DEF DeviceSound
  <2> QED BY <1>14, <2>1, <2>2, <2>3, <2>4 DEF Sound
<1>16. SameRings(Now, z)
  <2>1. SameRings(Now, y)
    BY <1>2, <1>5, SameRingsAgain DEF Reached
  <2> QED BY <1>14, <2>1 DEF SameRings
<1>17. ASSUME Devices = {d}, Whole(Now, d)  PROVE Whole(z, d)
  <2>1. y.dev[d].cur_swap = NoSwap
    BY <1>8, <1>10 DEF DeviceData
  <2>2. y.held = {} /\ \A q \in Queues : y.gpu[q] = <<>>
    BY <1>9, <1>17, <2>1 DEF Whole
  <2> QED BY <1>11, <1>13, <1>14, <2>2 DEF Whole
<1>18. z.dev[d].valid = FALSE
  BY <1>11, <1>13, <1>14
<1>19. Reached(z, d)
  BY <1>14, <1>15, <1>16, <1>17, <1>18 DEF Reached
<1> QED BY <1>19 DEF z, y, a

\* capture_should_init.
LEMMA StartIs ==
    ASSUME NEW d \in Devices, NEW w, NEW c \in QueuesOf(d), NEW q \in Queues, NEW s \in Swaps,
           Reached(w, d), w.capturing = FALSE, w.dev[d].valid = TRUE, dev[d].valid = TRUE,
           DeviceOf[s] = d, Start(w, d, c, q, s)
    PROVE  PresentMade(d, q, s)
<1>1. CASE Crash
  BY <1>1 DEF Crash, Now, PresentMade
<1>2. CASE PassOn(w, q, s, Own)
  BY <1>2, PassOnIs, OwnIsAWait DEF PresentMade, Reached
<1>3. CASE \E e \in Exports : w.swap[s].listed /\ CopyAndPassOn(Exported(w, d, s, e), c, q, s)
  <2>1. PICK e \in Exports : w.swap[s].listed /\ CopyAndPassOn(Exported(w, d, s, e), c, q, s)
    BY <1>3
  <2>0. w.swap[s].listed = TRUE
    BY <2>1 DEF Reached, Sound, State, SwapData
  <2> DEFINE z == Exported(w, d, s, e)
  <2>2. Sound(z) /\ SameRings(w, z) /\ Started(w, z, d, s, e)
    BY <2>0, ExportedSound DEF Reached
  <2>3. ASSUME Devices = {d}, Whole(Now, d)  PROVE Whole(z, d)
    BY <2>0, <2>3, ExportedWhole DEF Reached
  <2> HIDE DEF z
  <2>4. SameRings(Now, z)
    BY <2>2, SameRingsAgain DEF Reached
  <2>5. z.dev[d].valid = TRUE /\ z.dev[d].cur_swap = s
    BY <2>2 DEF Started
  <2>6. Reached(z, d)
    BY <2>2, <2>3, <2>4, <2>5 DEF Reached
  <2>7. PassedOn(Now', z, d, q, s)
    BY <2>1, <2>2, <2>5, CopyAndPassOnIs DEF z
  <2> QED BY <2>6, <2>7 DEF PresentMade
<1>4. CASE \E e \in Exports, parts \in AfterFailure :
              w.swap[s].listed /\
              PassOn([Freed(Allocated(w, s, e, parts), d) EXCEPT !.dev[d].valid = FALSE], q, s, Own)
  <2>1. PICK e \in Exports, parts \in AfterFailure :
              w.swap[s].listed /\
              PassOn([Freed(Allocated(w, s, e, parts), d) EXCEPT !.dev[d].valid = FALSE], q, s, Own)
    BY <1>4
  <2>2. parts \in SUBSET Parts /\ w.swap[s].listed = TRUE
    BY <2>1 DEF AfterFailure, Parts, Reached, Sound, State, SwapData
  <2> DEFINE z == [Freed(Allocated(w, s, e, parts), d) EXCEPT !.dev[d].valid = FALSE]
  <2>3. Reached(z, d)
    BY <2>2, FailedReached
  <2>4. PassOn(z, q, s, Own)
    BY <2>1
  <2> HIDE DEF z
  <2>5. Now' = Presented(z, q, s, Own)
    BY <2>3, <2>4, PassOnIs, OwnIsAWait DEF Reached
  <2> QED BY <2>3, <2>5 DEF PresentMade
<1>5. \A e \in Unused(w) : e \in Exports
  BY DEF Unused
<1> QED BY <1>1, <1>2, <1>3, <1>4, <1>5 DEF Start

\* capture_ready.
LEMMA ContinueIs ==
    ASSUME NEW d \in Devices, NEW w, NEW c \in QueuesOf(d), NEW q \in Queues, NEW s \in Swaps,
           Reached(w, d), w.dev[d].valid = TRUE, Continue(w, d, c, q, s)
    PROVE  PresentMade(d, q, s)
<1>1. CASE Crash
  BY <1>1 DEF Crash, Now, PresentMade
<1>2. CASE PassOn(Freed(w, d), q, s, Own)
  <2> DEFINE z == Freed(w, d)
  <2>1. Reached(z, d) /\ PassOn(z, q, s, Own)
    BY <1>2, FreedReached
  <2> HIDE DEF z
  <2>2. Now' = Presented(z, q, s, Own)
    BY <2>1, PassOnIs, OwnIsAWait DEF Reached
  <2> QED BY <2>1, <2>2 DEF PresentMade
<1>3. CASE /\ (IF w.swap[s].listed THEN s ELSE NoSwap) = w.dev[d].cur_swap
           /\ (IF w.swap[s].listed THEN s ELSE NoSwap) # NoSwap
           /\ CopyAndPassOn(w, c, q, s)
  <2>1. w.dev[d].cur_swap = s /\ CopyAndPassOn(w, c, q, s)
    BY <1>3
  <2>2. PassedOn(Now', w, d, q, s)
    BY <2>1, CopyAndPassOnIs DEF Reached
  <2> QED BY <2>2 DEF PresentMade
<1> QED BY <1>1, <1>2, <1>3 DEF Continue

\* OBS_QueuePresentKHR frees or starts or neither, and then presents.
LEMMA PresentIs ==
    ASSUME NEW q \in Queues, NEW s \in Swaps, Sound(Now), QueuePresent(q, s)
    PROVE  PresentMade(DeviceOf[q], q, s)
<1> DEFINE d == DeviceOf[q]
<1>1. d \in Devices /\ DeviceOf[s] = d /\ Reached(Now, d) /\ Now.dev = dev /\ Now.capturing = capturing
      /\ dev[d] \in DeviceData /\ capturing \in BOOLEAN
  BY DeviceOfAssumption, NowReached DEF QueuePresent, Now, Sound, State
<1>2. CASE PassOn(Now, q, s, Own)
  <2>1. Now' = Presented(Now, q, s, Own)
    BY <1>2, PassOnIs, OwnIsAWait
  <2> QED BY <1>1, <2>1 DEF PresentMade
<1>3. CASE dev[d].valid /\ \E wanted, anew \in BOOLEAN : Capture(d, q, s, wanted, anew)
  <2>1. PICK wanted \in BOOLEAN, anew \in BOOLEAN : Capture(d, q, s, wanted, anew)
    BY <1>3
  <2>2. dev[d].valid = TRUE
    BY <1>1, <1>3 DEF DeviceData
  <2> DEFINE w == IF capturing /\ (~wanted \/ anew) THEN Freed(Now, d) ELSE Now
             c == IF dev[d].graphics_queue # NoQueue THEN dev[d].graphics_queue ELSE q
  <2>3. Reached(w, d) /\ w.dev[d].valid = TRUE
    BY <1>1, <2>2, FreedReached
  <2>4. c \in QueuesOf(d)
    BY <1>1 DEF Sound, DeviceSound, QueuesOf
  <2>5. \/ ~w.capturing /\ Start(w, d, c, q, s)
        \/ PassOn(w, q, s, Own)
        \/ Continue(w, d, c, q, s)
    BY <2>1 DEF Capture
  <2> HIDE DEF w, c, d
  <2>6. w.capturing \in BOOLEAN
    BY <2>3 DEF Reached, Sound, State
  <2>7. CASE w.capturing = FALSE /\ Start(w, d, c, q, s)
    BY <1>1, <2>2, <2>3, <2>4, <2>7, StartIs DEF d
  <2>8. CASE PassOn(w, q, s, Own)
    <3>1. Now' = Presented(w, q, s, Own)
      BY <2>3, <2>8, PassOnIs, OwnIsAWait DEF Reached
    <3> QED BY <2>3, <3>1 DEF PresentMade, d
  <2>9. CASE Continue(w, d, c, q, s)
    BY <1>1, <2>3, <2>4, <2>9, ContinueIs DEF d
  <2> QED BY <2>5, <2>6, <2>7, <2>8, <2>9
<1> QED BY <1>2, <1>3 DEF QueuePresent

-----------------------------------------------------------------------------
(***************************************************************************)
(* The steps, from Now to the next                                         *)
(***************************************************************************)

\* The fields of Now.
LEMMA NowIs ==
    /\ Now.capturing = capturing /\ Now.dev = dev /\ Now.swap = swap /\ Now.ring = ring
    /\ Now.held = held /\ Now.gpu = gpu /\ Now.shown = shown
BY DEF Now

\* The fields of the next one.
LEMMA NextNowIs ==
    /\ Now'.capturing = capturing' /\ Now'.dev = dev' /\ Now'.swap = swap' /\ Now'.ring = ring'
    /\ Now'.held = held' /\ Now'.gpu = gpu' /\ Now'.shown = shown'
BY DEF Now

\* The copy, if any, has been submitted.
Submitted(z, w, d) ==
    /\ Sound(z) /\ z.dev = w.dev /\ z.capturing = w.capturing
    /\ Devices = {d} /\ Whole(w, d) => Whole(z, d)

\* What a present does to the device it is made on.
LEMMA PresentSound ==
    ASSUME NEW q \in Queues, NEW s \in Swaps, Sound(Now), PresentMade(DeviceOf[q], q, s)
    PROVE  LET d == DeviceOf[q]
           IN  /\ Sound(Now')
               /\ Devices = {d} /\ Whole(Now, d) => Whole(Now', d)
               /\ \/ dev'[d].valid = dev[d].valid
                  \/ dev[d].valid = TRUE /\ dev'[d].valid = FALSE /\ capturing' = FALSE
<1> DEFINE d == DeviceOf[q]
<1>1. d \in Devices
  BY DeviceOfAssumption
<1> HIDE DEF d
<1>2. CASE Now' = Now
  BY <1>2, NowIs, NextNowIs DEF d
<1>3. CASE \E w : Reached(w, d) /\ (Now' = Presented(w, q, s, Own) \/ PassedOn(Now', w, d, q, s))
  <2>1. PICK w : Reached(w, d) /\ (Now' = Presented(w, q, s, Own) \/ PassedOn(Now', w, d, q, s))
    BY <1>3
  <2>0. \E z : \E wait \in Waits : Submitted(z, w, d) /\ Now' = Presented(z, q, s, wait)
    <3>1. CASE Now' = Presented(w, q, s, Own)
      <4>1. Submitted(w, w, d)
        BY <2>1 DEF Reached, Submitted
      <4> QED BY <3>1, <4>1, OwnIsAWait
    <3>2. CASE PassedOn(Now', w, d, q, s)
      <4>1. PICK c \in QueuesOf(d), submitted \in BOOLEAN :
               \E wait \in {<<c, NextFrame(w, c, s)>>, Never, Own} :
                  Now' = Presented(Copied(w, c, s, submitted), q, s, wait)
        BY <3>2 DEF PassedOn
      <4>2. PICK wait \in {<<c, NextFrame(w, c, s)>>, Never, Own} :
                  Now' = Presented(Copied(w, c, s, submitted), q, s, wait)
        BY <4>1
      <4>3. /\ w.dev[d].valid = TRUE /\ w.swap[s].listed = TRUE /\ w.dev[d].cur_swap = s
            /\ w.swap[s].export["image"] \in Exports /\ Sound(w) /\ c \in Queues
        BY <2>1, <3>2 DEF PassedOn, Reached, QueuesOf
      <4> DEFINE z == Copied(w, c, s, submitted)
      <4>4. Sound(z) /\ CopiesOne(w, z, c, s)
        BY <1>1, <4>3, CopiedSound
      <4>5. <<c, NextFrame(w, c, s)>> \in Waits
        <5>1. w.swap[s].images \in 1..MaxImages
          <6>1. w.swap[s] \in SwapData /\ SwapSound(w, s)
            BY <4>3 DEF Sound, State
          <6>2. w.swap[s].images \in 0..MaxImages /\ w.swap[s].images # 0
            BY <4>3, <6>1 DEF SwapSound, SwapData
          <6> QED BY <6>2, MaxImagesAssumption
        <5>2. NextFrame(w, c, s) \in 1..MaxImages
          BY <4>3, <5>1, CopiedIs DEF Sound
        <5> QED BY <4>3, <5>2 DEF Waits, Semaphores
      <4> HIDE DEF z
      <4>6. ASSUME Devices = {d}, Whole(w, d)  PROVE Whole(z, d)
        BY <4>3, <4>4, <4>6, CopiedWhole
      <4>7. z.dev = w.dev /\ z.capturing = w.capturing
        BY <4>4 DEF CopiesOne
      <4>8. wait \in Waits /\ Now' = Presented(z, q, s, wait)
        BY <4>2, <4>5, OwnIsAWait DEF z
      <4>9. Submitted(z, w, d)
        BY <4>4, <4>6, <4>7 DEF Submitted
      <4> QED BY <4>8, <4>9
    <3> QED BY <2>1, <3>1, <3>2
  <2>11. PICK z : \E wait \in Waits : Submitted(z, w, d) /\ Now' = Presented(z, q, s, wait)
    BY <2>0
  <2>12. PICK wait \in Waits : Submitted(z, w, d) /\ Now' = Presented(z, q, s, wait)
    BY <2>11
  <2>2. /\ Sound(z) /\ Now' = Presented(z, q, s, wait)
        /\ z.dev = w.dev /\ z.capturing = w.capturing
        /\ Devices = {d} /\ Whole(w, d) => Whole(z, d)
    BY <2>12 DEF Submitted
  <2> DEFINE y == Presented(z, q, s, wait)
  <2>3. /\ y.capturing = z.capturing /\ y.dev = z.dev /\ y.gpu = z.gpu
        /\ y.swap = z.swap /\ y.held = z.held
    BY <2>2, PresentedIs DEF Sound
  <2>4. Sound(y)
    BY <2>2, PresentedSound
  <2> HIDE DEF y
  <2>5. Now' = y
    BY <2>2 DEF y
  <2>6. ASSUME Devices = {d}, Whole(Now, d)  PROVE Whole(y, d)
    <3>1. Whole(z, d)
      BY <2>1, <2>2, <2>6 DEF Reached
    <3> QED BY <2>3, <3>1 DEF Whole
  <2>7. \/ y.dev[d].valid = dev[d].valid
        \/ dev[d].valid = TRUE /\ y.dev[d].valid = FALSE /\ y.capturing = FALSE
    BY <2>1, <2>2, <2>3 DEF Reached
  <2>8. y.dev = dev' /\ y.capturing = capturing'
    BY <2>5, NextNowIs
  <2>9. \/ dev'[d].valid = dev[d].valid
        \/ dev[d].valid = TRUE /\ dev'[d].valid = FALSE /\ capturing' = FALSE
    BY <2>7, <2>8
  <2>10. Sound(Now') /\ (Devices = {d} /\ Whole(Now, d) => Whole(Now', d))
    BY <2>4, <2>5, <2>6
  <2> QED BY <2>9, <2>10 DEF d
<1> QED BY <1>2, <1>3 DEF PresentMade, d

\* A device comes and goes while nothing is captured on it.
DeviceChanged(d) ==
    /\ Sound(Now')
    /\ capturing' = capturing /\ swap' = swap /\ held' = held
    /\ dev[d].cur_swap = NoSwap /\ dev'[d].cur_swap = NoSwap
    /\ \A e \in Devices \ {d} : dev'[e] = dev[e]
    /\ NoneNew(Now, Now')

\* OBS_CreateDevice.
LEMMA CreateDeviceIs ==
    ASSUME NEW d \in Devices, Sound(Now), CreateDevice(d)
    PROVE  /\ DeviceChanged(d) /\ shown' = shown /\ dev[d].live = FALSE
           /\ \A q \in Queues : ring'[q] = IF q \in QueuesOf(d) THEN NoFrames ELSE ring[q]
<1>1. PICK valid \in BOOLEAN, g \in QueuesOf(d) \cup {NoQueue} :
         Becomes([Now EXCEPT
            !.dev[d] = [NewDevice EXCEPT !.live = TRUE, !.valid = valid, !.graphics_queue = g],
            !.ring = [q \in Queues |-> IF q \in QueuesOf(d) THEN NoFrames ELSE @[q]]])
  BY DEF CreateDevice
<1> DEFINE one == [NewDevice EXCEPT !.live = TRUE, !.valid = valid, !.graphics_queue = g]
           devs == [dev EXCEPT ![d] = one]
           rings == [q \in Queues |-> IF q \in QueuesOf(d) THEN NoFrames ELSE ring[q]]
           z == [Now EXCEPT !.dev = devs, !.ring = rings]
<1>2. Becomes(z)
  BY <1>1, NowIs DEF Now
<1>3. /\ one \in DeviceData /\ one.live = TRUE /\ one.valid = valid /\ one.graphics_queue = g
      /\ one.cur_swap = NoSwap
  BY DEF NewDevice, DeviceData, QueuesOf
<1> HIDE DEF one
<1>4. Now \in State /\ dev \in [Devices -> DeviceData] /\ ring \in [Queues -> Ring]
      /\ InFlight(Now) /\ RingsFit(Now) /\ DeviceSound(Now, d) /\ dev[d] \in DeviceData
  BY NowIs DEF Sound, State
<1>5. devs \in [Devices -> DeviceData] /\ devs[d] = one /\ \A e \in Devices \ {d} : devs[e] = dev[e]
  BY <1>3, <1>4
<1>6. NoFrames \in Ring /\ Len(NoFrames.busy) = 0 /\ NoFrames.busy = <<>>
  BY MaxImagesAssumption DEF NoFrames, Ring
<1>7. rings \in [Queues -> Ring]
      /\ \A q \in Queues : rings[q] = IF q \in QueuesOf(d) THEN NoFrames ELSE ring[q]
  BY <1>4, <1>6
<1> HIDE DEF devs, rings
<1>8. /\ z \in State /\ z.capturing = capturing /\ z.dev = devs /\ z.swap = swap
      /\ z.ring = rings /\ z.held = held /\ z.gpu = gpu /\ z.shown = shown
  BY <1>4, <1>5, <1>7, NowIs DEF State
<1> HIDE DEF z
<1>9. Now' = z
  BY <1>2, <1>8, BecomesIs
<1>10. dev[d].live = FALSE /\ dev[d].cur_swap = NoSwap /\ \A q \in QueuesOf(d) : gpu[q] = <<>>
  <2>1. ~dev[d].live /\ dev[d].live \in BOOLEAN
    BY <1>4 DEF CreateDevice, DeviceData
  <2> QED BY <1>4, <2>1, NowIs DEF DeviceSound
<1>11. InFlight(z)
  <2> SUFFICES ASSUME NEW q \in Queues, NEW i \in DOMAIN z.gpu[q], NEW j \in DOMAIN z.gpu[q]
               PROVE  /\ z.gpu[q][i].frame \in DOMAIN z.ring[q].busy
                      /\ z.ring[q].busy[z.gpu[q][i].frame] = TRUE
                      /\ z.gpu[q][i].frame = z.gpu[q][j].frame => i = j
    BY DEF InFlight
  <2>1. q \notin QueuesOf(d)
    BY <1>8, <1>10
  <2> QED BY <1>4, <1>7, <1>8, <2>1, NowIs DEF InFlight
<1>12. RingsFit(z)
  <2> SUFFICES ASSUME NEW q \in Queues
               PROVE  /\ Len(z.ring[q].busy) <= MaxImages
                      /\ z.ring[q].busy # <<>> => z.ring[q].next <= Len(z.ring[q].busy)
    BY DEF RingsFit
  <2>1. CASE q \in QueuesOf(d)
    BY <1>6, <1>7, <1>8, <2>1, MaxImagesAssumption
  <2>2. CASE q \notin QueuesOf(d)
    BY <1>4, <1>7, <1>8, <2>2, NowIs DEF RingsFit
  <2> QED BY <2>1, <2>2
<1>13. ASSUME NEW s \in Swaps  PROVE SwapSound(z, s)
  <2>1. SwapSound(Now, s)
    BY DEF Sound
  <2> QED BY <1>3, <1>5, <1>8, <2>1, NowIs, DeviceOfAssumption DEF SwapSound
<1>14. DeviceSound(z, d)
  BY <1>3, <1>5, <1>8, <1>10 DEF DeviceSound
<1>15. ASSUME NEW e \in Devices \ {d}  PROVE DeviceSound(z, e)
  <2>1. DeviceSound(Now, e)
    BY DEF Sound
  <2>2. z.dev[e] = Now.dev[e] /\ z.gpu = Now.gpu /\ z.swap = Now.swap
    BY <1>5, <1>8, NowIs
  <2> QED BY <2>1, <2>2 DEF DeviceSound
<1>16. Sound(z)
  BY <1>8, <1>11, <1>12, <1>13, <1>14, <1>15 DEF Sound
<1>17. NoneNew(Now, z)
  BY <1>8, NowIs DEF NoneNew
<1>18. DeviceChanged(d)
  BY <1>3, <1>5, <1>8, <1>9, <1>10, <1>16, <1>17, NextNowIs DEF DeviceChanged
<1> QED BY <1>7, <1>8, <1>9, <1>10, <1>18, NextNowIs

\* OBS_DestroyDevice: presents may be left with a destroyed semaphore.
LEMMA DestroyDeviceIs ==
    ASSUME NEW d \in Devices, Sound(Now), DestroyDevice(d)
    PROVE  /\ DeviceChanged(d)
           /\ \A s \in Swaps : DeviceOf[s] = d => swap[s].live = FALSE
           /\ \A q \in Queues \ QueuesOf(d) :
                 /\ Len(ring'[q].busy) = Len(ring[q].busy) /\ ring'[q].next = ring[q].next
           /\ \A q \in Queues :
                 /\ DOMAIN shown'[q] = DOMAIN shown[q] /\ Len(shown'[q]) = Len(shown[q])
                 /\ \A i \in DOMAIN shown[q] :
                       /\ shown'[q][i].swap = shown[q][i].swap
                       /\ \/ shown'[q][i].wait = shown[q][i].wait
                          \/ shown[q][i].wait \in Semaphores /\ shown[q][i].wait[1] \in QueuesOf(d)
<1> DEFINE x == IF dev[d].valid THEN FramesDestroyed(Now, QueuesOf(d)) ELSE Now
           devs == [x.dev EXCEPT ![d] = NewDevice]
           z == [x EXCEPT !.dev = devs]
<1>0. /\ Now \in State /\ InFlight(Now) /\ RingsFit(Now) /\ DeviceSound(Now, d)
      /\ dev[d] \in DeviceData /\ QueuesOf(d) \in SUBSET Queues
  BY NowIs DEF Sound, State, QueuesOf
<1>1. /\ x \in State /\ InFlight(x) /\ RingsFit(x) /\ NoneNew(Now, x)
      /\ x.capturing = capturing /\ x.dev = dev /\ x.swap = swap /\ x.held = held
      /\ \A q \in QueuesOf(d) : x.gpu[q] = <<>>
      /\ \A q \in Queues \ QueuesOf(d) : /\ Len(x.ring[q].busy) = Len(ring[q].busy)
                                         /\ x.ring[q].next = ring[q].next
      /\ \A q \in Queues :
            /\ DOMAIN x.shown[q] = DOMAIN shown[q] /\ Len(x.shown[q]) = Len(shown[q])
            /\ \A i \in DOMAIN shown[q] :
                  /\ x.shown[q][i].swap = shown[q][i].swap
                  /\ \/ x.shown[q][i].wait = shown[q][i].wait
                     \/ shown[q][i].wait \in Semaphores /\ shown[q][i].wait[1] \in QueuesOf(d)
  <2>1. CASE dev[d].valid
    <3> DEFINE y == FramesDestroyed(Now, QueuesOf(d))
    <3>1. Settles(Now, y) /\ InFlight(y) /\ RingsFit(y)
      BY <1>0, DestroyedSettles
    <3>2. \A q \in QueuesOf(d) : y.gpu[q] = <<>>
      BY <1>0, DestroyedSettles
    <3>3. \A q \in Queues \ QueuesOf(d) : /\ Len(y.ring[q].busy) = Len(Now.ring[q].busy)
                                          /\ y.ring[q].next = Now.ring[q].next
      BY <1>0, DestroyedSettles
    <3>4. \A q \in Queues :
             /\ DOMAIN y.shown[q] = DOMAIN Now.shown[q] /\ Len(y.shown[q]) = Len(Now.shown[q])
             /\ \A i \in DOMAIN Now.shown[q] :
                   /\ y.shown[q][i].swap = Now.shown[q][i].swap
                   /\ y.shown[q][i].wait = IF /\ Now.shown[q][i].wait \in Semaphores
                                              /\ Now.shown[q][i].wait[1] \in QueuesOf(d)
                                           THEN Destroyed ELSE Now.shown[q][i].wait
      BY <1>0, DestroyedSettles
    <3> HIDE DEF y
    <3>5. x = y
      BY <2>1 DEF y
    <3> HIDE DEF x
    <3> QED BY <3>1, <3>2, <3>3, <3>4, <3>5, NowIs DEF Settles
  <2>2. CASE ~dev[d].valid
    <3>1. x = Now
      BY <2>2
    <3>2. \A q \in QueuesOf(d) : gpu[q] = <<>>
      BY <1>0, <2>2, NowIs DEF DeviceSound
    <3> HIDE DEF x
    <3> QED BY <1>0, <3>1, <3>2, NowIs DEF NoneNew
  <2> QED BY <2>1, <2>2
<1>2. Becomes(z)
  BY DEF DestroyDevice
<1>3. \A s \in Swaps : DeviceOf[s] = d => swap[s].live = FALSE
  BY <1>0, NowIs DEF DestroyDevice, State, SwapData
<1>4. dev[d].cur_swap = NoSwap
  <2>1. ASSUME dev[d].cur_swap # NoSwap  PROVE FALSE
    <3> DEFINE s == dev[d].cur_swap
    <3>1. s \in Swaps /\ DeviceOf[s] = d /\ swap[s].listed = TRUE
      BY <1>0, <2>1, NowIs DEF DeviceSound, DeviceData
    <3>2. swap[s].live = TRUE
      BY <3>1, NowIs DEF Sound, SwapSound
    <3> QED BY <1>3, <3>1, <3>2
  <2> QED BY <2>1
<1> HIDE DEF x
<1>5. /\ NewDevice \in DeviceData /\ NewDevice.live = FALSE /\ NewDevice.valid = FALSE
      /\ NewDevice.cur_swap = NoSwap /\ NewDevice.graphics_queue = NoQueue
  BY DEF NewDevice, DeviceData
<1>6. /\ devs \in [Devices -> DeviceData] /\ devs[d] = NewDevice
      /\ \A e \in Devices \ {d} : devs[e] = dev[e]
  BY <1>1, <1>5 DEF State
<1> HIDE DEF devs
<1>7. /\ z \in State /\ z.capturing = capturing /\ z.dev = devs /\ z.swap = swap
      /\ z.ring = x.ring /\ z.held = held /\ z.gpu = x.gpu /\ z.shown = x.shown
  BY <1>1, <1>6 DEF State
<1> HIDE DEF z
<1>8. Now' = z
  BY <1>2, <1>7, BecomesIs
<1>9. InFlight(z) /\ RingsFit(z) /\ NoneNew(Now, z)
  BY <1>1, <1>7 DEF InFlight, RingsFit, NoneNew
<1>10. ASSUME NEW s \in Swaps  PROVE SwapSound(z, s)
  <2>1. SwapSound(Now, s)
    BY DEF Sound
  <2> QED BY <1>3, <1>6, <1>7, <2>1, NowIs, DeviceOfAssumption DEF SwapSound
<1>11. DeviceSound(z, d)
  BY <1>1, <1>5, <1>6, <1>7 DEF DeviceSound
<1>12. ASSUME NEW e \in Devices \ {d}  PROVE DeviceSound(z, e)
  <2>1. DeviceSound(Now, e)
    BY DEF Sound
  <2>2. z.dev[e] = Now.dev[e] /\ z.swap = Now.swap
    BY <1>6, <1>7, NowIs
  <2>3. ASSUME NEW q \in QueuesOf(e), Now.gpu[q] = <<>>  PROVE z.gpu[q] = <<>>
    <3>1. q \in Queues
      BY DEF QueuesOf
    <3>2. z.gpu[q] \in Seq(Copy) /\ DOMAIN z.gpu[q] = {}
      BY <1>7, <1>9, <2>3, <3>1 DEF State, NoneNew
    <3> QED BY <3>2, NothingLeft
  <2> QED BY <2>1, <2>2, <2>3 DEF DeviceSound
<1>13. Sound(z)
  BY <1>7, <1>9, <1>10, <1>11, <1>12 DEF Sound
<1>14. DeviceChanged(d)
  BY <1>4, <1>5, <1>6, <1>7, <1>8, <1>9, <1>13, NextNowIs DEF DeviceChanged
<1>15. ring' = x.ring /\ shown' = x.shown
  BY <1>7, <1>8, NextNowIs
<1> QED BY <1>1, <1>3, <1>14, <1>15

\* A swapchain is made or goes away.
WithSwap(w, s, r) == [w EXCEPT !.swap[s] = r]

\* z differs from w in swapchain s only, which is r.
Replaced(w, z, s, r) ==
    /\ z.capturing = w.capturing /\ z.dev = w.dev /\ z.ring = w.ring
    /\ z.held = w.held /\ z.gpu = w.gpu /\ z.shown = w.shown
    /\ z.swap[s] = r /\ \A t \in Swaps \ {s} : z.swap[t] = w.swap[t]
    /\ \A d \in Devices : Whole(w, d) => Whole(z, d)

\* A swapchain that does not exist.
LEMMA NewSwapIs ==
    NewSwap \in SwapData /\ NewSwap.listed = FALSE /\ NewSwap.live = FALSE
<1>1. 0 \in 0..MaxImages /\ NoExports \in [Parts -> Exports \cup {NoExport}]
  BY MaxImagesAssumption DEF NoExports
<1> QED BY <1>1 DEF NewSwap, SwapData

\* A swapchain that is not captured is replaced.
LEMMA SwapReplaced ==
    ASSUME NEW w, NEW s \in Swaps, NEW r \in SwapData, Sound(w),
           r.listed = TRUE => r.live = TRUE,
           r.live = TRUE => r.images # 0 /\ w.dev[DeviceOf[s]].live = TRUE,
           \A d \in Devices : w.dev[d].cur_swap # s
    PROVE  LET z == WithSwap(w, s, r)
           IN  Sound(z) /\ Replaced(w, z, s, r)
<1> DEFINE swaps == [w.swap EXCEPT ![s] = r]
           z == WithSwap(w, s, r)
<1>1. w \in State /\ InFlight(w) /\ RingsFit(w)
  BY DEF Sound
<1>2. z = [w EXCEPT !.swap = swaps]
  BY <1>1 DEF State, WithSwap
<1>3. swaps \in [Swaps -> SwapData] /\ swaps[s] = r /\ \A t \in Swaps \ {s} : swaps[t] = w.swap[t]
  BY <1>1 DEF State
<1> HIDE DEF swaps, z
<1>4. /\ z \in State /\ z.capturing = w.capturing /\ z.dev = w.dev /\ z.ring = w.ring
      /\ z.held = w.held /\ z.gpu = w.gpu /\ z.shown = w.shown /\ z.swap = swaps
  BY <1>1, <1>2, <1>3 DEF State
<1>5. InFlight(z) /\ RingsFit(z)
  BY <1>1, <1>4 DEF InFlight, RingsFit
<1>6. ASSUME NEW t \in Swaps  PROVE SwapSound(z, t)
  <2>1. SwapSound(w, t)
    BY DEF Sound
  <2> QED BY <1>3, <1>4, <2>1 DEF SwapSound
<1>7. ASSUME NEW d \in Devices
      PROVE  w.dev[d].cur_swap # NoSwap => z.swap[w.dev[d].cur_swap] = w.swap[w.dev[d].cur_swap]
  <2>1. w.dev[d] \in DeviceData
    BY <1>1 DEF State
  <2>2. w.dev[d].cur_swap # NoSwap => w.dev[d].cur_swap \in Swaps \ {s}
    BY <2>1 DEF DeviceData
  <2> QED BY <1>3, <1>4, <2>2
<1>8. ASSUME NEW d \in Devices  PROVE DeviceSound(z, d)
  <2>1. DeviceSound(w, d)
    BY DEF Sound
  <2> QED BY <1>4, <1>7, <2>1 DEF DeviceSound
<1>9. ASSUME NEW d \in Devices, Whole(w, d)  PROVE Whole(z, d)
  <2>1. z.dev[d].cur_swap = w.dev[d].cur_swap
    BY <1>4
  <2>2. CASE w.dev[d].cur_swap = NoSwap
    BY <1>4, <1>9, <2>1, <2>2 DEF Whole
  <2>3. CASE w.dev[d].cur_swap # NoSwap
    BY <1>4, <1>7, <1>9, <2>1, <2>3 DEF Whole
  <2> QED BY <2>2, <2>3
<1>10. Sound(z)
  BY <1>4, <1>5, <1>6, <1>8 DEF Sound
<1>11. Replaced(w, z, s, r)
  BY <1>3, <1>4, <1>9 DEF Replaced
<1> QED BY <1>10, <1>11 DEF z

\* OBS_CreateSwapchainKHR.
LEMMA CreateSwapchainIs ==
    ASSUME NEW s \in Swaps, Sound(Now), CreateSwapchain(s)
    PROVE  /\ Sound(Now') /\ UNCHANGED <<capturing, dev, ring, held, gpu, shown>>
           /\ swap[s].live = FALSE /\ \A t \in Swaps \ {s} : swap'[t] = swap[t]
           /\ \A d \in Devices : Whole(Now, d) => Whole(Now', d)
           /\ \A d \in Devices : dev[d].cur_swap # s
<1>1. PICK listed \in BOOLEAN, fits \in BOOLEAN, n \in 1..MaxImages :
         Becomes([Now EXCEPT !.swap[s] =
               [NewSwap EXCEPT !.live = TRUE, !.listed = listed, !.images = n, !.valid_rect = fits]])
  BY DEF CreateSwapchain
<1> DEFINE r == [NewSwap EXCEPT !.live = TRUE, !.listed = listed, !.images = n, !.valid_rect = fits]
           z == WithSwap(Now, s, r)
<1>2. r \in SwapData /\ r.live = TRUE /\ r.images = n
  <2> DEFINE r0 == NewSwap
  <2>1. r0 \in SwapData
    BY NewSwapIs
  <2>2. n \in 0..MaxImages
    BY MaxImagesAssumption
  <2>3. r = [r0 EXCEPT !.live = TRUE, !.listed = listed, !.images = n, !.valid_rect = fits]
    OBVIOUS
  <2> HIDE DEF r0, r
  <2> QED BY <2>1, <2>2, <2>3 DEF SwapData
<1> HIDE DEF r
<1>3. swap[s].live = FALSE /\ dev[DeviceOf[s]].live = TRUE
  BY NowIs, DeviceOfAssumption DEF CreateSwapchain, Sound, State, SwapData, DeviceData
<1>4. ASSUME NEW d \in Devices  PROVE dev[d].cur_swap # s
  <2>1. DeviceSound(Now, d) /\ SwapSound(Now, s) /\ s # NoSwap
    BY NoneAssumption DEF Sound
  <2> QED BY <1>3, <2>1, NowIs DEF DeviceSound, SwapSound
<1>5. r.images # 0 /\ Now.dev[DeviceOf[s]].live = TRUE /\ \A d \in Devices : Now.dev[d].cur_swap # s
  BY <1>2, <1>3, <1>4, NowIs
<1>6. Becomes(z)
  BY <1>1 DEF r, WithSwap
<1>7. /\ Sound(z)
      /\ z.capturing = capturing /\ z.dev = dev /\ z.ring = ring
      /\ z.held = held /\ z.gpu = gpu /\ z.shown = shown
      /\ \A t \in Swaps \ {s} : z.swap[t] = swap[t]
      /\ \A d \in Devices : Whole(Now, d) => Whole(z, d)
  <2>1. Sound(z) /\ Replaced(Now, z, s, r)
    BY <1>2, <1>5, SwapReplaced
  <2> HIDE DEF z
  <2> QED BY <2>1, NowIs DEF Replaced
<1> HIDE DEF z
<1>8. Now' = z
  BY <1>6, <1>7, BecomesIs DEF Sound
<1> QED BY <1>3, <1>4, <1>7, <1>8, NextNowIs

\* OBS_DestroySwapchainKHR, which frees first if s is captured.
LEMMA DestroySwapchainIs ==
    ASSUME NEW s \in Swaps, Sound(Now), DestroySwapchain(s)
    PROVE  LET d == DeviceOf[s]
           IN  /\ Sound(Now') /\ shown' = shown
               /\ Devices = {d} /\ Whole(Now, d) => Whole(Now', d)
               /\ \A q \in Queues : /\ Len(ring'[q].busy) = Len(ring[q].busy)
                                    /\ ring'[q].next = ring[q].next
               /\ \A t \in Swaps \ {s} : swap'[t].live = swap[t].live /\ swap'[t].images = swap[t].images
               /\ PendingOf(s) = {} /\ swap'[s].live = FALSE
               /\ dev'[d].valid = dev[d].valid
               /\ capturing' = FALSE \/ Now' = WithSwap(Now, s, NewSwap)
<1> DEFINE d == DeviceOf[s]
           captured == dev[d].valid /\ swap[s].listed /\ dev[d].cur_swap = s
           w == IF captured THEN Freed(Now, d) ELSE Now
           z == WithSwap(w, s, NewSwap)
<1>1. d \in Devices /\ Reached(Now, d) /\ s # NoSwap
  BY DeviceOfAssumption, NowReached, NoneAssumption
<1>2. PendingOf(s) = {} /\ Becomes(z)
  BY DEF DestroySwapchain, WithSwap
<1>3. Reached(w, d) /\ w.dev[d].valid = dev[d].valid
      /\ (w.capturing = FALSE \/ w = Now)
  BY <1>1, FreedReached, NowIs
<1>4. Now \in State /\ dev[d] \in DeviceData /\ DeviceSound(Now, d) /\ InFlight(Now) /\ RingsFit(Now)
  BY <1>1, NowIs DEF Sound, State
<1>5. w.dev[d].cur_swap # s
  <2>1. CASE captured
    <3>1. Freed(Now, d).dev[d] = [Now.dev[d] EXCEPT !.cur_swap = NoSwap]
      BY <1>1, <1>4, FreedIs
    <3>2. Freed(Now, d).dev[d].cur_swap = NoSwap
      BY <1>4, <3>1, NowIs DEF DeviceData
    <3> QED BY <1>1, <2>1, <3>2
  <2>2. CASE ~captured
    <3>1. dev[d].cur_swap # s
      BY <1>1, <1>4, <2>2, NowIs DEF DeviceSound, DeviceData
    <3> QED BY <2>2, <3>1, NowIs
  <2> QED BY <2>1, <2>2
<1> HIDE DEF w, captured
<1>6. ASSUME NEW e \in Devices  PROVE w.dev[e].cur_swap # s
  <2>1. DeviceSound(w, e)
    BY <1>3 DEF Reached, Sound
  <2> QED BY <1>1, <1>5, <2>1 DEF DeviceSound
<1>7. NewSwap \in SwapData /\ NewSwap.listed = FALSE /\ NewSwap.live = FALSE
  BY NewSwapIs
<1>8. /\ Sound(z)
      /\ z.capturing = w.capturing /\ z.dev = w.dev /\ z.ring = w.ring
      /\ z.shown = w.shown /\ z.swap[s] = NewSwap
      /\ \A t \in Swaps \ {s} : z.swap[t] = w.swap[t]
      /\ \A e \in Devices : Whole(w, e) => Whole(z, e)
  <2>1. Sound(w)
    BY <1>3 DEF Reached
  <2>2. Sound(z) /\ Replaced(w, z, s, NewSwap)
    BY <1>6, <1>7, <2>1, SwapReplaced
  <2> HIDE DEF z
  <2> QED BY <2>2 DEF Replaced
<1>9. w = Now => z = WithSwap(Now, s, NewSwap)
  OBVIOUS
<1> HIDE DEF z, d
<1>10. Now' = z
  BY <1>2, <1>8, BecomesIs DEF Sound
<1>11. ASSUME Devices = {d}, Whole(Now, d)  PROVE Whole(Now', d)
  <2>1. Whole(w, d)
    BY <1>3, <1>11 DEF Reached
  <2> QED BY <1>1, <1>8, <1>10, <2>1
<1>12. SameRings(Now, w)
  BY <1>3 DEF Reached
<1>13. /\ capturing' = w.capturing /\ dev' = w.dev /\ ring' = w.ring /\ shown' = w.shown
       /\ swap'[s] = NewSwap /\ \A t \in Swaps \ {s} : swap'[t] = w.swap[t]
  BY <1>8, <1>10, NextNowIs
<1>14. /\ shown' = shown
       /\ \A q \in Queues : /\ Len(ring'[q].busy) = Len(ring[q].busy)
                            /\ ring'[q].next = ring[q].next
       /\ \A t \in Swaps \ {s} : swap'[t].live = swap[t].live /\ swap'[t].images = swap[t].images
  BY <1>12, <1>13, NowIs DEF SameRings
<1>15. dev'[d].valid = dev[d].valid
  BY <1>3, <1>13
<1>16. swap'[s].live = FALSE
  BY <1>7, <1>13
<1>17. capturing' = FALSE \/ Now' = WithSwap(Now, s, NewSwap)
  BY <1>3, <1>9, <1>10, <1>13
<1>18. Sound(Now')
  BY <1>8, <1>10
<1> QED BY <1>2, <1>11, <1>14, <1>15, <1>16, <1>17, <1>18 DEF d

\* A copy completes.
LEMMA GpuStepIs ==
    ASSUME NEW q \in Queues, Sound(Now), GpuStep(q)
    PROVE  Sound(Now') /\ NoneNew(Now, Now')
<1>1. Now \in State /\ InFlight(Now) /\ RingsFit(Now)
  BY DEF Sound
<1>2. /\ gpu \in [Queues -> Seq(Copy)] /\ gpu[q] \in Seq(Copy) /\ gpu[q] # <<>>
      /\ gpu' = [gpu EXCEPT ![q] = Tail(gpu[q])]
      /\ UNCHANGED <<capturing, dev, swap, ring, held, shown>>
  BY <1>1, NowIs DEF GpuStep, State
<1> DEFINE k == Len(gpu[q])
<1>3. /\ Tail(gpu[q]) \in Seq(Copy) /\ DOMAIN gpu[q] = 1..k /\ k \in Nat
      /\ DOMAIN Tail(gpu[q]) = 1..(k - 1)
      /\ \A i \in 1..(k - 1) : Tail(gpu[q])[i] = gpu[q][i + 1] /\ i + 1 \in 1..k
  BY <1>2
<1> HIDE DEF k
<1>4. /\ gpu' \in [Queues -> Seq(Copy)] /\ gpu'[q] = Tail(gpu[q])
      /\ \A p \in Queues \ {q} : gpu'[p] = gpu[p]
  BY <1>2, <1>3
<1>5. Now' \in State
  <2>1. /\ capturing' \in BOOLEAN /\ dev' \in [Devices -> DeviceData]
        /\ swap' \in [Swaps -> SwapData] /\ ring' \in [Queues -> Ring]
        /\ held' \in SUBSET (Parts \X Exports) /\ shown' \in [Queues -> Seq(Present)]
    BY <1>1, <1>2, NowIs DEF State
  <2> QED BY <1>4, <2>1 DEF Now, State
<1>6. ASSUME NEW p \in Queues
      PROVE  /\ \A i \in DOMAIN gpu'[p] : \E j \in DOMAIN gpu[p] : gpu'[p][i] = gpu[p][j]
             /\ \A i, j \in DOMAIN gpu'[p] :
                  /\ gpu'[p][i].frame \in DOMAIN ring[p].busy
                  /\ ring[p].busy[gpu'[p][i].frame] = TRUE
                  /\ gpu'[p][i].frame = gpu'[p][j].frame => i = j
  <2>0. \A i, j \in DOMAIN gpu[p] :
                  /\ gpu[p][i].frame \in DOMAIN ring[p].busy
                  /\ ring[p].busy[gpu[p][i].frame] = TRUE
                  /\ gpu[p][i].frame = gpu[p][j].frame => i = j
    BY <1>1, NowIs DEF InFlight
  <2>1. CASE p # q
    BY <1>4, <2>0, <2>1
  <2>2. CASE p = q
    <3>1. DOMAIN gpu'[p] = 1..(k - 1)
          /\ \A i \in 1..(k - 1) : gpu'[p][i] = gpu[p][i + 1] /\ i + 1 \in DOMAIN gpu[p]
      BY <1>3, <1>4, <2>2
    <3>2. ASSUME NEW i \in 1..(k - 1), NEW j \in 1..(k - 1)
          PROVE  /\ gpu'[p][i].frame \in DOMAIN ring[p].busy
                 /\ ring[p].busy[gpu'[p][i].frame] = TRUE
                 /\ gpu'[p][i].frame = gpu'[p][j].frame => i = j
      <4>1. /\ gpu'[p][i] = gpu[p][i + 1] /\ i + 1 \in DOMAIN gpu[p]
            /\ gpu'[p][j] = gpu[p][j + 1] /\ j + 1 \in DOMAIN gpu[p]
        BY <3>1
      <4>2. gpu[p][i + 1].frame = gpu[p][j + 1].frame => i + 1 = j + 1
        BY <2>0, <4>1
      <4>3. i + 1 = j + 1 => i = j
        BY <1>3
      <4> QED BY <2>0, <4>1, <4>2, <4>3
    <3>3. \A i \in 1..(k - 1) : \E j \in DOMAIN gpu[p] : gpu'[p][i] = gpu[p][j]
      BY <3>1
    <3> QED BY <3>1, <3>2, <3>3
  <2> QED BY <2>1, <2>2
<1>7. /\ Now'.gpu = gpu' /\ Now'.dev = dev /\ Now'.swap = swap /\ Now'.ring = ring
  BY <1>2, NextNowIs
<1>8. InFlight(Now')
  <2> DEFINE z == Now'
  <2>1. z.gpu = gpu' /\ z.ring = ring
    BY <1>7
  <2> HIDE DEF z
  <2>2. InFlight(z)
    <3> SUFFICES ASSUME NEW p \in Queues, NEW i \in DOMAIN z.gpu[p], NEW j \in DOMAIN z.gpu[p]
                 PROVE  /\ z.gpu[p][i].frame \in DOMAIN z.ring[p].busy
                        /\ z.ring[p].busy[z.gpu[p][i].frame] = TRUE
                        /\ z.gpu[p][i].frame = z.gpu[p][j].frame => i = j
      BY DEF InFlight
    <3>1. z.gpu[p] = gpu'[p] /\ z.ring[p] = ring[p]
      BY <2>1
    <3>2. i \in DOMAIN gpu'[p] /\ j \in DOMAIN gpu'[p]
      BY <3>1
    <3>3. /\ gpu'[p][i].frame \in DOMAIN ring[p].busy
          /\ ring[p].busy[gpu'[p][i].frame] = TRUE
          /\ gpu'[p][i].frame = gpu'[p][j].frame => i = j
      BY <1>6, <3>2
    <3> QED BY <3>1, <3>3
  <2> QED BY <2>2 DEF z
<1>9. NoneNew(Now, Now')
  <2> DEFINE z == Now'
  <2>1. z.gpu = gpu' /\ Now.gpu = gpu
    BY <1>7, NowIs
  <2> HIDE DEF z
  <2>2. NoneNew(Now, z)
    <3> SUFFICES ASSUME NEW p \in Queues, NEW i \in DOMAIN z.gpu[p]
                 PROVE  \E j \in DOMAIN Now.gpu[p] : z.gpu[p][i] = Now.gpu[p][j]
      BY DEF NoneNew
    <3>1. z.gpu[p] = gpu'[p] /\ Now.gpu[p] = gpu[p]
      BY <2>1
    <3>2. i \in DOMAIN gpu'[p]
      BY <3>1
    <3>3. \E j \in DOMAIN gpu[p] : gpu'[p][i] = gpu[p][j]
      BY <1>6, <3>2
    <3> QED BY <3>1, <3>3
  <2> QED BY <2>2 DEF z
<1>10. Sound(Now')
  <2> DEFINE z == Now'
  <2>1. /\ z.gpu = gpu' /\ z.dev = Now.dev /\ z.swap = Now.swap /\ z.ring = Now.ring
        /\ z \in State /\ InFlight(z) /\ NoneNew(Now, z)
    BY <1>5, <1>7, <1>8, <1>9, NowIs
  <2> HIDE DEF z
  <2>2. RingsFit(z)
    BY <1>1, <2>1 DEF RingsFit
  <2>3. \A s \in Swaps : SwapSound(z, s)
    BY <2>1 DEF Sound, SwapSound
  <2>4. ASSUME NEW d \in Devices  PROVE DeviceSound(z, d)
    <3>1. DeviceSound(Now, d)
      BY DEF Sound
    <3>2. ASSUME NEW p \in QueuesOf(d), Now.gpu[p] = <<>>  PROVE z.gpu[p] = <<>>
      <4>1. p \in Queues
        BY DEF QueuesOf
      <4>2. z.gpu[p] \in Seq(Copy) /\ DOMAIN z.gpu[p] = {}
        BY <2>1, <3>2, <4>1 DEF State, NoneNew
      <4> QED BY <4>2, NothingLeft
    <3> QED BY <2>1, <3>1, <3>2 DEF DeviceSound
  <2>5. Sound(z)
    BY <2>1, <2>2, <2>3, <2>4 DEF Sound
  <2> QED BY <2>5 DEF z
<1> QED BY <1>9, <1>10

\* A present completes.
LEMMA DisplayStepIs ==
    ASSUME NEW q \in Queues, Sound(Now), DisplayStep(q)
    PROVE  Sound(Now')
<1>1. Now \in State
  BY DEF Sound
<1>2. /\ shown \in [Queues -> Seq(Present)] /\ shown[q] \in Seq(Present) /\ shown[q] # <<>>
      /\ shown' = [shown EXCEPT ![q] = Tail(shown[q])]
      /\ UNCHANGED <<capturing, dev, swap, ring, held, gpu>>
  BY <1>1, NowIs DEF DisplayStep, State
<1>3. shown' \in [Queues -> Seq(Present)]
  BY <1>2
<1> DEFINE z == Now'
<1>4. /\ z.dev = Now.dev /\ z.swap = Now.swap /\ z.ring = Now.ring /\ z.gpu = Now.gpu
  BY <1>2, NowIs, NextNowIs
<1>5. z \in State
  <2>1. /\ capturing' \in BOOLEAN /\ dev' \in [Devices -> DeviceData]
        /\ swap' \in [Swaps -> SwapData] /\ ring' \in [Queues -> Ring]
        /\ held' \in SUBSET (Parts \X Exports) /\ gpu' \in [Queues -> Seq(Copy)]
    BY <1>1, <1>2, NowIs DEF State
  <2> QED BY <1>3, <2>1 DEF Now, State
<1> HIDE DEF z
<1>6. InFlight(z) /\ RingsFit(z)
  BY <1>4 DEF Sound, InFlight, RingsFit
<1>7. \A s \in Swaps : SwapSound(z, s)
  BY <1>4 DEF Sound, SwapSound
<1>8. \A d \in Devices : DeviceSound(z, d)
  BY <1>4 DEF Sound, DeviceSound
<1>9. Sound(z)
  BY <1>5, <1>6, <1>7, <1>8 DEF Sound
<1> QED BY <1>9 DEF z

\* The layer has seen no call yet.
LEMMA InitSound == VkInit => Sound(Now)
<1> SUFFICES ASSUME VkInit PROVE Sound(Now)
  OBVIOUS
<1>1. NewDevice \in DeviceData /\ NewSwap \in SwapData /\ NoFrames \in Ring
      /\ NewDevice.live = FALSE /\ NewDevice.valid = FALSE /\ NewDevice.cur_swap = NoSwap
      /\ NewDevice.graphics_queue = NoQueue /\ NewSwap.live = FALSE /\ NewSwap.listed = FALSE
      /\ NoFrames.busy = <<>>
  BY NewSwapIs, MaxImagesAssumption DEF NewDevice, DeviceData, NoFrames, Ring
<1>2. /\ capturing = FALSE /\ dev = [d \in Devices |-> NewDevice]
      /\ swap = [s \in Swaps |-> NewSwap] /\ ring = [q \in Queues |-> NoFrames] /\ held = {}
      /\ gpu = [q \in Queues |-> <<>>] /\ shown = [q \in Queues |-> <<>>]
  BY DEF VkInit
<1>3. Now \in State
  <2>1. /\ capturing \in BOOLEAN /\ dev \in [Devices -> DeviceData]
        /\ swap \in [Swaps -> SwapData] /\ ring \in [Queues -> Ring]
        /\ held \in SUBSET (Parts \X Exports)
    BY <1>1, <1>2
  <2>2. gpu \in [Queues -> Seq(Copy)] /\ shown \in [Queues -> Seq(Present)]
    <3>1. <<>> \in Seq(Copy) /\ <<>> \in Seq(Present)
      OBVIOUS
    <3> QED BY <1>2, <3>1
  <2> QED BY <2>1, <2>2 DEF Now, State
<1>4. InFlight(Now)
  BY <1>2, NowIs DEF InFlight
<1>5. RingsFit(Now)
  BY <1>1, <1>2, NowIs, MaxImagesAssumption DEF RingsFit
<1>6. \A s \in Swaps : SwapSound(Now, s)
  BY <1>1, <1>2, NowIs DEF SwapSound
<1>7. \A d \in Devices : DeviceSound(Now, d)
  BY <1>1, <1>2, NowIs DEF DeviceSound, QueuesOf
<1> QED BY <1>3, <1>4, <1>5, <1>6, <1>7 DEF Sound

\* A present either goes on or crashes.
LEMMA CrashedIs ==
    ASSUME NEW q \in Queues, NEW s \in Swaps, QueuePresent(q, s)
    PROVE  crashed' = crashed \/ crashed' = TRUE
<1>1. \A x, p, t, wait : PassOn(x, p, t, wait) => crashed' = crashed
  BY DEF PassOn, Becomes
<1>2. \A x, c : CopyAndPassOn(x, c, q, s) => crashed' = crashed
  BY <1>1 DEF CopyAndPassOn
<1>3. Crash => crashed' = TRUE
  BY DEF Crash
<1>4. \A x, d, c : Start(x, d, c, q, s) => crashed' = crashed \/ crashed' = TRUE
  BY <1>1, <1>2, <1>3 DEF Start
<1>5. \A x, d, c : Continue(x, d, c, q, s) => crashed' = crashed \/ crashed' = TRUE
  BY <1>1, <1>2, <1>3 DEF Continue
<1>6. \A d, wanted, anew : Capture(d, q, s, wanted, anew) => crashed' = crashed \/ crashed' = TRUE
  BY <1>1, <1>4, <1>5 DEF Capture
<1> QED BY <1>1, <1>6 DEF QueuePresent

\* The inductive invariant, for any devices. A copy under way could not be
\* tied to a fence without DeviceSound: a device that is not valid is destroyed
\* without waiting, so it must have no copies.
VkInv == Sound(Now) /\ crashed \in BOOLEAN

\* Every step keeps it.
LEMMA NextSound ==
    ASSUME VkInv, [VkNext]_vkVars
    PROVE  VkInv'
<1>1. CASE UNCHANGED vkVars
  <2>1. Now' = Now
    BY <1>1 DEF Now, vkVars
  <2> QED BY <1>1, <2>1 DEF VkInv, vkVars
<1>2. ASSUME NEW q \in Queues, NEW s \in Swaps, QueuePresent(q, s)
      PROVE  VkInv'
  <2>1. Sound(Now')
    BY <1>2, PresentIs, PresentSound DEF VkInv
  <2> QED BY <1>2, <2>1, CrashedIs DEF VkInv
<1>3. ASSUME NEW d \in Devices, CreateDevice(d)  PROVE VkInv'
  <2>1. Sound(Now')
    BY <1>3, CreateDeviceIs DEF VkInv, DeviceChanged
  <2> QED BY <1>3, <2>1 DEF VkInv, CreateDevice, Becomes
<1>4. ASSUME NEW d \in Devices, DestroyDevice(d)  PROVE VkInv'
  <2>1. Sound(Now')
    BY <1>4, DestroyDeviceIs DEF VkInv, DeviceChanged
  <2> QED BY <1>4, <2>1 DEF VkInv, DestroyDevice, Becomes
<1>5. ASSUME NEW s \in Swaps, CreateSwapchain(s)  PROVE VkInv'
  <2>1. Sound(Now')
    BY <1>5, CreateSwapchainIs DEF VkInv
  <2> QED BY <1>5, <2>1 DEF VkInv, CreateSwapchain, Becomes
<1>6. ASSUME NEW s \in Swaps, DestroySwapchain(s)  PROVE VkInv'
  <2>1. Sound(Now')
    BY <1>6, DestroySwapchainIs DEF VkInv
  <2> QED BY <1>6, <2>1 DEF VkInv, DestroySwapchain, Becomes
<1>7. ASSUME NEW q \in Queues, GpuStep(q)  PROVE VkInv'
  <2>1. Sound(Now')
    BY <1>7, GpuStepIs DEF VkInv
  <2> QED BY <1>7, <2>1 DEF VkInv, GpuStep
<1>8. ASSUME NEW q \in Queues, DisplayStep(q)  PROVE VkInv'
  <2>1. Sound(Now')
    BY <1>8, DisplayStepIs DEF VkInv
  <2> QED BY <1>8, <2>1 DEF VkInv, DisplayStep
<1> QED BY <1>1, <1>2, <1>3, <1>4, <1>5, <1>6, <1>7, <1>8 DEF VkNext

\* So it always holds.
LEMMA AlwaysSound == VkSpec => []VkInv
<1>1. VkInit => VkInv
  BY InitSound DEF VkInv, VkInit
<1>2. VkInv /\ [VkNext]_vkVars => VkInv'
  BY NextSound
<1> QED BY <1>1, <1>2, PTL DEF VkSpec

\* The variables have their types: the ring of frames is never longer than the
\* images of a swapchain, whatever order devices and swapchains come in.
THEOREM VkTypeCorrect == VkSpec => []VkTypeOK
<1>1. VkInv => VkTypeOK
  <2> SUFFICES ASSUME VkInv PROVE VkTypeOK
    OBVIOUS
  <2>1. Now \in State /\ RingsFit(Now)
    BY DEF VkInv, Sound
  <2>2. /\ capturing \in BOOLEAN /\ dev \in [Devices -> DeviceData] /\ swap \in [Swaps -> SwapData]
        /\ ring \in [Queues -> Ring] /\ held \subseteq Parts \X Exports
        /\ gpu \in [Queues -> Seq(Copy)] /\ shown \in [Queues -> Seq(Present)]
    BY <2>1, NowIs DEF State
  <2>3. ASSUME NEW q \in Queues
        PROVE  /\ DOMAIN ring[q].busy \in {1..n : n \in 0..MaxImages}
               /\ \A f \in DOMAIN ring[q].busy : ring[q].busy[f] \in BOOLEAN
               /\ ring[q].next \in 1..MaxImages
    <3>1. ring[q].busy \in Seq(BOOLEAN) /\ ring[q].next \in 1..MaxImages
      BY <2>2 DEF Ring
    <3> DEFINE n == Len(ring[q].busy)
    <3>2. n \in Nat /\ DOMAIN ring[q].busy = 1..n
      BY <3>1
    <3>3. n <= MaxImages
      BY <2>1, NowIs DEF RingsFit
    <3> HIDE DEF n
    <3>4. n \in 0..MaxImages
      BY <3>2, <3>3, MaxImagesAssumption
    <3> QED BY <3>1, <3>2, <3>4
  <2>4. ASSUME NEW q \in Queues
        PROVE  /\ \A i \in DOMAIN gpu[q] : gpu[q][i] \in Copy
               /\ \A i \in DOMAIN shown[q] : shown[q][i] \in Present
    BY <2>2
  <2>5. crashed \in BOOLEAN
    BY DEF VkInv
  <2> QED BY <2>2, <2>3, <2>4, <2>5 DEF VkTypeOK, DeviceData, SwapData, Copy, Present
<1> QED BY <1>1, AlwaysSound, PTL

\* vk_shtex_capture never resets, and vk_shtex_destroy_frame_objects never
\* destroys, the pool of a frame whose copy the GPU has not completed.
THEOREM FramesCorrect == VkSpec => []FramesInFlight
<1>1. VkInv => FramesInFlight
  BY NowIs DEF VkInv, Sound, InFlight, FramesInFlight
<1> QED BY <1>1, AlwaysSound, PTL

-----------------------------------------------------------------------------
(***************************************************************************)
(* What holds of one device                                                *)
(***************************************************************************)

\* Whole depends on the captured swapchain, and copies may only complete.
LEMMA WholeKept ==
    ASSUME NEW d, NEW x, NEW z, Whole(x, d), z \in State, NoneNew(x, z),
           z.capturing = x.capturing, z.swap = x.swap, z.held = x.held,
           z.dev[d].cur_swap = x.dev[d].cur_swap
    PROVE  Whole(z, d)
<1>1. CASE x.dev[d].cur_swap = NoSwap
  <2>1. ASSUME NEW q \in Queues  PROVE z.gpu[q] = <<>>
    <3>1. x.gpu[q] = <<>>
      BY <1>1 DEF Whole
    <3>2. z.gpu[q] \in Seq(Copy) /\ DOMAIN z.gpu[q] = {}
      BY <3>1 DEF State, NoneNew
    <3> QED BY <3>2, NothingLeft
  <2> QED BY <1>1, <2>1 DEF Whole
<1>2. CASE x.dev[d].cur_swap # NoSwap
  <2>1. PICK e \in Exports :
            /\ x.swap[x.dev[d].cur_swap].export = [p \in Parts |-> e]
            /\ x.held = Parts \X {e}
            /\ \A q \in Queues : \A i \in DOMAIN x.gpu[q] :
                  x.gpu[q][i].swap = x.dev[d].cur_swap /\ x.gpu[q][i].to = e
    BY <1>2 DEF Whole
  <2>2. ASSUME NEW q \in Queues, NEW i \in DOMAIN z.gpu[q]
        PROVE  z.gpu[q][i].swap = x.dev[d].cur_swap /\ z.gpu[q][i].to = e
    <3>1. PICK j \in DOMAIN x.gpu[q] : z.gpu[q][i] = x.gpu[q][j]
      BY DEF NoneNew
    <3> QED BY <2>1, <3>1
  <2>3. x.capturing = TRUE
    BY <1>2 DEF Whole
  <2> QED BY <1>2, <2>1, <2>2, <2>3 DEF Whole
<1> QED BY <1>1, <1>2

\* Nothing is held before the first call.
LEMMA InitWhole ==
    ASSUME NEW d, Devices = {d}, VkInit
    PROVE  Whole(Now, d)
<1>1. dev[d].cur_swap = NoSwap
  BY DEF VkInit, NewDevice
<1> QED BY <1>1, NowIs DEF VkInit, Whole

\* Every step keeps Whole, with VkInv.
LEMMA NextWhole ==
    ASSUME NEW d, Devices = {d}, VkInv, Whole(Now, d), [VkNext]_vkVars
    PROVE  Whole(Now', d)
<1>1. Sound(Now) /\ Sound(Now') /\ Now' \in State
  BY NextSound DEF VkInv, Sound
<1>2. CASE UNCHANGED vkVars
  <2>1. Now' = Now
    BY <1>2 DEF Now, vkVars
  <2> QED BY <2>1
<1>3. ASSUME NEW q \in Queues, NEW s \in Swaps, QueuePresent(q, s)
      PROVE  Whole(Now', d)
  <2>1. DeviceOf[q] = d
    BY DeviceOfAssumption
  <2>2. PresentMade(d, q, s)
    BY <1>1, <1>3, <2>1, PresentIs
  <2> QED BY <1>1, <2>1, <2>2, PresentSound
<1>4. ASSUME NEW e \in Devices, DeviceChanged(e)
      PROVE  Whole(Now', d)
  <2>1. e = d
    OBVIOUS
  <2>2. /\ Now'.capturing = Now.capturing /\ Now'.swap = Now.swap /\ Now'.held = Now.held
        /\ Now'.dev[d].cur_swap = Now.dev[d].cur_swap /\ NoneNew(Now, Now')
    BY <1>4, <2>1, NowIs, NextNowIs DEF DeviceChanged
  <2> QED BY <1>1, <2>2, WholeKept
<1>5. ASSUME NEW s \in Swaps, CreateSwapchain(s)
      PROVE  Whole(Now', d)
  BY <1>1, <1>5, CreateSwapchainIs
<1>6. ASSUME NEW s \in Swaps, DestroySwapchain(s)
      PROVE  Whole(Now', d)
  <2>1. DeviceOf[s] = d
    BY DeviceOfAssumption
  <2> QED BY <1>1, <1>6, <2>1, DestroySwapchainIs
<1>7. ASSUME NEW q \in Queues, GpuStep(q)
      PROVE  Whole(Now', d)
  <2>1. NoneNew(Now, Now')
    BY <1>1, <1>7, GpuStepIs
  <2>2. /\ Now'.capturing = Now.capturing /\ Now'.swap = Now.swap /\ Now'.held = Now.held
        /\ Now'.dev[d].cur_swap = Now.dev[d].cur_swap
    BY <1>7, NowIs, NextNowIs DEF GpuStep
  <2> QED BY <1>1, <2>1, <2>2, WholeKept
<1>8. ASSUME NEW q \in Queues, DisplayStep(q)
      PROVE  Whole(Now', d)
  <2>1. /\ Now'.capturing = Now.capturing /\ Now'.swap = Now.swap /\ Now'.held = Now.held
        /\ Now'.dev[d].cur_swap = Now.dev[d].cur_swap /\ Now'.gpu = Now.gpu
    BY <1>8, NowIs, NextNowIs DEF DisplayStep
  <2>2. NoneNew(Now, Now')
    BY <2>1 DEF NoneNew
  <2> QED BY <1>1, <2>1, <2>2, WholeKept
<1> QED BY <1>1, <1>2, <1>3, <1>4, <1>5, <1>6, <1>7, <1>8, CreateDeviceIs, DestroyDeviceIs DEF VkNext

\* So it always holds of the only device.
LEMMA AlwaysWhole ==
    ASSUME NEW d, Devices = {d}
    PROVE  VkSpec => [](VkInv /\ Whole(Now, d))
<1>1. VkInit => Whole(Now, d)
  BY InitWhole
<1>2. VkInv /\ Whole(Now, d) /\ [VkNext]_vkVars => Whole(Now, d)'
  BY NextWhole
<1> QED BY <1>1, <1>2, AlwaysSound, PTL DEF VkSpec

\* In a game with one device, the GPU never copies from a swapchain that is gone
\* or into an image that vk_shtex_free has destroyed.
THEOREM CopiesCorrect ==
    ASSUME NEW d, Devices = {d}
    PROVE  VkSpec => []CopiesHaveTargets
<1>1. VkInv /\ Whole(Now, d) => CopiesHaveTargets
  <2> SUFFICES ASSUME VkInv, Whole(Now, d), NEW q \in Queues, NEW i \in DOMAIN gpu[q]
               PROVE  /\ swap[gpu[q][i].swap].listed
                      /\ <<"image", gpu[q][i].to>> \in held
                      /\ dev[DeviceOf[q]].cur_swap = gpu[q][i].swap
                      /\ swap[gpu[q][i].swap].export["image"] = gpu[q][i].to
    BY DEF CopiesHaveTargets
  <2>1. dev[d].cur_swap # NoSwap
    BY NowIs DEF Whole
  <2>2. PICK e \in Exports :
            /\ swap[dev[d].cur_swap].export = [p \in Parts |-> e]
            /\ held = Parts \X {e}
            /\ gpu[q][i].swap = dev[d].cur_swap /\ gpu[q][i].to = e
    BY <2>1, NowIs DEF Whole
  <2>3. DeviceOf[q] = d
    BY DeviceOfAssumption
  <2>4. swap[dev[d].cur_swap].listed
    BY <2>1, NowIs DEF VkInv, Sound, DeviceSound
  <2> QED BY <2>2, <2>3, <2>4 DEF Parts
<1> QED BY <1>1, AlwaysWhole, PTL

\* In a game with one device, the layer holds an image, memory and descriptors
\* exactly while it captures: the failures of vk_shtex_init, and the swapchains
\* and devices that go away, leave nothing behind.
THEOREM LeaksNothing ==
    ASSUME NEW d, Devices = {d}
    PROVE  VkSpec => []NothingLeaks
<1>1. VkInv /\ Whole(Now, d) => NothingLeaks
  <2> SUFFICES ASSUME VkInv, Whole(Now, d)  PROVE NothingLeaks
    OBVIOUS
  <2>1. CASE dev[d].cur_swap = NoSwap
    BY <2>1, NowIs DEF Whole, NothingLeaks
  <2>2. CASE dev[d].cur_swap # NoSwap
    <3>1. PICK e \in Exports :
            /\ swap[dev[d].cur_swap].export = [p \in Parts |-> e]
            /\ held = Parts \X {e}
      BY <2>2, NowIs DEF Whole
    <3>2. swap[dev[d].cur_swap].listed /\ capturing
      BY <2>2, NowIs DEF VkInv, Sound, DeviceSound, Whole
    <3> QED BY <2>2, <3>1, <3>2 DEF NothingLeaks
  <2> QED BY <2>1, <2>2
<1> QED BY <1>1, AlwaysWhole, PTL

-----------------------------------------------------------------------------

\* The captured buffer is that of the only device.
LEMMA OneBuffer ==
    ASSUME NEW d, NEW v, NEW w, Devices = {d}
    PROVE  LET captured == {e \in Devices : v[e].cur_swap # NoSwap}
           IN  (IF captured = {} THEN NoExport
                ELSE w[v[CHOOSE e \in captured : TRUE].cur_swap].export["image"])
               = IF v[d].cur_swap = NoSwap THEN NoExport ELSE w[v[d].cur_swap].export["image"]
<1> DEFINE captured == {e \in Devices : v[e].cur_swap # NoSwap}
<1>1. CASE v[d].cur_swap = NoSwap
  <2>1. captured = {}
    BY <1>1
  <2> QED BY <1>1, <2>1
<1>2. CASE v[d].cur_swap # NoSwap
  <2>1. captured = {d}
    BY <1>2
  <2>2. (CHOOSE e \in captured : TRUE) = d
    BY <2>1
  <2> QED BY <1>2, <2>1, <2>2
<1> QED BY <1>1, <1>2

\* Each call of the layer is a step of a hook, or none.
LEMMA StepIsAHook ==
    ASSUME NEW d, Devices = {d}, VkInv, Whole(Now, d), [VkNext]_vkVars
    PROVE  [Hook!HookNext]_(Hook!hookVars)
<1> USE DEF Hook!HookNext, Hook!hookVars
<1>0. Sound(Now) /\ Sound(Now') /\ Whole(Now', d)
  BY NextSound, NextWhole DEF VkInv
<1>1. ExportedBuffer = IF dev[d].cur_swap = NoSwap THEN NoExport
                       ELSE swap[dev[d].cur_swap].export["image"]
  BY OneBuffer DEF ExportedBuffer
<1>2. ExportedBuffer' = IF dev'[d].cur_swap = NoSwap THEN NoExport
                        ELSE swap'[dev'[d].cur_swap].export["image"]
  BY OneBuffer DEF ExportedBuffer
<1>3. capturing \in BOOLEAN /\ capturing' \in BOOLEAN
      /\ (capturing = FALSE => dev[d].cur_swap = NoSwap)
      /\ (capturing' = FALSE => ExportedBuffer' = NoExport)
      /\ (capturing' = TRUE => ExportedBuffer' \in Exports)
  <2>1. capturing = FALSE => dev[d].cur_swap = NoSwap
    BY <1>0, NowIs DEF Whole
  <2>2. capturing' = FALSE => dev'[d].cur_swap = NoSwap
    BY <1>0, NextNowIs DEF Whole
  <2>3. capturing' = TRUE => /\ dev'[d].cur_swap # NoSwap
                             /\ swap'[dev'[d].cur_swap].export["image"] \in Exports
    BY <1>0, NextNowIs DEF Whole, Sound, DeviceSound
  <2>4. capturing \in BOOLEAN /\ capturing' \in BOOLEAN
    BY <1>0, NowIs, NextNowIs DEF Sound, State
  <2> QED BY <1>2, <2>1, <2>2, <2>3, <2>4
<1>4. /\ (\E e \in Devices : dev[e].valid) <=> dev[d].valid = TRUE
      /\ (\E e \in Devices : dev'[e].valid) <=> dev'[d].valid = TRUE
      /\ dev[d].valid \in BOOLEAN /\ dev'[d].valid \in BOOLEAN
  <2>1. dev[d].valid \in BOOLEAN /\ dev'[d].valid \in BOOLEAN
    BY <1>0, NowIs, NextNowIs DEF Sound, State, DeviceData
  <2> QED BY <2>1
<1>5. CASE UNCHANGED vkVars
  BY <1>5 DEF vkVars, ExportedBuffer
<1>6. ASSUME NEW q \in Queues, NEW s \in Swaps, QueuePresent(q, s)
      PROVE  Hook!Start \/ Hook!Stop \/ Hook!Disable \/ UNCHANGED Hook!hookVars
  <2>1. DeviceOf[q] = d
    BY DeviceOfAssumption
  <2>2. PresentMade(d, q, s)
    BY <1>0, <1>6, <2>1, PresentIs
  <2>3. \/ dev'[d].valid = dev[d].valid
        \/ dev[d].valid = TRUE /\ dev'[d].valid = FALSE /\ capturing' = FALSE
    BY <1>0, <2>1, <2>2, PresentSound
  <2>4. CASE capturing' = FALSE
    BY <1>3, <1>4, <2>3, <2>4 DEF Hook!Stop, Hook!Disable
  <2>5. CASE capturing' = TRUE
    <3>1. dev[d].valid = TRUE
      <4>1. dev'[d].cur_swap # NoSwap
        BY <1>0, <2>5, NextNowIs DEF Whole
      <4>2. dev'[d].valid = TRUE
        BY <1>0, <1>4, <4>1, NextNowIs DEF Sound, DeviceSound
      <4> QED BY <2>3, <2>5, <4>2
    <3> QED BY <1>3, <1>4, <2>3, <2>5, <3>1 DEF Hook!Start
  <2> QED BY <1>3, <2>4, <2>5
<1>7. ASSUME NEW e \in Devices, DeviceChanged(e)
      PROVE  Hook!Renew
  <2>1. e = d
    OBVIOUS
  <2>2. /\ dev[d].cur_swap = NoSwap /\ dev'[d].cur_swap = NoSwap /\ capturing' = capturing
    BY <1>7, <2>1 DEF DeviceChanged
  <2>3. capturing = FALSE
    BY <1>0, <2>2, NowIs DEF Whole
  <2> QED BY <1>1, <1>2, <1>4, <2>2, <2>3 DEF Hook!Renew
<1>8. ASSUME NEW s \in Swaps, CreateSwapchain(s)
      PROVE  UNCHANGED Hook!hookVars
  <2>1. /\ dev' = dev /\ capturing' = capturing /\ dev[d].cur_swap # s
        /\ \A t \in Swaps \ {s} : swap'[t] = swap[t]
    BY <1>0, <1>8, CreateSwapchainIs
  <2>2. dev[d].cur_swap \in Swaps \cup {NoSwap}
    BY <1>0, NowIs DEF Sound, State, DeviceData
  <2> QED BY <1>1, <1>2, <2>1, <2>2
<1>9. ASSUME NEW s \in Swaps, DestroySwapchain(s)
      PROVE  Hook!Stop \/ UNCHANGED Hook!hookVars
  <2>1. DeviceOf[s] = d
    BY DeviceOfAssumption
  <2>2. dev'[d].valid = dev[d].valid /\ (capturing' = FALSE \/ Now' = WithSwap(Now, s, NewSwap))
    BY <1>0, <1>9, <2>1, DestroySwapchainIs
  <2>3. CASE capturing' = FALSE
    BY <1>3, <1>4, <2>2, <2>3 DEF Hook!Stop
  <2>4. CASE capturing' = TRUE /\ Now' = WithSwap(Now, s, NewSwap)
    <3>1. /\ dev' = dev /\ capturing' = capturing
          /\ swap'[s] = NewSwap /\ \A t \in Swaps \ {s} : swap'[t] = swap[t]
      <4>1. Now \in State
        BY <1>0 DEF Sound
      <4> DEFINE z == WithSwap(Now, s, NewSwap)
      <4>2. /\ z.dev = Now.dev /\ z.capturing = Now.capturing
            /\ z.swap[s] = NewSwap /\ \A t \in Swaps \ {s} : z.swap[t] = Now.swap[t]
        BY <4>1 DEF WithSwap, State
      <4> HIDE DEF z
      <4>3. Now' = z
        BY <2>4 DEF z
      <4> QED BY <4>2, <4>3, NowIs, NextNowIs
    <3>2. dev'[d].cur_swap # NoSwap
      BY <1>0, <2>4, NextNowIs DEF Whole
    <3>3. swap'[dev'[d].cur_swap].listed = TRUE /\ dev'[d].cur_swap \in Swaps
      BY <1>0, <3>2, NextNowIs DEF Sound, DeviceSound, State, DeviceData
    <3>4. dev[d].cur_swap \in Swaps \ {s}
      BY <3>1, <3>3, NewSwapIs
    <3> QED BY <1>1, <1>2, <3>1, <3>4
  <2> QED BY <1>3, <2>2, <2>3, <2>4
<1>10. ASSUME NEW q \in Queues, GpuStep(q) \/ DisplayStep(q)
       PROVE  UNCHANGED Hook!hookVars
  BY <1>1, <1>2, <1>10 DEF GpuStep, DisplayStep
<1> QED BY <1>0, <1>5, <1>6, <1>7, <1>8, <1>9, <1>10, CreateDeviceIs, DestroyDeviceIs DEF VkNext

\* In a game with one device, the layer implements CaptureHook: it starts only
\* while valid, with a whole buffer, and its start that fails disables it.
THEOREM LayerIsAHook ==
    ASSUME NEW d, Devices = {d}
    PROVE  VkSpec => IsAHook
<1>1. VkInit => Hook!HookInit
  <2> SUFFICES ASSUME VkInit PROVE Hook!HookInit
    OBVIOUS
  <2>1. dev[d].cur_swap = NoSwap /\ dev[d].valid = FALSE /\ capturing = FALSE
    BY DEF VkInit, NewDevice
  <2>2. ExportedBuffer = NoExport
    BY <2>1, OneBuffer DEF ExportedBuffer
  <2> QED BY <2>1, <2>2 DEF Hook!HookInit
<1>2. VkInv /\ Whole(Now, d) /\ [VkNext]_vkVars => [Hook!HookNext]_(Hook!hookVars)
  BY StepIsAHook
<1> QED BY <1>1, <1>2, AlwaysWhole, PTL DEF VkSpec, IsAHook, Hook!HookSpec

-----------------------------------------------------------------------------
(***************************************************************************)
(* Turns: a queue and a swapchain for each device                          *)
(***************************************************************************)

\* Each device has one queue and, at a time, one swapchain.
OneEach ==
    /\ \A p, q \in Queues : DeviceOf[p] = DeviceOf[q] => p = q
    /\ \A s, t \in Swaps : DeviceOf[s] = DeviceOf[t] => s = t

\* How many frames ago frame f of n was used, when it is the turn of `next`.
Age(f, next, n) == IF f < next THEN next - f ELSE next + n - f

\* A frame is one older when the turn has passed another one.
LEMMA Ages ==
    ASSUME NEW n \in Nat, NEW next \in 1..n, NEW f \in 1..n
    PROVE  /\ FrameAfter(next, n) = IF next = n THEN 1 ELSE next + 1
           /\ Age(next, next, n) = n
           /\ Age(next, FrameAfter(next, n), n) = 1
           /\ f # next => Age(f, FrameAfter(next, n), n) = Age(f, next, n) + 1
           /\ Age(f, next, n) \in Nat
<1>1. (next % n) + 1 = IF next = n THEN 1 ELSE next + 1
  OBVIOUS
<1> QED BY <1>1 DEF FrameAfter, Age

\* A present that waits for a frame of queue q was queued no earlier than that
\* frame was used.
WaitSound(x, q, i) ==
    LET p == x.shown[q][i]
        n == Len(x.ring[q].busy)
    IN  /\ p.wait[1] = q
        /\ p.wait[2] \in 1..n
        /\ Age(p.wait[2], x.ring[q].next, n) + i <= Len(x.shown[q]) + 1
        /\ x.swap[p.swap].images <= n
        /\ \A j \in DOMAIN x.shown[q] : x.shown[q][j].wait = p.wait => i = j

\* The presents of queue q.
Turns(x, q) ==
    \A i \in DOMAIN x.shown[q] :
        /\ x.shown[q][i].wait # Destroyed
        /\ DeviceOf[x.shown[q][i].swap] = DeviceOf[q]
        /\ x.swap[x.shown[q][i].swap].live = TRUE
        /\ x.shown[q][i].wait \in Semaphores => WaitSound(x, q, i)

\* The presents of queue q and what they depend on are the same.
SameTurns(x, y, q) ==
    /\ DOMAIN y.shown[q] = DOMAIN x.shown[q] /\ Len(y.shown[q]) = Len(x.shown[q])
    /\ Len(y.ring[q].busy) = Len(x.ring[q].busy) /\ y.ring[q].next = x.ring[q].next
    /\ \A i \in DOMAIN x.shown[q] :
          /\ y.shown[q][i].swap = x.shown[q][i].swap
          /\ y.shown[q][i].wait = x.shown[q][i].wait
          /\ y.swap[x.shown[q][i].swap].live = x.swap[x.shown[q][i].swap].live
          /\ y.swap[x.shown[q][i].swap].images = x.swap[x.shown[q][i].swap].images

\* Turns depends on the presents, the turn and the swapchains presented.
LEMMA TurnsKept ==
    ASSUME NEW x, NEW y, NEW q \in Queues, Turns(x, q), SameTurns(x, y, q)
    PROVE  Turns(y, q)
<1> SUFFICES ASSUME NEW i \in DOMAIN y.shown[q]
             PROVE  /\ y.shown[q][i].wait # Destroyed
                    /\ DeviceOf[y.shown[q][i].swap] = DeviceOf[q]
                    /\ y.swap[y.shown[q][i].swap].live = TRUE
                    /\ y.shown[q][i].wait \in Semaphores => WaitSound(y, q, i)
  BY DEF Turns
<1>1. /\ i \in DOMAIN x.shown[q]
      /\ y.shown[q][i].swap = x.shown[q][i].swap /\ y.shown[q][i].wait = x.shown[q][i].wait
      /\ y.swap[x.shown[q][i].swap].live = x.swap[x.shown[q][i].swap].live
      /\ y.swap[x.shown[q][i].swap].images = x.swap[x.shown[q][i].swap].images
  BY DEF SameTurns
<1>2. ASSUME x.shown[q][i].wait \in Semaphores  PROVE WaitSound(y, q, i)
  <2>1. WaitSound(x, q, i)
    BY <1>1, <1>2 DEF Turns
  <2>2. \A j \in DOMAIN y.shown[q] : y.shown[q][j].wait = y.shown[q][i].wait => i = j
    BY <1>1, <2>1 DEF WaitSound, SameTurns
  <2> QED BY <1>1, <2>1, <2>2 DEF WaitSound, SameTurns
<1> QED BY <1>1, <1>2 DEF Turns

\* The kinds of waits are told apart.
LEMMA WaitsDiffer ==
    ASSUME NEW q, NEW f
    PROVE  /\ <<q, f>> # Destroyed /\ Never # Destroyed /\ Own # Destroyed
           /\ Never \notin Semaphores /\ Own \notin Semaphores /\ Destroyed \notin Semaphores
BY DEF Own, Never, Destroyed, Semaphores

\* A present of a live swapchain that waits for nothing of the layer's.
LEMMA PlainTurns ==
    ASSUME NEW x, NEW q \in Queues, NEW s \in Swaps, NEW wait \in Waits,
           x \in State, Turns(x, q), wait # Destroyed, wait \notin Semaphores,
           DeviceOf[s] = DeviceOf[q], x.swap[s].live = TRUE
    PROVE  Turns(Presented(x, q, s, wait), q)
<1> DEFINE y == Presented(x, q, s, wait)
           new == [swap |-> s, wait |-> wait]
           k == Len(x.shown[q])
<1>1. /\ y.ring = x.ring /\ y.swap = x.swap /\ y.shown[q] = Append(x.shown[q], new)
  BY PresentedIs
<1>2. x.shown[q] \in Seq(Present) /\ k \in Nat /\ DOMAIN x.shown[q] = 1..k
  BY DEF State
<1>3. new.swap = s /\ new.wait = wait
  OBVIOUS
<1> HIDE DEF y, new
<1>4. /\ DOMAIN y.shown[q] = 1..(k + 1) /\ Len(y.shown[q]) = k + 1
      /\ y.shown[q][k + 1] = new
      /\ \A i \in 1..k : y.shown[q][i] = x.shown[q][i]
  BY <1>1, <1>2
<1> HIDE DEF k
<1>5. ASSUME NEW i \in 1..k, x.shown[q][i].wait \in Semaphores
      PROVE  WaitSound(y, q, i)
  <2>1. WaitSound(x, q, i)
    BY <1>2, <1>5 DEF Turns
  <2> DEFINE n == Len(x.ring[q].busy)
             a == Age(x.shown[q][i].wait[2], x.ring[q].next, n)
  <2>2. n \in Nat /\ x.ring[q].next \in Nat
    BY DEF State, Ring
  <2>3. x.shown[q][i].wait[2] \in 1..n
    BY <2>1 DEF WaitSound
  <2>4. a \in Int /\ a + i <= k + 1
    <3>1. x.ring[q].next \in Int /\ x.shown[q][i].wait[2] \in Int
      BY <2>2, <2>3
    <3>2. a \in Int
      BY <2>2, <3>1 DEF Age
    <3>3. a + i <= k + 1
      BY <2>1 DEF WaitSound, k
    <3> QED BY <3>2, <3>3
  <2> HIDE DEF a
  <2>5. a + i <= (k + 1) + 1
    BY <1>2, <2>4
  <2>6. \A j \in 1..(k + 1) : y.shown[q][j].wait = x.shown[q][i].wait => i = j
    <3> SUFFICES ASSUME NEW j \in 1..(k + 1), y.shown[q][j].wait = x.shown[q][i].wait
                 PROVE  i = j
      OBVIOUS
    <3>1. j # k + 1
      BY <1>3, <1>4, <1>5
    <3>2. j \in 1..k
      BY <1>2, <3>1
    <3> QED BY <1>2, <1>4, <2>1, <3>2 DEF WaitSound
  <2> HIDE DEF n
  <2>7. y.shown[q][i] = x.shown[q][i] /\ Len(y.ring[q].busy) = n /\ y.ring[q].next = x.ring[q].next
    BY <1>1, <1>4 DEF n
  <2>8. x.shown[q][i].wait[1] = q /\ x.swap[x.shown[q][i].swap].images <= n
    BY <2>1 DEF WaitSound, n
  <2>9. Age(y.shown[q][i].wait[2], y.ring[q].next, Len(y.ring[q].busy)) = a
    BY <2>7 DEF a
  <2> QED BY <1>1, <1>4, <2>3, <2>5, <2>6, <2>7, <2>8, <2>9 DEF WaitSound
<1>6. ASSUME NEW i \in 1..(k + 1)
      PROVE  /\ y.shown[q][i].wait # Destroyed
             /\ DeviceOf[y.shown[q][i].swap] = DeviceOf[q]
             /\ y.swap[y.shown[q][i].swap].live = TRUE
             /\ y.shown[q][i].wait \in Semaphores => WaitSound(y, q, i)
  <2>1. CASE i = k + 1
    BY <1>1, <1>3, <1>4, <2>1
  <2>2. CASE i # k + 1
    <3>1. i \in 1..k
      BY <1>2, <2>2
    <3> QED BY <1>1, <1>2, <1>4, <1>5, <3>1 DEF Turns
  <2> QED BY <2>1, <2>2
<1>7. Turns(y, q)
  BY <1>4, <1>6 DEF Turns
<1> QED BY <1>7 DEF y

\* It is the turn of a frame that no present waits for, and the present of
\* the swapchain it copies waits for it, or not.
LEMMA NextTurns ==
    ASSUME NEW x, NEW y, NEW q \in Queues, NEW s \in Swaps, NEW wait,
           x \in State, Turns(x, q), DeviceOf[s] = DeviceOf[q], x.swap[s].live = TRUE,
           x.ring[q].next \in 1..Len(x.ring[q].busy),
           x.swap[s].images <= Len(x.ring[q].busy), Len(x.shown[q]) < x.swap[s].images,
           wait \in {<<q, x.ring[q].next>>, Never, Own},
           y.swap = x.swap, Len(y.ring[q].busy) = Len(x.ring[q].busy),
           y.ring[q].next = FrameAfter(x.ring[q].next, Len(x.ring[q].busy)),
           y.shown[q] = Append(x.shown[q], [swap |-> s, wait |-> wait])
    PROVE  Turns(y, q)
<1> DEFINE new == [swap |-> s, wait |-> wait]
           k == Len(x.shown[q])
           n == Len(x.ring[q].busy)
           f == x.ring[q].next
<1>2. x.shown[q] \in Seq(Present) /\ k \in Nat /\ DOMAIN x.shown[q] = 1..k
  BY DEF State
<1>3. new.swap = s /\ new.wait = wait
  OBVIOUS
<1>0. n \in Nat /\ f \in 1..n /\ x.swap[s].images \in Nat
  <2>1. x.ring[q] \in Ring /\ x.swap[s] \in SwapData
    BY DEF State
  <2> QED BY <2>1, MaxImagesAssumption DEF Ring, SwapData
<1> HIDE DEF new
<1>4. /\ DOMAIN y.shown[q] = 1..(k + 1) /\ Len(y.shown[q]) = k + 1
      /\ y.shown[q][k + 1] = new
      /\ \A i \in 1..k : y.shown[q][i] = x.shown[q][i]
  BY <1>2 DEF new
<1>1. k < x.swap[s].images /\ x.swap[s].images <= n
  OBVIOUS
<1> HIDE DEF k, n, f
<1>5. ASSUME NEW i \in 1..k, x.shown[q][i].wait \in Semaphores
      PROVE  WaitSound(y, q, i) /\ x.shown[q][i].wait # <<q, f>>
  <2>1. WaitSound(x, q, i)
    BY <1>2, <1>5 DEF Turns
  <2> DEFINE g == x.shown[q][i].wait[2]
  <2>2. g \in 1..n /\ Age(g, f, n) + i <= k + 1
    BY <2>1 DEF WaitSound, k, n, f
  <2> HIDE DEF g
  <2>3. Age(g, f, n) \in Nat /\ Age(f, f, n) = n
    BY <1>0, <2>2, Ages
  <2>4. g # f
    <3>1. k < n
      BY <1>0, <1>1, <1>2
    <3> QED BY <1>0, <1>2, <2>2, <2>3, <3>1
  <2>5. Age(g, FrameAfter(f, n), n) = Age(g, f, n) + 1
    BY <1>0, <2>2, <2>4, Ages
  <2>6. Age(g, FrameAfter(f, n), n) + i <= (k + 1) + 1
    BY <1>2, <2>2, <2>3, <2>5
  <2>7. x.shown[q][i].wait # <<q, f>>
    BY <2>4 DEF g
  <2>8. \A j \in 1..(k + 1) : y.shown[q][j].wait = x.shown[q][i].wait => i = j
    <3> SUFFICES ASSUME NEW j \in 1..(k + 1), y.shown[q][j].wait = x.shown[q][i].wait
                 PROVE  i = j
      OBVIOUS
    <3>1. wait \notin Semaphores \/ wait = <<q, f>>
      BY WaitsDiffer DEF f
    <3>2. j # k + 1
      BY <1>3, <1>4, <1>5, <2>7, <3>1
    <3>3. j \in 1..k
      BY <1>2, <3>2
    <3> QED BY <1>2, <1>4, <2>1, <3>3 DEF WaitSound
  <2>9. y.shown[q][i] = x.shown[q][i] /\ Len(y.ring[q].busy) = n /\ y.ring[q].next = FrameAfter(f, n)
    BY <1>4 DEF n, f
  <2>10. x.shown[q][i].wait[1] = q /\ x.swap[x.shown[q][i].swap].images <= n
    BY <2>1 DEF WaitSound, n
  <2>11. WaitSound(y, q, i)
    BY <1>4, <2>2, <2>6, <2>8, <2>9, <2>10 DEF WaitSound, g
  <2> QED BY <2>7, <2>11
<1>6. ASSUME wait \in Semaphores
      PROVE  WaitSound(y, q, k + 1)
  <2>1. wait = <<q, f>>
    BY <1>6, WaitsDiffer DEF f
  <2>2. Age(f, FrameAfter(f, n), n) = 1
    BY <1>0, Ages
  <2>3. \A j \in 1..(k + 1) : y.shown[q][j].wait = wait => k + 1 = j
    <3> SUFFICES ASSUME NEW j \in 1..(k + 1), y.shown[q][j].wait = wait, j # k + 1
                 PROVE  FALSE
      OBVIOUS
    <3>1. j \in 1..k
      BY <1>2
    <3> QED BY <1>4, <1>5, <1>6, <2>1, <3>1
  <2>4. y.shown[q][k + 1].wait = <<q, f>> /\ y.shown[q][k + 1].swap = s
    BY <1>3, <1>4, <2>1
  <2>5. Len(y.ring[q].busy) = n /\ y.ring[q].next = FrameAfter(f, n) /\ y.swap[s].images <= n
    BY <1>1 DEF n, f
  <2>6. 1 + (k + 1) <= (k + 1) + 1
    BY <1>2
  <2>7. y.shown[q][k + 1].wait[1] = q /\ y.shown[q][k + 1].wait[2] = f
    <3> DEFINE v == y.shown[q][k + 1].wait
    <3>1. v = <<q, f>>
      BY <2>4
    <3> HIDE DEF v
    <3>2. v[1] = q /\ v[2] = f
      BY <3>1
    <3> QED BY <3>2 DEF v
  <2>8. Age(f, y.ring[q].next, Len(y.ring[q].busy)) = 1
    BY <2>2, <2>5
  <2>9. \A j \in DOMAIN y.shown[q] : y.shown[q][j].wait = y.shown[q][k + 1].wait => k + 1 = j
    BY <1>4, <2>1, <2>3, <2>4
  <2>10. y.swap[y.shown[q][k + 1].swap].images <= Len(y.ring[q].busy)
    BY <2>4, <2>5
  <2>11. f \in 1..Len(y.ring[q].busy)
    BY <1>0, <2>5
  <2>12. Age(f, y.ring[q].next, Len(y.ring[q].busy)) + (k + 1) <= Len(y.shown[q]) + 1
    BY <1>4, <2>6, <2>8
  <2> QED BY <2>7, <2>9, <2>10, <2>11, <2>12 DEF WaitSound
<1>7. wait # Destroyed
  BY WaitsDiffer
<1>8. ASSUME NEW i \in 1..(k + 1)
      PROVE  /\ y.shown[q][i].wait # Destroyed
             /\ DeviceOf[y.shown[q][i].swap] = DeviceOf[q]
             /\ y.swap[y.shown[q][i].swap].live = TRUE
             /\ y.shown[q][i].wait \in Semaphores => WaitSound(y, q, i)
  <2>1. CASE i = k + 1
    BY <1>3, <1>4, <1>6, <1>7, <2>1
  <2>2. CASE i # k + 1
    <3>1. i \in 1..k
      BY <1>2, <2>2
    <3> QED BY <1>2, <1>4, <1>5, <3>1 DEF Turns
  <2> QED BY <2>1, <2>2
<1> QED BY <1>4, <1>8 DEF Turns

\* The presents of every queue.
AllTurns(x) == \A q \in Queues : Turns(x, q)

\* All presents of a queue are of the one swapchain.
LEMMA PendingIs ==
    ASSUME OneEach, Sound(Now), AllTurns(Now), NEW q \in Queues, NEW s \in Swaps,
           DeviceOf[s] = DeviceOf[q]
    PROVE  Cardinality(PendingOf(s)) = Len(shown[q])
<1> DEFINE k == Len(shown[q])
<1>1. shown \in [Queues -> Seq(Present)] /\ k \in Nat /\ DOMAIN shown[q] = 1..k
  <2>1. shown \in [Queues -> Seq(Present)]
    BY NowIs DEF Sound, State
  <2> QED BY <2>1
<1>2. ASSUME NEW p \in Queues, NEW i \in DOMAIN shown[p]
      PROVE  shown[p][i].swap \in Swaps /\ DeviceOf[shown[p][i].swap] = DeviceOf[p]
  <2>1. shown[p][i] \in Present
    BY <1>1
  <2> QED BY <2>1, NowIs DEF AllTurns, Turns, Present
<1>3. ASSUME NEW p \in Queues, NEW i \in DOMAIN shown[p]
      PROVE  shown[p][i].swap = s <=> p = q
  BY <1>2 DEF OneEach
<1>4. PendingOf(s) = {q} \X (1..k)
  <2>1. ASSUME NEW e \in PendingOf(s)  PROVE e \in {q} \X (1..k)
    <3>1. PICK p \in Queues : e \in {<<p, i>> : i \in {j \in DOMAIN shown[p] : shown[p][j].swap = s}}
      BY DEF PendingOf
    <3>2. PICK i \in DOMAIN shown[p] : e = <<p, i>> /\ shown[p][i].swap = s
      BY <3>1
    <3> QED BY <1>1, <1>3, <3>2
  <2>2. ASSUME NEW e \in {q} \X (1..k)  PROVE e \in PendingOf(s)
    <3>1. PICK i \in 1..k : e = <<q, i>>
      OBVIOUS
    <3>2. i \in DOMAIN shown[q] /\ shown[q][i].swap = s
      BY <1>1, <1>3
    <3>3. e \in {<<q, j>> : j \in {j \in DOMAIN shown[q] : shown[q][j].swap = s}}
      BY <3>1, <3>2
    <3> QED BY <3>3 DEF PendingOf
  <2> QED BY <2>1, <2>2
<1>5. IsFiniteSet(1..k) /\ Cardinality(1..k) = k
  <2>1. k \in Int /\ 1 \in Int
    BY <1>1
  <2>2. IsFiniteSet(1..k) /\ Cardinality(1..k) = IF 1 > k THEN 0 ELSE k - 1 + 1
    BY <2>1, FS_Interval
  <2> QED BY <1>1, <2>2
<1>6. IsFiniteSet({q}) /\ Cardinality({q}) = 1
  BY FS_Singleton
<1>7. Cardinality({q} \X (1..k)) = Cardinality({q}) * Cardinality(1..k)
  BY <1>5, <1>6, FS_Product
<1> HIDE DEF k
<1>8. Cardinality(PendingOf(s)) = 1 * k
  BY <1>4, <1>5, <1>6, <1>7
<1>9. k \in Nat
  BY <1>1
<1>10. 1 * k = k
  BY <1>9
<1>11. Cardinality(PendingOf(s)) = k
  BY <1>8, <1>10
<1> QED BY <1>11 DEF k

\* Making the ring bigger destroys no semaphore that a present waits for.
LEMMA RingTurns ==
    ASSUME OneEach, NEW x, NEW q \in Queues, NEW s \in Swaps, Sound(x), AllTurns(x),
           x.swap[s].images \in 1..MaxImages, DeviceOf[s] = DeviceOf[q]
    PROVE  LET r == RingFor(x, q, x.swap[s].images)
           IN  AllTurns(r) /\ Len(r.shown[q]) = Len(x.shown[q])
<1> DEFINE n == x.swap[s].images
           r == RingFor(x, q, n)
<1>0. x \in State /\ InFlight(x) /\ RingsFit(x) /\ n \in 1..MaxImages
  BY DEF Sound
<1> HIDE DEF n
<1>1. CASE Len(x.ring[q].busy) >= n
  <2>1. r = x
    BY <1>1 DEF RingFor
  <2> QED BY <2>1 DEF n
<1>2. CASE ~(Len(x.ring[q].busy) >= n)
  <2> DEFINE y == FramesDestroyed(x, {q})
  <2>1. Settles(x, r)
    BY <1>0, RingForIs
  <2>2. /\ r.shown = y.shown
        /\ \A p \in Queues \ {q} : /\ Len(r.ring[p].busy) = Len(x.ring[p].busy)
                                   /\ r.ring[p].next = x.ring[p].next
    BY <1>0, <1>2, RingForIs
  <2>3. ASSUME NEW p \in Queues
        PROVE  /\ DOMAIN y.shown[p] = DOMAIN x.shown[p] /\ Len(y.shown[p]) = Len(x.shown[p])
               /\ \A i \in DOMAIN x.shown[p] :
                     /\ y.shown[p][i].swap = x.shown[p][i].swap
                     /\ y.shown[p][i].wait = IF x.shown[p][i].wait \in Semaphores
                                                /\ x.shown[p][i].wait[1] \in {q}
                                             THEN Destroyed ELSE x.shown[p][i].wait
    BY <1>0, DestroyedSettles
  <2> HIDE DEF y, r
  <2>4. r.swap = x.swap
    BY <2>1 DEF Settles
  <2>5. ASSUME NEW p \in Queues \ {q}  PROVE Turns(r, p)
    <3>1. \A i \in DOMAIN x.shown[p] : x.shown[p][i].wait \in Semaphores => x.shown[p][i].wait[1] = p
      BY DEF AllTurns, Turns, WaitSound
    <3>2. \A i \in DOMAIN x.shown[p] : y.shown[p][i].wait = x.shown[p][i].wait
      BY <2>3, <3>1
    <3>3. SameTurns(x, r, p)
      BY <2>2, <2>3, <2>4, <3>2 DEF SameTurns
    <3> QED BY <3>3, TurnsKept DEF AllTurns
  <2>6. ASSUME NEW i \in DOMAIN x.shown[q]  PROVE x.shown[q][i].wait \notin Semaphores
    <3> SUFFICES ASSUME x.shown[q][i].wait \in Semaphores PROVE FALSE
      OBVIOUS
    <3>1. WaitSound(x, q, i) /\ DeviceOf[x.shown[q][i].swap] = DeviceOf[q]
      BY DEF AllTurns, Turns
    <3>2. x.shown[q][i].swap \in Swaps
      <4>1. x.shown[q] \in Seq(Present)
        BY <1>0 DEF State
      <4>2. x.shown[q][i] \in Present
        BY <4>1
      <4> QED BY <4>2 DEF Present
    <3>3. x.shown[q][i].swap = s
      BY <3>1, <3>2 DEF OneEach
    <3>4. n <= Len(x.ring[q].busy)
      BY <3>1, <3>3 DEF WaitSound, n
    <3>5. Len(x.ring[q].busy) \in Nat /\ n \in Nat
      BY <1>0 DEF State, Ring
    <3> QED BY <1>2, <3>4, <3>5
  <2>7. \A i \in DOMAIN x.shown[q] : y.shown[q][i].wait = x.shown[q][i].wait
    BY <2>3, <2>6
  <2>8. Turns(r, q)
    <3> SUFFICES ASSUME NEW i \in DOMAIN r.shown[q]
                 PROVE  /\ r.shown[q][i].wait # Destroyed
                        /\ DeviceOf[r.shown[q][i].swap] = DeviceOf[q]
                        /\ r.swap[r.shown[q][i].swap].live = TRUE
                        /\ r.shown[q][i].wait \in Semaphores => WaitSound(r, q, i)
      BY DEF Turns
    <3>1. /\ i \in DOMAIN x.shown[q] /\ r.shown[q][i].swap = x.shown[q][i].swap
          /\ r.shown[q][i].wait = x.shown[q][i].wait
      BY <2>2, <2>3, <2>7
    <3> QED BY <2>4, <2>6, <3>1 DEF AllTurns, Turns
  <2>9. AllTurns(r)
    BY <2>5, <2>8 DEF AllTurns
  <2> QED BY <2>2, <2>3, <2>9 DEF r, n
<1> QED BY <1>1, <1>2

\* OBS_QueuePresentKHR: the frame it takes is one no present waits for.
LEMMA PresentTurns ==
    ASSUME OneEach, NEW q \in Queues, NEW s \in Swaps, Sound(Now), AllTurns(Now), QueuePresent(q, s)
    PROVE  AllTurns(Now')
<1> DEFINE d == DeviceOf[q]
<1>1. /\ PresentMade(d, q, s) /\ DeviceOf[s] = DeviceOf[q]
      /\ Len(shown[q]) < swap[s].images /\ swap[s].live = TRUE
  <2>1. swap[s].live = TRUE
    BY NowIs DEF QueuePresent, Sound, State, SwapData
  <2> QED BY <2>1, PresentIs, PendingIs DEF QueuePresent
<1>2. CASE Now' = Now
  BY <1>2
<1>3. CASE \E w : Reached(w, d) /\ (Now' = Presented(w, q, s, Own) \/ PassedOn(Now', w, d, q, s))
  <2>1. PICK w : Reached(w, d) /\ (Now' = Presented(w, q, s, Own) \/ PassedOn(Now', w, d, q, s))
    BY <1>3
  <2>2. Sound(w) /\ SameRings(Now, w) /\ w \in State
    BY <2>1 DEF Reached, Sound
  <2>3. AllTurns(w)
    <3> SUFFICES ASSUME NEW p \in Queues PROVE Turns(w, p)
      BY DEF AllTurns
    <3>1. ASSUME NEW i \in DOMAIN shown[p]  PROVE shown[p][i].swap \in Swaps
      <4>1. shown[p] \in Seq(Present)
        BY NowIs DEF Sound, State
      <4>2. shown[p][i] \in Present
        BY <4>1
      <4> QED BY <4>2 DEF Present
    <3>2. SameTurns(Now, w, p)
      BY <2>2, <3>1, NowIs DEF SameRings, SameTurns
    <3> QED BY <3>2, TurnsKept DEF AllTurns
  <2>4. /\ w.swap[s].live = TRUE /\ w.swap[s].images = swap[s].images
        /\ Len(w.shown[q]) < w.swap[s].images
    BY <1>1, <2>2, NowIs DEF SameRings
  <2>5. CASE Now' = Presented(w, q, s, Own)
    <3>1. Turns(Presented(w, q, s, Own), q)
      BY <1>1, <2>2, <2>3, <2>4, PlainTurns, OwnIsAWait, WaitsDiffer DEF AllTurns
    <3> DEFINE y == Presented(w, q, s, Own)
    <3>2. /\ y.ring = w.ring /\ y.swap = w.swap
          /\ \A p \in Queues \ {q} : y.shown[p] = w.shown[p]
      BY <2>2, PresentedIs, OwnIsAWait
    <3> HIDE DEF y
    <3>3. ASSUME NEW p \in Queues \ {q}  PROVE Turns(y, p)
      <4>1. SameTurns(w, y, p)
        BY <3>2 DEF SameTurns
      <4> QED BY <2>3, <4>1, TurnsKept DEF AllTurns
    <3>4. AllTurns(y)
      BY <3>1, <3>3 DEF AllTurns, y
    <3> QED BY <2>5, <3>4 DEF y
  <2>6. CASE PassedOn(Now', w, d, q, s)
    <3>1. /\ w.swap[s].listed = TRUE /\ w.swap[s].export["image"] \in Exports
          /\ w.dev[d].valid = TRUE
      BY <2>6 DEF PassedOn
    <3>2. PICK c \in QueuesOf(d), submitted \in BOOLEAN :
             \E wait \in {<<c, NextFrame(w, c, s)>>, Never, Own} :
                Now' = Presented(Copied(w, c, s, submitted), q, s, wait)
      BY <2>6 DEF PassedOn
    <3>3. c = q
      BY DEF QueuesOf, OneEach
    <3>4. PICK wait \in {<<q, NextFrame(w, q, s)>>, Never, Own} :
                Now' = Presented(Copied(w, q, s, submitted), q, s, wait)
      BY <3>2, <3>3
    <3>5. w.swap[s].images \in 1..MaxImages
      <4>1. w.swap[s] \in SwapData /\ SwapSound(w, s)
        BY <2>2 DEF Sound, State
      <4>2. w.swap[s].images \in 0..MaxImages /\ w.swap[s].images # 0
        BY <2>4, <4>1 DEF SwapSound, SwapData
      <4> QED BY <4>2, MaxImagesAssumption
    <3>6. InFlight(w) /\ RingsFit(w)
      BY <2>2 DEF Sound
    <3> DEFINE n == w.swap[s].images
               r == RingFor(w, q, n)
               z == Copied(w, q, s, submitted)
               y == Presented(z, q, s, wait)
    <3>7. AllTurns(r) /\ Len(r.shown[q]) = Len(w.shown[q])
      BY <1>1, <2>2, <2>3, <3>5, RingTurns
    <3>8. Settles(w, r)
      BY <2>2, <3>5, <3>6, RingForIs
    <3>9. n <= Len(r.ring[q].busy) /\ r.ring[q].next \in DOMAIN r.ring[q].busy
      BY <2>2, <3>5, <3>6, RingForIs
    <3>10. CopiesOne(w, z, q, s)
      BY <2>2, <3>1, <3>5, <3>6, CopiedIs
    <3>11. z.shown = r.shown
      BY <2>2, <3>1, <3>5, <3>6, CopiedIs
    <3>12. /\ NextFrame(w, q, s) \in 1..MaxImages
           /\ \A p \in Queues :
                /\ Len(z.ring[p].busy) = Len(r.ring[p].busy)
                /\ z.ring[p].next = IF p = q THEN FrameAfter(r.ring[q].next, Len(r.ring[q].busy))
                                    ELSE r.ring[p].next
      BY <2>2, <3>1, <3>5, <3>6, CopiedIs
    <3>13. NextFrame(w, q, s) = r.ring[q].next
      BY DEF NextFrame
    <3> HIDE DEF z, r
    <3>14. /\ z \in State /\ z.swap = w.swap /\ r \in State /\ r.swap = w.swap
      BY <3>8, <3>10 DEF CopiesOne, Settles
    <3>15. wait \in Waits
      BY <3>4, <3>12, OwnIsAWait DEF Waits, Semaphores
    <3>16. /\ y.ring = z.ring /\ y.swap = z.swap
           /\ \A p \in Queues \ {q} : y.shown[p] = z.shown[p]
           /\ y.shown[q] = Append(z.shown[q], [swap |-> s, wait |-> wait])
      BY <3>14, <3>15, PresentedIs
    <3> HIDE DEF y
    <3>17. ASSUME NEW p \in Queues \ {q}  PROVE Turns(y, p)
      <4>1. SameTurns(r, y, p)
        BY <3>11, <3>12, <3>14, <3>16 DEF SameTurns
      <4> QED BY <3>7, <4>1, TurnsKept DEF AllTurns
    <3>18. Turns(y, q)
      <4>1. r.ring[q].next \in 1..Len(r.ring[q].busy)
        BY <3>9, <3>14 DEF State, Ring
      <4>2. /\ r.swap[s].live = TRUE /\ r.swap[s].images <= Len(r.ring[q].busy)
            /\ Len(r.shown[q]) < r.swap[s].images
        BY <2>4, <3>7, <3>9, <3>14
      <4>3. wait \in {<<q, r.ring[q].next>>, Never, Own}
        BY <3>4, <3>13
      <4>4. /\ y.swap = r.swap /\ Len(y.ring[q].busy) = Len(r.ring[q].busy)
            /\ y.ring[q].next = FrameAfter(r.ring[q].next, Len(r.ring[q].busy))
            /\ y.shown[q] = Append(r.shown[q], [swap |-> s, wait |-> wait])
        BY <3>11, <3>12, <3>14, <3>16
      <4>5. Turns(r, q)
        BY <3>7 DEF AllTurns
      <4> QED BY <1>1, <3>14, <4>1, <4>2, <4>3, <4>4, <4>5, NextTurns
    <3>19. AllTurns(y)
      BY <3>17, <3>18 DEF AllTurns
    <3> QED BY <3>4, <3>19 DEF y, z
  <2> QED BY <2>1, <2>5, <2>6
<1> QED BY <1>1, <1>2, <1>3 DEF PresentMade

\* The swapchains of the presents of a queue.
LEMMA ShownSwaps ==
    ASSUME NEW x \in State, NEW q \in Queues, NEW i \in DOMAIN x.shown[q]
    PROVE  x.shown[q][i].swap \in Swaps
<1>1. x.shown[q] \in Seq(Present)
  BY DEF State
<1>2. x.shown[q][i] \in Present
  BY <1>1
<1> QED BY <1>2 DEF Present

\* A device whose swapchains are gone has no presents under way.
LEMMA NoPresents ==
    ASSUME NEW x, NEW q \in Queues, x \in State, AllTurns(x),
           \A s \in Swaps : DeviceOf[s] = DeviceOf[q] => x.swap[s].live = FALSE
    PROVE  \A i : i \notin DOMAIN x.shown[q]
<1> SUFFICES ASSUME NEW i \in DOMAIN x.shown[q] PROVE FALSE
  OBVIOUS
<1>1. x.shown[q][i].swap \in Swaps
  BY ShownSwaps
<1> QED BY <1>1 DEF AllTurns, Turns

\* Nothing is presented yet.
LEMMA InitTurns == VkInit => AllTurns(Now)
BY NowIs DEF VkInit, AllTurns, Turns

\* OBS_CreateDevice: the rings it resets are of queues without presents.
LEMMA CreateDeviceTurns ==
    ASSUME NEW d \in Devices, Sound(Now), AllTurns(Now), CreateDevice(d)
    PROVE  AllTurns(Now')
<1> DEFINE z == Now'
<1>1. /\ z.shown = shown /\ z.swap = swap
      /\ \A q \in Queues : z.ring[q] = IF q \in QueuesOf(d) THEN NoFrames ELSE ring[q]
  BY CreateDeviceIs, NextNowIs DEF DeviceChanged
<1>2. dev[d].live = FALSE
  BY CreateDeviceIs
<1>3. \A s \in Swaps : DeviceOf[s] = d => swap[s].live = FALSE
  <2>1. swap \in [Swaps -> SwapData] /\ \A s \in Swaps : SwapSound(Now, s)
    BY NowIs DEF Sound, State
  <2> QED BY <1>2, <2>1, NowIs DEF SwapSound, SwapData
<1> HIDE DEF z
<1>4. ASSUME NEW q \in Queues PROVE Turns(z, q)
  <2>1. CASE q \in QueuesOf(d)
    <3>1. \A i : i \notin DOMAIN shown[q]
      BY <1>3, <2>1, NoPresents, NowIs DEF QueuesOf, Sound
    <3> QED BY <1>1, <3>1 DEF Turns
  <2>2. CASE q \notin QueuesOf(d)
    <3>1. SameTurns(Now, z, q)
      BY <1>1, <2>2, NowIs DEF SameTurns
    <3> QED BY <3>1, TurnsKept DEF AllTurns
  <2> QED BY <2>1, <2>2
<1> QED BY <1>4 DEF AllTurns, z

\* OBS_DestroyDevice: so are those it destroys.
LEMMA DestroyDeviceTurns ==
    ASSUME NEW d \in Devices, Sound(Now), AllTurns(Now), DestroyDevice(d)
    PROVE  AllTurns(Now')
<1> DEFINE z == Now'
<1>1. z.swap = swap
  BY DestroyDeviceIs, NextNowIs DEF DeviceChanged
<1>2. \A s \in Swaps : DeviceOf[s] = d => swap[s].live = FALSE
  BY DestroyDeviceIs
<1>3. \A q \in Queues \ QueuesOf(d) :
         Len(z.ring[q].busy) = Len(ring[q].busy) /\ z.ring[q].next = ring[q].next
  BY DestroyDeviceIs, NextNowIs
<1>4. \A q \in Queues :
         /\ DOMAIN z.shown[q] = DOMAIN shown[q] /\ Len(z.shown[q]) = Len(shown[q])
         /\ \A i \in DOMAIN shown[q] :
               /\ z.shown[q][i].swap = shown[q][i].swap
               /\ \/ z.shown[q][i].wait = shown[q][i].wait
                  \/ shown[q][i].wait \in Semaphores /\ shown[q][i].wait[1] \in QueuesOf(d)
  BY DestroyDeviceIs, NextNowIs
<1> HIDE DEF z
<1>5. ASSUME NEW q \in Queues PROVE Turns(z, q)
  <2>1. CASE q \in QueuesOf(d)
    <3>1. \A i : i \notin DOMAIN shown[q]
      BY <1>2, <2>1, NoPresents, NowIs DEF QueuesOf, Sound
    <3> QED BY <1>4, <3>1 DEF Turns
  <2>2. CASE q \notin QueuesOf(d)
    <3>1. ASSUME NEW i \in DOMAIN shown[q]  PROVE z.shown[q][i].wait = shown[q][i].wait
      <4>1. shown[q][i].wait \in Semaphores => shown[q][i].wait[1] = q
        BY NowIs DEF AllTurns, Turns, WaitSound
      <4> QED BY <1>4, <2>2, <4>1
    <3>2. SameTurns(Now, z, q)
      BY <1>1, <1>3, <1>4, <2>2, <3>1, NowIs DEF SameTurns
    <3> QED BY <3>2, TurnsKept DEF AllTurns
  <2> QED BY <2>1, <2>2
<1> QED BY <1>5 DEF AllTurns, z

\* Only a swapchain without presents comes or goes.
LEMMA OtherSwapTurns ==
    ASSUME NEW z, NEW s \in Swaps, Sound(Now), AllTurns(Now), z.shown = shown,
           \A q \in Queues : \A i \in DOMAIN shown[q] : shown[q][i].swap # s,
           \A q \in Queues : Len(z.ring[q].busy) = Len(ring[q].busy) /\ z.ring[q].next = ring[q].next,
           \A t \in Swaps \ {s} : z.swap[t].live = swap[t].live /\ z.swap[t].images = swap[t].images
    PROVE  AllTurns(z)
<1> SUFFICES ASSUME NEW q \in Queues PROVE Turns(z, q)
  BY DEF AllTurns
<1>1. ASSUME NEW i \in DOMAIN shown[q]  PROVE shown[q][i].swap \in Swaps \ {s}
  BY ShownSwaps, NowIs DEF Sound
<1>2. SameTurns(Now, z, q)
  BY <1>1, NowIs DEF SameTurns
<1> QED BY <1>2, TurnsKept DEF AllTurns

\* OBS_CreateSwapchainKHR.
LEMMA CreateSwapchainTurns ==
    ASSUME NEW s \in Swaps, Sound(Now), AllTurns(Now), CreateSwapchain(s)
    PROVE  AllTurns(Now')
<1> DEFINE z == Now'
<1>1. /\ z.shown = shown /\ z.ring = ring /\ swap[s].live = FALSE
      /\ \A t \in Swaps \ {s} : z.swap[t] = swap[t]
  BY CreateSwapchainIs, NextNowIs
<1>2. \A q \in Queues : \A i \in DOMAIN shown[q] : shown[q][i].swap # s
  BY <1>1, NowIs DEF AllTurns, Turns
<1> HIDE DEF z
<1>3. AllTurns(z)
  BY <1>1, <1>2, OtherSwapTurns
<1> QED BY <1>3 DEF z

\* OBS_DestroySwapchainKHR.
LEMMA DestroySwapchainTurns ==
    ASSUME NEW s \in Swaps, Sound(Now), AllTurns(Now), DestroySwapchain(s)
    PROVE  AllTurns(Now')
<1> DEFINE z == Now'
<1>1. /\ shown' = shown
      /\ \A q \in Queues : Len(ring'[q].busy) = Len(ring[q].busy) /\ ring'[q].next = ring[q].next
      /\ \A t \in Swaps \ {s} : swap'[t].live = swap[t].live /\ swap'[t].images = swap[t].images
      /\ PendingOf(s) = {}
  BY DestroySwapchainIs
<1>2. ASSUME NEW q \in Queues, NEW i \in DOMAIN shown[q]  PROVE shown[q][i].swap # s
  <2> SUFFICES ASSUME shown[q][i].swap = s PROVE <<q, i>> \in PendingOf(s)
    BY <1>1
  <2>1. i \in {j \in DOMAIN shown[q] : shown[q][j].swap = s}
    OBVIOUS
  <2>2. <<q, i>> \in {<<q, k>> : k \in {j \in DOMAIN shown[q] : shown[q][j].swap = s}}
    BY <2>1
  <2> QED BY <2>2 DEF PendingOf
<1>3. z.shown = shown' /\ z.ring = ring' /\ z.swap = swap'
  BY NextNowIs
<1> HIDE DEF z
<1>4. AllTurns(z)
  BY <1>1, <1>2, <1>3, OtherSwapTurns
<1> QED BY <1>4 DEF z

\* The oldest present completes: every other one is one place nearer.
LEMMA DisplayTurns ==
    ASSUME NEW q \in Queues, Sound(Now), AllTurns(Now), DisplayStep(q)
    PROVE  AllTurns(Now')
<1>1. /\ shown \in [Queues -> Seq(Present)] /\ shown[q] \in Seq(Present) /\ shown[q] # <<>>
      /\ shown' = [shown EXCEPT ![q] = Tail(shown[q])]
      /\ UNCHANGED <<swap, ring>>
  BY NowIs DEF DisplayStep, Sound, State
<1> DEFINE z == Now'
           k == Len(shown[q])
<1>2. z.swap = swap /\ z.ring = ring /\ z.shown = shown'
  BY <1>1, NextNowIs
<1>3. \A p \in Queues \ {q} : z.shown[p] = shown[p]
  BY <1>1, <1>2
<1>4. /\ z.shown[q] = Tail(shown[q]) /\ k \in Nat /\ DOMAIN shown[q] = 1..k
      /\ Len(Tail(shown[q])) = k - 1 /\ DOMAIN Tail(shown[q]) = 1..(k - 1)
      /\ \A i \in 1..(k - 1) : Tail(shown[q])[i] = shown[q][i + 1] /\ i + 1 \in 1..k
  BY <1>1, <1>2
<1>5. ring[q].next \in Nat /\ Len(ring[q].busy) \in Nat
  <2>1. ring[q] \in Ring
    BY NowIs DEF Sound, State
  <2> QED BY <2>1, MaxImagesAssumption DEF Ring
<1> HIDE DEF z, k
<1>6. ASSUME NEW p \in Queues \ {q}  PROVE Turns(z, p)
  <2>1. SameTurns(Now, z, p)
    BY <1>2, <1>3, NowIs DEF SameTurns
  <2> QED BY <2>1, TurnsKept DEF AllTurns
<1>7. Turns(z, q)
  <2> SUFFICES ASSUME NEW i \in 1..(k - 1)
               PROVE  /\ z.shown[q][i].wait # Destroyed
                      /\ DeviceOf[z.shown[q][i].swap] = DeviceOf[q]
                      /\ z.swap[z.shown[q][i].swap].live = TRUE
                      /\ z.shown[q][i].wait \in Semaphores => WaitSound(z, q, i)
    BY <1>4 DEF Turns
  <2>1. z.shown[q][i] = shown[q][i + 1] /\ i + 1 \in DOMAIN shown[q]
    BY <1>4
  <2>2. Turns(Now, q)
    BY DEF AllTurns
  <2>3. ASSUME shown[q][i + 1].wait \in Semaphores  PROVE WaitSound(z, q, i)
    <3>1. WaitSound(Now, q, i + 1)
      BY <2>1, <2>2, <2>3, NowIs DEF Turns
    <3> DEFINE w == shown[q][i + 1].wait
               n == Len(ring[q].busy)
               a == Age(w[2], ring[q].next, n)
    <3>2. w[1] = q /\ w[2] \in 1..n /\ a + (i + 1) <= k + 1
          /\ swap[shown[q][i + 1].swap].images <= n
          /\ \A j \in DOMAIN shown[q] : shown[q][j].wait = w => i + 1 = j
      BY <3>1, NowIs DEF WaitSound, k
    <3>3. a \in Int
      <4>1. w[2] \in Int
        BY <3>2
      <4> QED BY <1>5, <4>1 DEF Age
    <3> HIDE DEF a, n, w
    <3>4. a + i <= (k - 1) + 1
      BY <1>4, <3>2, <3>3
    <3>5. ASSUME NEW j \in 1..(k - 1), z.shown[q][j].wait = w  PROVE i = j
      <4>1. z.shown[q][j] = shown[q][j + 1] /\ j + 1 \in DOMAIN shown[q]
        BY <1>4
      <4>2. i + 1 = j + 1
        BY <3>2, <3>5, <4>1
      <4> QED BY <1>4, <4>2
    <3>6. z.shown[q][i].wait = w /\ z.ring = ring /\ z.swap = swap
          /\ Len(z.shown[q]) = k - 1 /\ DOMAIN z.shown[q] = 1..(k - 1)
      BY <1>2, <1>4, <2>1 DEF w
    <3>7. Age(z.shown[q][i].wait[2], z.ring[q].next, Len(z.ring[q].busy)) = a
          /\ Len(z.ring[q].busy) = n
      BY <3>6 DEF a, n
    <3>8. z.swap[z.shown[q][i].swap].images <= n
      BY <2>1, <3>2, <3>6
    <3> QED BY <3>2, <3>4, <3>5, <3>6, <3>7, <3>8 DEF WaitSound
  <2> QED BY <1>2, <2>1, <2>2, <2>3, NowIs DEF Turns
<1>8. AllTurns(z)
  BY <1>6, <1>7 DEF AllTurns
<1> QED BY <1>8 DEF z

\* What else the layer and the GPU do concerns no present.
LEMMA SameTurnsAll ==
    ASSUME AllTurns(Now), UNCHANGED <<swap, ring, shown>>
    PROVE  AllTurns(Now')
<1> DEFINE z == Now'
<1>1. z.swap = swap /\ z.ring = ring /\ z.shown = shown
  BY NextNowIs
<1> HIDE DEF z
<1>2. ASSUME NEW q \in Queues  PROVE Turns(z, q)
  <2>1. SameTurns(Now, z, q)
    BY <1>1, NowIs DEF SameTurns
  <2> QED BY <2>1, TurnsKept DEF AllTurns
<1> QED BY <1>2 DEF AllTurns, z

\* Every step keeps AllTurns, with VkInv.
LEMMA NextKeepsTurns ==
    ASSUME OneEach, VkInv, AllTurns(Now), [VkNext]_vkVars
    PROVE  AllTurns(Now')
<1>1. Sound(Now)
  BY DEF VkInv
<1>2. CASE UNCHANGED vkVars
  BY <1>2, SameTurnsAll DEF vkVars
<1>3. ASSUME NEW q \in Queues, GpuStep(q)  PROVE AllTurns(Now')
  BY <1>3, SameTurnsAll DEF GpuStep
<1> QED BY <1>1, <1>2, <1>3, PresentTurns, CreateDeviceTurns, DestroyDeviceTurns,
           CreateSwapchainTurns, DestroySwapchainTurns, DisplayTurns DEF VkNext

\* In a game that presents one swapchain on one queue of each device, no frame
\* of vk_shtex_capture signals its semaphore again, and
\* vk_shtex_destroy_frame_objects destroys none, while a present waits for it.
THEOREM SemaphoresCorrect ==
    ASSUME OneEach
    PROVE  VkSpec => []SemaphoresReady
<1>1. VkInit => AllTurns(Now)
  BY InitTurns
<1>2. VkInv /\ AllTurns(Now) /\ [VkNext]_vkVars => AllTurns(Now)'
  BY NextKeepsTurns
<1>3. AllTurns(Now) => SemaphoresReady
  BY NowIs DEF AllTurns, Turns, WaitSound, SemaphoresReady
<1> QED BY <1>1, <1>2, <1>3, AlwaysSound, PTL DEF VkSpec
=============================================================================
