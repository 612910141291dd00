------------------------- MODULE VkInstance_proofs -------------------------
(***************************************************************************)
(* Theorems about VkInstance: the lists of instances and surfaces stay     *)
(* right for any number of threads, handles and windows.                   *)
(***************************************************************************)
EXTENDS VkInstance, SequenceTheorems, TLAPS

-----------------------------------------------------------------------------
(***************************************************************************)
(* struct vk_obj_list: what its operations do to a list that has no object *)
(* twice. Everything below uses these lemmas and no position of a list.    *)
(***************************************************************************)

Unique(list) ==
    \A m, n \in DOMAIN list : list[m].obj = list[n].obj => m = n

\* A list of nodes in S.
ListOf(S, list) == list \in Seq(S) /\ Unique(list)

LEMMA IndexIsUnique ==
    ASSUME NEW S, NEW list, ListOf(S, list),
           NEW n \in DOMAIN list, NEW o, list[n].obj = o
    PROVE  IndexOf(list, o) = n
<1>1. {m \in 1..Len(list) : list[m].obj = o} = {n}
  BY DEF Unique, ListOf
<1>2. Min({n}) = n
  BY DEF Min
<1> QED
  BY <1>1, <1>2 DEF IndexOf, SelectInSeq

\* get_obj_data returns a node of the list, and that of the object.
LEMMA GetFinds ==
    ASSUME NEW S, NEW list, ListOf(S, list), NEW o, Has(list, o)
    PROVE  /\ IndexOf(list, o) \in DOMAIN list
           /\ GetObj(list, o) = list[IndexOf(list, o)]
           /\ GetObj(list, o) \in S
           /\ GetObj(list, o).obj = o
<1> PICK n \in DOMAIN list : list[n].obj = o
  BY DEF Has
<1>1. IndexOf(list, o) = n
  BY IndexIsUnique
<1> QED
  BY <1>1 DEF GetObj, ListOf

LEMMA EmptyList ==
    ASSUME NEW S
    PROVE  ListOf(S, <<>>) /\ \A o : ~Has(<<>>, o)
  BY DEF ListOf, Unique, Has

\* add_obj_data adds the node and nothing else.
LEMMA AddAdds ==
    ASSUME NEW S, NEW list, ListOf(S, list), NEW node \in S, ~Has(list, node.obj)
    PROVE  /\ ListOf(S, AddObj(list, node))
           /\ \A o : Has(AddObj(list, node), o) <=> o = node.obj \/ Has(list, o)
           /\ GetObj(AddObj(list, node), node.obj) = node
           /\ \A o : Has(list, o) => GetObj(AddObj(list, node), o) = GetObj(list, o)
<1> DEFINE new == AddObj(list, node)
<1>1. /\ new \in Seq(S)
      /\ Len(new) = Len(list) + 1
      /\ \A n \in 1..Len(new) : new[n] = IF n = 1 THEN node ELSE list[n - 1]
  BY DEF AddObj, ListOf
<1> HIDE DEF new
<1>2. \A n \in 1..Len(list) : new[n + 1] = list[n]
  BY <1>1 DEF ListOf
<1>3. Unique(new)
  <2> SUFFICES ASSUME NEW m \in 1..Len(new), NEW n \in 1..Len(new),
                      new[m].obj = new[n].obj
               PROVE  m = n
    BY <1>1 DEF Unique
  <2>0. ASSUME NEW l \in 1..Len(new), l # 1  PROVE new[l].obj # node.obj
    <3>1. l - 1 \in DOMAIN list /\ new[l] = list[l - 1]
      BY <2>0, <1>1 DEF ListOf
    <3> QED
      BY <3>1 DEF Has
  <2>1. CASE m = 1 \/ n = 1
    <3>1. 1 \in 1..Len(new) /\ new[1] = node
      BY <1>1 DEF ListOf
    <3> QED
      BY <2>0, <2>1, <3>1
  <2>2. CASE m # 1 /\ n # 1
    <3>1. m - 1 \in 1..Len(list) /\ n - 1 \in 1..Len(list)
      BY <2>2, <1>1 DEF ListOf
    <3>2. list[m - 1].obj = list[n - 1].obj
      BY <2>2, <1>1
    <3> QED
      BY <3>1, <3>2 DEF ListOf, Unique
  <2> QED
    BY <2>1, <2>2
<1>4. ListOf(S, new)
  BY <1>1, <1>3 DEF ListOf
<1>5. \A o : Has(new, o) <=> o = node.obj \/ Has(list, o)
  <2> SUFFICES ASSUME NEW o
               PROVE  Has(new, o) <=> o = node.obj \/ Has(list, o)
    OBVIOUS
  <2>1. ASSUME Has(new, o), o # node.obj  PROVE Has(list, o)
    <3> PICK n \in 1..Len(new) : new[n].obj = o
      BY <2>1, <1>1 DEF Has
    <3>1. n # 1 /\ n - 1 \in 1..Len(list) /\ list[n - 1].obj = o
      BY <2>1, <1>1 DEF ListOf
    <3> QED
      BY <3>1 DEF Has, ListOf
  <2>2. ASSUME Has(list, o)  PROVE Has(new, o)
    <3> PICK n \in 1..Len(list) : list[n].obj = o
      BY <2>2 DEF Has, ListOf
    <3>1. n + 1 \in 1..Len(new) /\ new[n + 1].obj = o
      BY <1>1, <1>2 DEF ListOf
    <3> QED
      BY <3>1, <1>1 DEF Has
  <2>3. Has(new, node.obj)
    <3>1. 1 \in 1..Len(new) /\ new[1] = node
      BY <1>1 DEF ListOf
    <3> QED
      BY <3>1, <1>1 DEF Has
  <2> QED
    BY <2>1, <2>2, <2>3
<1>6. GetObj(new, node.obj) = node
  <2>1. 1 \in DOMAIN new /\ new[1] = node
    BY <1>1 DEF ListOf
  <2>2. IndexOf(new, node.obj) = 1
    BY <2>1, <1>4, IndexIsUnique
  <2> QED
    BY <2>1, <2>2 DEF GetObj
<1>7. ASSUME NEW o, Has(list, o)  PROVE GetObj(new, o) = GetObj(list, o)
  <2> DEFINE n == IndexOf(list, o)
  <2>1. n \in 1..Len(list) /\ list[n].obj = o /\ GetObj(list, o) = list[n]
    BY <1>7, GetFinds DEF ListOf
  <2> HIDE DEF n
  <2>2. n + 1 \in DOMAIN new /\ new[n + 1] = list[n]
    BY <2>1, <1>1, <1>2 DEF ListOf
  <2>3. IndexOf(new, o) = n + 1
    BY <2>1, <2>2, <1>4, IndexIsUnique
  <2> QED
    BY <2>1, <2>2, <2>3 DEF GetObj
<1> QED
  BY <1>4, <1>5, <1>6, <1>7 DEF new

\* remove_obj_data takes out the node of the object, and nothing else.
LEMMA RemoveRemoves ==
    ASSUME NEW S, NEW list, ListOf(S, list), NEW o
    PROVE  /\ ListOf(S, RemoveObj(list, o))
           /\ \A p : Has(RemoveObj(list, o), p) <=> Has(list, p) /\ p # o
           /\ \A p : Has(list, p) /\ p # o => GetObj(RemoveObj(list, o), p) = GetObj(list, p)
<1> DEFINE new == RemoveObj(list, o)
<1>1. CASE ~Has(list, o)
  <2>1. new = list
    BY <1>1 DEF RemoveObj, RemoveFirstMatch, Has, ListOf
  <2> QED
    BY <2>1, <1>1
<1>2. CASE Has(list, o)
  <2> DEFINE k == IndexOf(list, o)
  <2>1. k \in 1..Len(list) /\ list[k].obj = o
    BY <1>2, GetFinds DEF ListOf
  <2>2. new = SubSeq(list, 1, k - 1) \o SubSeq(list, k + 1, Len(list))
    BY <2>1 DEF RemoveObj, RemoveFirstMatch, RemoveAt, IndexOf
  <2> HIDE DEF k
  <2>3. /\ SubSeq(list, 1, k - 1) \in Seq(S)
        /\ Len(SubSeq(list, 1, k - 1)) = k - 1
        /\ \A n \in 1..(k - 1) : SubSeq(list, 1, k - 1)[n] = list[n]
    BY <2>1 DEF ListOf
  <2>4. /\ SubSeq(list, k + 1, Len(list)) \in Seq(S)
        /\ Len(SubSeq(list, k + 1, Len(list))) = Len(list) - k
        /\ \A n \in 1..(Len(list) - k) : SubSeq(list, k + 1, Len(list))[n] = list[k + n]
    BY <2>1 DEF ListOf
  <2>5. /\ new \in Seq(S)
        /\ Len(new) = Len(list) - 1
        /\ \A n \in 1..Len(new) : new[n] = IF n < k THEN list[n] ELSE list[n + 1]
    <3> DEFINE front == SubSeq(list, 1, k - 1)
               back == SubSeq(list, k + 1, Len(list))
    <3> HIDE DEF front, back
    <3>1. /\ front \in Seq(S) /\ back \in Seq(S)
          /\ Len(front) = k - 1 /\ Len(back) = Len(list) - k
      BY <2>3, <2>4 DEF front, back
    <3>2. /\ front \o back \in Seq(S)
          /\ Len(front \o back) = Len(list) - 1
          /\ \A n \in 1..(Len(list) - 1) :
                (front \o back)[n] = IF n < k THEN front[n] ELSE back[n - (k - 1)]
      BY <2>1, <3>1 DEF ListOf
    <3>3. \A n \in 1..(Len(list) - 1) : n < k => front[n] = list[n]
      BY <2>1, <2>3 DEF front, ListOf
    <3>4. ASSUME NEW n \in 1..(Len(list) - 1), ~(n < k)
          PROVE  back[n - (k - 1)] = list[n + 1]
      <4>1. n - (k - 1) \in 1..(Len(list) - k) /\ k + (n - (k - 1)) = n + 1
        BY <2>1, <3>4 DEF ListOf
      <4> QED
        BY <4>1, <2>4 DEF back
    <3>5. new = front \o back
      BY <2>2 DEF front, back
    <3> HIDE DEF new
    <3> QED
      BY <3>2, <3>3, <3>4, <3>5
  <2> HIDE DEF new
  <2> DEFINE at(n) == IF n < k THEN n ELSE n + 1
  <2>6. \A n \in 1..Len(new) : at(n) \in 1..Len(list) /\ at(n) # k /\ new[n] = list[at(n)]
    BY <2>1, <2>5 DEF ListOf
  <2>7. Unique(new)
    <3> SUFFICES ASSUME NEW m \in 1..Len(new), NEW n \in 1..Len(new),
                        new[m].obj = new[n].obj
                 PROVE  m = n
      BY <2>5 DEF Unique
    <3>1. at(m) \in DOMAIN list /\ at(n) \in DOMAIN list
      BY <2>6 DEF ListOf
    <3>2. at(m) = at(n)
      BY <3>1, <2>6 DEF ListOf, Unique
    <3> QED
      BY <3>2, <2>5, <2>1
  <2>8. ListOf(S, new)
    BY <2>5, <2>7 DEF ListOf
  <2>9. ASSUME NEW p, Has(new, p)  PROVE Has(list, p) /\ p # o
    <3> PICK n \in 1..Len(new) : new[n].obj = p
      BY <2>9, <2>5 DEF Has
    <3>1. at(n) \in DOMAIN list /\ list[at(n)].obj = p /\ at(n) # k
      BY <2>6 DEF ListOf
    <3>2. p # o
      BY <3>1, <2>1 DEF ListOf, Unique
    <3> QED
      BY <3>1, <3>2 DEF Has
  <2>10. ASSUME NEW p, Has(list, p), p # o
         PROVE  Has(new, p) /\ GetObj(new, p) = GetObj(list, p)
    <3> DEFINE n == IndexOf(list, p)
    <3>1. n \in 1..Len(list) /\ list[n].obj = p /\ GetObj(list, p) = list[n]
      BY <2>10, GetFinds DEF ListOf
    <3>2. n # k
      BY <2>10, <2>1, <3>1
    <3> DEFINE m == IF n < k THEN n ELSE n - 1
    <3> HIDE DEF n
    <3>3. m \in 1..Len(new) /\ at(m) = n
      BY <2>1, <2>5, <3>1, <3>2 DEF ListOf
    <3> HIDE DEF m
    <3>4. m \in DOMAIN new /\ new[m] = list[n]
      BY <2>5, <2>6, <3>3
    <3>5. IndexOf(new, p) = m
      BY <2>8, <3>1, <3>4, IndexIsUnique
    <3> QED
      BY <3>1, <3>4, <3>5 DEF Has, GetObj
  <2> QED
    BY <2>8, <2>9, <2>10 DEF new
<1> QED
  BY <1>1, <1>2

\* A node that changes in place stays the node of its object.
LEMMA ReplaceReplaces ==
    ASSUME NEW S, NEW list, ListOf(S, list), NEW o, Has(list, o),
           NEW node \in S, node.obj = o
    PROVE  /\ ListOf(S, ReplaceObj(list, o, node))
           /\ \A p : Has(ReplaceObj(list, o, node), p) <=> Has(list, p)
           /\ \A p : Has(list, p) =>
                  GetObj(ReplaceObj(list, o, node), p) = IF p = o THEN node ELSE GetObj(list, p)
<1> DEFINE k == IndexOf(list, o)
           new == ReplaceAt(list, k, node)
<1>1. k \in 1..Len(list) /\ list[k].obj = o
  BY GetFinds DEF ListOf
<1> HIDE DEF k
<1>2. /\ new \in Seq(S)
      /\ DOMAIN new = DOMAIN list
      /\ \A n \in DOMAIN list : new[n] = IF n = k THEN node ELSE list[n]
  BY <1>1 DEF ReplaceAt, ListOf
<1> HIDE DEF new
<1>3. \A n \in DOMAIN list : new[n].obj = list[n].obj
  BY <1>1, <1>2
<1>4. ListOf(S, new)
  BY <1>2, <1>3 DEF ListOf, Unique
<1>5. \A p : Has(new, p) <=> Has(list, p)
  BY <1>2, <1>3 DEF Has
<1>6. ASSUME NEW p, Has(list, p)
      PROVE  GetObj(new, p) = IF p = o THEN node ELSE GetObj(list, p)
  <2> DEFINE n == IndexOf(list, p)
  <2>1. n \in DOMAIN list /\ list[n].obj = p /\ GetObj(list, p) = list[n]
    BY <1>6, GetFinds
  <2> HIDE DEF n
  <2>2. IndexOf(new, p) = n
    BY <2>1, <1>2, <1>3, <1>4, IndexIsUnique
  <2>3. GetObj(new, p) = new[n]
    BY <2>2 DEF GetObj
  <2>4. p = o <=> n = k
    BY <2>1, <1>1, IndexIsUnique DEF ListOf
  <2> QED
    BY <2>1, <2>3, <2>4, <1>2
<1> QED
  BY <1>4, <1>5, <1>6 DEF new, k, ReplaceObj

-----------------------------------------------------------------------------
(***************************************************************************)
(* The inductive invariant. The lists alone do not explain themselves: that*)
(* a handle is listed depends on which calls are between two of their      *)
(* steps, so the invariant says where each call is and what it excludes.   *)
(***************************************************************************)

\* The step that a call is at.
StepOf(c) == IF c.todo = <<>> THEN "none" ELSE Head(c.todo)

TodoOf(step) ==
    CASE step = "create_instance" -> CreateInstanceSteps
      [] step = "unlist_instance" -> DestroyInstanceSteps
      [] step = "create_surface" -> CreateSurfaceSteps
      [] step = "unlist_surface" -> DestroySurfaceSteps
      [] OTHER -> <<step>>

\* What is true of the handles of a call at each of its steps.
CallOK(c) ==
    \/ c = NoCall
    \/ /\ StepOf(c) = "create_instance"
       /\ c.inst = NoInstance /\ c.surf = NoSurface
    \/ /\ StepOf(c) \in {"list_instance", "unlist_instance", "destroy_instance"}
       /\ c.inst \in live /\ c.surf = NoSurface
       /\ Has(instances, c.inst) <=> StepOf(c) = "unlist_instance"
       /\ device[c.inst] = "none"
       /\ \A s \in Surfaces : surface[s].inst # c.inst
    \/ /\ StepOf(c) = "create_surface"
       /\ c.inst \in live /\ c.surf = NoSurface
       /\ Has(instances, c.inst)
    \/ /\ StepOf(c) = "list_surface"
       /\ c.inst \in live /\ c.surf \in Surfaces
       /\ surface[c.surf] = [inst |-> c.inst, window |-> c.window, listed |-> FALSE]
       /\ swapchain[c.surf] = NoSwapchain
    \/ /\ StepOf(c) \in {"unlist_surface", "destroy_surface"}
       /\ c.inst \in live /\ c.surf \in Surfaces
       /\ surface[c.surf].inst = c.inst
       /\ swapchain[c.surf] = NoSwapchain
       /\ StepOf(c) = "destroy_surface" => ~Has(IData(c.inst).surfaces, c.surf)

CallsOK ==
    \A t \in Threads :
        /\ CallOK(call[t])
        /\ StepOf(call[t]) # "none" => call[t].todo = TodoOf(StepOf(call[t]))

\* No other call has the instance or the surface that a call works on.
CallsApart ==
    \A t, u \in Threads : t # u =>
        /\ InstanceCall(call[t]) => call[u].inst # call[t].inst
        /\ call[t].surf # NoSurface => call[u].surf # call[t].surf

ListsOK ==
    /\ ListOf(InstanceNode, instances)
    /\ \A i : Has(instances, i) =>
        /\ i \in live
        /\ ListOf(SurfaceNode, IData(i).surfaces)
        /\ IData(i).ready = IData(i).valid
        /\ IData(i).valid \/ IData(i).surfaces = <<>>

\* What the lists say of a surface is so.
NotesOK ==
    \A i : Has(instances, i) => \A s : Has(IData(i).surfaces, s) =>
        /\ s \in Surfaces
        /\ surface[s].inst = i /\ surface[s].listed
        /\ GetObj(IData(i).surfaces, s).winid = surface[s].window

\* What the layer has noted can be found.
NotedIsFound ==
    /\ \A i \in Instances : OwnsInstance(i) => Has(instances, i)
    /\ \A s \in Surfaces : surface[s].listed /\ OwnsSurface(s) =>
           Has(IData(surface[s].inst).surfaces, s)

\* What belongs to an instance is there only while it is listed.
SurfacesOK ==
    \A s \in Surfaces :
        \/ surface[s] = NoSurfaceState /\ swapchain[s] = NoSwapchain
        \/ /\ surface[s].inst \in live
           /\ Has(instances, surface[s].inst)
           /\ swapchain[s] \in {surface[s].window, NoWindow, NoSwapchain}

DevicesOK ==
    \A i \in Instances : device[i] # "none" =>
        /\ i \in live
        /\ Has(instances, i)
        /\ device[i] = "valid" => IData(i).valid

\* Until the loader has called, there is nothing.
SeenOK == vulkan_seen \/ (instances = <<>> /\ \A t \in Threads : call[t].todo = <<>>)

InstInv ==
    /\ InstTypeOK
    /\ SeenOK
    /\ CallsOK
    /\ CallsApart
    /\ ListsOK
    /\ NotesOK
    /\ NotedIsFound
    /\ SurfacesOK
    /\ DevicesOK

-----------------------------------------------------------------------------
(***************************************************************************)
(* The steps of a call                                                     *)
(***************************************************************************)

StepNames ==
    {"create_instance", "list_instance", "unlist_instance", "destroy_instance",
     "create_surface", "list_surface", "unlist_surface", "destroy_surface"}

\* The step after one that is not the last of its call.
NextStep(step) ==
    CASE step = "create_instance" -> "list_instance"
      [] step = "unlist_instance" -> "destroy_instance"
      [] step = "create_surface" -> "list_surface"
      [] step = "unlist_surface" -> "destroy_surface"

First == {"create_instance", "unlist_instance", "create_surface", "unlist_surface"}

LEMMA Steps ==
    /\ \A step \in First : /\ TodoOf(step) = <<step, NextStep(step)>>
                           /\ TodoOf(step) \in Seq(StepNames)
                           /\ TodoOf(step) # <<>>
                           /\ Head(TodoOf(step)) = step
                           /\ Len(TodoOf(step)) = 2
                           /\ Tail(TodoOf(step)) = <<NextStep(step)>>
                           /\ NextStep(step) \in StepNames \ First
    /\ \A step \in StepNames \ First : /\ TodoOf(step) = <<step>>
                                       /\ <<step>> \in Seq(StepNames)
                                       /\ <<step>> # <<>>
                                       /\ Head(<<step>>) = step
                                       /\ Len(<<step>>) = 1
<1>1. ASSUME NEW step \in First
      PROVE  /\ TodoOf(step) = <<step, NextStep(step)>>
             /\ NextStep(step) \in StepNames \ First
  BY DEF First, TodoOf, NextStep, StepNames, CreateInstanceSteps, DestroyInstanceSteps,
         CreateSurfaceSteps, DestroySurfaceSteps
<1>2. First \subseteq StepNames
  BY DEF First, StepNames
<1>3. ASSUME NEW step \in StepNames \ First
      PROVE  TodoOf(step) = <<step>>
  BY DEF First, TodoOf, StepNames
<1>4. ASSUME NEW a \in StepNames, NEW b \in StepNames
      PROVE  /\ <<a, b>> \in Seq(StepNames) /\ Len(<<a, b>>) = 2
             /\ Head(<<a, b>>) = a /\ Tail(<<a, b>>) = <<b>> /\ <<a, b>> # <<>>
  OBVIOUS
<1>5. ASSUME NEW a \in StepNames
      PROVE  <<a>> \in Seq(StepNames) /\ Len(<<a>>) = 1 /\ Head(<<a>>) = a /\ <<a>> # <<>>
  OBVIOUS
<1>6. ASSUME NEW step \in First
      PROVE  /\ TodoOf(step) \in Seq(StepNames)
             /\ TodoOf(step) # <<>>
             /\ Head(TodoOf(step)) = step
             /\ Len(TodoOf(step)) = 2
             /\ Tail(TodoOf(step)) = <<NextStep(step)>>
  BY <1>1, <1>2, <1>4
<1> QED
  BY <1>1, <1>3, <1>5, <1>6

LEMMA StepNotNone == \A step \in StepNames : step # "none"
  BY DEF StepNames

LEMMA AtStep ==
    ASSUME NEW t \in Threads, NEW step \in StepNames
    PROVE  /\ At(t, step) <=> StepOf(call[t]) = step
           /\ Idle(t) <=> StepOf(call[t]) = "none" /\ call[t].todo = <<>>
  BY StepNotNone, Zenon DEF At, Idle, StepOf

LEMMA InstanceCallStep ==
    ASSUME NEW c
    PROVE  InstanceCall(c) <=>
               StepOf(c) \in {"list_instance", "unlist_instance", "destroy_instance"}
  BY DEF InstanceCall, StepOf

\* A call at its first step, and one that goes on.
LEMMA CallAtFirst ==
    ASSUME NEW step \in First, NEW c, c.todo = TodoOf(step)
    PROVE  StepOf(c) = step /\ c.todo \in Seq(StepNames) /\ StepOf(c) # "none"
<1>1. c.todo # <<>> /\ Head(c.todo) = step /\ c.todo \in Seq(StepNames)
  BY Steps
<1>2. step # "none"
  BY DEF First
<1> QED
  BY <1>1, <1>2, Zenon DEF StepOf

LEMMA CallType ==
    /\ NoCall \in Call /\ StepOf(NoCall) = "none"
    /\ \A c \in Call : c.todo \in Seq(StepNames)
    /\ \A c \in Call, todo \in Seq(StepNames) : [c EXCEPT !.todo = todo] \in Call
<1>1. NoCall.todo = <<>> /\ <<>> \in Seq(StepNames)
  BY DEF NoCall
<1>2. StepOf(NoCall) = "none"
  BY <1>1 DEF StepOf
<1>3. NoCall \in Call
  BY <1>1 DEF NoCall, Call, StepNames, Winids
<1> QED
  BY <1>2, <1>3 DEF Call, StepNames

LEMMA ProceedGoesOn ==
    ASSUME NEW t \in Threads, NEW step \in First, NEW c \in Call, c.todo = TodoOf(step),
           Proceed(t, c)
    PROVE  LET d == [c EXCEPT !.todo = <<NextStep(step)>>]
           IN  /\ call' = [call EXCEPT ![t] = d]
               /\ d \in Call
               /\ StepOf(d) = NextStep(step)
               /\ d.todo = TodoOf(NextStep(step))
<1> DEFINE d == [c EXCEPT !.todo = <<NextStep(step)>>]
<1>1. /\ Len(c.todo) = 2 /\ Tail(c.todo) = <<NextStep(step)>>
      /\ NextStep(step) \in StepNames \ First
  BY Steps
<1>2. /\ <<NextStep(step)>> \in Seq(StepNames)
      /\ <<NextStep(step)>> # <<>>
      /\ Head(<<NextStep(step)>>) = NextStep(step)
      /\ TodoOf(NextStep(step)) = <<NextStep(step)>>
  BY <1>1, Steps
<1>3. d \in Call /\ d.todo = <<NextStep(step)>>
  BY <1>2, CallType DEF Call
<1>4. call' = [call EXCEPT ![t] = d]
  <2>1. [c EXCEPT !.todo = Tail(@)] = d
    BY <1>1
  <2>2. Len(c.todo) > 1
    BY <1>1
  <2> QED
    BY <2>1, <2>2, Zenon DEF Proceed
<1> HIDE DEF d
<1>5. StepOf(d) = NextStep(step)
  BY <1>2, <1>3 DEF StepOf
<1> QED
  BY <1>2, <1>3, <1>4, <1>5 DEF d

LEMMA ProceedReturns ==
    ASSUME NEW t \in Threads, NEW step \in StepNames \ First, NEW c, c.todo = TodoOf(step),
           Proceed(t, c)
    PROVE  call' = [call EXCEPT ![t] = NoCall]
<1>1. Len(c.todo) = 1
  BY Steps
<1> QED
  BY <1>1 DEF Proceed

-----------------------------------------------------------------------------
(***************************************************************************)
(* Every step keeps the invariant                                          *)
(***************************************************************************)

\* Only the call of one thread changes: what has to be shown of it.
LEMMA OnlyTheCall ==
    ASSUME InstInv, NEW t \in Threads, NEW d \in Call, vulkan_seen,
           UNCHANGED <<vulkan_seen, instances, live, surface, device, swapchain>>,
           call' = [call EXCEPT ![t] = d],
           StepOf(d) # "none" => d.todo = TodoOf(StepOf(d)),
           CallOK(d),
           \A u \in Threads \ {t} :
               /\ InstanceCall(d) => call[u].inst # d.inst
               /\ InstanceCall(call[u]) => call[u].inst # d.inst
               /\ d.surf # NoSurface => call[u].surf # d.surf,
           \A i \in Instances : OwnsInstance(i)' => OwnsInstance(i),
           \A s \in Surfaces : surface[s].listed /\ OwnsSurface(s)' => OwnsSurface(s)
    PROVE  InstInv'
<1> USE DEF InstInv
<1>1. InstTypeOK'
  BY DEF InstTypeOK
<1>2. /\ call'[t] = d
      /\ \A u \in Threads \ {t} : call'[u] = call[u]
  BY DEF InstTypeOK
<1>3. CallsOK'
  <2> SUFFICES ASSUME NEW u \in Threads
               PROVE  /\ CallOK(call[u])'
                      /\ StepOf(call'[u]) # "none" => call'[u].todo = TodoOf(StepOf(call'[u]))
    BY DEF CallsOK
  <2>1. CASE u = t
    <3>1. CallOK(d)'
      BY DEF CallOK, IData
    <3>2. CallOK(call[u])'
      BY <3>1, <2>1, <1>2 DEF CallOK
    <3> QED
      BY <3>2, <2>1, <1>2
  <2>2. CASE u # t
    BY <2>2, <1>2 DEF CallsOK, CallOK, IData
  <2> QED
    BY <2>1, <2>2
<1>4. CallsApart'
  BY <1>2 DEF CallsApart, InstanceCall
<1>5. ListsOK' /\ NotesOK' /\ SurfacesOK' /\ DevicesOK'
  BY DEF ListsOK, NotesOK, SurfacesOK, DevicesOK, IData
<1>6. NotedIsFound'
  BY DEF NotedIsFound, IData
<1> QED
  BY <1>1, <1>3, <1>4, <1>5, <1>6 DEF SeenOK

LEMMA NegotiateKeeps ==
    ASSUME InstInv, NEW t \in Threads, Negotiate(t)
    PROVE  InstInv'
<1>1. UNCHANGED <<instances, call, live, surface, device, swapchain>> /\ vulkan_seen'
  BY DEF Negotiate, InstInv, SeenOK
<1>2. InstTypeOK' /\ SeenOK' /\ CallsApart' /\ ListsOK' /\ NotesOK' /\ SurfacesOK' /\ DevicesOK'
  BY <1>1 DEF InstInv, InstTypeOK, SeenOK, CallsApart, ListsOK, NotesOK, SurfacesOK,
              DevicesOK, IData
<1>3. CallsOK'
  BY <1>1 DEF InstInv, CallsOK, CallOK, IData
<1>4. NotedIsFound'
  BY <1>1 DEF InstInv, NotedIsFound, OwnsInstance, OwnsSurface, IData
<1> QED
  BY <1>2, <1>3, <1>4 DEF InstInv

\* A call that begins: the handles are not in use in a way it excludes.
LEMMA BeginKeeps ==
    ASSUME InstInv, NEW t \in Threads, Idle(t), vulkan_seen, NEW d \in Call, Begin(t, d),
           UNCHANGED <<vulkan_seen, instances, live, surface, device, swapchain>>,
           NEW step \in First, d.todo = TodoOf(step), CallOK(d),
           \A u \in Threads :
               /\ InstanceCall(d) => call[u].inst # d.inst
               /\ InstanceCall(call[u]) => call[u].inst # d.inst
               /\ d.surf # NoSurface => call[u].surf # d.surf
    PROVE  InstInv'
<1>1. call' = [call EXCEPT ![t] = d] /\ call[t] = NoCall
  <2>1. CallOK(call[t]) /\ StepOf(call[t]) = "none"
    BY DEF InstInv, CallsOK, Idle, StepOf
  <2> QED
    BY <2>1 DEF CallOK, Begin
<1>2. StepOf(d) = step
  BY CallAtFirst
<1>3. ASSUME NEW u \in Threads  PROVE call'[u] = IF u = t THEN d ELSE call[u]
  BY <1>1 DEF InstInv, InstTypeOK
<1>4. NoCall.inst = NoInstance /\ NoCall.surf = NoSurface
  BY DEF NoCall
<1>5. \A i \in Instances : OwnsInstance(i)' => OwnsInstance(i)
  BY <1>1, <1>3, <1>4, NoneAssumption DEF OwnsInstance
<1>6. \A s \in Surfaces : OwnsSurface(s)' => OwnsSurface(s)
  BY <1>1, <1>3, <1>4, NoneAssumption DEF OwnsSurface
<1> QED
  BY <1>1, <1>2, <1>5, <1>6, OnlyTheCall

LEMMA CreateInstanceKeeps ==
    ASSUME InstInv, NEW t \in Threads, CreateInstance(t)
    PROVE  InstInv'
<1> DEFINE d == [NoCall EXCEPT !.todo = CreateInstanceSteps]
<1>1. "create_instance" \in First /\ TodoOf("create_instance") = CreateInstanceSteps
  BY DEF First, TodoOf
<1>2. CreateInstanceSteps \in Seq(StepNames)
  BY <1>1, Steps
<1>3. d \in Call /\ d.todo = CreateInstanceSteps
  BY <1>2, CallType DEF Call
<1>4. d.inst = NoInstance /\ d.surf = NoSurface
  BY DEF NoCall
<1> HIDE DEF d
<1>5. StepOf(d) = "create_instance"
  BY <1>1, <1>3, CallAtFirst
<1>6. CallOK(d) /\ ~InstanceCall(d)
  BY <1>4, <1>5, InstanceCallStep DEF CallOK
<1>7. \A u \in Threads : InstanceCall(call[u]) => call[u].inst # d.inst
  <2> TAKE u \in Threads
  <2> SUFFICES ASSUME InstanceCall(call[u])  PROVE call[u].inst \in live
    BY <1>4, NoneAssumption DEF InstInv, InstTypeOK
  <2>1. CallOK(call[u])
    BY DEF InstInv, CallsOK
  <2>2. StepOf(call[u]) \in {"list_instance", "unlist_instance", "destroy_instance"}
    BY InstanceCallStep
  <2>3. call[u] # NoCall
    BY <2>2, CallType
  <2> QED
    BY <2>1, <2>2, <2>3 DEF CallOK
<1> QED
  BY <1>1, <1>3, <1>4, <1>6, <1>7, BeginKeeps DEF CreateInstance, d

\* What a call in progress says of the state.
LEMMA CallFacts ==
    ASSUME InstInv, NEW u \in Threads
    PROVE  /\ call[u].inst \in live \cup {NoInstance}
           /\ InstanceCall(call[u]) =>
                  /\ call[u].inst \in live
                  /\ call[u].surf = NoSurface
                  /\ device[call[u].inst] = "none"
                  /\ \A s \in Surfaces : surface[s].inst # call[u].inst
           /\ call[u].surf # NoSurface =>
                  /\ call[u].surf \in Surfaces
                  /\ surface[call[u].surf].inst = call[u].inst
                  /\ call[u].inst \in live
                  /\ swapchain[call[u].surf] = NoSwapchain
           /\ call[u].inst # NoInstance /\ ~InstanceCall(call[u]) =>
                  Has(instances, call[u].inst)
<1>1. CallOK(call[u])
  BY DEF InstInv, CallsOK
<1>2. InstanceCall(call[u]) <=>
          StepOf(call[u]) \in {"list_instance", "unlist_instance", "destroy_instance"}
  BY InstanceCallStep
<1>3. NoCall.inst = NoInstance /\ NoCall.surf = NoSurface /\ StepOf(NoCall) = "none"
  BY CallType DEF NoCall
<1>4. \A s \in Surfaces : surface[s].inst \in live => Has(instances, surface[s].inst)
  BY NoneAssumption DEF InstInv, InstTypeOK, SurfacesOK, NoSurfaceState
<1>5. live \subseteq Instances
  BY DEF InstInv, InstTypeOK
<1> QED
  BY <1>1, <1>2, <1>3, <1>4, <1>5, NoneAssumption DEF CallOK

LEMMA DestroyInstanceKeeps ==
    ASSUME InstInv, NEW t \in Threads, NEW i \in Instances, DestroyInstance(t, i)
    PROVE  InstInv'
<1> DEFINE d == [NoCall EXCEPT !.todo = DestroyInstanceSteps, !.inst = i]
<1>1. "unlist_instance" \in First /\ TodoOf("unlist_instance") = DestroyInstanceSteps
  BY DEF First, TodoOf
<1>2. DestroyInstanceSteps \in Seq(StepNames)
  BY <1>1, Steps
<1>3. d \in Call /\ d.todo = DestroyInstanceSteps /\ d.inst = i /\ d.surf = NoSurface
  BY <1>2, CallType DEF Call, NoCall
<1> HIDE DEF d
<1>4. StepOf(d) = "unlist_instance"
  BY <1>1, <1>3, CallAtFirst
<1>5. CallOK(d)
  BY <1>3, <1>4 DEF CallOK, DestroyInstance, Unused
<1>6. \A u \in Threads : call[u].inst # d.inst
  BY <1>3 DEF DestroyInstance, Unused
<1>7. vulkan_seen
  BY EmptyList DEF DestroyInstance, InstInv, SeenOK
<1> QED
  BY <1>1, <1>3, <1>5, <1>6, <1>7, BeginKeeps DEF DestroyInstance, d

LEMMA CreateSurfaceKeeps ==
    ASSUME InstInv, NEW t \in Threads, NEW i \in Instances, NEW w \in Windows,
           CreateSurface(t, i, w)
    PROVE  InstInv'
<1> DEFINE d == [NoCall EXCEPT !.todo = CreateSurfaceSteps, !.inst = i, !.window = w]
<1>1. "create_surface" \in First /\ TodoOf("create_surface") = CreateSurfaceSteps
  BY DEF First, TodoOf
<1>2. CreateSurfaceSteps \in Seq(StepNames)
  BY <1>1, Steps
<1>3. d \in Call /\ d.todo = CreateSurfaceSteps /\ d.inst = i /\ d.surf = NoSurface
  BY <1>2, CallType DEF Call, NoCall, Winids
<1> HIDE DEF d
<1>4. StepOf(d) = "create_surface"
  BY <1>1, <1>3, CallAtFirst
<1>5. CallOK(d) /\ ~InstanceCall(d)
  BY <1>3, <1>4, InstanceCallStep DEF CallOK, CreateSurface, OwnsInstance
<1>6. \A u \in Threads : InstanceCall(call[u]) => call[u].inst # d.inst
  BY <1>3 DEF CreateSurface, OwnsInstance
<1>7. vulkan_seen
  BY EmptyList DEF CreateSurface, InstInv, SeenOK
<1> QED
  BY <1>1, <1>3, <1>5, <1>6, <1>7, BeginKeeps DEF CreateSurface, d

LEMMA DestroySurfaceKeeps ==
    ASSUME InstInv, NEW t \in Threads, NEW s \in Surfaces, DestroySurface(t, s)
    PROVE  InstInv'
<1> DEFINE i == surface[s].inst
<1>0. i \in live /\ i \in Instances
  BY DEF DestroySurface, OwnsSurface, InstInv, SurfacesOK, NoSurfaceState, InstTypeOK
<1> PICK d : d = [NoCall EXCEPT !.todo = DestroySurfaceSteps, !.inst = i, !.surf = s]
  OBVIOUS
<1>1. "unlist_surface" \in First /\ TodoOf("unlist_surface") = DestroySurfaceSteps
  BY DEF First, TodoOf
<1>2. DestroySurfaceSteps \in Seq(StepNames)
  BY <1>1, Steps
<1>3. d \in Call /\ d.todo = DestroySurfaceSteps /\ d.inst = i /\ d.surf = s
  BY <1>0, <1>2, CallType DEF Call, NoCall
<1>4. StepOf(d) = "unlist_surface"
  BY <1>1, <1>3, CallAtFirst
<1>5. CallOK(d) /\ ~InstanceCall(d)
  BY <1>0, <1>3, <1>4, InstanceCallStep DEF CallOK, DestroySurface
<1>6. \A u \in Threads : InstanceCall(call[u]) => call[u].inst # d.inst
  BY <1>3, CallFacts
<1>7. vulkan_seen
  BY EmptyList DEF DestroySurface, InstInv, SeenOK
<1>8. \A u \in Threads : call[u].surf # d.surf
  BY <1>3 DEF DestroySurface, OwnsSurface
<1> QED
  BY <1>1, <1>3, <1>5, <1>6, <1>7, <1>8, BeginKeeps DEF DestroySurface

LEMMA AtFacts ==
    ASSUME InstInv, NEW t \in Threads, NEW step \in StepNames, At(t, step)
    PROVE  /\ StepOf(call[t]) = step
           /\ call[t].todo = TodoOf(step)
           /\ call[t] \in Call
           /\ CallOK(call[t])
           /\ call[t] # NoCall
           /\ vulkan_seen
<1>1. StepOf(call[t]) = step /\ step # "none"
  BY AtStep, StepNotNone
<1>2. vulkan_seen
  BY DEF InstInv, SeenOK, At, Idle
<1> QED
  BY <1>1, <1>2, CallType DEF InstInv, CallsOK, InstTypeOK

LEMMA CreatesInstanceKeeps ==
    ASSUME InstInv, NEW t \in Threads, CreatesInstance(t)
    PROVE  InstInv'
<1>1. /\ StepOf(call[t]) = "create_instance"
      /\ call[t].todo = TodoOf("create_instance")
      /\ call[t] \in Call /\ call[t] # NoCall /\ vulkan_seen
      /\ call[t].inst = NoInstance /\ call[t].surf = NoSurface
  BY AtFacts DEF CreatesInstance, StepNames, CallOK
<1>2. NextStep("create_instance") = "list_instance" /\ "create_instance" \in First
  BY DEF NextStep, First
<1>3. CASE Return(t) /\ UNCHANGED live
  <2>1. call' = [call EXCEPT ![t] = NoCall]
    BY <1>3 DEF Return
  <2>2. \A u \in Threads : call'[u] = IF u = t THEN NoCall ELSE call[u]
    BY <2>1 DEF InstInv, InstTypeOK
  <2>3. NoCall \in Call /\ StepOf(NoCall) = "none" /\ NoCall.surf = NoSurface
        /\ CallOK(NoCall) /\ ~InstanceCall(NoCall) /\ NoCall.inst = NoInstance
    BY CallType, InstanceCallStep DEF CallOK, NoCall
  <2>4. \A i \in Instances : OwnsInstance(i)' => OwnsInstance(i)
    BY <1>1, <1>3, <2>2, NoneAssumption DEF OwnsInstance
  <2>5. \A s \in Surfaces : OwnsSurface(s)' => OwnsSurface(s)
    BY <1>1, <2>2, NoneAssumption DEF OwnsSurface, CreatesInstance
  <2>6. \A u \in Threads : InstanceCall(call[u]) => call[u].inst # NoCall.inst
    BY <2>3, CallFacts, NoneAssumption DEF InstInv, InstTypeOK
  <2> QED
    BY <1>1, <1>3, <2>1, <2>3, <2>4, <2>5, <2>6, OnlyTheCall DEF CreatesInstance
<1>4. CASE \E i \in Instances \ live, first \in BOOLEAN :
               /\ live' = live \cup {i}
               /\ Proceed(t, [call[t] EXCEPT !.inst = i, !.valid = first])
  <2> PICK i \in Instances \ live, first \in BOOLEAN :
               /\ live' = live \cup {i}
               /\ Proceed(t, [call[t] EXCEPT !.inst = i, !.valid = first])
    BY <1>4
  <2> PICK c : c = [call[t] EXCEPT !.inst = i, !.valid = first]
    OBVIOUS
  <2>1. c \in Call /\ c.todo = TodoOf("create_instance") /\ c.inst = i /\ c.surf = NoSurface
    BY <1>1 DEF Call
  <2> PICK d : d = [c EXCEPT !.todo = <<"list_instance">>]
    OBVIOUS
  <2>2. /\ call' = [call EXCEPT ![t] = d]
        /\ d \in Call /\ StepOf(d) = "list_instance" /\ d.todo = TodoOf("list_instance")
    BY <1>2, <2>1, ProceedGoesOn
  <2>3. d.inst = i /\ d.surf = NoSurface
    BY <2>1 DEF Call
  <2>4. \A u \in Threads : call'[u] = IF u = t THEN d ELSE call[u]
    BY <2>2 DEF InstInv, InstTypeOK
  <2>5. UNCHANGED <<vulkan_seen, instances, surface, device, swapchain>>
    BY DEF CreatesInstance
  <2>6. InstTypeOK'
    BY <2>2, <2>5 DEF InstInv, InstTypeOK
  <2>7. ~Has(instances, i)
    BY DEF InstInv, ListsOK
  <2>8. device[i] = "none" /\ \A s \in Surfaces : surface[s].inst # i
    BY NoneAssumption DEF InstInv, InstTypeOK, DevicesOK, SurfacesOK, NoSurfaceState
  <2>9. \A u \in Threads : call[u].inst # i
    BY CallFacts, NoneAssumption
  <2>10. CallsOK'
    <3> SUFFICES ASSUME NEW u \in Threads
                 PROVE  /\ CallOK(call[u])'
                        /\ StepOf(call'[u]) # "none" => call'[u].todo = TodoOf(StepOf(call'[u]))
      BY DEF CallsOK
    <3>1. CASE u = t
      <4>1. CallOK(d)'
        BY <2>2, <2>3, <2>5, <2>7, <2>8 DEF CallOK
      <4>2. CallOK(call[u])'
        BY <4>1, <2>4, <3>1 DEF CallOK
      <4> QED
        BY <4>2, <2>2, <2>4, <3>1
    <3>2. CASE u # t
      BY <3>2, <2>4, <2>5 DEF InstInv, CallsOK, CallOK, IData
    <3> QED
      BY <3>1, <3>2
  <2>11. CallsApart'
    BY <2>3, <2>4, <2>9 DEF InstInv, CallsApart, InstanceCall
  <2>12. ListsOK' /\ NotesOK' /\ SurfacesOK' /\ DevicesOK'
    BY <2>5 DEF InstInv, ListsOK, NotesOK, SurfacesOK, DevicesOK, IData
  <2>13. InstanceCall(d)
    BY <2>2, InstanceCallStep
  <2>14. NotedIsFound'
    <3>1. ASSUME NEW j \in Instances, OwnsInstance(j)'  PROVE OwnsInstance(j)
      BY <3>1, <1>1, <2>3, <2>4, <2>13, NoneAssumption DEF OwnsInstance
    <3>2. ASSUME NEW s \in Surfaces, OwnsSurface(s)'  PROVE OwnsSurface(s)
      BY <3>2, <1>1, <2>4, <2>5, NoneAssumption DEF OwnsSurface
    <3> QED
      BY <3>1, <3>2, <2>5 DEF InstInv, NotedIsFound, IData
  <2> QED
    BY <1>1, <2>5, <2>6, <2>10, <2>11, <2>12, <2>14 DEF InstInv, SeenOK
<1> QED
  BY <1>3, <1>4 DEF CreatesInstance

\* Steps that leave instances as they are for every other call.
LEMMA OtherCalls ==
    ASSUME InstInv, NEW t \in Threads, NEW u \in Threads, u # t, call'[u] = call[u],
           UNCHANGED <<surface, device, swapchain>>,
           call[u].inst \in live => call[u].inst \in live',
           call[u].inst \in live => (Has(instances', call[u].inst) <=> Has(instances, call[u].inst)),
           ~InstanceCall(call[u]) /\ call[u].inst # NoInstance =>
               IData(call[u].inst)' = IData(call[u].inst)
    PROVE  /\ CallOK(call[u])'
           /\ StepOf(call'[u]) # "none" => call'[u].todo = TodoOf(StepOf(call'[u]))
<1>1. CallOK(call[u]) /\ (StepOf(call[u]) # "none" => call[u].todo = TodoOf(StepOf(call[u])))
  BY DEF InstInv, CallsOK
<1>2. InstanceCall(call[u]) <=>
          StepOf(call[u]) \in {"list_instance", "unlist_instance", "destroy_instance"}
  BY InstanceCallStep
<1>3. IData(call[u].inst)' = GetObj(instances', call'[u].inst)
  BY DEF IData
<1>4. live \subseteq Instances
  BY DEF InstInv, InstTypeOK
<1>5. StepOf(call[u]) = "destroy_surface" /\ call[u].inst \in live =>
          IData(call[u].inst)' = IData(call[u].inst)
  BY <1>2, <1>4, NoneAssumption
<1>6. CallOK(call[u])'
  BY <1>1, <1>5 DEF CallOK
<1> QED
  BY <1>1, <1>6

\* A call that returns leaves the others apart.
LEMMA ReturnApart ==
    ASSUME InstInv, NEW t \in Threads,
           \A u \in Threads : call'[u] = IF u = t THEN NoCall ELSE call[u]
    PROVE  CallsApart'
<1>1. ~InstanceCall(NoCall) /\ NoCall.inst = NoInstance /\ NoCall.surf = NoSurface
  BY CallType, InstanceCallStep DEF NoCall
<1>2. \A u \in Threads : InstanceCall(call[u]) => call[u].inst # NoInstance
  BY CallFacts, NoneAssumption DEF InstInv, InstTypeOK
<1> QED
  BY <1>1, <1>2 DEF InstInv, CallsApart, InstanceCall

LEMMA ListsInstanceKeeps ==
    ASSUME InstInv, NEW t \in Threads, ListsInstance(t)
    PROVE  InstInv'
<1> PICK i : i = call[t].inst
  OBVIOUS
<1>1. /\ StepOf(call[t]) = "list_instance"
      /\ call[t].todo = TodoOf("list_instance")
      /\ call[t] \in Call /\ vulkan_seen /\ InstanceCall(call[t])
      /\ i \in live /\ i \in Instances /\ call[t].surf = NoSurface
      /\ ~Has(instances, i) /\ device[i] = "none"
      /\ \A s \in Surfaces : surface[s].inst # i
  BY AtFacts, CallFacts, InstanceCallStep DEF ListsInstance, StepNames, CallOK, InstInv, InstTypeOK
<1>2. "list_instance" \in StepNames \ First
  BY DEF StepNames, First
<1>3. call' = [call EXCEPT ![t] = NoCall]
  BY <1>1, <1>2, ProceedReturns DEF ListsInstance
<1>4. \A u \in Threads : call'[u] = IF u = t THEN NoCall ELSE call[u]
  BY <1>3 DEF InstInv, InstTypeOK
<1>5. NoCall \in Call /\ StepOf(NoCall) = "none" /\ NoCall.surf = NoSurface
      /\ ~InstanceCall(NoCall) /\ NoCall.inst = NoInstance
  BY CallType, InstanceCallStep DEF NoCall
<1>6. UNCHANGED <<vulkan_seen, live, surface, device, swapchain>>
  BY DEF ListsInstance
<1> PICK node : /\ node \in InstanceNode /\ node.obj = i
                /\ node.ready = node.valid /\ node.surfaces = <<>>
                /\ instances' = AddObj(instances, node)
  <2> PICK funcs_found \in BOOLEAN :
          LET valid == call[t].valid /\ funcs_found
          IN  instances' = AddObj(instances,
                  [obj |-> call[t].inst, valid |-> valid, ready |-> valid,
                   surfaces |-> <<>>])
    BY DEF ListsInstance
  <2>1. (call[t].valid /\ funcs_found) \in BOOLEAN
    OBVIOUS
  <2>2. <<>> \in Seq(SurfaceNode)
    OBVIOUS
  <2> QED
    BY <1>1, <2>1, <2>2 DEF InstanceNode
<1>7. /\ ListOf(InstanceNode, instances')
      /\ \A o : Has(instances', o) <=> o = i \/ Has(instances, o)
      /\ GetObj(instances', i) = node
      /\ \A o : Has(instances, o) => GetObj(instances', o) = GetObj(instances, o)
  BY <1>1, AddAdds DEF InstInv, ListsOK
<1>8. IData(i)' = node /\ \A j : Has(instances, j) => IData(j)' = IData(j)
  BY <1>7 DEF IData
<1>9. InstTypeOK'
  BY <1>3, <1>5, <1>6, <1>7 DEF InstInv, InstTypeOK, ListOf
<1>10. CallsOK'
  <2> SUFFICES ASSUME NEW u \in Threads
               PROVE  /\ CallOK(call[u])'
                      /\ StepOf(call'[u]) # "none" => call'[u].todo = TodoOf(StepOf(call'[u]))
    BY DEF CallsOK
  <2>1. CASE u = t
    BY <2>1, <1>4, <1>5 DEF CallOK
  <2>2. CASE u # t
    <3>1. call[u].inst # i
      BY <1>1, <2>2 DEF InstInv, CallsApart
    <3>2. ASSUME ~InstanceCall(call[u]), call[u].inst # NoInstance
          PROVE  IData(call[u].inst)' = IData(call[u].inst)
      <4>1. Has(instances, call[u].inst)
        BY <3>2, CallFacts
      <4> QED
        BY <4>1, <2>2, <1>4, <1>7 DEF IData
    <3> QED
      BY <2>2, <3>1, <3>2, <1>4, <1>6, <1>7, OtherCalls
  <2> QED
    BY <2>1, <2>2
<1>11. CallsApart'
  BY <1>4, ReturnApart
<1>12. ListsOK'
  <2> SUFFICES ASSUME NEW j, Has(instances', j)
               PROVE  /\ j \in live'
                      /\ ListOf(SurfaceNode, IData(j)'.surfaces)
                      /\ IData(j)'.ready = IData(j)'.valid
                      /\ IData(j)'.valid \/ IData(j)'.surfaces = <<>>
    BY <1>7 DEF ListsOK
  <2>1. CASE j = i
    BY <2>1, <1>1, <1>6, <1>8, EmptyList
  <2>2. CASE j # i
    BY <2>2, <1>6, <1>7, <1>8 DEF InstInv, ListsOK
  <2> QED
    BY <2>1, <2>2
<1>13. NotesOK'
  <2> SUFFICES ASSUME NEW j, Has(instances', j), NEW s, Has(IData(j)'.surfaces, s)
               PROVE  /\ s \in Surfaces
                      /\ surface'[s].inst = j /\ surface'[s].listed
                      /\ GetObj(IData(j)'.surfaces, s).winid = surface'[s].window
    BY DEF NotesOK
  <2>1. j # i
    BY <1>8, EmptyList
  <2> QED
    BY <2>1, <1>6, <1>7, <1>8 DEF InstInv, NotesOK
<1>14. NotedIsFound'
  <2>1. ASSUME NEW j \in Instances, OwnsInstance(j)'  PROVE Has(instances', j)
    <3>1. j = i \/ OwnsInstance(j)
      BY <2>1, <1>1, <1>4, <1>6 DEF OwnsInstance
    <3> QED
      BY <3>1, <1>7 DEF InstInv, NotedIsFound
  <2>2. ASSUME NEW s \in Surfaces, surface'[s].listed, OwnsSurface(s)'
        PROVE  Has(IData(surface[s].inst)'.surfaces, s)
    <3>1. OwnsSurface(s) /\ surface[s].listed
      BY <2>2, <1>1, <1>4, <1>6, NoneAssumption DEF OwnsSurface
    <3>2. Has(instances, surface[s].inst)
      BY <3>1 DEF InstInv, SurfacesOK, NoSurfaceState
    <3> QED
      BY <3>1, <3>2, <1>6, <1>7 DEF InstInv, NotedIsFound, IData
  <2> QED
    BY <2>1, <2>2 DEF NotedIsFound
<1>15. SurfacesOK'
  BY <1>6, <1>7 DEF InstInv, SurfacesOK
<1>16. DevicesOK'
  BY <1>6, <1>7, <1>8 DEF InstInv, DevicesOK
<1> QED
  BY <1>1, <1>6, <1>9, <1>10, <1>11, <1>12, <1>13, <1>14, <1>15, <1>16 DEF InstInv, SeenOK

LEMMA UnlistsInstanceKeeps ==
    ASSUME InstInv, NEW t \in Threads, UnlistsInstance(t)
    PROVE  InstInv'
<1> PICK i : i = call[t].inst
  OBVIOUS
<1> PICK d : d = [call[t] EXCEPT !.todo = <<"destroy_instance">>]
  OBVIOUS
<1>1. /\ StepOf(call[t]) = "unlist_instance"
      /\ call[t].todo = TodoOf("unlist_instance")
      /\ call[t] \in Call /\ vulkan_seen /\ InstanceCall(call[t])
      /\ i \in live /\ i \in Instances /\ call[t].surf = NoSurface
      /\ device[i] = "none"
      /\ \A s \in Surfaces : surface[s].inst # i
  BY AtFacts, CallFacts, InstanceCallStep DEF UnlistsInstance, StepNames, InstInv, InstTypeOK
<1>2. NextStep("unlist_instance") = "destroy_instance" /\ "unlist_instance" \in First
  BY DEF NextStep, First
<1>3. /\ call' = [call EXCEPT ![t] = d]
      /\ d \in Call /\ StepOf(d) = "destroy_instance" /\ d.todo = TodoOf("destroy_instance")
  BY <1>1, <1>2, ProceedGoesOn DEF UnlistsInstance
<1>4. d.inst = i /\ d.surf = NoSurface
  BY <1>1 DEF Call
<1>5. \A u \in Threads : call'[u] = IF u = t THEN d ELSE call[u]
  BY <1>3 DEF InstInv, InstTypeOK
<1>6. UNCHANGED <<vulkan_seen, live, surface, device, swapchain>>
  BY DEF UnlistsInstance
<1>7. /\ ListOf(InstanceNode, instances')
      /\ \A o : Has(instances', o) <=> Has(instances, o) /\ o # i
      /\ \A o : Has(instances, o) /\ o # i => GetObj(instances', o) = GetObj(instances, o)
  BY RemoveRemoves DEF InstInv, ListsOK, UnlistsInstance
<1>8. \A j : Has(instances', j) => IData(j)' = IData(j)
  BY <1>7 DEF IData
<1>9. InstTypeOK'
  BY <1>3, <1>6, <1>7 DEF InstInv, InstTypeOK, ListOf
<1>10. \A u \in Threads : u # t => call[u].inst # i
  BY <1>1 DEF InstInv, CallsApart
<1>11. CallsOK'
  <2> SUFFICES ASSUME NEW u \in Threads
               PROVE  /\ CallOK(call[u])'
                      /\ StepOf(call'[u]) # "none" => call'[u].todo = TodoOf(StepOf(call'[u]))
    BY DEF CallsOK
  <2>1. CASE u = t
    <3>1. CallOK(d)'
      BY <1>1, <1>3, <1>4, <1>6, <1>7 DEF CallOK
    <3>2. CallOK(call[u])'
      BY <3>1, <2>1, <1>5 DEF CallOK
    <3> QED
      BY <3>2, <2>1, <1>3, <1>5
  <2>2. CASE u # t
    <3>1. ASSUME ~InstanceCall(call[u]), call[u].inst # NoInstance
          PROVE  IData(call[u].inst)' = IData(call[u].inst)
      <4>1. Has(instances, call[u].inst)
        BY <3>1, CallFacts
      <4> QED
        BY <4>1, <2>2, <1>5, <1>7, <1>10 DEF IData
    <3> QED
      BY <2>2, <3>1, <1>5, <1>6, <1>7, <1>10, OtherCalls
  <2> QED
    BY <2>1, <2>2
<1>12. CallsApart'
  BY <1>4, <1>5, <1>10 DEF InstInv, CallsApart, InstanceCall
<1>13. ListsOK' /\ NotesOK'
  BY <1>6, <1>7, <1>8 DEF InstInv, ListsOK, NotesOK
<1>14. NotedIsFound'
  <2>1. ASSUME NEW j \in Instances, OwnsInstance(j)'  PROVE Has(instances', j)
    <3>1. j # i
      <4>1. InstanceCall(d)
        BY <1>3, InstanceCallStep
      <4> QED
        BY <2>1, <4>1, <1>4, <1>5 DEF OwnsInstance
    <3>2. OwnsInstance(j)
      BY <3>1, <2>1, <1>5, <1>6 DEF OwnsInstance
    <3> QED
      BY <3>1, <3>2, <1>7 DEF InstInv, NotedIsFound
  <2>2. ASSUME NEW s \in Surfaces, surface'[s].listed, OwnsSurface(s)'
        PROVE  Has(IData(surface[s].inst)'.surfaces, s)
    <3>1. OwnsSurface(s) /\ surface[s].listed
      BY <2>2, <1>1, <1>5, <1>6, NoneAssumption DEF OwnsSurface
    <3>2. Has(instances, surface[s].inst) /\ surface[s].inst # i
      BY <3>1, <1>1 DEF InstInv, SurfacesOK, NoSurfaceState
    <3> QED
      BY <3>1, <3>2, <1>6, <1>7 DEF InstInv, NotedIsFound, IData
  <2> QED
    BY <2>1, <2>2 DEF NotedIsFound
<1>15. SurfacesOK'
  BY <1>1, <1>6, <1>7 DEF InstInv, SurfacesOK
<1>16. DevicesOK'
  BY <1>1, <1>6, <1>7, <1>8 DEF InstInv, DevicesOK
<1> QED
  BY <1>1, <1>6, <1>9, <1>11, <1>12, <1>13, <1>14, <1>15, <1>16 DEF InstInv, SeenOK

LEMMA DestroysInstanceKeeps ==
    ASSUME InstInv, NEW t \in Threads, DestroysInstance(t)
    PROVE  InstInv'
<1> PICK i : i = call[t].inst
  OBVIOUS
<1>1. /\ StepOf(call[t]) = "destroy_instance"
      /\ call[t].todo = TodoOf("destroy_instance")
      /\ call[t] \in Call /\ vulkan_seen /\ InstanceCall(call[t])
      /\ i \in live /\ i \in Instances /\ call[t].surf = NoSurface
      /\ ~Has(instances, i) /\ device[i] = "none"
      /\ \A s \in Surfaces : surface[s].inst # i
  BY AtFacts, CallFacts, InstanceCallStep
     DEF DestroysInstance, StepNames, CallOK, InstInv, InstTypeOK
<1>2. "destroy_instance" \in StepNames \ First
  BY DEF StepNames, First
<1>3. call' = [call EXCEPT ![t] = NoCall]
  BY <1>1, <1>2, ProceedReturns DEF DestroysInstance
<1>4. \A u \in Threads : call'[u] = IF u = t THEN NoCall ELSE call[u]
  BY <1>3 DEF InstInv, InstTypeOK
<1>5. NoCall \in Call /\ StepOf(NoCall) = "none"
  BY CallType
<1>6. UNCHANGED <<vulkan_seen, instances, surface, device, swapchain>> /\ live' = live \ {i}
  BY DEF DestroysInstance
<1>7. InstTypeOK'
  BY <1>3, <1>5, <1>6 DEF InstInv, InstTypeOK
<1>8. CallsOK'
  <2> SUFFICES ASSUME NEW u \in Threads
               PROVE  /\ CallOK(call[u])'
                      /\ StepOf(call'[u]) # "none" => call'[u].todo = TodoOf(StepOf(call'[u]))
    BY DEF CallsOK
  <2>1. CASE u = t
    BY <2>1, <1>4, <1>5 DEF CallOK
  <2>2. CASE u # t
    <3>1. call[u].inst # i
      BY <1>1, <2>2 DEF InstInv, CallsApart
    <3>2. IData(call[u].inst)' = IData(call[u].inst)
      BY <2>2, <1>4, <1>6 DEF IData
    <3> QED
      BY <2>2, <3>1, <3>2, <1>4, <1>6, OtherCalls
  <2> QED
    BY <2>1, <2>2
<1>9. CallsApart'
  BY <1>4, ReturnApart
<1>10. ListsOK' /\ NotesOK' /\ SurfacesOK' /\ DevicesOK'
  BY <1>1, <1>6 DEF InstInv, ListsOK, NotesOK, SurfacesOK, DevicesOK, IData
<1>11. NotedIsFound'
  <2>1. ASSUME NEW j \in Instances, OwnsInstance(j)'  PROVE OwnsInstance(j)
    BY <2>1, <1>1, <1>4, <1>6 DEF OwnsInstance
  <2>2. ASSUME NEW s \in Surfaces, OwnsSurface(s)'  PROVE OwnsSurface(s)
    BY <2>2, <1>1, <1>4, <1>6, NoneAssumption DEF OwnsSurface
  <2> QED
    BY <2>1, <2>2, <1>6 DEF InstInv, NotedIsFound, IData
<1> QED
  BY <1>1, <1>6, <1>7, <1>8, <1>9, <1>10, <1>11 DEF InstInv, SeenOK

\* Steps that may change surfaces, devices and swapchains of their own.
LEMMA OtherHandles ==
    ASSUME InstInv, NEW t \in Threads, NEW u \in Threads, u # t, call'[u] = call[u],
           UNCHANGED live,
           \A o : Has(instances', o) <=> Has(instances, o),
           InstanceCall(call[u]) =>
               /\ device'[call[u].inst] = "none"
               /\ \A s \in Surfaces : surface'[s].inst # call[u].inst,
           call[u].surf # NoSurface =>
               /\ surface'[call[u].surf] = surface[call[u].surf]
               /\ swapchain'[call[u].surf] = swapchain[call[u].surf]
               /\ Has(IData(call[u].inst)'.surfaces, call[u].surf) =>
                      Has(IData(call[u].inst).surfaces, call[u].surf)
    PROVE  /\ CallOK(call[u])'
           /\ StepOf(call'[u]) # "none" => call'[u].todo = TodoOf(StepOf(call'[u]))
<1>1. CallOK(call[u]) /\ (StepOf(call[u]) # "none" => call[u].todo = TodoOf(StepOf(call[u])))
  BY DEF InstInv, CallsOK
<1>2. InstanceCall(call[u]) <=>
          StepOf(call[u]) \in {"list_instance", "unlist_instance", "destroy_instance"}
  BY InstanceCallStep
<1>3. \A s \in Surfaces : s # NoSurface
  BY NoneAssumption
<1>4. CallOK(call[u])'
  BY <1>1, <1>2, <1>3 DEF CallOK
<1> QED
  BY <1>1, <1>4

\* The driver has made surface s, and the call goes on to list it.
LEMMA SurfaceMade ==
    ASSUME InstInv, NEW t \in Threads, vulkan_seen, ~InstanceCall(call[t]),
           call[t].surf = NoSurface,
           NEW i \in live, call[t].inst = i, Has(instances, i),
           NEW s \in Surfaces, surface[s].inst = NoInstance,
           NEW d \in Call, call' = [call EXCEPT ![t] = d],
           StepOf(d) = "list_surface", d.todo = TodoOf("list_surface"),
           d.inst = i, d.surf = s,
           surface' = [surface EXCEPT ![s] = MadeFor(i, d.window)],
           UNCHANGED <<vulkan_seen, instances, live, device, swapchain>>
    PROVE  InstInv'
<1>1. i \in Instances /\ call[t].inst = i
  BY DEF InstInv, InstTypeOK
<1>2. /\ call' = [call EXCEPT ![t] = d]
      /\ d \in Call /\ StepOf(d) = "list_surface" /\ d.todo = TodoOf("list_surface")
  OBVIOUS
<1>3. d.inst = i /\ d.surf = s /\ d.window \in Winids
  BY DEF Call
<1>4. \A u \in Threads : call'[u] = IF u = t THEN d ELSE call[u]
  BY DEF InstInv, InstTypeOK
<1>5. UNCHANGED <<vulkan_seen, instances, live, device, swapchain>>
  OBVIOUS
<1>6. surface[s] = NoSurfaceState /\ swapchain[s] = NoSwapchain
  BY NoneAssumption DEF InstInv, SurfacesOK, InstTypeOK
<1>7. /\ surface' \in [Surfaces -> SurfaceState]
      /\ surface'[s] = [inst |-> i, window |-> d.window, listed |-> FALSE]
      /\ \A r \in Surfaces \ {s} : surface'[r] = surface[r]
  <2>1. surface \in [Surfaces -> SurfaceState]
    BY DEF InstInv, InstTypeOK
  <2>2. surface'[s] = [inst |-> i, window |-> d.window, listed |-> FALSE]
    BY <2>1 DEF MadeFor
  <2>3. [inst |-> i, window |-> d.window, listed |-> FALSE] \in SurfaceState
    BY <1>1, <1>3 DEF SurfaceState
  <2> QED
    BY <2>1, <2>2, <2>3
<1>8. InstTypeOK'
  BY <1>2, <1>5, <1>7 DEF InstInv, InstTypeOK
<1>9. ~InstanceCall(d)
  BY <1>2, InstanceCallStep
<1>10. \A u \in Threads : /\ InstanceCall(call[u]) => call[u].inst # i
                          /\ call[u].surf # s
  BY <1>1, <1>6, CallFacts, NoneAssumption DEF InstInv, CallsApart, NoSurfaceState, InstTypeOK
<1>11. CallsOK'
  <2> SUFFICES ASSUME NEW u \in Threads
               PROVE  /\ CallOK(call[u])'
                      /\ StepOf(call'[u]) # "none" => call'[u].todo = TodoOf(StepOf(call'[u]))
    BY DEF CallsOK
  <2>1. CASE u = t
    <3>1. CallOK(d)'
      BY <1>1, <1>2, <1>3, <1>5, <1>6, <1>7 DEF CallOK
    <3>2. CallOK(call[u])'
      BY <3>1, <1>4, <2>1 DEF CallOK
    <3> QED
      BY <3>2, <1>2, <1>4, <2>1
  <2>2. CASE u # t
    <3>1. InstanceCall(call[u]) =>
             /\ device'[call[u].inst] = "none"
             /\ \A r \in Surfaces : surface'[r].inst # call[u].inst
      BY <1>5, <1>7, <1>10, CallFacts
    <3>2. call[u].surf # NoSurface =>
             /\ surface'[call[u].surf] = surface[call[u].surf]
             /\ swapchain'[call[u].surf] = swapchain[call[u].surf]
      BY <1>5, <1>7, <1>10, CallFacts
    <3>3. IData(call[u].inst)' = IData(call[u].inst)
      BY <2>2, <1>4, <1>5 DEF IData
    <3> QED
      BY <2>2, <3>1, <3>2, <3>3, <1>4, <1>5, OtherHandles
  <2> QED
    BY <2>1, <2>2
<1>12. CallsApart'
  <2> SUFFICES ASSUME NEW u \in Threads, NEW v \in Threads, u # v
               PROVE  /\ InstanceCall(call'[u]) => call'[v].inst # call'[u].inst
                      /\ call'[u].surf # NoSurface => call'[v].surf # call'[u].surf
    BY DEF CallsApart, InstanceCall
  <2>1. CASE u = t
    BY <2>1, <1>3, <1>4, <1>9, <1>10
  <2>2. CASE v = t
    BY <2>2, <1>3, <1>4, <1>9, <1>10
  <2>3. CASE u # t /\ v # t
    BY <2>3, <1>4 DEF InstInv, CallsApart
  <2> QED
    BY <2>1, <2>2, <2>3
<1>13. ListsOK' /\ DevicesOK'
  BY <1>5 DEF InstInv, ListsOK, DevicesOK, IData
<1>14. NotesOK'
  <2>1. \A j : Has(instances, j) => ~Has(IData(j).surfaces, s)
    BY <1>6 DEF InstInv, NotesOK, NoSurfaceState
  <2> QED
    BY <2>1, <1>5, <1>7 DEF InstInv, NotesOK, IData
<1>15. SurfacesOK'
  BY <1>1, <1>5, <1>6, <1>7 DEF InstInv, SurfacesOK
<1>16. NotedIsFound'
  <2>1. ASSUME NEW j \in Instances, OwnsInstance(j)'  PROVE OwnsInstance(j)
    BY <2>1, <1>1, <1>4, <1>5 DEF OwnsInstance
  <2>2. ASSUME NEW r \in Surfaces, OwnsSurface(r)'  PROVE OwnsSurface(r) /\ r # s
    BY <2>2, <1>1, <1>3, <1>4, <1>7, NoneAssumption DEF OwnsSurface
  <2> QED
    BY <2>1, <2>2, <1>5, <1>7 DEF InstInv, NotedIsFound, IData
<1> QED
  BY <1>1, <1>5, <1>8, <1>11, <1>12, <1>13, <1>14, <1>15, <1>16 DEF InstInv, SeenOK

LEMMA CreatesSurfaceKeeps ==
    ASSUME InstInv, NEW t \in Threads, CreatesSurface(t)
    PROVE  InstInv'
<1> PICK i : i = call[t].inst
  OBVIOUS
<1>1. /\ StepOf(call[t]) = "create_surface"
      /\ call[t].todo = TodoOf("create_surface")
      /\ call[t] \in Call /\ vulkan_seen /\ ~InstanceCall(call[t])
      /\ i \in live /\ i \in Instances /\ call[t].surf = NoSurface
      /\ Has(instances, i)
  BY AtFacts, InstanceCallStep DEF CreatesSurface, StepNames, CallOK, InstInv, InstTypeOK
<1>2. NextStep("create_surface") = "list_surface" /\ "create_surface" \in First
  BY DEF NextStep, First
<1>3. CASE Return(t) /\ UNCHANGED surface
  <2>1. call' = [call EXCEPT ![t] = NoCall]
    BY <1>3 DEF Return
  <2>2. \A u \in Threads : call'[u] = IF u = t THEN NoCall ELSE call[u]
    BY <2>1 DEF InstInv, InstTypeOK
  <2>3. NoCall \in Call /\ StepOf(NoCall) = "none" /\ NoCall.surf = NoSurface
        /\ CallOK(NoCall) /\ ~InstanceCall(NoCall) /\ NoCall.inst = NoInstance
    BY CallType, InstanceCallStep DEF CallOK, NoCall
  <2>4. \A j \in Instances : OwnsInstance(j)' => OwnsInstance(j)
    BY <1>1, <2>2 DEF OwnsInstance, CreatesSurface
  <2>5. \A s \in Surfaces : OwnsSurface(s)' => OwnsSurface(s)
    BY <1>1, <1>3, <2>2, NoneAssumption DEF OwnsSurface
  <2>6. \A u \in Threads : InstanceCall(call[u]) => call[u].inst # NoCall.inst
    BY <2>3, CallFacts, NoneAssumption DEF InstInv, InstTypeOK
  <2> QED
    BY <1>1, <1>3, <2>1, <2>3, <2>4, <2>5, <2>6, OnlyTheCall DEF CreatesSurface
<1>4. ASSUME NEW s \in Surfaces, surface[s].inst = NoInstance, NEW c,
             surface' = [surface EXCEPT ![s] = MadeFor(call[t].inst, call[t].window)],
             c = [call[t] EXCEPT !.surf = s],
             Proceed(t, c)
      PROVE  InstInv'
  <2>1. /\ c \in Call /\ c.todo = TodoOf("create_surface") /\ c.inst = i /\ c.surf = s
        /\ c.window = call[t].window
    BY <1>1, <1>4 DEF Call
  <2> PICK d : d = [c EXCEPT !.todo = <<NextStep("create_surface")>>]
    OBVIOUS
  <2>2. /\ call' = [call EXCEPT ![t] = d]
        /\ d \in Call /\ StepOf(d) = "list_surface" /\ d.todo = TodoOf("list_surface")
    <3>1. Proceed(t, c)
      BY <1>4
    <3> QED
      BY <3>1, <1>2, <2>1, ProceedGoesOn
  <2>3. d.inst = i /\ d.surf = s /\ d.window = call[t].window
    BY <2>1 DEF Call
  <2>4. surface' = [surface EXCEPT ![s] = MadeFor(i, d.window)]
    BY <1>4, <2>3
  <2>5. UNCHANGED <<vulkan_seen, instances, live, device, swapchain>>
    BY DEF CreatesSurface
  <2>6. surface[s].inst = NoInstance /\ call[t].inst = i
    BY <1>4
  <2> HIDE <1>4
  <2> QED
    BY <1>1, <2>2, <2>3, <2>4, <2>5, <2>6, SurfaceMade
<1> QED
  BY <1>3, <1>4 DEF CreatesSurface

\* The surfaces of one instance change: what the list of instances is then.
LEMMA WithSurfacesIs ==
    ASSUME InstInv, NEW i, Has(instances, i), NEW list, ListOf(SurfaceNode, list),
           instances' = WithSurfaces(i, list), IData(i).valid \/ list = <<>>
    PROVE  /\ ListOf(InstanceNode, instances')
           /\ \A o : Has(instances', o) <=> Has(instances, o)
           /\ IData(i)'.surfaces = list
           /\ IData(i)'.valid = IData(i).valid
           /\ IData(i)'.ready = IData(i).ready
           /\ \A j : Has(instances, j) /\ j # i => IData(j)' = IData(j)
<1>0. PICK old : old = IData(i)
  OBVIOUS
<1>6. PICK new : new = [old EXCEPT !.surfaces = list]
  OBVIOUS
<1>1. ListOf(InstanceNode, instances)
  BY DEF InstInv, ListsOK
<1>2. old \in InstanceNode /\ old.obj = i
  BY <1>0, <1>1, GetFinds DEF IData
<1>3. new \in InstanceNode /\ new.obj = i /\ new.surfaces = list
      /\ new.valid = old.valid /\ new.ready = old.ready
  BY <1>2, <1>6 DEF InstanceNode, ListOf
<1>4. instances' = ReplaceObj(instances, i, new)
  BY <1>0, <1>6 DEF WithSurfaces
<1>5. /\ ListOf(InstanceNode, instances')
      /\ \A o : Has(instances', o) <=> Has(instances, o)
      /\ \A o : Has(instances, o) =>
             GetObj(instances', o) = IF o = i THEN new ELSE GetObj(instances, o)
  BY <1>1, <1>3, <1>4, ReplaceReplaces
<1> QED
  BY <1>0, <1>3, <1>5 DEF IData

LEMMA ListedIs ==
    ASSUME NEW f \in [Surfaces -> SurfaceState], NEW g, NEW s \in Surfaces, NEW i, NEW w,
           g = [f EXCEPT ![s].listed = TRUE], f[s] = MadeFor(i, w)
    PROVE  g[s] = [inst |-> i, window |-> w, listed |-> TRUE]
<1>a. MadeFor(i, w).inst = i /\ MadeFor(i, w).window = w
  BY DEF MadeFor
<1>1. f[s] \in SurfaceState /\ f[s].inst = i /\ f[s].window = w
  BY <1>a
<1>2. g[s] = [f[s] EXCEPT !.listed = TRUE]
  OBVIOUS
<1>3. g[s] \in SurfaceState /\ g[s].inst = i /\ g[s].window = w /\ g[s].listed = TRUE
  BY <1>1, <1>2 DEF SurfaceState
<1> QED
  BY <1>3 DEF SurfaceState

LEMMA ListsSurfaceKeeps ==
    ASSUME InstInv, NEW t \in Threads, ListsSurface(t)
    PROVE  InstInv'
<1>a. PICK i, s, w : i = call[t].inst /\ s = call[t].surf /\ w = call[t].window
  OBVIOUS
<1>1. /\ StepOf(call[t]) = "list_surface"
      /\ call[t].todo = TodoOf("list_surface")
      /\ call[t] \in Call /\ vulkan_seen /\ ~InstanceCall(call[t])
      /\ i \in live /\ i \in Instances /\ s \in Surfaces /\ s # NoSurface /\ w \in Winids
      /\ surface[s] = [inst |-> i, window |-> w, listed |-> FALSE]
      /\ swapchain[s] = NoSwapchain
  <2>1. /\ StepOf(call[t]) = "list_surface"
        /\ call[t].todo = TodoOf("list_surface")
        /\ call[t] \in Call /\ vulkan_seen /\ call[t] # NoCall /\ CallOK(call[t])
    BY AtFacts DEF ListsSurface, StepNames
  <2>2. ~InstanceCall(call[t])
    BY <2>1, InstanceCallStep
  <2> QED
    BY <1>a, <2>1, <2>2, NoneAssumption DEF CallOK, Call, InstInv, InstTypeOK
<1>2. "list_surface" \in StepNames \ First
  BY DEF StepNames, First
<1>3. call' = [call EXCEPT ![t] = NoCall]
  BY <1>1, <1>2, ProceedReturns DEF ListsSurface
<1>4. \A u \in Threads : call'[u] = IF u = t THEN NoCall ELSE call[u]
  BY <1>3 DEF InstInv, InstTypeOK
<1>5. NoCall \in Call /\ StepOf(NoCall) = "none" /\ NoCall.surf = NoSurface
      /\ CallOK(NoCall) /\ ~InstanceCall(NoCall) /\ NoCall.inst = NoInstance
  BY CallType, InstanceCallStep DEF CallOK, NoCall
<1>6. UNCHANGED <<vulkan_seen, live, device, swapchain>>
  BY DEF ListsSurface
<1>7. Has(instances, i)
  BY <1>1, NoneAssumption DEF InstInv, SurfacesOK, NoSurfaceState
<1>8. CASE UNCHANGED <<instances, surface>>
  <2>1. \A j \in Instances : OwnsInstance(j)' => OwnsInstance(j)
    BY <1>1, <1>4, <1>6, <1>8 DEF OwnsInstance
  <2>2. \A r \in Surfaces : surface[r].listed /\ OwnsSurface(r)' => OwnsSurface(r)
    BY <1>a, <1>1, <1>4, <1>6, <1>8 DEF OwnsSurface
  <2>3. \A u \in Threads : InstanceCall(call[u]) => call[u].inst # NoCall.inst
    BY <1>5, CallFacts, NoneAssumption DEF InstInv, InstTypeOK
  <2> QED
    BY <1>1, <1>3, <1>5, <1>6, <1>8, <2>1, <2>2, <2>3, OnlyTheCall
<1>9. CASE /\ IData(i).valid
           /\ instances' = WithSurfaces(i, AddObj(IData(i).surfaces, NodeOf(call[t])))
           /\ surface' = [surface EXCEPT ![s].listed = TRUE]
  <2>a. PICK node, old, new : /\ node = NodeOf(call[t])
                              /\ old = IData(i).surfaces
                              /\ new = AddObj(old, node)
    OBVIOUS
  <2>1. node \in SurfaceNode /\ node.obj = s /\ node.winid = w
    BY <1>a, <1>1, <2>a DEF NodeOf, SurfaceNode
  <2>2. ListOf(SurfaceNode, old) /\ ~Has(old, s)
    BY <1>1, <1>7, <2>a DEF InstInv, ListsOK, NotesOK
  <2>3. /\ ListOf(SurfaceNode, new)
        /\ \A r : Has(new, r) <=> r = s \/ Has(old, r)
        /\ GetObj(new, s) = node
        /\ \A r : Has(old, r) => GetObj(new, r) = GetObj(old, r)
    BY <2>1, <2>2, <2>a, AddAdds
  <2>4. /\ ListOf(InstanceNode, instances')
        /\ \A o : Has(instances', o) <=> Has(instances, o)
        /\ IData(i)'.surfaces = new
        /\ IData(i)'.valid = IData(i).valid
        /\ IData(i)'.ready = IData(i).ready
        /\ \A j : Has(instances, j) /\ j # i => IData(j)' = IData(j)
    BY <1>7, <1>9, <2>3, <2>a, WithSurfacesIs
  <2>5. /\ surface' \in [Surfaces -> SurfaceState]
        /\ surface'[s] = [inst |-> i, window |-> w, listed |-> TRUE]
        /\ \A r \in Surfaces \ {s} : surface'[r] = surface[r]
    <3>1. surface \in [Surfaces -> SurfaceState]
      BY DEF InstInv, InstTypeOK
    <3>2. surface'[s] = [inst |-> i, window |-> w, listed |-> TRUE]
      <4>1. surface' = [surface EXCEPT ![s].listed = TRUE] /\ s \in Surfaces
        BY <1>1, <1>9
      <4>2. surface[s] = MadeFor(i, w)
        BY <1>1 DEF MadeFor
      <4> QED
        BY <3>1, <4>1, <4>2, ListedIs
    <3>3. [inst |-> i, window |-> w, listed |-> TRUE] \in SurfaceState
      BY <1>1 DEF SurfaceState
    <3> QED
      BY <1>9, <3>1, <3>2, <3>3
  <2>6. \A r \in Surfaces : /\ surface'[r].inst = surface[r].inst
                            /\ surface'[r].window = surface[r].window
    BY <1>1, <2>5
  <2>7. InstTypeOK'
    BY <1>3, <1>5, <1>6, <2>4, <2>5 DEF InstInv, InstTypeOK, ListOf
  <2>8. CallsOK'
    <3> SUFFICES ASSUME NEW u \in Threads
                 PROVE  /\ CallOK(call[u])'
                        /\ StepOf(call'[u]) # "none" => call'[u].todo = TodoOf(StepOf(call'[u]))
      BY DEF CallsOK
    <3>1. CASE u = t
      BY <3>1, <1>4, <1>5 DEF CallOK
    <3>2. CASE u # t
      <4>1. InstanceCall(call[u]) =>
               /\ device'[call[u].inst] = "none"
               /\ \A r \in Surfaces : surface'[r].inst # call[u].inst
        BY <1>6, <2>6, CallFacts
      <4>2. call[u].surf # s
        BY <3>2, <1>a, <1>1 DEF InstInv, CallsApart
      <4>3. ASSUME call[u].surf # NoSurface
            PROVE  /\ surface'[call[u].surf] = surface[call[u].surf]
                   /\ swapchain'[call[u].surf] = swapchain[call[u].surf]
                   /\ Has(IData(call[u].inst)'.surfaces, call[u].surf) =>
                          Has(IData(call[u].inst).surfaces, call[u].surf)
        <5>1. call[u].surf \in Surfaces /\ Has(instances, call[u].inst)
          BY <4>3, CallFacts, NoneAssumption DEF InstInv, InstTypeOK
        <5>2. PICK j, r : j = call[u].inst /\ r = call[u].surf
          OBVIOUS
        <5>3. IData(call[u].inst)' = IData(j)'
          BY <5>2, <3>2, <1>4 DEF IData
        <5>4. Has(IData(j)'.surfaces, r) => Has(IData(j).surfaces, r)
          BY <4>2, <5>1, <5>2, <2>3, <2>4, <2>a
        <5> QED
          BY <5>1, <5>2, <5>3, <5>4, <4>2, <1>6, <2>5
      <4> QED
        BY <3>2, <4>1, <4>3, <1>4, <1>6, <2>4, OtherHandles
    <3> QED
      BY <3>1, <3>2
  <2>9. CallsApart'
    BY <1>4, ReturnApart
  <2>10. ListsOK'
    <3> SUFFICES ASSUME NEW j, Has(instances', j)
                 PROVE  /\ j \in live'
                        /\ ListOf(SurfaceNode, IData(j)'.surfaces)
                        /\ IData(j)'.ready = IData(j)'.valid
                        /\ IData(j)'.valid \/ IData(j)'.surfaces = <<>>
      BY <2>4 DEF ListsOK
    <3>1. CASE j = i
      BY <3>1, <1>6, <1>7, <1>9, <2>3, <2>4 DEF InstInv, ListsOK
    <3>2. CASE j # i
      BY <3>2, <1>6, <2>4 DEF InstInv, ListsOK
    <3> QED
      BY <3>1, <3>2
  <2>11. NotesOK'
    <3> SUFFICES ASSUME NEW j, Has(instances', j), NEW r, Has(IData(j)'.surfaces, r)
                 PROVE  /\ r \in Surfaces
                        /\ surface'[r].inst = j /\ surface'[r].listed
                        /\ GetObj(IData(j)'.surfaces, r).winid = surface'[r].window
      BY DEF NotesOK
    <3>1. CASE j = i /\ r = s
      BY <3>1, <1>1, <2>1, <2>3, <2>4, <2>5
    <3>2. CASE j = i /\ r # s
      BY <3>2, <1>7, <2>3, <2>4, <2>5, <2>a DEF InstInv, NotesOK
    <3>3. CASE j # i
      BY <3>3, <1>1, <2>4, <2>5 DEF InstInv, NotesOK
    <3> QED
      BY <3>1, <3>2, <3>3
  <2>12. NotedIsFound'
    <3>1. ASSUME NEW j \in Instances, OwnsInstance(j)'  PROVE Has(instances', j)
      <4>1. OwnsInstance(j)
        BY <3>1, <1>1, <1>4, <1>6 DEF OwnsInstance
      <4> QED
        BY <4>1, <2>4 DEF InstInv, NotedIsFound
    <3>2. ASSUME NEW r \in Surfaces, surface'[r].listed, OwnsSurface(r)'
          PROVE  Has(GetObj(instances', surface'[r].inst).surfaces, r)
      <4>1. CASE r = s
        BY <4>1, <2>3, <2>4, <2>5 DEF IData
      <4>2. CASE r # s
        <5>1. OwnsSurface(r) /\ surface[r].listed
          BY <3>2, <4>2, <1>a, <1>4, <2>5 DEF OwnsSurface
        <5>2. PICK j : j = surface[r].inst
          OBVIOUS
        <5>3. Has(instances, j) /\ Has(IData(j).surfaces, r)
          BY <5>1, <5>2 DEF InstInv, NotedIsFound, SurfacesOK, NoSurfaceState
        <5>4. Has(IData(j)'.surfaces, r)
          BY <5>3, <2>3, <2>4, <2>a
        <5> QED
          BY <5>2, <5>4, <2>6 DEF IData
      <4> QED
        BY <4>1, <4>2
    <3> QED
      BY <3>1, <3>2 DEF NotedIsFound, IData
  <2>13. SurfacesOK'
    <3> SUFFICES ASSUME NEW r \in Surfaces
                 PROVE  \/ surface'[r] = NoSurfaceState /\ swapchain'[r] = NoSwapchain
                        \/ /\ surface'[r].inst \in live'
                           /\ Has(instances', surface'[r].inst)
                           /\ swapchain'[r] \in {surface'[r].window, NoWindow, NoSwapchain}
      BY DEF SurfacesOK
    <3>1. CASE r = s
      BY <3>1, <1>1, <1>6, <1>7, <2>4, <2>5
    <3>2. CASE r # s
      BY <3>2, <1>6, <2>4, <2>5 DEF InstInv, SurfacesOK
    <3> QED
      BY <3>1, <3>2
  <2>14. DevicesOK'
    BY <1>6, <2>4 DEF InstInv, DevicesOK
  <2> QED
    BY <1>1, <1>6, <2>7, <2>8, <2>9, <2>10, <2>11, <2>12, <2>13, <2>14 DEF InstInv, SeenOK
<1> QED
  BY <1>8, <1>9, <1>a DEF ListsSurface

\* Steps of no call: what has to be shown when instances, live and call stay.
LEMMA NoCallChanges ==
    ASSUME InstInv, UNCHANGED <<vulkan_seen, instances, call, live>>,
           surface' \in [Surfaces -> SurfaceState],
           device' \in [Instances -> {"none", "valid", "invalid"}],
           swapchain' \in [Surfaces -> Winids \cup {NoSwapchain}],
           SurfacesOK', DevicesOK',
           \A t \in Threads : InstanceCall(call[t]) =>
               /\ device'[call[t].inst] = "none"
               /\ \A s \in Surfaces : surface'[s].inst # call[t].inst,
           \A t \in Threads : call[t].surf # NoSurface =>
               /\ surface'[call[t].surf] = surface[call[t].surf]
               /\ swapchain'[call[t].surf] = swapchain[call[t].surf],
           \A s \in Surfaces : surface[s] = NoSurfaceState \/ surface'[s] = surface[s],
           \A s \in Surfaces : surface'[s].listed => surface'[s] = surface[s]
    PROVE  InstInv'
<1>1. InstTypeOK' /\ SeenOK' /\ CallsApart' /\ ListsOK'
  BY DEF InstInv, InstTypeOK, SeenOK, CallsApart, ListsOK, IData
<1>2. CallsOK'
  <2> SUFFICES ASSUME NEW u \in Threads
               PROVE  /\ CallOK(call[u])'
                      /\ StepOf(call'[u]) # "none" => call'[u].todo = TodoOf(StepOf(call'[u]))
    BY DEF CallsOK
  <2>1. CallOK(call[u]) /\ (StepOf(call[u]) # "none" => call[u].todo = TodoOf(StepOf(call[u])))
    BY DEF InstInv, CallsOK
  <2>2. InstanceCall(call[u]) <=>
            StepOf(call[u]) \in {"list_instance", "unlist_instance", "destroy_instance"}
    BY InstanceCallStep
  <2>3. \A s \in Surfaces : s # NoSurface
    BY NoneAssumption
  <2>4. CallOK(call[u])'
    BY <2>1, <2>2, <2>3 DEF CallOK, IData
  <2> QED
    BY <2>1, <2>4
<1>3. NotesOK'
  <2> SUFFICES ASSUME NEW j, Has(instances, j), NEW s, Has(IData(j).surfaces, s)
               PROVE  /\ s \in Surfaces
                      /\ surface'[s].inst = j /\ surface'[s].listed
                      /\ GetObj(IData(j).surfaces, s).winid = surface'[s].window
    BY DEF NotesOK, IData
  <2>1. /\ s \in Surfaces
        /\ surface[s].inst = j /\ surface[s].listed
        /\ GetObj(IData(j).surfaces, s).winid = surface[s].window
    BY DEF InstInv, NotesOK
  <2> QED
    BY <2>1 DEF NoSurfaceState
<1>4. NotedIsFound'
  BY DEF InstInv, NotedIsFound, OwnsInstance, OwnsSurface, IData
<1> QED
  BY <1>1, <1>2, <1>3, <1>4 DEF InstInv

LEMMA OtherSurfaceKeeps ==
    ASSUME InstInv, NEW t \in Threads, NEW i \in Instances, NEW w \in Windows,
           OtherSurface(t, i, w)
    PROVE  InstInv'
<1> PICK s \in Surfaces : /\ surface[s].inst = NoInstance
                          /\ surface' = [surface EXCEPT ![s] = MadeFor(i, w)]
  BY DEF OtherSurface
<1>1. OwnsInstance(i) /\ UNCHANGED <<vulkan_seen, instances, call, live, device, swapchain>>
  BY DEF OtherSurface
<1>2. surface[s] = NoSurfaceState /\ swapchain[s] = NoSwapchain
  BY NoneAssumption DEF InstInv, SurfacesOK, InstTypeOK
<1>3. MadeFor(i, w) \in SurfaceState /\ MadeFor(i, w).inst = i /\ ~MadeFor(i, w).listed
  BY DEF MadeFor, SurfaceState, Winids
<1>4. /\ surface' \in [Surfaces -> SurfaceState]
      /\ surface'[s] = MadeFor(i, w)
      /\ \A r \in Surfaces \ {s} : surface'[r] = surface[r]
  BY <1>3 DEF InstInv, InstTypeOK
<1>5. i \in live /\ Has(instances, i)
  BY <1>1 DEF InstInv, NotedIsFound, OwnsInstance
<1>6. SurfacesOK' /\ DevicesOK'
  BY <1>1, <1>2, <1>3, <1>4, <1>5 DEF InstInv, SurfacesOK, DevicesOK, IData
<1>7. \A u \in Threads : InstanceCall(call[u]) => call[u].inst # i
  BY <1>1 DEF OwnsInstance
<1>8. \A u \in Threads : call[u].surf # s
  BY <1>2, CallFacts, NoneAssumption DEF NoSurfaceState, InstInv, InstTypeOK
<1>9. \A u \in Threads : InstanceCall(call[u]) =>
          /\ device'[call[u].inst] = "none"
          /\ \A r \in Surfaces : surface'[r].inst # call[u].inst
  BY <1>1, <1>3, <1>4, <1>7, CallFacts
<1>10. \A u \in Threads : call[u].surf # NoSurface =>
          /\ surface'[call[u].surf] = surface[call[u].surf]
          /\ swapchain'[call[u].surf] = swapchain[call[u].surf]
  BY <1>1, <1>4, <1>8, CallFacts
<1>11. \A r \in Surfaces : /\ surface[r] = NoSurfaceState \/ surface'[r] = surface[r]
                           /\ surface'[r].listed => surface'[r] = surface[r]
  BY <1>2, <1>3, <1>4
<1>12. /\ device' \in [Instances -> {"none", "valid", "invalid"}]
       /\ swapchain' \in [Surfaces -> Winids \cup {NoSwapchain}]
  BY <1>1 DEF InstInv, InstTypeOK
<1> QED
  BY <1>1, <1>4, <1>6, <1>9, <1>10, <1>11, <1>12, NoCallChanges

LEMMA CreateDeviceKeeps ==
    ASSUME InstInv, NEW i \in Instances, CreateDevice(i)
    PROVE  InstInv'
<1>1. OwnsInstance(i) /\ Has(instances, i)
      /\ UNCHANGED <<vulkan_seen, instances, call, live, surface, swapchain>>
  BY DEF CreateDevice
<1>2. PICK valid \in {"valid", "invalid"} :
          /\ valid = "valid" => IData(i).valid
          /\ device' = [device EXCEPT ![i] = valid]
  BY DEF CreateDevice
<1>3. /\ device' \in [Instances -> {"none", "valid", "invalid"}]
      /\ \A j \in Instances : device'[j] = IF j = i THEN valid ELSE device[j]
  BY <1>2 DEF InstInv, InstTypeOK
<1>4. SurfacesOK' /\ DevicesOK'
  BY <1>1, <1>2, <1>3 DEF InstInv, SurfacesOK, DevicesOK, IData, OwnsInstance
<1>5. \A u \in Threads : InstanceCall(call[u]) =>
          /\ device'[call[u].inst] = "none"
          /\ \A r \in Surfaces : surface'[r].inst # call[u].inst
  BY <1>1, <1>3, CallFacts DEF OwnsInstance, InstInv, InstTypeOK
<1>6. /\ surface' \in [Surfaces -> SurfaceState]
      /\ swapchain' \in [Surfaces -> Winids \cup {NoSwapchain}]
  BY <1>1 DEF InstInv, InstTypeOK
<1> QED
  BY <1>1, <1>3, <1>4, <1>5, <1>6, NoCallChanges

LEMMA DestroyDeviceKeeps ==
    ASSUME InstInv, NEW i \in Instances, DestroyDevice(i)
    PROVE  InstInv'
<1>1. /\ device' = [device EXCEPT ![i] = "none"]
      /\ UNCHANGED <<vulkan_seen, instances, call, live, surface, swapchain>>
  BY DEF DestroyDevice
<1>2. /\ device' \in [Instances -> {"none", "valid", "invalid"}]
      /\ \A j \in Instances : device'[j] = IF j = i THEN "none" ELSE device[j]
  BY <1>1 DEF InstInv, InstTypeOK
<1>3. SurfacesOK' /\ DevicesOK'
  BY <1>1, <1>2 DEF InstInv, SurfacesOK, DevicesOK, IData
<1>4. \A u \in Threads : InstanceCall(call[u]) =>
          /\ device'[call[u].inst] = "none"
          /\ \A r \in Surfaces : surface'[r].inst # call[u].inst
  BY <1>1, <1>2, CallFacts DEF InstInv, InstTypeOK
<1>5. /\ surface' \in [Surfaces -> SurfaceState]
      /\ swapchain' \in [Surfaces -> Winids \cup {NoSwapchain}]
  BY <1>1 DEF InstInv, InstTypeOK
<1> QED
  BY <1>1, <1>2, <1>3, <1>4, <1>5, NoCallChanges

\* What a swapchain is told is the surface's window, or none.
LEMMA WinidIsWindow ==
    ASSUME InstInv, NEW s \in Surfaces, NEW i, i = surface[s].inst, Has(instances, i)
    PROVE  WinidOf(i, s) \in {surface[s].window, NoWindow}
  BY DEF WinidOf, InstInv, NotesOK

LEMMA CreateSwapchainKeeps ==
    ASSUME InstInv, NEW s \in Surfaces, CreateSwapchain(s)
    PROVE  InstInv'
<1>1. /\ OwnsSurface(s)
      /\ UNCHANGED <<vulkan_seen, instances, call, live, surface, device>>
  BY DEF CreateSwapchain
<1>2. /\ surface[s].inst \in live /\ Has(instances, surface[s].inst)
      /\ surface[s].window \in Winids /\ surface[s].inst # NoInstance
  BY <1>1 DEF InstInv, InstTypeOK, SurfacesOK, NoSurfaceState, OwnsSurface, SurfaceState
<1>3. PICK w \in {surface[s].window, NoWindow} : swapchain' = [swapchain EXCEPT ![s] = w]
  BY <1>2, WinidIsWindow DEF CreateSwapchain
<1>4. /\ swapchain' \in [Surfaces -> Winids \cup {NoSwapchain}]
      /\ \A r \in Surfaces : swapchain'[r] = IF r = s THEN w ELSE swapchain[r]
  BY <1>2, <1>3 DEF InstInv, InstTypeOK, Winids
<1>5. SurfacesOK' /\ DevicesOK'
  BY <1>1, <1>2, <1>3, <1>4 DEF InstInv, SurfacesOK, DevicesOK, IData
<1>6. \A u \in Threads : InstanceCall(call[u]) =>
          /\ device'[call[u].inst] = "none"
          /\ \A r \in Surfaces : surface'[r].inst # call[u].inst
  BY <1>1, CallFacts
<1>7. \A u \in Threads : call[u].surf # NoSurface =>
          /\ surface'[call[u].surf] = surface[call[u].surf]
          /\ swapchain'[call[u].surf] = swapchain[call[u].surf]
  BY <1>1, <1>4, CallFacts DEF OwnsSurface
<1>8. /\ surface' \in [Surfaces -> SurfaceState]
      /\ device' \in [Instances -> {"none", "valid", "invalid"}]
  BY <1>1 DEF InstInv, InstTypeOK
<1> QED
  BY <1>1, <1>4, <1>5, <1>6, <1>7, <1>8, NoCallChanges

LEMMA DestroySwapchainKeeps ==
    ASSUME InstInv, NEW s \in Surfaces, DestroySwapchain(s)
    PROVE  InstInv'
<1>1. /\ swapchain[s] # NoSwapchain
      /\ swapchain' = [swapchain EXCEPT ![s] = NoSwapchain]
      /\ UNCHANGED <<vulkan_seen, instances, call, live, surface, device>>
  BY DEF DestroySwapchain
<1>2. /\ swapchain' \in [Surfaces -> Winids \cup {NoSwapchain}]
      /\ \A r \in Surfaces : swapchain'[r] = IF r = s THEN NoSwapchain ELSE swapchain[r]
  BY <1>1 DEF InstInv, InstTypeOK
<1>3. SurfacesOK' /\ DevicesOK'
  BY <1>1, <1>2 DEF InstInv, SurfacesOK, DevicesOK, IData
<1>4. \A u \in Threads : InstanceCall(call[u]) =>
          /\ device'[call[u].inst] = "none"
          /\ \A r \in Surfaces : surface'[r].inst # call[u].inst
  BY <1>1, CallFacts
<1>5. \A u \in Threads : call[u].surf # NoSurface =>
          /\ surface'[call[u].surf] = surface[call[u].surf]
          /\ swapchain'[call[u].surf] = swapchain[call[u].surf]
  BY <1>1, <1>2, CallFacts
<1>6. /\ surface' \in [Surfaces -> SurfaceState]
      /\ device' \in [Instances -> {"none", "valid", "invalid"}]
  BY <1>1 DEF InstInv, InstTypeOK
<1> QED
  BY <1>1, <1>2, <1>3, <1>4, <1>5, <1>6, NoCallChanges

LEMMA UnlistsSurfaceKeeps ==
    ASSUME InstInv, NEW t \in Threads, UnlistsSurface(t)
    PROVE  InstInv'
<1>a. PICK i, s, d : /\ i = call[t].inst /\ s = call[t].surf
                     /\ d = [call[t] EXCEPT !.todo = <<NextStep("unlist_surface")>>]
  OBVIOUS
<1>1. /\ StepOf(call[t]) = "unlist_surface"
      /\ call[t].todo = TodoOf("unlist_surface")
      /\ call[t] \in Call /\ vulkan_seen /\ ~InstanceCall(call[t])
      /\ i \in live /\ i \in Instances /\ s \in Surfaces /\ s # NoSurface
      /\ surface[s].inst = i
      /\ swapchain[s] = NoSwapchain
  <2>1. /\ StepOf(call[t]) = "unlist_surface"
        /\ call[t].todo = TodoOf("unlist_surface")
        /\ call[t] \in Call /\ vulkan_seen /\ call[t] # NoCall /\ CallOK(call[t])
    BY AtFacts DEF UnlistsSurface, StepNames
  <2>2. ~InstanceCall(call[t])
    BY <2>1, InstanceCallStep
  <2> QED
    BY <1>a, <2>1, <2>2, NoneAssumption DEF CallOK, InstInv, InstTypeOK
<1>2. NextStep("unlist_surface") = "destroy_surface" /\ "unlist_surface" \in First
  BY DEF NextStep, First
<1>3. /\ call' = [call EXCEPT ![t] = d]
      /\ d \in Call /\ StepOf(d) = "destroy_surface" /\ d.todo = TodoOf("destroy_surface")
  BY <1>a, <1>1, <1>2, ProceedGoesOn DEF UnlistsSurface
<1>4. d.inst = i /\ d.surf = s
  BY <1>a, <1>1 DEF Call
<1>5. \A u \in Threads : call'[u] = IF u = t THEN d ELSE call[u]
  BY <1>3 DEF InstInv, InstTypeOK
<1>6. UNCHANGED <<vulkan_seen, live, surface, device, swapchain>>
  BY DEF UnlistsSurface
<1>7. Has(instances, i)
  BY <1>1, NoneAssumption DEF InstInv, SurfacesOK, NoSurfaceState
<1>b. PICK old : old = IData(i).surfaces
  OBVIOUS
<1>8. /\ ListOf(InstanceNode, instances')
      /\ \A o : Has(instances', o) <=> Has(instances, o)
      /\ IData(i)'.valid = IData(i).valid
      /\ IData(i)'.ready = IData(i).ready
      /\ \A j : Has(instances, j) /\ j # i => IData(j)' = IData(j)
      /\ ListOf(SurfaceNode, IData(i)'.surfaces)
      /\ \A r : Has(IData(i)'.surfaces, r) <=> Has(old, r) /\ r # s
      /\ \A r : Has(old, r) /\ r # s => GetObj(IData(i)'.surfaces, r) = GetObj(old, r)
      /\ IData(i).valid \/ IData(i)'.surfaces = <<>>
  <2>1. ListOf(InstanceNode, instances) /\ ListOf(SurfaceNode, old)
        /\ (IData(i).valid \/ old = <<>>)
    BY <1>7, <1>b DEF InstInv, ListsOK
  <2>2. CASE IData(i).valid
    <3>1. instances' = WithSurfaces(i, RemoveObj(old, s))
      BY <2>2, <1>a, <1>b DEF UnlistsSurface
    <3>2. /\ ListOf(SurfaceNode, RemoveObj(old, s))
          /\ \A r : Has(RemoveObj(old, s), r) <=> Has(old, r) /\ r # s
          /\ \A r : Has(old, r) /\ r # s => GetObj(RemoveObj(old, s), r) = GetObj(old, r)
      BY <2>1, RemoveRemoves
    <3> QED
      BY <2>2, <3>1, <3>2, <1>7, WithSurfacesIs
  <2>3. CASE ~IData(i).valid
    <3>1. instances' = instances
      BY <2>3, <1>a DEF UnlistsSurface
    <3>2. \A j : IData(j)' = IData(j)
      BY <3>1 DEF IData
    <3>3. old = <<>> /\ \A r : ~Has(old, r)
      BY <2>1, <2>3, EmptyList
    <3> QED
      BY <2>1, <2>3, <3>1, <3>2, <3>3, <1>b
  <2> QED
    BY <2>2, <2>3
<1>9. InstTypeOK'
  BY <1>3, <1>6, <1>8 DEF InstInv, InstTypeOK, ListOf
<1>10. \A u \in Threads : u # t => call[u].surf # s
  BY <1>a, <1>1 DEF InstInv, CallsApart
<1>11. CallsOK'
  <2> SUFFICES ASSUME NEW u \in Threads
               PROVE  /\ CallOK(call[u])'
                      /\ StepOf(call'[u]) # "none" => call'[u].todo = TodoOf(StepOf(call'[u]))
    BY DEF CallsOK
  <2>1. CASE u = t
    <3>1. CallOK(d)'
      BY <1>1, <1>3, <1>4, <1>6, <1>8 DEF CallOK
    <3>2. CallOK(call[u])'
      BY <3>1, <2>1, <1>5 DEF CallOK
    <3> QED
      BY <3>2, <2>1, <1>3, <1>5
  <2>2. CASE u # t
    <3>1. InstanceCall(call[u]) =>
             /\ device'[call[u].inst] = "none"
             /\ \A r \in Surfaces : surface'[r].inst # call[u].inst
      BY <1>6, CallFacts
    <3>2. ASSUME call[u].surf # NoSurface
          PROVE  Has(IData(call[u].inst)'.surfaces, call[u].surf) =>
                     Has(IData(call[u].inst).surfaces, call[u].surf)
      <4>1. Has(instances, call[u].inst)
        BY <3>2, CallFacts, NoneAssumption DEF InstInv, InstTypeOK
      <4>2. PICK j, r : j = call[u].inst /\ r = call[u].surf
        OBVIOUS
      <4>3. IData(call[u].inst)' = IData(j)'
        BY <4>2, <2>2, <1>5 DEF IData
      <4>4. Has(IData(j)'.surfaces, r) => Has(IData(j).surfaces, r)
        BY <4>1, <4>2, <1>8, <1>b
      <4> QED
        BY <4>2, <4>3, <4>4
    <3> QED
      BY <2>2, <3>1, <3>2, <1>5, <1>6, <1>8, OtherHandles
  <2> QED
    BY <2>1, <2>2
<1>12. CallsApart'
  <2>1. ~InstanceCall(d)
    BY <1>3, InstanceCallStep
  <2> SUFFICES ASSUME NEW u \in Threads, NEW v \in Threads, u # v
               PROVE  /\ InstanceCall(call'[u]) => call'[v].inst # call'[u].inst
                      /\ call'[u].surf # NoSurface => call'[v].surf # call'[u].surf
    BY DEF CallsApart, InstanceCall
  <2>2. \A x \in Threads : call'[x].inst = call[x].inst /\ call'[x].surf = call[x].surf
    BY <1>a, <1>4, <1>5
  <2>3. InstanceCall(call'[u]) => InstanceCall(call[u])
    BY <2>1, <1>5
  <2> QED
    BY <2>2, <2>3 DEF InstInv, CallsApart
<1>13. ListsOK'
  <2> SUFFICES ASSUME NEW j, Has(instances', j)
               PROVE  /\ j \in live'
                      /\ ListOf(SurfaceNode, IData(j)'.surfaces)
                      /\ IData(j)'.ready = IData(j)'.valid
                      /\ IData(j)'.valid \/ IData(j)'.surfaces = <<>>
    BY <1>8 DEF ListsOK
  <2>1. CASE j = i
    BY <2>1, <1>1, <1>6, <1>7, <1>8 DEF InstInv, ListsOK
  <2>2. CASE j # i
    BY <2>2, <1>6, <1>8 DEF InstInv, ListsOK
  <2> QED
    BY <2>1, <2>2
<1>14. NotesOK'
  <2> SUFFICES ASSUME NEW j, Has(instances', j), NEW r, Has(IData(j)'.surfaces, r)
               PROVE  /\ r \in Surfaces
                      /\ surface'[r].inst = j /\ surface'[r].listed
                      /\ GetObj(IData(j)'.surfaces, r).winid = surface'[r].window
    BY DEF NotesOK
  <2>1. CASE j = i
    BY <2>1, <1>6, <1>7, <1>8, <1>b DEF InstInv, NotesOK
  <2>2. CASE j # i
    BY <2>2, <1>6, <1>8 DEF InstInv, NotesOK
  <2> QED
    BY <2>1, <2>2
<1>15. NotedIsFound'
  <2>1. ASSUME NEW j \in Instances, OwnsInstance(j)'  PROVE Has(instances', j)
    <3>1. OwnsInstance(j)
      BY <2>1, <1>1, <1>5, <1>6 DEF OwnsInstance
    <3> QED
      BY <3>1, <1>8 DEF InstInv, NotedIsFound
  <2>2. ASSUME NEW r \in Surfaces, surface'[r].listed, OwnsSurface(r)'
        PROVE  Has(GetObj(instances', surface'[r].inst).surfaces, r)
    <3>1. OwnsSurface(r) /\ surface[r].listed /\ r # s
      BY <2>2, <1>a, <1>4, <1>5, <1>6 DEF OwnsSurface
    <3>2. PICK j : j = surface[r].inst
      OBVIOUS
    <3>3. Has(instances, j) /\ Has(IData(j).surfaces, r)
      BY <3>1, <3>2 DEF InstInv, NotedIsFound, SurfacesOK, NoSurfaceState
    <3>4. Has(IData(j)'.surfaces, r)
      BY <3>1, <3>3, <1>8, <1>b
    <3> QED
      BY <3>2, <3>4, <1>6 DEF IData
  <2> QED
    BY <2>1, <2>2 DEF NotedIsFound, IData
<1>16. SurfacesOK'
  BY <1>6, <1>8 DEF InstInv, SurfacesOK
<1>17. DevicesOK'
  BY <1>6, <1>8 DEF InstInv, DevicesOK
<1> QED
  BY <1>1, <1>6, <1>9, <1>11, <1>12, <1>13, <1>14, <1>15, <1>16, <1>17 DEF InstInv, SeenOK

LEMMA DestroysSurfaceKeeps ==
    ASSUME InstInv, NEW t \in Threads, DestroysSurface(t)
    PROVE  InstInv'
<1>a. PICK i, s : i = call[t].inst /\ s = call[t].surf
  OBVIOUS
<1>1. /\ StepOf(call[t]) = "destroy_surface"
      /\ call[t].todo = TodoOf("destroy_surface")
      /\ call[t] \in Call /\ vulkan_seen /\ ~InstanceCall(call[t])
      /\ i \in live /\ i \in Instances /\ s \in Surfaces /\ s # NoSurface
      /\ surface[s].inst = i
      /\ swapchain[s] = NoSwapchain
      /\ ~Has(IData(i).surfaces, s)
  <2>1. /\ StepOf(call[t]) = "destroy_surface"
        /\ call[t].todo = TodoOf("destroy_surface")
        /\ call[t] \in Call /\ vulkan_seen /\ call[t] # NoCall /\ CallOK(call[t])
    BY AtFacts DEF DestroysSurface, StepNames
  <2>2. ~InstanceCall(call[t])
    BY <2>1, InstanceCallStep
  <2> QED
    BY <1>a, <2>1, <2>2, NoneAssumption DEF CallOK, InstInv, InstTypeOK
<1>2. "destroy_surface" \in StepNames \ First
  BY DEF StepNames, First
<1>3. call' = [call EXCEPT ![t] = NoCall]
  BY <1>1, <1>2, ProceedReturns DEF DestroysSurface
<1>4. \A u \in Threads : call'[u] = IF u = t THEN NoCall ELSE call[u]
  BY <1>3 DEF InstInv, InstTypeOK
<1>5. NoCall \in Call /\ StepOf(NoCall) = "none"
  BY CallType
<1>6. UNCHANGED <<vulkan_seen, instances, live, device, swapchain>>
  BY DEF DestroysSurface
<1>7. NoSurfaceState \in SurfaceState /\ NoSurfaceState.inst = NoInstance
      /\ ~NoSurfaceState.listed
  BY DEF NoSurfaceState, SurfaceState, Winids
<1>8. /\ surface' \in [Surfaces -> SurfaceState]
      /\ surface'[s] = NoSurfaceState
      /\ \A r \in Surfaces \ {s} : surface'[r] = surface[r]
  BY <1>a, <1>1, <1>7 DEF DestroysSurface, InstInv, InstTypeOK
<1>9. InstTypeOK'
  BY <1>3, <1>5, <1>6, <1>8 DEF InstInv, InstTypeOK
<1>10. \A u \in Threads : u # t => call[u].surf # s
  BY <1>a, <1>1 DEF InstInv, CallsApart
<1>11. CallsOK'
  <2> SUFFICES ASSUME NEW u \in Threads
               PROVE  /\ CallOK(call[u])'
                      /\ StepOf(call'[u]) # "none" => call'[u].todo = TodoOf(StepOf(call'[u]))
    BY DEF CallsOK
  <2>1. CASE u = t
    BY <2>1, <1>4, <1>5 DEF CallOK
  <2>2. CASE u # t
    <3>1. InstanceCall(call[u]) =>
             /\ device'[call[u].inst] = "none"
             /\ \A r \in Surfaces : surface'[r].inst # call[u].inst
      BY <1>6, <1>7, <1>8, CallFacts, NoneAssumption DEF InstInv, InstTypeOK
    <3>2. call[u].surf # NoSurface =>
             /\ surface'[call[u].surf] = surface[call[u].surf]
             /\ swapchain'[call[u].surf] = swapchain[call[u].surf]
      BY <2>2, <1>6, <1>8, <1>10, CallFacts
    <3>3. IData(call[u].inst)' = IData(call[u].inst)
      BY <2>2, <1>4, <1>6 DEF IData
    <3> QED
      BY <2>2, <3>1, <3>2, <3>3, <1>4, <1>6, OtherHandles
  <2> QED
    BY <2>1, <2>2
<1>12. CallsApart'
  BY <1>4, ReturnApart
<1>13. ListsOK' /\ DevicesOK'
  BY <1>6 DEF InstInv, ListsOK, DevicesOK, IData
<1>14. NotesOK'
  <2> SUFFICES ASSUME NEW j, Has(instances, j), NEW r, Has(IData(j).surfaces, r)
               PROVE  /\ r \in Surfaces
                      /\ surface'[r].inst = j /\ surface'[r].listed
                      /\ GetObj(IData(j).surfaces, r).winid = surface'[r].window
    BY <1>6 DEF NotesOK, IData
  <2>1. /\ r \in Surfaces
        /\ surface[r].inst = j /\ surface[r].listed
        /\ GetObj(IData(j).surfaces, r).winid = surface[r].window
    BY DEF InstInv, NotesOK
  <2>2. r # s
    BY <2>1, <1>1
  <2> QED
    BY <2>1, <2>2, <1>8
<1>15. NotedIsFound'
  <2>1. ASSUME NEW j \in Instances, OwnsInstance(j)'  PROVE OwnsInstance(j)
    BY <2>1, <1>1, <1>4, <1>6 DEF OwnsInstance
  <2>2. ASSUME NEW r \in Surfaces, OwnsSurface(r)'  PROVE OwnsSurface(r) /\ r # s
    BY <2>2, <1>a, <1>4, <1>7, <1>8 DEF OwnsSurface
  <2> QED
    BY <2>1, <2>2, <1>6, <1>8 DEF InstInv, NotedIsFound, IData
<1>16. SurfacesOK'
  BY <1>1, <1>6, <1>8 DEF InstInv, SurfacesOK
<1> QED
  BY <1>1, <1>6, <1>9, <1>11, <1>12, <1>13, <1>14, <1>15, <1>16 DEF InstInv, SeenOK

-----------------------------------------------------------------------------
(***************************************************************************)
(* The theorems                                                            *)
(***************************************************************************)

LEMMA InitInv == InstInit => InstInv
<1> SUFFICES ASSUME InstInit  PROVE InstInv
  OBVIOUS
<1>1. ListOf(InstanceNode, <<>>) /\ \A o : ~Has(<<>>, o)
  BY EmptyList
<1>2. NoCall \in Call /\ StepOf(NoCall) = "none" /\ NoCall.surf = NoSurface
      /\ ~InstanceCall(NoCall) /\ NoCall.todo = <<>>
  BY CallType, InstanceCallStep DEF NoCall
<1>3. NoSurfaceState \in SurfaceState /\ NoSurfaceState.inst = NoInstance
  BY DEF NoSurfaceState, SurfaceState, Winids
<1>4. InstTypeOK
  BY <1>1, <1>2, <1>3 DEF InstInit, InstTypeOK, ListOf
<1>5. SeenOK /\ CallsApart
  BY <1>2 DEF InstInit, SeenOK, CallsApart, InstanceCall
<1>6. CallsOK
  BY <1>2 DEF InstInit, CallsOK, CallOK
<1>7. ListsOK /\ NotesOK
  BY <1>1 DEF InstInit, ListsOK, NotesOK
<1>8. NotedIsFound /\ SurfacesOK /\ DevicesOK
  BY <1>3 DEF InstInit, NotedIsFound, OwnsInstance, OwnsSurface, SurfacesOK, DevicesOK
<1> QED
  BY <1>4, <1>5, <1>6, <1>7, <1>8 DEF InstInv

LEMMA StutterKeeps == InstInv /\ UNCHANGED instVars => InstInv'
<1> SUFFICES ASSUME InstInv, UNCHANGED instVars  PROVE InstInv'
  OBVIOUS
<1>1. UNCHANGED <<vulkan_seen, instances, call, live, surface, device, swapchain>>
  BY DEF instVars
<1>2. /\ SurfacesOK' /\ DevicesOK'
      /\ surface' \in [Surfaces -> SurfaceState]
      /\ device' \in [Instances -> {"none", "valid", "invalid"}]
      /\ swapchain' \in [Surfaces -> Winids \cup {NoSwapchain}]
  BY <1>1 DEF InstInv, InstTypeOK, SurfacesOK, DevicesOK, IData
<1>3. \A t \in Threads : InstanceCall(call[t]) =>
          /\ device'[call[t].inst] = "none"
          /\ \A s \in Surfaces : surface'[s].inst # call[t].inst
  BY <1>1, CallFacts
<1> QED
  BY <1>1, <1>2, <1>3, NoCallChanges

\* The invariant is inductive: each action keeps it.
LEMMA NextKeeps == InstInv /\ [InstNext]_instVars => InstInv'
  BY StutterKeeps, NegotiateKeeps, CreateInstanceKeeps, CreatesInstanceKeeps,
     ListsInstanceKeeps, DestroyInstanceKeeps, UnlistsInstanceKeeps, DestroysInstanceKeeps,
     CreateSurfaceKeeps, CreatesSurfaceKeeps, ListsSurfaceKeeps, OtherSurfaceKeeps,
     DestroySurfaceKeeps, UnlistsSurfaceKeeps, DestroysSurfaceKeeps, CreateDeviceKeeps,
     DestroyDeviceKeeps, CreateSwapchainKeeps, DestroySwapchainKeeps
     DEF InstNext

LEMMA InstInvariant == InstSpec => []InstInv
  BY InitInv, NextKeeps, PTL DEF InstSpec

\* The variables keep their types.
THEOREM InstTypes == InstSpec => []InstTypeOK
<1>1. InstInv => InstTypeOK
  BY DEF InstInv
<1> QED
  BY <1>1, InstInvariant, PTL

\* For any number of threads and handles, get_inst_data finds the one node of
\* every instance that the game has (vklayer.c:510), and no node stays behind.
THEOREM InstancesKnown == InstSpec => []InstancesAreKnown
<1>1. InstInv => InstancesAreKnown
  <2> SUFFICES ASSUME InstInv  PROVE InstancesAreKnown
    OBVIOUS
  <2>1. \A i \in live : OwnsInstance(i) => Has(instances, i)
    BY DEF InstInv, NotedIsFound, InstTypeOK
  <2>2. Unique(instances) /\ \A n \in DOMAIN instances : instances[n].obj \in live
    BY DEF InstInv, ListsOK, ListOf, Has
  <2> QED
    BY <2>1, <2>2 DEF InstancesAreKnown, Unique
<1> QED
  BY <1>1, InstInvariant, PTL

\* No device that looks up windows belongs to an instance whose list of
\* surfaces was never initialised (vklayer.c:1407, 1588).
THEOREM ReadyLists == InstSpec => []ListsAreReady
<1>1. InstInv => ListsAreReady
  BY DEF InstInv, ListsAreReady, DevicesOK, ListsOK
<1> QED
  BY <1>1, InstInvariant, PTL

\* Whichever threads create and destroy surfaces, and however the driver uses
\* handles again, a swapchain is told the window it is shown in, or none.
THEOREM OwnWindow == InstSpec => []WindowIsItsOwn
<1>1. InstInv => WindowIsItsOwn
  <2> SUFFICES ASSUME InstInv, NEW s \in Surfaces, NEW i, i = surface[s].inst, OwnsSurface(s)
               PROVE  /\ Has(instances, i)
                      /\ IData(i).valid =>
                             WinidOf(i, s) = IF surface[s].listed THEN surface[s].window
                                             ELSE NoWindow
                      /\ swapchain[s] \in {surface[s].window, NoWindow, NoSwapchain}
    BY DEF WindowIsItsOwn
  <2>1. /\ i \in live /\ Has(instances, i)
        /\ swapchain[s] \in {surface[s].window, NoWindow, NoSwapchain}
    BY DEF InstInv, SurfacesOK, OwnsSurface, NoSurfaceState
  <2>2. CASE surface[s].listed
    <3>1. Has(IData(i).surfaces, s)
      BY <2>2 DEF InstInv, NotedIsFound
    <3> QED
      BY <2>1, <2>2, <3>1 DEF WinidOf, InstInv, NotesOK
  <2>3. CASE ~surface[s].listed
    BY <2>1, <2>3 DEF WinidOf, InstInv, NotesOK
  <2> QED
    BY <2>1, <2>2, <2>3
<1> QED
  BY <1>1, InstInvariant, PTL
============================================================================
