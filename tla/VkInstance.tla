---------------------------- MODULE VkInstance ----------------------------
(***************************************************************************)
(* The Vulkan layer's books on instances and surfaces, src/vklayer.c: the  *)
(* list of instances, each with the list of its surfaces and their         *)
(* windows, from which a swapchain learns the window id that OBS is told.  *)
(*                                                                         *)
(* The game calls from several threads, within the rules of Vulkan: two    *)
(* calls never work on one handle, of which one creates or destroys it,    *)
(* and what belongs to a handle is destroyed before it. The layer takes a  *)
(* mutex for one operation of one list, and calls the driver outside of    *)
(* it; the driver uses a handle again as soon as it is free.               *)
(***************************************************************************)
EXTENDS Naturals, Sequences, SequencesExt

CONSTANTS
    Threads,
    Instances, Surfaces,    \* handles; an instance's stands for GET_LDT of it
    NoInstance, NoSurface,
    Windows,                \* what a surface is made for
    NoWindow,               \* winid 0
    NoSwapchain

ASSUME NoneAssumption ==
    /\ NoInstance \notin Instances
    /\ NoSurface \notin Surfaces
    /\ NoWindow \notin Windows
    /\ NoSwapchain \notin Windows \cup {NoWindow}

VARIABLES
    vulkan_seen, \* the static lists are initialised
    instances,   \* the list of struct vk_inst_data, newest first
    call,        \* call[t]: the call that thread t is in
    live,        \* instances that the driver has
    surface,     \* surface[s]: what the driver has made s for
    device,      \* device[i]: the device made for i, and its vk_data.valid
    swapchain    \* swapchain[s]: the winid of the swapchain on s

instVars == <<vulkan_seen, instances, call, live, surface, device, swapchain>>

Winids == Windows \cup {NoWindow}

\* ready: the mutex and root of surfaces are initialised.
SurfaceNode == [obj : Surfaces, winid : Winids]
InstanceNode ==
    [obj : Instances, valid : BOOLEAN, ready : BOOLEAN, surfaces : Seq(SurfaceNode)]

\* listed: the layer was there when s was made, and had the memory to note it.
SurfaceState ==
    [inst : Instances \cup {NoInstance}, window : Winids, listed : BOOLEAN]
MadeFor(i, w) == [inst |-> i, window |-> w, listed |-> FALSE]
NoSurfaceState == [inst |-> NoInstance, window |-> NoWindow, listed |-> FALSE]

\* A call does its steps in order; other calls may come between two of them.
CreateInstanceSteps == <<"create_instance", "list_instance">>
BugDestroysInstanceFirst == <<"destroy_instance", "unlist_instance">>
DestroyInstanceSteps == <<"unlist_instance", "destroy_instance">>
CreateSurfaceSteps == <<"create_surface", "list_surface">>
BugDestroysSurfaceFirst == <<"destroy_surface", "unlist_surface">>
DestroySurfaceSteps == <<"unlist_surface", "destroy_surface">>

\* valid: the first attempt to create the instance succeeded.
Call ==
    [todo : Seq({"create_instance", "list_instance", "unlist_instance",
                 "destroy_instance", "create_surface", "list_surface",
                 "unlist_surface", "destroy_surface"}),
     inst : Instances \cup {NoInstance}, surf : Surfaces \cup {NoSurface},
     window : Winids, valid : BOOLEAN]
NoCall ==
    [todo |-> <<>>, inst |-> NoInstance, surf |-> NoSurface, window |-> NoWindow,
     valid |-> FALSE]

InstTypeOK ==
    /\ vulkan_seen \in BOOLEAN
    /\ instances \in Seq(InstanceNode)
    /\ call \in [Threads -> Call]
    /\ live \subseteq Instances
    /\ surface \in [Surfaces -> SurfaceState]
    /\ device \in [Instances -> {"none", "valid", "invalid"}]
    /\ swapchain \in [Surfaces -> Winids \cup {NoSwapchain}]

InstInit ==
    /\ vulkan_seen = FALSE
    /\ instances = <<>>
    /\ call = [t \in Threads |-> NoCall]
    /\ live = {}
    /\ surface = [s \in Surfaces |-> NoSurfaceState]
    /\ device = [i \in Instances |-> "none"]
    /\ swapchain = [s \in Surfaces |-> NoSwapchain]

-----------------------------------------------------------------------------
(***************************************************************************)
(* struct vk_obj_list. Each operation is one critical section.             *)
(***************************************************************************)

AddObj(list, node) == <<node>> \o list

Has(list, o) == \E n \in DOMAIN list : list[n].obj = o
IndexOf(list, o) == SelectInSeq(list, LAMBDA node : node.obj = o)
GetObj(list, o) == list[IndexOf(list, o)]

\* Forgets to look whether the node is the first.
BugCutsTheList(list, o) == SubSeq(list, IndexOf(list, o) + 1, Len(list))

RemoveObj(list, o) == RemoveFirstMatch(list, LAMBDA node : node.obj = o)

\* A node is a structure that is changed in place.
ReplaceObj(list, o, node) == ReplaceAt(list, IndexOf(list, o), node)

IData(i) == GetObj(instances, i)

\* The list of instances after i's surfaces become list.
WithSurfaces(i, list) ==
    ReplaceObj(instances, i, [IData(i) EXCEPT !.surfaces = list])

-----------------------------------------------------------------------------
(***************************************************************************)
(* Calls                                                                   *)
(***************************************************************************)

Idle(t) == call[t].todo = <<>>
At(t, step) == ~Idle(t) /\ Head(call[t].todo) = step
Begin(t, c) == call' = [call EXCEPT ![t] = c]
Return(t) == call' = [call EXCEPT ![t] = NoCall]

\* The step is done; the call returns after its last.
Proceed(t, c) ==
    call' = [call EXCEPT ![t] =
                IF Len(c.todo) > 1 THEN [c EXCEPT !.todo = Tail(@)] ELSE NoCall]

\* A call that creates or destroys its instance.
InstanceCall(c) ==
    c.todo # <<>> /\ Head(c.todo) \in {"list_instance", "unlist_instance", "destroy_instance"}

\* The game has the handle, and no call is creating or destroying it.
OwnsInstance(i) ==
    i \in live /\ \A t \in Threads : call[t].inst = i => ~InstanceCall(call[t])
OwnsSurface(s) ==
    /\ surface[s].inst # NoInstance
    /\ \A t \in Threads : call[t].surf # s

\* Nothing else works on i, or belongs to it.
Unused(i) ==
    /\ \A t \in Threads : call[t].inst # i
    /\ device[i] = "none"
    /\ \A s \in Surfaces : surface[s].inst # i

-----------------------------------------------------------------------------
(***************************************************************************)
(* Instances                                                               *)
(***************************************************************************)

\* OBS_Negotiate, which the loader calls before every instance it creates,
\* other calls being under way. The lists are static: they start over once.
BugStartsOver(t) ==
    /\ Idle(t)
    /\ vulkan_seen' = TRUE
    /\ instances' = <<>>
    /\ UNCHANGED <<call, live, surface, device, swapchain>>

Negotiate(t) ==
    /\ Idle(t)
    /\ vulkan_seen' = TRUE
    /\ instances' = IF vulkan_seen THEN instances ELSE <<>>
    /\ UNCHANGED <<call, live, surface, device, swapchain>>

\* OBS_CreateInstance up to its allocation. Without link info or memory it
\* returns with nothing done, as CreatesInstance does when the driver refuses.
CreateInstance(t) ==
    /\ Idle(t) /\ vulkan_seen
    /\ Begin(t, [NoCall EXCEPT !.todo = CreateInstanceSteps])
    /\ UNCHANGED <<vulkan_seen, instances, live, surface, device, swapchain>>

\* The first attempt succeeds, the second does, or none: the data is freed.
CreatesInstance(t) ==
    /\ At(t, "create_instance")
    /\ \/ \E i \in Instances \ live, first \in BOOLEAN :
              /\ live' = live \cup {i}
              /\ Proceed(t, [call[t] EXCEPT !.inst = i, !.valid = first])
       \/ Return(t) /\ UNCHANGED live
    /\ UNCHANGED <<vulkan_seen, instances, surface, device, swapchain>>

\* The driver may lack a function that the layer needs. Only an instance that
\* is valid gets a list of surfaces.
ListsInstance(t) ==
    /\ At(t, "list_instance")
    /\ \E funcs_found \in BOOLEAN :
           LET valid == call[t].valid /\ funcs_found
           IN  instances' = AddObj(instances,
                   [obj |-> call[t].inst, valid |-> valid, ready |-> valid,
                    surfaces |-> <<>>])
    /\ Proceed(t, call[t])
    /\ UNCHANGED <<vulkan_seen, live, surface, device, swapchain>>

\* OBS_DestroyInstance.
DestroyInstance(t, i) ==
    /\ Idle(t)
    /\ i \in live /\ Unused(i) /\ Has(instances, i)
    /\ Begin(t, [NoCall EXCEPT !.todo = DestroyInstanceSteps, !.inst = i])
    /\ UNCHANGED <<vulkan_seen, instances, live, surface, device, swapchain>>

UnlistsInstance(t) ==
    /\ At(t, "unlist_instance")
    /\ instances' = RemoveObj(instances, call[t].inst)
    /\ Proceed(t, call[t])
    /\ UNCHANGED <<vulkan_seen, live, surface, device, swapchain>>

DestroysInstance(t) ==
    /\ At(t, "destroy_instance")
    /\ live' = live \ {call[t].inst}
    /\ Proceed(t, call[t])
    /\ UNCHANGED <<vulkan_seen, instances, surface, device, swapchain>>

-----------------------------------------------------------------------------
(***************************************************************************)
(* Surfaces                                                                *)
(***************************************************************************)

\* OBS_CreateXcbSurfaceKHR, OBS_CreateXlibSurfaceKHR, OBS_CreateWaylandSurfaceKHR.
CreateSurface(t, i, w) ==
    /\ Idle(t)
    /\ OwnsInstance(i) /\ Has(instances, i)
    /\ Begin(t, [NoCall EXCEPT !.todo = CreateSurfaceSteps, !.inst = i, !.window = w])
    /\ UNCHANGED <<vulkan_seen, instances, live, surface, device, swapchain>>

CreatesSurface(t) ==
    /\ At(t, "create_surface")
    /\ \/ \E s \in {r \in Surfaces : surface[r].inst = NoInstance} :
              /\ surface' = [surface EXCEPT ![s] = MadeFor(call[t].inst, call[t].window)]
              /\ Proceed(t, [call[t] EXCEPT !.surf = s])
       \/ Return(t) /\ UNCHANGED surface
    /\ UNCHANGED <<vulkan_seen, instances, live, device, swapchain>>

BugNotesTheHandle(c) == [obj |-> c.surf, winid |-> c.surf]

NodeOf(c) == [obj |-> c.surf, winid |-> c.window]

\* add_surf_data, which drops a surface it has no memory for.
ListsSurface(t) ==
    /\ At(t, "list_surface")
    /\ LET c == call[t]
       IN  \/ /\ IData(c.inst).valid
              /\ instances' =
                     WithSurfaces(c.inst, AddObj(IData(c.inst).surfaces, NodeOf(c)))
              /\ surface' = [surface EXCEPT ![c.surf].listed = TRUE]
           \/ UNCHANGED <<instances, surface>>
    /\ Proceed(t, call[t])
    /\ UNCHANGED <<vulkan_seen, live, device, swapchain>>

\* A kind of surface that the layer has no function for.
OtherSurface(t, i, w) ==
    /\ Idle(t)
    /\ OwnsInstance(i)
    /\ \E s \in {r \in Surfaces : surface[r].inst = NoInstance} :
           surface' = [surface EXCEPT ![s] = MadeFor(i, w)]
    /\ UNCHANGED <<vulkan_seen, instances, call, live, device, swapchain>>

\* OBS_DestroySurfaceKHR; for VK_NULL_HANDLE it does nothing.
DestroySurface(t, s) ==
    /\ Idle(t)
    /\ OwnsSurface(s) /\ swapchain[s] = NoSwapchain
    /\ Has(instances, surface[s].inst)
    /\ Begin(t, [NoCall EXCEPT !.todo = DestroySurfaceSteps,
                               !.inst = surface[s].inst, !.surf = s])
    /\ UNCHANGED <<vulkan_seen, instances, live, surface, device, swapchain>>

UnlistsSurface(t) ==
    /\ At(t, "unlist_surface")
    /\ LET c == call[t]
       IN  instances' = IF IData(c.inst).valid
                        THEN WithSurfaces(c.inst,
                                 RemoveObj(IData(c.inst).surfaces, c.surf))
                        ELSE instances
    /\ Proceed(t, call[t])
    /\ UNCHANGED <<vulkan_seen, live, surface, device, swapchain>>

DestroysSurface(t) ==
    /\ At(t, "destroy_surface")
    /\ surface' = [surface EXCEPT ![call[t].surf] = NoSurfaceState]
    /\ Proceed(t, call[t])
    /\ UNCHANGED <<vulkan_seen, instances, live, device, swapchain>>

-----------------------------------------------------------------------------
(***************************************************************************)
(* Devices and swapchains, as far as they read the lists                   *)
(***************************************************************************)

\* OBS_CreateDevice: any of its steps may fail and leave the device invalid.
BugIgnoresInstance(i) ==
    /\ OwnsInstance(i) /\ Has(instances, i) /\ device[i] = "none"
    /\ \E valid \in {"valid", "invalid"} : device' = [device EXCEPT ![i] = valid]
    /\ UNCHANGED <<vulkan_seen, instances, call, live, surface, swapchain>>

CreateDevice(i) ==
    /\ OwnsInstance(i) /\ Has(instances, i) /\ device[i] = "none"
    /\ \E valid \in {"valid", "invalid"} :
           /\ valid = "valid" => IData(i).valid
           /\ device' = [device EXCEPT ![i] = valid]
    /\ UNCHANGED <<vulkan_seen, instances, call, live, surface, swapchain>>

DestroyDevice(i) ==
    /\ device[i] # "none"
    /\ \A s \in Surfaces : surface[s].inst = i => swapchain[s] = NoSwapchain
    /\ device' = [device EXCEPT ![i] = "none"]
    /\ UNCHANGED <<vulkan_seen, instances, call, live, surface, swapchain>>

\* find_surf_winid.
WinidOf(i, s) ==
    LET list == IData(i).surfaces
    IN  IF Has(list, s) THEN GetObj(list, s).winid ELSE NoWindow

\* OBS_CreateSwapchainKHR: the swapchain of an invalid device, or one that
\* there is no memory for, is not noted, and tells OBS no window.
CreateSwapchain(s) ==
    /\ OwnsSurface(s) /\ swapchain[s] = NoSwapchain
    /\ LET i == surface[s].inst
       IN  /\ device[i] # "none"
           /\ \/ swapchain' = [swapchain EXCEPT ![s] = NoWindow]
              \/ /\ device[i] = "valid"
                 /\ swapchain' = [swapchain EXCEPT ![s] = WinidOf(i, s)]
    /\ UNCHANGED <<vulkan_seen, instances, call, live, surface, device>>

DestroySwapchain(s) ==
    /\ swapchain[s] # NoSwapchain
    /\ swapchain' = [swapchain EXCEPT ![s] = NoSwapchain]
    /\ UNCHANGED <<vulkan_seen, instances, call, live, surface, device>>

InstNext ==
    \/ \E t \in Threads :
        \/ Negotiate(t)
        \/ CreateInstance(t)
        \/ CreatesInstance(t)
        \/ ListsInstance(t)
        \/ \E i \in Instances :
            \/ DestroyInstance(t, i)
            \/ \E w \in Windows : CreateSurface(t, i, w) \/ OtherSurface(t, i, w)
        \/ UnlistsInstance(t)
        \/ DestroysInstance(t)
        \/ CreatesSurface(t)
        \/ ListsSurface(t)
        \/ \E s \in Surfaces : DestroySurface(t, s)
        \/ UnlistsSurface(t)
        \/ DestroysSurface(t)
    \/ \E i \in Instances : CreateDevice(i) \/ DestroyDevice(i)
    \/ \E s \in Surfaces : CreateSwapchain(s) \/ DestroySwapchain(s)

InstSpec == InstInit /\ [][InstNext]_instVars

-----------------------------------------------------------------------------
(***************************************************************************)
(* Properties                                                              *)
(***************************************************************************)

\* However the calls of several threads interleave and the driver uses
\* handles again, the list has one node for each instance that the game has,
\* and none for one that is gone: get_inst_data, whose result every function
\* follows unchecked, finds the instance's own data.
InstancesAreKnown ==
    /\ \A i \in live : OwnsInstance(i) => Has(instances, i)
    /\ \A n \in DOMAIN instances :
        /\ instances[n].obj \in live
        /\ \A m \in DOMAIN instances : instances[m].obj = instances[n].obj => m = n

\* The device that looks up a window is never one of an instance whose list of
\* surfaces nobody initialised: that memory is what malloc returned.
ListsAreReady ==
    \A i \in Instances : device[i] = "valid" => Has(instances, i) /\ IData(i).ready

\* A surface that the layer has noted is found with the window it was made
\* for, one that it could not note is not found, and so a swapchain tells OBS
\* the window it is shown in or none, also when the handle had another window.
WindowIsItsOwn ==
    \A s \in Surfaces :
        LET i == surface[s].inst
        IN  OwnsSurface(s) =>
            /\ Has(instances, i)
            /\ IData(i).valid =>
                   WinidOf(i, s) = IF surface[s].listed THEN surface[s].window ELSE NoWindow
            /\ swapchain[s] \in {surface[s].window, NoWindow, NoSwapchain}
============================================================================
