------------------------------ MODULE VkLayer ------------------------------
(***************************************************************************)
(* The Vulkan layer inside a game, src/vklayer.c: devices, swapchains, the *)
(* exported image with its memory and descriptors, and the ring of frames  *)
(* whose command buffers copy a presented image into it. The GPU runs the  *)
(* copies and the display engine the presents, each queue in its order,    *)
(* while the game goes on.                                                 *)
(*                                                                         *)
(* One thread of the game calls the layer. What OBS asks of the game is    *)
(* arbitrary here (CaptureClient models the socket).                       *)
(***************************************************************************)
EXTENDS Naturals, Sequences, FiniteSetsExt

CONSTANTS
    Devices, Queues, Swaps, \* handles
    DeviceOf,               \* the device a queue or swapchain is of
    Exports,                \* names of exported buffers
    MaxImages,              \* images of a swapchain
    NoQueue, NoSwap, NoExport

ASSUME DeviceOfAssumption == DeviceOf \in [Queues \cup Swaps -> Devices]
ASSUME MaxImagesAssumption == MaxImages \in Nat \ {0}
ASSUME NoneAssumption ==
    /\ NoQueue \notin Queues
    /\ NoSwap \notin Swaps
    /\ NoExport \notin Exports

VARIABLES
    capturing,  \* `data.capturing` of capture.c, one for the process
    dev,        \* struct vk_data
    swap,       \* the driver's swapchains and struct vk_swap_data
    ring,       \* struct vk_queue_data: its frames, and the next to use
    held,       \* what the driver and the kernel have given to the layer
    gpu,        \* copies submitted and not completed, per queue
    shown,      \* presents queued and not completed, per queue
    crashed     \* the layer has used a null pointer

vkVars == <<capturing, dev, swap, ring, held, gpu, shown, crashed>>

\* What an exported buffer is made of: export_image, export_mem, dmabuf_fds.
Parts == {"image", "memory", "fds"}

\* A present waits for a frame's semaphore, for the game's own ones only, for
\* one that no submission will signal, or for one that was destroyed.
Semaphores == Queues \X (1..MaxImages)
Own == <<"own">>
Never == <<"never">>
Destroyed == <<"destroyed">>
Waits == Semaphores \cup {Own, Never, Destroyed}

VkTypeOK ==
    /\ capturing \in BOOLEAN
    /\ dev \in [Devices -> [live : BOOLEAN, valid : BOOLEAN,
                            cur_swap : Swaps \cup {NoSwap},
                            graphics_queue : Queues \cup {NoQueue}]]
    /\ swap \in [Swaps -> [live : BOOLEAN, listed : BOOLEAN,
                           images : 0..MaxImages, valid_rect : BOOLEAN,
                           export : [Parts -> Exports \cup {NoExport}]]]
    /\ \A q \in Queues :
        /\ DOMAIN ring[q].busy \in {1..n : n \in 0..MaxImages}
        /\ \A f \in DOMAIN ring[q].busy : ring[q].busy[f] \in BOOLEAN
        /\ ring[q].next \in 1..MaxImages
        /\ \A i \in DOMAIN gpu[q] :
              gpu[q][i] \in [frame : 1..MaxImages, swap : Swaps, to : Exports]
        /\ \A i \in DOMAIN shown[q] :
              shown[q][i] \in [swap : Swaps, wait : Waits]
    /\ held \subseteq Parts \X Exports
    /\ crashed \in BOOLEAN

NoExports == [p \in Parts |-> NoExport]
NoFrames == [busy |-> <<>>, next |-> 1]
NewDevice ==
    [live |-> FALSE, valid |-> FALSE, cur_swap |-> NoSwap, graphics_queue |-> NoQueue]
NewSwap ==
    [live |-> FALSE, listed |-> FALSE, images |-> 0, valid_rect |-> FALSE,
     export |-> NoExports]

VkInit ==
    /\ capturing = FALSE
    /\ dev = [d \in Devices |-> NewDevice]
    /\ swap = [s \in Swaps |-> NewSwap]
    /\ ring = [q \in Queues |-> NoFrames]
    /\ held = {}
    /\ gpu = [q \in Queues |-> <<>>]
    /\ shown = [q \in Queues |-> <<>>]
    /\ crashed = FALSE

QueuesOf(d) == {q \in Queues : DeviceOf[q] = d}
ListedOn(x, d) == {s \in Swaps : DeviceOf[s] = d /\ x.swap[s].listed}

\* Presents of swapchain s that have not completed.
PendingOf(s) ==
    UNION {{<<q, i>> : i \in {j \in DOMAIN shown[q] : shown[q][j].swap = s}} : q \in Queues}

(***************************************************************************)
(* Handlers are written as functions of the state, a record of the         *)
(* variables, so that they compose as the calls do.                        *)
(***************************************************************************)

Now == [capturing |-> capturing, dev |-> dev, swap |-> swap, ring |-> ring,
        held |-> held, gpu |-> gpu, shown |-> shown]

Becomes(x) ==
    /\ capturing' = x.capturing
    /\ dev' = x.dev
    /\ swap' = x.swap
    /\ ring' = x.ring
    /\ held' = x.held
    /\ gpu' = x.gpu
    /\ shown' = x.shown
    /\ UNCHANGED crashed

-----------------------------------------------------------------------------
(***************************************************************************)
(* Frames                                                                  *)
(***************************************************************************)

BugForgetsFence(x, W) ==
    [x EXCEPT !.ring = [q \in Queues |-> [x.ring[q] EXCEPT
                 !.busy = [f \in DOMAIN @ |-> @[f] /\ <<q, f>> \notin W]]]]

\* vk_shtex_clear_fence and vk_shtex_destroy_fence for the frames W: wait for
\* those that are busy. A queue completes its work in the order submitted.
Waited(x, W) ==
    LET Due(q) == {i \in DOMAIN x.gpu[q] :
                     LET f == x.gpu[q][i].frame
                     IN  <<q, f>> \in W /\ x.ring[q].busy[f]}
        AfterDue(q) == SubSeq(x.gpu[q], Max(Due(q) \cup {0}) + 1, Len(x.gpu[q]))
    IN  [x EXCEPT !.gpu = [q \in Queues |-> AfterDue(q)],
                  !.ring = [q \in Queues |-> [x.ring[q] EXCEPT
                     !.busy = [f \in DOMAIN @ |-> @[f] /\ <<q, f>> \notin W]]]]

FramesOf(x, q) == {q} \X DOMAIN x.ring[q].busy

\* vk_shtex_destroy_frame_objects, for the queues Q.
FramesDestroyed(x, Q) ==
    LET y == Waited(x, UNION {FramesOf(x, q) : q \in Q})
        Gone(w) == w \in Semaphores /\ w[1] \in Q
    IN  [y EXCEPT !.ring = [q \in Queues |-> IF q \in Q THEN NoFrames ELSE @[q]],
                  !.shown = [q \in Queues |-> [i \in DOMAIN @[q] |->
                     IF Gone(@[q][i].wait) THEN [@[q][i] EXCEPT !.wait = Destroyed]
                     ELSE @[q][i]]]]

BugRingOfFixedSize(x, q, n) ==
    IF x.ring[q].busy # <<>> THEN x
    ELSE [x EXCEPT !.ring[q] = [busy |-> [f \in 1..n |-> FALSE], next |-> 1]]

\* The ring has a frame for each image: vk_shtex_create_frame_objects.
RingFor(x, q, n) ==
    IF Len(x.ring[q].busy) >= n THEN x
    ELSE [FramesDestroyed(x, {q}) EXCEPT
            !.ring[q] = [busy |-> [f \in 1..n |-> FALSE], next |-> 1]]

BugFrameAfter(f, n) == f + 1

\* Frames are used in turn.
FrameAfter(f, n) == (f % n) + 1

\* vk_shtex_capture on queue q: take the next frame, wait for its last copy,
\* record a new one and submit it. The present then waits for the frame's
\* semaphore whether or not the submission failed, unless the game gave more
\* semaphores than the layer has room for (MAX_PRESENT_SWAP_SEMAPHORE_COUNT).
Copied(x, q, s, submitted) ==
    LET r == RingFor(x, q, x.swap[s].images)
        f == r.ring[q].next
        y == Waited(r, {<<q, f>>})
        z == [y EXCEPT !.ring[q].next = FrameAfter(f, Len(y.ring[q].busy))]
        copy == [frame |-> f, swap |-> s, to |-> x.swap[s].export["image"]]
    IN  IF submitted THEN [z EXCEPT !.ring[q].busy[f] = TRUE,
                                    !.gpu[q] = Append(@, copy)]
        ELSE z

-----------------------------------------------------------------------------
(***************************************************************************)
(* The exported buffer                                                     *)
(***************************************************************************)

\* vk_shtex_free: wait for every queue of the device, then release what the
\* swapchains in its list export.
Freed(x, d) ==
    LET y == Waited(x, UNION {FramesOf(x, q) : q \in QueuesOf(d)})
        mine == ListedOn(y, d)
    IN  [y EXCEPT
           !.held = @ \ {<<p, y.swap[s].export[p]>> : p \in Parts, s \in mine},
           !.swap = [s \in Swaps |->
                       IF s \in mine THEN [@[s] EXCEPT !.export = NoExports] ELSE @[s]],
           !.dev[d].cur_swap = NoSwap,
           !.capturing = FALSE]

BugForgetsMemory(x, s, e, parts) ==
    [x EXCEPT
       !.held = @ \cup {<<p, e>> : p \in parts},
       !.swap[s].export = [p \in Parts |-> IF parts = Parts THEN e ELSE NoExport]]

\* vk_shtex_init_vulkan_tex got these parts of export e for swapchain s. Each
\* of its failures destroys the image; memory it got stays for vk_shtex_free.
Allocated(x, s, e, parts) ==
    [x EXCEPT
       !.held = @ \cup {<<p, e>> : p \in parts},
       !.swap[s].export = [p \in Parts |->
          IF p \in parts THEN e ELSE IF p = "image" THEN NoExport ELSE @[p]]]

AfterFailure == {{}, {"memory"}}

\* vk_shtex_init.
Exported(x, d, s, e) ==
    [Allocated(x, s, e, Parts) EXCEPT !.dev[d].cur_swap = s, !.capturing = TRUE]

Unused(x) == {e \in Exports : \A p \in Parts : <<p, e>> \notin x.held}

-----------------------------------------------------------------------------
(***************************************************************************)
(* OBS_QueuePresentKHR                                                     *)
(***************************************************************************)

\* The present goes on to the driver.
PassOn(x, q, s, wait) ==
    Becomes([x EXCEPT !.shown[q] = Append(@, [swap |-> s, wait |-> wait])])

Crash == crashed' = TRUE /\ UNCHANGED <<capturing, dev, swap, ring, held, gpu, shown>>

\* The copy, from queue c, of what is presented on queue q.
CopyAndPassOn(x, c, q, s) ==
    \E submitted \in BOOLEAN :
        LET y == Copied(x, c, s, submitted)
            frame == <<c, RingFor(x, c, x.swap[s].images).ring[c].next>>
        IN  \/ PassOn(y, q, s, IF submitted THEN frame ELSE Never)
            \/ PassOn(y, q, s, Own)

\* capture_should_init: this device starts to capture swapchain s.
Start(x, d, c, q, s) ==
    \/ ~x.swap[s].listed /\ Crash     \* valid_rect of a null swap
    \/ /\ x.swap[s].listed
       /\ ~x.swap[s].valid_rect
       /\ PassOn(x, q, s, Own)
    \/ /\ x.swap[s].listed
       /\ x.swap[s].valid_rect
       /\ \E e \in Unused(x) :
            \/ CopyAndPassOn(Exported(x, d, s, e), c, q, s)
            \/ \E parts \in AfterFailure :
                 PassOn([Freed(Allocated(x, s, e, parts), d) EXCEPT !.dev[d].valid = FALSE],
                        q, s, Own)

\* capture_ready: the swapchain that is captured, or another one.
Continue(x, d, c, q, s) ==
    LET found == IF x.swap[s].listed THEN s ELSE NoSwap IN
    \/ found # x.dev[d].cur_swap /\ PassOn(Freed(x, d), q, s, Own)
    \/ found = x.dev[d].cur_swap /\ found = NoSwap /\ Crash
    \/ /\ found = x.dev[d].cur_swap
       /\ found # NoSwap
       /\ CopyAndPassOn(x, c, q, s)

\* vk_capture, when OBS wants a capture or not, made as the present one or
\* anew.
Capture(d, q, s, wanted, anew) ==
    LET x == IF capturing /\ (~wanted \/ anew) THEN Freed(Now, d) ELSE Now
        c == IF dev[d].graphics_queue # NoQueue THEN dev[d].graphics_queue ELSE q
    IN  \/ ~x.capturing /\ wanted /\ Start(x, d, c, q, s)
        \/ ~x.capturing /\ ~wanted /\ PassOn(x, q, s, Own)
        \/ x.capturing /\ Continue(x, d, c, q, s)

BugIgnoresValid(q, s) ==
    /\ swap[s].live
    /\ DeviceOf[s] = DeviceOf[q]
    /\ Cardinality(PendingOf(s)) < swap[s].images
    /\ \E wanted, anew \in BOOLEAN : Capture(DeviceOf[q], q, s, wanted, anew)

\* The game presents an image of s that it has acquired: one whose last
\* present has completed.
QueuePresent(q, s) ==
    LET d == DeviceOf[q] IN
    /\ swap[s].live
    /\ DeviceOf[s] = d
    /\ Cardinality(PendingOf(s)) < swap[s].images
    /\ \/ ~dev[d].valid /\ PassOn(Now, q, s, Own)
       \/ dev[d].valid /\ \E wanted, anew \in BOOLEAN : Capture(d, q, s, wanted, anew)

-----------------------------------------------------------------------------
(***************************************************************************)
(* Creation and destruction                                                *)
(***************************************************************************)

\* OBS_CreateDevice: a missing function or extension leaves it not valid. Its
\* last queue that can do graphics, if any, is to do the copies.
CreateDevice(d) ==
    /\ ~dev[d].live
    /\ \E valid \in BOOLEAN, g \in QueuesOf(d) \cup {NoQueue} :
         Becomes([Now EXCEPT
            !.dev[d] = [NewDevice EXCEPT !.live = TRUE, !.valid = valid,
                                         !.graphics_queue = g],
            !.ring = [q \in Queues |-> IF q \in QueuesOf(d) THEN NoFrames ELSE @[q]]])

\* OBS_DestroyDevice, when its swapchains are gone. The frames of a device
\* that is no longer valid are forgotten.
DestroyDevice(d) ==
    LET x == IF dev[d].valid THEN FramesDestroyed(Now, QueuesOf(d)) ELSE Now IN
    /\ dev[d].live
    /\ \A s \in Swaps : DeviceOf[s] = d => ~swap[s].live
    /\ Becomes([x EXCEPT !.dev[d] = NewDevice])

\* OBS_CreateSwapchainKHR: only a swapchain that the driver lets be copied
\* from gets an entry in the list.
CreateSwapchain(s) ==
    /\ dev[DeviceOf[s]].live
    /\ ~swap[s].live
    /\ \E listed, fits \in BOOLEAN, n \in 1..MaxImages :
         /\ listed => dev[DeviceOf[s]].valid
         /\ Becomes([Now EXCEPT !.swap[s] =
               [NewSwap EXCEPT !.live = TRUE, !.listed = listed, !.images = n,
                               !.valid_rect = fits]])

BugDestroysCaptured(s) ==
    /\ swap[s].live
    /\ PendingOf(s) = {}
    /\ Becomes([Now EXCEPT !.swap[s] = NewSwap])

\* OBS_DestroySwapchainKHR, when the presents of s have completed.
DestroySwapchain(s) ==
    LET d == DeviceOf[s]
        captured == dev[d].valid /\ swap[s].listed /\ dev[d].cur_swap = s
    IN  /\ swap[s].live
        /\ PendingOf(s) = {}
        /\ Becomes([(IF captured THEN Freed(Now, d) ELSE Now)
                      EXCEPT !.swap[s] = NewSwap])

-----------------------------------------------------------------------------
\* The GPU completes the oldest copy of a queue.
GpuStep(q) ==
    /\ gpu[q] # <<>>
    /\ gpu' = [gpu EXCEPT ![q] = Tail(@)]
    /\ UNCHANGED <<capturing, dev, swap, ring, held, shown, crashed>>

\* The display engine completes a queue's oldest present, once the semaphore
\* it waits for is signalled.
DisplayStep(q) ==
    /\ shown[q] # <<>>
    /\ LET w == Head(shown[q]).wait IN
       \/ w = Own
       \/ /\ w \in Semaphores
          /\ \A i \in DOMAIN gpu[w[1]] : gpu[w[1]][i].frame # w[2]
    /\ shown' = [shown EXCEPT ![q] = Tail(@)]
    /\ UNCHANGED <<capturing, dev, swap, ring, held, gpu, crashed>>

VkNext ==
    /\ ~crashed
    /\ \/ \E q \in Queues, s \in Swaps : QueuePresent(q, s)
       \/ \E d \in Devices : CreateDevice(d) \/ DestroyDevice(d)
       \/ \E s \in Swaps : CreateSwapchain(s) \/ DestroySwapchain(s)
       \/ \E q \in Queues : GpuStep(q) \/ DisplayStep(q)

VkSpec == VkInit /\ [][VkNext]_vkVars

-----------------------------------------------------------------------------
(***************************************************************************)
(* Properties                                                              *)
(***************************************************************************)

\* A frame's command pool is reset or destroyed only when the GPU is done with
\* it: no frame has two copies under way, and each copy under way belongs to
\* a frame that exists and whose fence will be waited for (vk_shtex_capture,
\* vk_shtex_destroy_frame_objects).
FramesInFlight ==
    \A q \in Queues : \A i, j \in DOMAIN gpu[q] :
        /\ gpu[q][i].frame \in DOMAIN ring[q].busy
        /\ ring[q].busy[gpu[q][i].frame]
        /\ gpu[q][i].frame = gpu[q][j].frame => i = j

\* The GPU never reads a swapchain that is gone, nor writes into an image that
\* has been destroyed or is another swapchain's (vk_shtex_free waits first,
\* and destroying the captured swapchain frees first).
CopiesHaveTargets ==
    \A q \in Queues : \A i \in DOMAIN gpu[q] :
        LET copy == gpu[q][i] IN
        /\ swap[copy.swap].listed
        /\ <<"image", copy.to>> \in held
        /\ dev[DeviceOf[q]].cur_swap = copy.swap
        /\ swap[copy.swap].export["image"] = copy.to

\* The process holds an exported image, memory and descriptors exactly while
\* it captures, and then those of cur_swap: nothing is leaked by a failed
\* start or by a swapchain or device that goes away. (For one device;
\* `capturing` is shared by all.)
NothingLeaks ==
    /\ ~capturing => held = {}
    /\ capturing =>
          \E d \in Devices, e \in Exports :
             /\ dev[d].cur_swap # NoSwap
             /\ swap[dev[d].cur_swap].listed
             /\ swap[dev[d].cur_swap].export = [p \in Parts |-> e]
             /\ held = Parts \X {e}

\* A frame's semaphore is signalled again or destroyed only after the present
\* that waits for it has completed: the ring has a frame for every image, and
\* a present needs an image whose last present has completed. (For one
\* swapchain at a time and one queue to present on.)
SemaphoresReady ==
    \A q \in Queues : \A i, j \in DOMAIN shown[q] :
        /\ shown[q][i].wait # Destroyed
        /\ shown[q][i].wait \in Semaphores =>
              (shown[q][i].wait = shown[q][j].wait => i = j)

\* As seen from capture.c the layer is a hook, as long as the game has one
\* device: CaptureHook, with the buffer of the captured swapchain.
ExportedBuffer ==
    LET captured == {d \in Devices : dev[d].cur_swap # NoSwap} IN
    IF captured = {} THEN NoExport
    ELSE swap[dev[CHOOSE d \in captured : TRUE].cur_swap].export["image"]

Hook == INSTANCE CaptureHook WITH
    Buffers <- Exports, NoBuffer <- NoExport, buffer <- ExportedBuffer,
    valid <- \E d \in Devices : dev[d].valid

IsAHook == Hook!HookSpec
============================================================================
