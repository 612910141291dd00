# A TLA+ model of obs-vkcapture

obs-vkcapture captures games in OBS on Linux. A Vulkan layer or an OpenGL
hook inside the game exports a GPU buffer; the OBS plugin imports it as a
texture. The two talk over one abstract Unix socket. This directory models the
protocol between them, both hooks, and the plugin's Wayland cursor, checks the
models with TLC and proves part of them with TLAPS.
Paths below are relative to the repository's `src/`.

## Inventory

| Component | State | Operations | Talks to |
|---|---|---|---|
| Protocol (`capture.h`) | messages in sockets | client data, texture data with descriptors, control data | both sides |
| Client library (`capture.c`) | static `data`: socket, `accepted`, `capturing`, allocation flags, `need_reinit` | `capture_update_socket`, `capture_init_shtex`, `capture_stop`, the three questions | the hooks call it on every present |
| Vulkan layer (`vklayer.c`) | lists of instances, devices, queues, swapchains, surfaces; `cur_swap`; export image; ring of frames with fences | present, create/destroy of swapchains, devices, instances | the application's threads, the driver, the client library |
| OpenGL hook (`glinject.c`) | one capture for the process; its own Vulkan device | swap buffers, destroy context | as above |
| Interposition (`dlsym.c`, `elfhacks.c`) | ELF tables of loaded objects | symbol lookup | the dynamic loader |
| Plugin, server thread (`vkcapture.c`) | `server.clients`, `server.fds`, `server.quit`, the eventfd; `bufid`, `clientid` | poll, accept, receive, clean up, shut down | games by socket, ticks by `server.mutex` and eventfd |
| Plugin, sources (`vkcapture.c`) | `vkcapture_source_t`: window setting, `client_id`, `buf_id`, texture | create, update, tick, render, destroy | clients under `server.mutex`; OBS's graphics and UI threads |
| Wayland cursor (`wlcursor.c`) | a list of outputs, each with a screencopy session, its buffer, and what it knows of the pointer | creation and end with the sources, events, render | the compositor; sources of the plugin |
| X11 cursor (`xcursor-xcb.c`) | the last cursor image | render | X server |

What is hard here:

- three kinds of threads in OBS (server thread, graphics thread, UI) and one
  presenting thread per game share clients, sources and sockets;
- a texture message is stored in two critical sections with a check outside
  the lock between them, and ticks may activate, deactivate or import in
  between;
- control messages are read one per second, so a game runs behind the plugin;
- buffers are renegotiated: every failed import asks for the next way to
  allocate; every activation forgets the buffer;
- games end at any time, clients are dropped for silence, OBS is unloaded;
- a game calls the Vulkan layer from several threads, and the driver hands out
  a handle again as soon as it is free;
- outputs are plugged, switched off and fail while their events wait, since
  events are only handled when a source is rendered;
- the loop over the clients erases while it iterates.

What makes the components correct:

- *client library*: what it believes is what it last read on its present
  connection; it exports only when asked, with the flags last asked for; it
  rebuilds for changed flags only; it lets go of a closed connection;
- *server thread*: a client that hangs up is removed; descriptors are neither
  leaked nor closed twice; unloading ends the thread;
- *sources*: a client's count covers the sources that show it; each change of
  the plugin's wishes is sent; a texture up to date by number is up to date in
  fact; a source lets go of a client that is gone, and a silent client is
  disconnected (the last one does not hold, see below);
- *instances and surfaces*: each is in its list while the game has it and no
  longer, so that a window id is never another surface's;
- *Wayland cursor*: every output is captured once; at rest the plugin draws the
  pointer that there is, where it is;
- *together*: once nothing is in flight both sides agree on capturing, flags
  and buffer, and buffers and stop orders arrive.

`PROJECT.json` lists the hazards line by line with the properties that cover
them.

## Modules

| Module | Models |
|---|---|
| `CaptureProtocol` | the sockets: connections, queues, both ends, what a send or a close does; the messages |
| `CaptureClient` | `capture.c`, driven by the hook's present call (`vk_capture`, `gl_capture`); open system against any server |
| `CaptureServer` | the plugin: server thread and sources; open system against any games |
| `CaptureSystem` | the two joined by the sockets |
| `CaptureHook` | what `CaptureClient` assumes of a hook, as a specification |
| `VkLayer` | the Vulkan layer with the GPU and the display engine; implements `CaptureHook` |
| `VkInstance` | the Vulkan layer's lists of instances and surfaces, under calls from several threads |
| `GlHook` | the OpenGL hook; implements `CaptureHook` |
| `WlCursor` | the Wayland cursor, against a compositor that speaks `ext-screencopy-v1` |
| `MCCaptureClient`, `MCCaptureServer`, `MCCaptureSystem`, `MCVkLayer`, `MCVkInstance`, `MCGlHook`, `MCWlCursor` | constants and symmetries for TLC |
| `CaptureProtocol_proofs`, `CaptureClient_proofs`, `CaptureServer_proofs`, `CaptureSystem_proofs`, `GlHook_proofs`, `VkLayer_proofs`, `VkInstance_proofs`, `WlCursor_proofs` | theorems |

Operators whose names start with `Bug` are not part of the model: each is a
plausible mistake in the definition below it, which the property it is paired
with in `PROJECT.json` must detect.

### Correspondence

*Sockets.* A connection is its place in the order of `connect()` calls; the
listen queue is FIFO, so this is also the plugin's `++clientid`. Each message
is one write and one read of one size, so a stream is a sequence of messages.
`SockBuf` bounds a queue; a send that finds it full is dropped, as in the code
(which logs it), and noted in the history variable `lost`. `told` is the last
control message a game read, also history.

*Game.* `game[g]` is `data` of `capture.c` plus the hook's buffer and the flags
it was made with. One action is one present call: `PresentIdle` (less than a
second since the last look, or nothing there), `PresentConnect`,
`PresentControl`, `PresentEof`; each then runs the rest of `vk_capture`
(`Capture`): stop, start (which may fail, or wait for a real window size), or
drop because another swapchain is presented. A control message that arrives
between `connect()` and the `recv()` of the same call is read by a
`PresentControl` step of its own. `FreeCapture` is the end of the captured
swapchain or context, `NewDevice` a hook that works again; `Exit` the end of
the process.

*Server thread.* `pc` and `cur` are its place in `server_thread_run`. A step
is a critical section, or what lies between two of them. `ready` is what the
last `poll()` reported; the entry of a client accepted in the same round has an
uninitialized `revents`, so it may or may not be ready. `room` is
`msg_controllen` as `recvmsg()` leaves it for the next call. The array of
clients is always sorted by id, so a set of ids stands for it, and stepping over
an element after an erase is `AfterErase`.

*Sources.* A tick holds the lock throughout, so each of its branches is one
action. A texture is the pair of the description and the descriptors it was
made from; a buffer number stands for either. An import may fail at any time
and fails without description or descriptors. Creation, settings and
destruction come from the UI without the lock. `Expire` is the passing of the
five seconds.

*Vulkan layer.* `dev`, `swap` and `ring` are the lists of `vklayer.c`, `held`
is what the driver and the kernel have handed out. A call of the layer is one
action, composed of functions of the state as the C functions call each other
(`Waited`, `RingFor`, `Copied`, `Freed`, `Allocated`). Copies that are
submitted (`gpu`) and presents that are queued (`shown`) complete later, each
queue in its order; `WaitForFences` completes the copies it waits for. A
present waits for a frame's semaphore, for the game's own (`Own`), for one that
a failed submission left unsignalled (`Never`), or for one that is gone
(`Destroyed`). The game presents images that it has acquired and destroys
swapchains whose presents have completed. What OBS wants (`wanted`, `anew`) is
arbitrary on each present; `CaptureClient` says where it comes from, and
`IsAHook` that the layer is a hook of the kind it assumes.

*Instances and surfaces.* A call of the game is a list of steps, `todo`, each a
call of the driver or one operation of a list, which the code does under that
list's mutex; other threads run between two of them. `instances` is the list,
newest first; an instance's node holds its list of surfaces, `ready` says
whether the code has initialised that one. `live` and `surface` are what the
driver has: a handle is free for reuse in the step that destroys it. The game
keeps to Vulkan's rules: it does not destroy a handle that another call uses,
nor one to which something still belongs. Devices and swapchains
are here only to read the lists; `VkLayer` has the rest of them. A swapchain is
the window id it was given. An instance is invalid when its first attempt
failed or a function is missing; a surface may be made by a function the layer
does not hook, or be left out of the list for want of memory.

*Wayland cursor.* `outputs` and `data` are `wlcursor->outputs` and the
`output_data` they point to; `buffer` stands for the buffer and its memory, and
`texture` for the texture, which `gs_texture_create` may not return. `events` is the connection's queue, which
`cursor_update` takes from when a source is rendered: `Dispatch`, one action for
each handler. libwayland hands no event of a destroyed session to a handler:
what was sent for it stays on the wire (`Unheard`) and is skipped
(`SkipDropped`). A request takes effect at once; a late one is a compositor that
acts late. `stage`, `told` and `image` are the compositor's side of a session,
which follows the protocol's text, quoted where it decides something. The
thread that destroys sources takes the cursor down without a lock, one step at a
time: it asks whether that was the last source, frees `wlcursor`, clears the
pointer, closes the connection, clears that pointer (`ending` says how far it
is). A source may be created from the UI, or rendered, between any two of them.
`severed` says that `wlcursor` was made on a connection that has been closed
since, `abandoned` that a registry still has a listener whose data was freed,
by this thread or by a `wl_cursor_init` that failed. What uses either
may crash (`crashed`), which ends the behaviour. `cursor_create` is one action:
it looks at both pointers once, and cut in two it would leave what it leaves
when it runs wholly before or after the thread's next step.

*OpenGL hook.* A swap is one action, `Capture`, composed as `gl_capture`
composes its functions; `Started` is the set of states that `gl_init` can end
in, one for each step at which `gl_shtex_init` or `vulkan_shtex_init` may fail.
`has` are the handles in `data`, `alive` the objects they name. `usable` are the
APIs whose functions were resolved: the first call decides. `sizes` is what
`querySurface` finds.

## Runs

| Run | Question | Bounds |
|---|---|---|
| `client` | does a game keep to the last orders read, against a server that writes, closes and stops at will? | 1 game, 2 connections, 2 buffers, 2 messages queued |
| `server_sources` | is the game told every change, and does the count cover the sources? | 2 sources that take or leave 1 client, count up to 2 |
| `server_buffers` | can a stale or mixed texture be shown, a descriptor leak; are dead clients removed and left; does unloading end? | 2 clients, 2 buffers of 1 or 3 planes, 1 source |
| `system_take` | do buffers and stop orders arrive? | 1 game, 1 connection, 1 buffer, 1 source that changes its mind, 2 messages queued |
| `system_games` | do both sides agree once nothing is in flight, and is no old picture shown? | 2 games, 2 connections, 2 buffers, 2 messages queued, 1 source that takes the first game |
| `layer` | is anything freed, reset or destroyed while the GPU uses it, or leaked? | 1 device, 2 queues, 2 swapchains of up to 2 images |
| `layer_devices` | are frames and semaphores reused in time? | 2 devices, each 1 queue and 1 swapchain at a time of up to 2 images |
| `vk_instance` | is each instance and surface found under its handle, with its own window? | 2 threads, 2 instances, 3 surfaces, 2 windows |
| `wl_cursor` | is each output captured once, and the right pointer drawn at rest? | 2 outputs, 2 shapes of the pointer, 2 sources, compositor and user wait at 2 events |
| `gl_hook` | is anything left behind by a failed start, does a resized window keep its buffer? | 2 windows, sizes 0 to 2, 3 names for objects |
| `server_timeout` | is a captured client that sent nothing under the timeout? (violated) | 2 clients, 1 source |
| `server_disconnect` | is a client flagged unresponsive disconnected? (violated) | 2 clients, 1 source |

`vk_instance` and `wl_cursor` use symmetry: neither module tells one of its
handles, windows or threads, or one of its outputs or shapes, from another, and
they check invariants only. Three surfaces are one to remove from the front of
a list, one behind it, and one made meanwhile. `MaxEvents` bounds what the
compositor and the user do: a step of theirs is taken only while fewer events
wait, and may send several, so that each ordering of two steps' events is
reached. `vk_instance` and `gl_hook` also check deadlock, since the game can
always go on; `wl_cursor` does not, since the plugin may crash.

Two of everything is where these parts interact: two sources on one client, two
clients of one source, two clients next to each other in the array, two
connections of one game, two messages of different size in a row, a buffer and
its successor. Each property has a mutant that the same run must catch, so the
bounds are large enough for the mistake it is about. `MaxActivated` bounds a
count that leaks upwards (see the hazards); actions that would pass a bound
are disabled, which is why the other runs do not check deadlock: behaviours end
when connections and buffers are used up, or after unloading.

### What the violated runs show

*The five seconds can be switched off.* `destroy_texture` returns at once
when there is no texture (`vkcapture.c:296`), so a source whose import failed
keeps the number of that buffer. When its client goes away and it takes the
next one, whose `buf_id` is 0, the numbers differ, the tick "imports" an empty
description, counts a failure against the new client and sets
`client->timeout = 0` (504). That client may stay silent for ever, while the
comment says "5s timeout" (431).

*"not responding, disconnecting..." (510) may not disconnect.* The tick flags
a client and signals the eventfd. If the thread is just then cleaning up the
client before it, `i++` (840) steps over the flagged one after the erase (843),
although the wakeup has been read; the source has let go. Nothing wakes the
thread until another event, and the client stays.

### What the passing runs leave standing

Each of these is in the hazards and limits a property or a model:

- *Two devices.* `capturing` is one for the process. A present on a second
  device stops the capture of the first without freeing it, and the next start
  there overwrites its handles: `NothingLeaks` and `IsAHook` hold for one device.
- *Two swapchains, or presents on two queues.* A frame's semaphore may be
  signalled again, or destroyed with the ring, while a present of the other
  swapchain waits for it: `SemaphoresReady` holds for one of each.
- *The fallback swapchain* (`vklayer.c:1752`) has no entry in the list, and a
  present of it when OBS asks for a capture uses a null pointer (`Crash`).
- *A failed submission* leaves its present waiting for good (`Never`).
- *A lost texture.* When `gl_shtex_init` fails late it keeps its texture, and
  `vulkan_shtex_init` overwrites the handle: `NothingLeaks` of `GlHook` leaves
  textures out. The GL memory object of an import (`glinject.c:634`) is never
  deleted, and the opaque descriptor (624) stays open when the import fails
  (646); neither has a handle in `data`, and neither is in the model.
- *A source created while the last one goes.* If it comes before `wlcursor` is
  cleared (`vkcapture.c:213`), it uses one that is being freed, and later goes
  without a cursor. If it comes between that and the disconnect (216), it makes a
  `wlcursor` on the connection that is then closed: the next render calls
  `wl_display_get_fd(NULL)` (270), and if another source opens a connection
  before, `wlcursor` is not made again on it and hears nothing more. The model has
  these steps and ends with the crash. `OneSessionPerOutput` and `CursorAtRest` say
  nothing of a `severed` cursor; `CursorTornDown` holds across all of it, if the
  plugin lives.
- *A `wl_cursor_init` that fails* leaves its registry with a listener on freed
  memory (`wlcursor.c:335`); the model may crash when it is told of an output.
- *A failed session.* A session that fails for another reason than a disabled
  output is not made again, and an output without shared memory or texture is
  not tried again: `OneSessionPerOutput` leaves out the first, `CursorAtRest`
  all of them (`Lost`), until the output is plugged again.
- *A full socket.* A control message that does not fit is logged and forgotten
  (`vkcapture.c:427`), so the game's orders stay old. The properties of what a
  game is told leave such a connection out (`lost`).
- *A disabled hook.* After a capture that failed to start, a game keeps its
  connection and reads nothing from it (`vklayer.c:1252`) until it makes another
  device. The liveness properties leave it out.
- *A valid message without room.* After a message of one plane, one of three loses
  a descriptor and its client is dropped (`vkcapture.c:861`).
  `FdsAccountedFor` says that what did arrive is closed, not that the client stays.
- *One context.* `GlHook` has one context that is current in every call. With
  several, destroying any of them frees the capture of another.

## Fairness

`ServerFairness`: the server thread runs; OBS ticks a shown source every frame;
time passes (`Expire`). `ClientFairness`: a game that has something to read on
its socket keeps presenting and looks at the socket once a second. A hidden
source, a source's settings, exits, sends and connections are never required.
A game that stops presenting for good, with its process alive, is outside the
liveness properties of the composed system. `VkLayer` and `VkInstance` have
safety properties only, and so has `WlCursor`: the compositor answers when it
likes, and `CursorAtRest` says that where both sides have nothing left to do
they have done it. `GlFairness`: the game
keeps presenting each of its windows, while OBS need never change its mind.
Only `ResizeIsNoticed` needs it; it is what games do, not a promise of the hook.

## Proofs

The theorems hold for every number of games, connections, sources and
buffers and every positive queue length, and for every set of threads, handles
and windows, from the named assumptions in `CaptureProtocol`, `CaptureClient`,
`CaptureServer`, `GlHook`, `VkLayer`, `VkInstance` and `WlCursor` (which asks that there
be finitely many outputs: a roundtrip announces each of them).

`CaptureClient_proofs` proves, of `ClientOpenSpec`: `ClientOpenTypeOK`,
`OwnConnection`, `OrdersAreCurrent`, `CaptureFollowsOrders`. The inductive
invariant `ClientInv` is their conjunction with `UnusedConns` (connections not
made yet are untouched): a new connection must start with nothing told, and
one game's reads must not change what another was told. Every present call is
reduced to one lemma: the socket step leaves a record that is consistent with
the sockets (`Consistent`), the rest of the call follows from it (`Follows`),
and these two imply the invariant (`GameStep`). It also proves the action
property `RebuildOnlyOnChange`. That needs one more invariant, `BuffersInUse`: a
buffer in use belongs to a capture that runs, and between calls `need_reinit` is
not set on one that runs, since the call that set it has stopped the capture.
`CaptureRebuilds` then says that a present call makes another buffer only where
nothing was captured or this call has set `need_reinit`.

`CaptureServer_proofs` proves, of `ServerOpenSpec`: `ServerOpenTypeOK`,
`ControlAgreement`, `FdsAccountedFor`, `UpToDateTexture` and
`ActivatedCoversSources`. `ServerInv` adds to the first two `AcceptedOnly`
(clients are accepted connections; those not accepted have been told nothing)
and `ThreadAt` (the thread is at a client of the list). Steps that write nothing
are covered by `UndisturbedAgreement`, those that write by `WriteKeeps` and
`ActivateKeeps`. `BuffersInv` builds on it for the other three: a texture's
descriptors are on one wire or held by one client (`WireOnce`, `HeldOnce`),
numbers of buffers only grow, so a number a source remembers cannot come to
name another buffer (`Numbered`), and a source's number and texture fit its
client's (`SourcesFit`). The counts need that only finitely many sources show a
client (`FewAttached`), which is an invariant and not an assumption on
`Sources`: each step adds one.

`CaptureSystem_proofs` proves, of the composed `Spec`: `TypeOK`, `OwnConnection`,
`SettledAgreement` and `NoStalePicture`. Each side was proved against an
arbitrary peer; `PluginIsAServer` and `GamesAreGames` show that the other side is
such a peer, so the invariants of both hold of the composition too. The first is
not obvious: the arbitrary server writes and closes only on connections that are
open at its end, so it needs that the plugin's end of a client, and of one waiting
to be accepted, is open until the plugin drops it (`OpenEnds`). `SystemInv` joins
these with what is on the wire between the two, `BuffersArrive`: the buffer a
game exports is the last one on its connection or has arrived, in the message
the thread holds or in the client. This stops being so when the plugin forgets
the buffer, so it is only claimed while no stop is on its way to the game
(`Asked`): `activate_client` forgets the buffer and writes a control message,
and `FlipStops` says that a stop is then in the queue, or a message was lost
there. A buffer that is sent takes the place of the last, one that is read moves
from the wire to the thread (`ReadKeepsLast`). With empty
queues `SettledAgreement` follows, and with `UpToDateTexture` also
`NoStalePicture`.

`GlHook_proofs` proves, of `GlSpec` and for every set of windows and names:
`GlTypeOK`, `NothingLeaks`, and that the OpenGL hook implements `CaptureHook`
(`IsAHook`). The invariant `GlInv` says that a capture between calls is `Sound`:
what exists has a handle, there are handles only while it runs, then there is a
buffer; and nothing runs before `gl_init_funcs`. Soundness is followed through
the functions that `gl_capture` is composed of (`FreedSound`, `MadeSound`,
`StartedSound`, `ContinuedSound`). Within a call it does not hold, so
`StartedSound` carries the weaker fact that what exists has a handle from one
step of an allocation to the next.

`VkInstance_proofs` proves all four properties of `InstSpec`: `InstTypeOK`,
`InstancesAreKnown`, `ListsAreReady`, `WindowIsItsOwn`. The lemmas on lists
(`IndexIsUnique`, `GetFinds`, `AddAdds`, `RemoveRemoves`, `ReplaceReplaces`) say
what one critical section does to a list in which no handle occurs twice. The
invariant `InstInv` says, for each step a call may be at, what the lists and the
driver hold for its handle: `CallsOK` (a call that has created an instance and
not listed it has it to itself; one that has unlisted it, too), `CallsApart` (no
two calls work on one handle), `ListsOK` and `NotesOK` (what is in a list is
what the driver has, once), `NotedIsFound`, `SurfacesOK`, `DevicesOK` (what
belongs to an instance keeps it alive and listed), `SeenOK` (nothing is listed
before the lists are initialised, so that this cannot empty them). Without
`CallsOK` nothing excludes that a handle used again is forgotten in place of the
old one, which is the point of the order "forget, then destroy".

`WlCursor_proofs` proves all five properties of `WlSpec`: `WlTypeOK`,
`OneSessionPerOutput`, `PictureIsCurrent`, `CursorAtRest`, `CursorTornDown`.
What is drawn, and whether it is current, is claimed only when nothing is on the
wire; the invariant `WlInv` says what holds while something is. While `wlcursor`
is on the connection it was made on (`severed` is the other case, in which the
compositor keeps nothing of it: `NothingLeft`), for each output it relates the plugin's data, the
compositor's side of the session and the events of that output on the wire, in
their order (`OutputInv`): which events may wait at which stage (`StagePart`,
`DescribedPart`, `CopiedPart`), that the last one about the pointer is what the
compositor told (`ToldPart`), and that each `cursor_info` is about the image in
the buffer and has its `ready` behind it, so that the texture takes the image
that was described, if there is a texture (`Shown`, `ImagePart`). `Connected` says
for each step of the teardown which of the two pointers is set, and that events
wait for an output only while `wlcursor` is registered. `TailTakes`, `SendAdds` and `UnheardDrops` say
what taking, sending and dropping do to a wire, `...Keeps` what each handler and
each step of a session does to one output, and `OneOutput` that the others stay
as they are: each of these facts depends only on the events of one output
(`Kept`).

`VkLayer_proofs` proves all six properties of `VkSpec`. The handlers of
`VkLayer` are functions of the state, so its lemmas are about any state, and
follow the calls from the inside out: what waiting for some frames leaves of the
copies (`WaitedIs`, `WaitedSettles`), a ring that is destroyed or made bigger
(`DestroyedSettles`, `RingForIs`), a copy (`CopiedIs`), the buffer (`FreedIs`,
`AllocatedIs`), and then each function of the game's. A present is reduced to one
statement (`PresentMade`): it frees, or starts, or starts and fails, and is then
passed on, with a copy only of the captured swapchain; each invariant follows
from that. There are three invariants, each with the hypothesis it needs:

- `VkInv` (`Sound`), for any devices, gives `VkTypeOK` and `FramesInFlight`. It
  adds that a device which is not valid has no copies under way, since
  `OBS_DestroyDevice` then waits for none; that the captured swapchain is in
  the list of its device, with an image; and that a ring's turn is one of its
  frames.
- `Whole`, for one device, gives `CopiesHaveTargets`, `NothingLeaks` and
  `IsAHook`: what is held is all of one export, that of the captured swapchain,
  and every copy goes there. Nothing less is inductive: `vk_shtex_free` releases
  what the list of swapchains names, so all that is held must be named there.
  The proof needs one device as the properties do, because `capturing` is
  shared (see above).
- `AllTurns`, for one queue and one swapchain at a time on each device
  (`OneEach`), gives `SemaphoresReady`. A frame's age is the number of frames
  taken since it; a present that waits for a frame has fewer presents behind it
  than that age. A present is made only while fewer are under way than the
  swapchain has images, and the ring has at least as many frames, so the frame
  whose turn it is has no present waiting for it, and a ring that must grow has
  none at all. With a second swapchain or queue this count fails, and so does
  the property.

Only model-checked: the liveness properties (`ClosedIsNoticed`,
`HungUpIsRemoved`, `GoneIsNoticed`, `UnloadEnds`, `BufferReachesObs`,
`StopReachesGame`, `ResizeIsNoticed`), for which the prover has no rules. Every
invariant and every action property that a passing run checks is proved.

## Plan

What is left:

1. The safety half of the liveness properties as theorems: what a step may not
   undo on the way to the goal (a client that has hung up is not listed again,
   a stopped game does not start without a new order, the list only shrinks once
   `quit` has been read).
2. The hazards without a property, each with its reason in `PROJECT.json`. A
   model of several contexts in `GlHook`, and of rendering next to the import of
   host-mapped buffers, would cover most of them.

## Not modelled

- Sizes, formats, modifiers and colour spaces: data no property tells apart.
- `bind()` failing because another OBS runs: the thread ends at once.
- Rendering and host-mapped buffers: a mapping is made only after three failed
  imports of one client. `render()` uses it after it has released the lock
  (`vkcapture.c:547`), and another import overwrites it (`vkcapture.c:469`).
- Several contexts in `GlHook`; its GL memory object, and the opaque descriptor
  that a failed import leaves open.
- The tables of functions of the Vulkan layer (`OBS_GetInstanceProcAddr`,
  `OBS_GetDeviceProcAddr`), the arguments of `vkCreateInstance` and
  `vkCreateDevice`, allocation callbacks.
- Where and how turned the pointer is drawn.
- Symbol interposition (`dlsym.c`, `elfhacks.c`): sequential walks of tables in
  the loader's memory. They keep no state, and a model of a hash table with its
  search would restate the search.
- The X11 cursor, which turns one reply into a texture; scripts, packaging and
  translations.
