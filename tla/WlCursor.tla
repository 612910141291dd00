------------------------------ MODULE WlCursor ------------------------------
(***************************************************************************)
(* The pointer that the plugin draws over a game on Wayland: wlcursor.c,   *)
(* with cursor_create, cursor_update and cursor_destroy of vkcapture.c,    *)
(* against a compositor that speaks ext-screencopy-v1.xml.                 *)
(*                                                                         *)
(* The connection is the plugin's own. Its events wait on the wire until a *)
(* source that shows the cursor is rendered; each handler is one action.   *)
(* A request takes effect at the compositor at once: that it may arrive    *)
(* late is the compositor acting late. libwayland hands no event of an     *)
(* object that the client has destroyed to a handler: what was sent for a  *)
(* destroyed session stays on the wire and is skipped.                     *)
(*                                                                         *)
(* Nothing locks wlcursor and wl_display: the thread that destroys the     *)
(* last source takes them down one step at a time, and a source that is    *)
(* created meanwhile, or rendered, finds what that thread has left so far. *)
(* What is freed or closed and still used ends in crashed, or goes well.   *)
(***************************************************************************)
EXTENDS Integers, Sequences, FiniteSets, SequencesExt

CONSTANTS
    Outputs,    \* names of wl_output globals; one is used again once the
                \* plugin has forgotten it
    NoOutput,
    Shapes,     \* images of the pointer, with their hotspots
    Blank,      \* what new memory shows
    MaxSources, \* bound: sources at a time
    MaxEvents   \* bound: compositor and user do nothing while so many events wait

ASSUME OutputsAssumption == IsFiniteSet(Outputs)
ASSUME NoOutputAssumption == NoOutput \notin Outputs
ASSUME BlankAssumption == Blank \notin Shapes
ASSUME BoundsAssumption == MaxSources \in Nat \ {0} /\ MaxEvents \in Nat \ {0}

VARIABLES
    instances, \* source_instances
    ending,    \* how far the thread that destroys sources has torn down
    display,   \* wl_display is set
    wlcursor,  \* wlcursor is set
    severed,   \* wlcursor was made on a connection that has been closed since
    abandoned, \* the connection has a registry whose wl_cursor_t was freed
    crashed,   \* the plugin has used what is gone, and OBS with it
    outputs,   \* wlcursor->outputs
    data,      \* data[o]: its output_data
    events,    \* what the compositor has sent on the connection
    supports,  \* the compositor has wl_shm and ext_screencopy_manager_v1
    present,   \* outputs there are
    enabled,   \* outputs that are switched on
    pointer,   \* the output that the pointer is on
    shape,     \* what the pointer looks like
    stage,     \* stage[o]: the compositor's side of o's session
    told,      \* told[o]: the compositor has said that the pointer is on o
    image      \* image[o]: what is in the shared memory of o's buffer

sourceVars == <<instances, ending>>
userVars == <<supports, present, enabled, pointer, shape>>
sessionVars == <<stage, told, image>>
cursorVars == <<display, wlcursor, severed, abandoned, crashed>>
wlVars == <<sourceVars, cursorVars, outputs, data, events, userVars, sessionVars>>

Images == Shapes \cup {Blank}

\* buffer stands for buffer and buffer_data; texture says that there is a tex,
\* tex what it shows; hot is the image that pos_x, pos_y, hotspot_x and
\* hotspot_y were sent for.
OutputData ==
    [session : BOOLEAN, buffer : BOOLEAN, texture : BOOLEAN, tex : Images,
     hot : Images, damaged : BOOLEAN, have_cursor : BOOLEAN]

NewOutput ==
    [session |-> FALSE, buffer |-> FALSE, texture |-> FALSE, tex |-> Blank,
     hot |-> Blank, damaged |-> FALSE, have_cursor |-> FALSE]

Known == {outputs[i] : i \in DOMAIN outputs}

\* "waiting" for a copy that was committed, "copied" and not committed again,
\* failed because the output was "off", or "failed" for another reason.
Live == {"new", "described", "waiting", "copied"}
Stages == Live \cup {"none", "off", "failed"}

GlobalKinds == {"global", "global_remove"}
SessionKinds ==
    {"dmabuf_info", "shm_info", "init_done", "enter", "leave", "cursor_info",
     "cursor_info_damaged", "ready", "failed_disabled", "failed"}

Event(o, k) == [out |-> o, kind |-> k, hot |-> Blank]
CursorInfo(o, k, s) == [out |-> o, kind |-> k, hot |-> s]
Events == [out : Outputs, kind : GlobalKinds \cup SessionKinds, hot : Images]

\* An event of a session that has been destroyed since.
Dropped == [out |-> NoOutput, kind |-> "dropped", hot |-> Blank]

\* An event of a registry whose listener was given a wl_cursor_t that has been
\* freed: no registry is ever destroyed.
Abandoned == [out |-> NoOutput, kind |-> "abandoned", hot |-> Blank]

\* Where cursor_destroy is: not in it, past the question whether this was the
\* last source, past wl_cursor_destroy, past "wlcursor = NULL", and past
\* wl_display_disconnect.
Endings == {"no", "asked", "freed", "unset", "closed"}

WlTypeOK ==
    /\ instances \in 0..MaxSources
    /\ ending \in Endings
    /\ display \in BOOLEAN /\ wlcursor \in BOOLEAN
    /\ severed \in BOOLEAN /\ abandoned \in BOOLEAN /\ crashed \in BOOLEAN
    /\ outputs \in Seq(Outputs) /\ IsInjective(outputs)
    /\ data \in [Outputs -> OutputData]
    /\ events \in Seq(Events \cup {Dropped, Abandoned})
    /\ supports \in BOOLEAN
    /\ present \subseteq Outputs /\ enabled \subseteq present
    /\ pointer \in enabled \cup {NoOutput}
    /\ shape \in Shapes
    /\ stage \in [Outputs -> Stages]
    /\ told \in [Outputs -> BOOLEAN]
    /\ image \in [Outputs -> Images]

WlInit ==
    /\ instances = 0 /\ ending = "no"
    /\ display = FALSE /\ wlcursor = FALSE
    /\ severed = FALSE /\ abandoned = FALSE /\ crashed = FALSE
    /\ outputs = <<>> /\ data = [o \in Outputs |-> NewOutput]
    /\ events = <<>>
    /\ supports \in BOOLEAN
    /\ present \in SUBSET Outputs /\ enabled = present
    /\ pointer = NoOutput /\ shape \in Shapes
    /\ stage = [o \in Outputs |-> "none"]
    /\ told = [o \in Outputs |-> FALSE]
    /\ image = [o \in Outputs |-> Blank]

-----------------------------------------------------------------------------
(***************************************************************************)
(* Functions of an output's data                                           *)
(***************************************************************************)

BugKeepsCursor(d) == [NewOutput EXCEPT !.hot = d.hot, !.have_cursor = d.have_cursor]

\* output_data_reset: everything but the position goes.
Reset(d) == [NewOutput EXCEPT !.hot = d.hot]

\* capture_output, once there is a screencopy manager.
Captured(d) == [d EXCEPT !.session = TRUE]

\* What is on the wire when o's session has been destroyed.
Unheard(o, es) ==
    [i \in DOMAIN es |->
        IF es[i].out = o /\ es[i].kind \in SessionKinds THEN Dropped ELSE es[i]]

\* The compositor's side of a session for each output in os, as it is made.
NewSessions(os) ==
    /\ stage' = [o \in Outputs |-> IF o \in os THEN "new" ELSE stage[o]]
    /\ told' = [o \in Outputs |-> o \notin os /\ told[o]]
    /\ image' = [o \in Outputs |-> IF o \in os THEN Blank ELSE image[o]]

\* The same when it has been destroyed.
NoSession(o) ==
    /\ stage' = [stage EXCEPT ![o] = "none"]
    /\ told' = [told EXCEPT ![o] = FALSE]
    /\ image' = [image EXCEPT ![o] = Blank]

-----------------------------------------------------------------------------
(***************************************************************************)
(* The plugin: sources come from the UI and go in a thread of their own    *)
(***************************************************************************)

\* handle_global for the outputs that a roundtrip reports, in this order, the
\* screencopy manager being announced after the first k of them.
Announced(order, k) ==
    [o \in Outputs |->
        IF \E i \in DOMAIN order : i > k /\ order[i] = o
        THEN Captured(NewOutput) ELSE NewOutput]

BugAnnouncedOnly(os, d) == d

\* The loop at the end of wl_cursor_init.
CapturedAll(os, d) == [o \in Outputs |-> IF o \in os THEN Captured(d[o]) ELSE d[o]]

\* What is used, if so, is gone: it may still look as it did.
MayCrash(gone) == crashed' \in BOOLEAN /\ (crashed' => gone)

\* wlcursor is there, and so is the connection that it was made on.
Registered == wlcursor /\ ~severed /\ ending # "freed"

\* wl_cursor_init finds all it needs.
CursorFound ==
    /\ wlcursor' = TRUE
    /\ \E order \in SetToSeqs(present) : \E k \in 0..Len(order) :
        /\ outputs' = order
        /\ data' = CapturedAll(present, Announced(order, k))
    /\ NewSessions(present)
    /\ UNCHANGED abandoned

\* It does not, and frees what it made; the connection and the registry stay.
CursorNotFound ==
    /\ abandoned' = TRUE
    /\ UNCHANGED <<wlcursor, outputs, data, sessionVars>>

\* wl_cursor_init on a display that is open: its roundtrip dispatches whatever
\* waits, for other registries too.
CursorInit ==
    /\ ending # "closed"
    /\ IF supports THEN CursorFound ELSE CursorNotFound
    /\ MayCrash(Abandoned \in Range(events))
    /\ events' = <<>>

\* wl_cursor_init on one that was closed and is still set.
CursorInitClosed ==
    /\ ending = "closed"
    /\ MayCrash(TRUE)
    /\ UNCHANGED <<wlcursor, abandoned, outputs, data, events, sessionVars>>

\* vkcapture_source_create, cursor_create. wl_display_connect may fail. Cut in
\* two, between its looks at wl_display and at wlcursor, it would leave what it
\* leaves when it runs before the thread's next step, or after it.
SourceCreate ==
    /\ instances < MaxSources
    /\ instances' = instances + 1
    /\ display' \in {display, TRUE}
    /\ IF display' /\ ~wlcursor
       THEN CursorInit \/ CursorInitClosed
       ELSE UNCHANGED <<wlcursor, abandoned, crashed, outputs, data, events, sessionVars>>
    /\ UNCHANGED <<ending, severed, userVars>>

BugCountedTwice == instances - 2

\* --source_instances
OneLess == instances - 1

\* Asks before it counts.
BugAsksFirst(left) == left + 1 = 0

\* cursor_destroy: if (!source_instances)
IsLast(left) == left = 0

\* vkcapture_source_destroy: cursor_destroy asks whether it was the last ...
SourceDestroy ==
    /\ ending = "no" /\ instances > 0
    /\ instances' = OneLess
    /\ ending' = IF IsLast(OneLess) THEN "asked" ELSE "no"
    /\ UNCHANGED <<cursorVars, outputs, data, events, userVars, sessionVars>>

NoSessions ==
    /\ stage' = [o \in Outputs |-> "none"]
    /\ told' = [o \in Outputs |-> FALSE]
    /\ image' = [o \in Outputs |-> Blank]

\* What is on the wire when the wl_cursor_t and its sessions are gone.
Unlistened(es) ==
    [i \in DOMAIN es |->
        IF es[i].kind \in GlobalKinds \cup {"abandoned"} THEN Abandoned ELSE Dropped]

\* ... frees the wl_cursor_t, and with it the proxies of a connection that may
\* have been closed before ...
FreeCursor ==
    /\ ending = "asked" /\ wlcursor
    /\ ending' = "freed"
    /\ MayCrash(severed /\ \E o \in Known : data[o].session)
    /\ abandoned' = (abandoned \/ ~severed)
    /\ severed' = FALSE
    /\ outputs' = <<>>
    /\ data' = [o \in Outputs |-> NewOutput]
    /\ events' = Unlistened(events)
    /\ NoSessions
    /\ UNCHANGED <<instances, display, wlcursor, userVars>>

\* ... forgets it, or had none ...
UnsetCursor ==
    /\ ending = "freed" \/ (ending = "asked" /\ ~wlcursor)
    /\ ending' = "unset"
    /\ wlcursor' = FALSE
    /\ UNCHANGED <<instances, display, severed, abandoned, crashed, outputs, data, events,
                   userVars, sessionVars>>

\* ... closes the connection, under a wlcursor that was made on it since ...
CloseDisplay ==
    /\ ending = "unset" /\ display
    /\ ending' = "closed"
    /\ severed' = wlcursor
    /\ abandoned' = FALSE
    /\ events' = <<>>
    /\ NoSessions
    /\ UNCHANGED <<instances, display, wlcursor, crashed, outputs, data, userVars>>

\* ... and forgets it, or had none.
UnsetDisplay ==
    /\ ending = "closed" \/ (ending = "unset" /\ ~display)
    /\ ending' = "no"
    /\ display' = FALSE
    /\ UNCHANGED <<instances, wlcursor, severed, abandoned, crashed, outputs, data, events,
                   userVars, sessionVars>>

SourceNext ==
    \/ SourceCreate \/ SourceDestroy
    \/ FreeCursor \/ UnsetCursor \/ CloseDisplay \/ UnsetDisplay

-----------------------------------------------------------------------------
(***************************************************************************)
(* The plugin: cursor_update dispatches events in the graphics thread      *)
(***************************************************************************)

\* A source is rendered, and an event waits on its connection.
Dispatching ==
    /\ wlcursor /\ display /\ ending # "closed" /\ instances > 0
    /\ events # <<>>

\* The next event is one of these kinds, for o.
Dispatched(o, kinds) ==
    /\ Dispatching
    /\ Head(events).out = o /\ Head(events).kind \in kinds
    /\ UNCHANGED <<sourceVars, cursorVars, userVars>>

Handle(o, kinds) == Dispatched(o, kinds) /\ events' = Tail(events) /\ UNCHANGED outputs

HandleGlobal(o) ==
    /\ Dispatched(o, {"global"})
    /\ events' = Tail(events)
    /\ outputs' = Append(outputs, o)
    /\ data' = [data EXCEPT ![o] = Captured(NewOutput)]
    /\ NewSessions({o})

HandleGlobalRemove(o) ==
    /\ Dispatched(o, {"global_remove"})
    /\ events' = Unheard(o, Tail(events))
    /\ outputs' = RemoveFirst(outputs, o)
    /\ data' = [data EXCEPT ![o] = NewOutput]
    /\ NoSession(o)

\* session_handle_cursor_buffer_info: the first kind of shared memory is
\* taken. create_shm_buffer may fail, and gs_texture_create return NULL.
HandleCursorBufferInfo(o) ==
    /\ Handle(o, {"dmabuf_info", "shm_info"})
    /\ IF Head(events).kind = "dmabuf_info" \/ data[o].buffer
       THEN UNCHANGED data
       ELSE \E buffer, texture \in BOOLEAN :
                /\ texture => buffer
                /\ data' = [data EXCEPT ![o].buffer = buffer, ![o].texture = texture]
    /\ UNCHANGED sessionVars

\* attach_cursor_buffer, damage_cursor_buffer, commit(ON_DAMAGE); a session
\* that failed takes no more requests.
Committed(o) == [stage EXCEPT ![o] = IF @ \in Live THEN "waiting" ELSE @]

HandleInitDone(o) ==
    /\ Handle(o, {"init_done"})
    /\ stage' = IF data[o].buffer THEN Committed(o) ELSE stage
    /\ UNCHANGED <<data, told, image>>

BugFirstOnly(o, damage) == damage /\ data[o].tex = Blank

\* The damaged flag after cursor_info.
Damaged(o, damage) == damage

HandleCursorInfo(o) ==
    /\ Handle(o, {"cursor_info", "cursor_info_damaged"})
    /\ data' = [data EXCEPT
           ![o].hot = Head(events).hot,
           ![o].damaged = Damaged(o, Head(events).kind = "cursor_info_damaged")]
    /\ UNCHANGED sessionVars

HandleCursorEnter(o) ==
    /\ Handle(o, {"enter"})
    /\ data' = [data EXCEPT ![o].have_cursor = TRUE]
    /\ UNCHANGED sessionVars

HandleCursorLeave(o) ==
    /\ Handle(o, {"leave"})
    /\ data' = [data EXCEPT ![o].have_cursor = FALSE]
    /\ UNCHANGED sessionVars

\* session_handle_ready: the picture is taken before the next commit. libobs's
\* gs_texture_set_image does nothing to a NULL texture.
HandleReady(o) ==
    /\ Handle(o, {"ready"})
    /\ data' = [data EXCEPT
           ![o].tex = IF data[o].damaged /\ data[o].texture THEN image[o] ELSE @]
    /\ stage' = Committed(o)
    /\ UNCHANGED <<told, image>>

\* session_handle_failed: a session is made anew only for a disabled output.
HandleFailed(o) ==
    /\ Dispatched(o, {"failed_disabled", "failed"})
    /\ events' = Unheard(o, Tail(events))
    /\ UNCHANGED outputs
    /\ IF Head(events).kind = "failed_disabled"
       THEN /\ data' = [data EXCEPT ![o] = Captured(Reset(@))]
            /\ NewSessions({o})
       ELSE /\ data' = [data EXCEPT ![o] = Reset(@)]
            /\ told' = [told EXCEPT ![o] = FALSE]
            /\ image' = [image EXCEPT ![o] = Blank]
            /\ UNCHANGED stage

\* libwayland's dispatch_event: no handler for what was destroyed.
SkipDropped ==
    /\ Dispatching /\ Head(events) = Dropped
    /\ events' = Tail(events)
    /\ UNCHANGED <<sourceVars, cursorVars, outputs, data, userVars, sessionVars>>

\* handle_global or handle_global_remove with a wl_cursor_t that was freed.
HandleAbandoned ==
    /\ Dispatching /\ Head(events) = Abandoned
    /\ events' = Tail(events)
    /\ MayCrash(TRUE)
    /\ UNCHANGED <<sourceVars, display, wlcursor, severed, abandoned, outputs, data, userVars,
                   sessionVars>>

\* cursor_update and cursor_render of a wl_cursor_t that was freed, or with a
\* wl_display that is closed or NULL: wl_display_get_fd, wl_cursor_render.
RenderGone ==
    /\ wlcursor /\ instances > 0
    /\ ending \in {"freed", "closed"} \/ ~display
    /\ crashed' = TRUE
    /\ UNCHANGED <<sourceVars, display, wlcursor, severed, abandoned, outputs, data, events,
                   userVars, sessionVars>>

\* cursor_update
Dispatch ==
    \/ SkipDropped \/ HandleAbandoned \/ RenderGone
    \/ \E o \in Outputs :
        \/ HandleGlobal(o) \/ HandleGlobalRemove(o)
        \/ HandleCursorBufferInfo(o) \/ HandleInitDone(o)
        \/ HandleCursorInfo(o) \/ HandleCursorEnter(o) \/ HandleCursorLeave(o)
        \/ HandleReady(o) \/ HandleFailed(o)

\* wl_cursor_render: the first output with a pointer and a texture.
Drawn ==
    LET shown == {i \in DOMAIN outputs :
                      data[outputs[i]].have_cursor /\ data[outputs[i]].texture}
    IN  IF shown = {} THEN NoOutput
        ELSE outputs[CHOOSE i \in shown : \A j \in shown : i <= j]

-----------------------------------------------------------------------------
(***************************************************************************)
(* The compositor, as the protocol describes it, and its user              *)
(***************************************************************************)

Send(es) == events' = events \o es

\* A new session is told the kinds of buffer, one of shared memory or none.
Describe(o) ==
    /\ stage[o] = "new" /\ o \in enabled
    /\ \E infos \in {<<"shm_info">>, <<"dmabuf_info">>, <<"dmabuf_info", "shm_info">>} :
           Send([i \in 1..Len(infos) |-> Event(o, infos[i])] \o <<Event(o, "init_done")>>)
    /\ stage' = [stage EXCEPT ![o] = "described"]
    /\ UNCHANGED <<told, image>>

\* cursor_enter and cursor_leave.
Notify(o) ==
    /\ stage[o] \in Live \ {"new"}
    /\ told[o] # (pointer = o)
    /\ Send(<<Event(o, IF told[o] THEN "leave" ELSE "enter")>>)
    /\ told' = [told EXCEPT ![o] = ~@]
    /\ UNCHANGED <<stage, image>>

\* The pointer is copied: "If the cursor image has changed, the cursor buffer
\* will have been updated and the has_damage argument will be set to 1".
CopyCursor(o) ==
    /\ stage[o] = "waiting" /\ told[o] /\ pointer = o
    /\ image' = [image EXCEPT ![o] = shape]
    /\ LET info == IF image[o] = shape THEN "cursor_info" ELSE "cursor_info_damaged"
       IN  Send(<<CursorInfo(o, info, shape), Event(o, "ready")>>)
    /\ stage' = [stage EXCEPT ![o] = "copied"]
    /\ UNCHANGED told

\* "Cursors outside the session area do not get captured".
CopyFrame(o) ==
    /\ stage[o] = "waiting" /\ ~told[o] /\ pointer # o
    /\ Send(<<Event(o, "ready")>>)
    /\ stage' = [stage EXCEPT ![o] = "copied"]
    /\ UNCHANGED <<told, image>>

\* "The failed event may be sent at any time".
FailDisabled(o) ==
    /\ stage[o] \in Live /\ o \in present \ enabled
    /\ Send(<<Event(o, "failed_disabled")>>)
    /\ stage' = [stage EXCEPT ![o] = "off"]
    /\ UNCHANGED <<told, image>>

Fail(o) ==
    /\ stage[o] \in Live
    /\ Send(<<Event(o, "failed")>>)
    /\ stage' = [stage EXCEPT ![o] = "failed"]
    /\ UNCHANGED <<told, image>>

SessionNext ==
    /\ Len(events) < MaxEvents
    /\ \E o \in Outputs :
           \/ Describe(o) \/ Notify(o) \/ CopyCursor(o) \/ CopyFrame(o)
           \/ FailDisabled(o) \/ Fail(o)
    /\ UNCHANGED <<sourceVars, cursorVars, outputs, data, userVars>>

\* What the registries of the connection are told.
Announce(o, kind) ==
    Send((IF abandoned THEN <<Abandoned>> ELSE <<>>)
         \o (IF Registered THEN <<Event(o, kind)>> ELSE <<>>))

Unplug(o) ==
    /\ o \in present
    /\ present' = present \ {o} /\ enabled' = enabled \ {o}
    /\ pointer' = IF pointer = o THEN NoOutput ELSE pointer
    /\ Announce(o, "global_remove")
    /\ UNCHANGED shape

Plug(o) ==
    /\ o \notin present \cup Known
    /\ \A i \in DOMAIN events : events[i].out # o
    /\ present' = present \cup {o} /\ enabled' = enabled \cup {o}
    /\ Announce(o, "global")
    /\ UNCHANGED <<pointer, shape>>

Switch(o) ==
    /\ o \in present
    /\ enabled' = IF o \in enabled THEN enabled \ {o} ELSE enabled \cup {o}
    /\ pointer' = IF pointer = o THEN NoOutput ELSE pointer
    /\ UNCHANGED <<events, present, shape>>

Move(o) ==
    /\ o \in enabled \cup {NoOutput} /\ o # pointer
    /\ pointer' = o
    /\ UNCHANGED <<events, present, enabled, shape>>

Reshape(s) ==
    /\ s # shape
    /\ shape' = s
    /\ UNCHANGED <<events, present, enabled, pointer>>

UserNext ==
    /\ Len(events) < MaxEvents
    /\ \/ \E o \in Outputs : Unplug(o) \/ Plug(o) \/ Switch(o)
       \/ \E o \in Outputs \cup {NoOutput} : Move(o)
       \/ \E s \in Shapes : Reshape(s)
    /\ UNCHANGED <<sourceVars, cursorVars, outputs, data, supports, sessionVars>>

WlNext ==
    /\ ~crashed
    /\ SourceNext \/ Dispatch \/ SessionNext \/ UserNext

WlSpec == WlInit /\ [][WlNext]_wlVars

-----------------------------------------------------------------------------
(***************************************************************************)
(* Properties                                                              *)
(***************************************************************************)

\* No event about o is on the wire.
Heard(o) == \A i \in DOMAIN events : events[i].out # o

\* Every output the plugin knows is captured, or its session has failed for
\* a reason that the plugin does not try again after, while the connection
\* that wlcursor was made on is open; and the compositor keeps no session for
\* anything else (capture_output, its three callers, and output_data_reset).
OneSessionPerOutput ==
    \A o \in Outputs :
        /\ o \in Known /\ ~severed => data[o].session \/ stage[o] = "failed"
        /\ stage[o] \in Live \cup {"off"} => o \in Known /\ data[o].session

\* Once the events of an output are handled, its texture shows what the
\* compositor last copied into the buffer, at the place and with the hotspot
\* sent for that image (cursor_info, then ready).
PictureIsCurrent ==
    \A o \in Known :
        (data[o].texture /\ image[o] # Blank /\ Heard(o))
            => data[o].tex = image[o] /\ data[o].hot = image[o]

\* When the last source has gone and the thread is done with it, the plugin
\* has no connection to the compositor (cursor_destroy).
CursorTornDown ==
    (instances = 0 /\ ending = "no") => ~display /\ ~wlcursor /\ outputs = <<>>

\* o can no longer be captured: its session failed, or has no shared memory, or
\* there is no texture to draw what it captures.
Lost(o) ==
    \/ stage[o] = "failed"
    \/ stage[o] = "described" /\ ~data[o].buffer
    \/ data[o].buffer /\ ~data[o].texture

\* Neither side has anything left to do: no event waits, and no session is
\* waiting to be described, told of the pointer, failed or given a new image.
\* The connection that wlcursor was made on is still there: cursor_destroy has
\* not closed it under a source that was created meanwhile.
AtRest ==
    /\ Registered /\ instances > 0 /\ events = <<>>
    /\ \A o \in Outputs : stage[o] \in Live =>
        /\ o \in enabled /\ stage[o] # "new"
        /\ told[o] = (pointer = o)
        /\ ~(stage[o] = "waiting" /\ told[o] /\ image[o] # shape)

\* At rest the plugin draws the pointer where it is and as it is, and no other,
\* whatever was moved, switched off and on, or plugged before; unless the
\* output's session is lost. So no session is stuck between its two sides. Of a
\* wlcursor whose connection was closed nothing is claimed: see severed.
CursorAtRest ==
    AtRest =>
        IF pointer = NoOutput THEN Drawn = NoOutput
        ELSE \/ Lost(pointer) /\ Drawn = NoOutput
             \/ Drawn = pointer /\ data[pointer].tex = shape
=============================================================================
