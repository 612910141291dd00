------------------------------- MODULE GlHook -------------------------------
(***************************************************************************)
(* The OpenGL hook, src/glinject.c: the functions of EGL and GLX that it   *)
(* stands in for, and the objects one capture is made of. A game draws     *)
(* with one context, which is current in every call of the hook, to any    *)
(* number of surfaces; what OBS asks of the game is arbitrary here. Left   *)
(* out are the instance and device of vulkan_init, made once, and what     *)
(* vulkan_shtex_init keeps no handle of in data: the GL memory object, and *)
(* the opaque descriptor that a failed import leaves open.                 *)
(***************************************************************************)
EXTENDS Naturals

CONSTANTS
    Surfaces,   \* windows of the game
    NoSurface,
    Names,      \* names of objects
    NoName,
    MaxSize     \* sizes of a window; 0 is that of one that has none now

ASSUME MaxSizeAssumption == MaxSize \in Nat
ASSUME NoneAssumption == NoSurface \notin Surfaces /\ NoName \notin Names

VARIABLES
    usable,     \* the APIs with egl_f.valid, or glx_f.valid and x11_f.valid
    gl_seen,    \* gl_init_funcs has run
    valid,      \* data.valid
    surface,    \* data.surface, data.width and data.height
    size,
    has,        \* the handles in data; "fds" stands for nfd and buf_fds
    capturing,  \* `data.capturing` of capture.c
    alive,      \* objects that exist
    sizes       \* what querySurface finds

glVars == <<usable, gl_seen, valid, surface, size, has, capturing, alive, sizes>>

Apis == {"egl", "glx"}
Sizes == 0..MaxSize
Parts == {"fbo", "texture", "image", "xpixmap", "glxpixmap", "vkimage", "vkmemory", "fds"}

GlTypeOK ==
    /\ usable \subseteq Apis
    /\ gl_seen \in BOOLEAN
    /\ valid \in BOOLEAN
    /\ surface \in Surfaces \cup {NoSurface}
    /\ size \in Sizes
    /\ has \in [Parts -> Names \cup {NoName}]
    /\ capturing \in BOOLEAN
    /\ alive \subseteq Parts \X Names
    /\ sizes \in [Surfaces -> Sizes]

NoParts == [p \in Parts |-> NoName]

GlInit ==
    /\ usable = {}
    /\ gl_seen = FALSE
    /\ valid = FALSE
    /\ surface = NoSurface
    /\ size = 0
    /\ has = NoParts
    /\ capturing = FALSE
    /\ alive = {}
    /\ sizes \in [Surfaces -> Sizes]

\* The part of the state that one capture changes.
Now == [surface |-> surface, size |-> size, has |-> has, capturing |-> capturing,
        alive |-> alive, valid |-> valid]

Becomes(x) ==
    /\ surface' = x.surface
    /\ size' = x.size
    /\ has' = x.has
    /\ capturing' = x.capturing
    /\ alive' = x.alive
    /\ valid' = x.valid
    /\ UNCHANGED <<usable, gl_seen, sizes>>

-----------------------------------------------------------------------------
BugForgetsToStop(x) ==
    [x EXCEPT !.alive = @ \ {<<p, x.has[p]>> : p \in Parts}, !.has = NoParts]

\* gl_free.
Freed(x) ==
    [x EXCEPT !.alive = @ \ {<<p, x.has[p]>> : p \in Parts},
              !.has = NoParts,
              !.capturing = FALSE]

\* New objects, whose handles replace those in data.
Made(x, parts, n) ==
    [x EXCEPT !.alive = @ \cup {<<p, n>> : p \in parts},
              !.has = [p \in Parts |-> IF p \in parts THEN n ELSE @[p]]]

AllMade(x, parts) ==
    {Made(x, parts, n) : n \in {m \in Names : \A p \in parts : <<p, m>> \notin x.alive}}

\* gl_shtex_init: what it leaves when it fails, at its start or later, and
\* when it succeeds. Its exit for failures keeps the texture.
GlLeftovers == {{}, {"texture"}}
GlParts(api) ==
    {"fbo", "texture", "fds"}
        \cup (IF api = "glx" THEN {"xpixmap", "glxpixmap"} ELSE {"image"})

\* vulkan_shtex_init, the same: it makes the first n of these, and leaves what
\* it has got to gl_free. A texture it makes takes the place of one that
\* gl_shtex_init left.
VulkanParts(n) ==
    LET parts == <<"fbo", "vkimage", "vkmemory", "texture", "fds">>
    IN  {parts[i] : i \in 1..n}

BugPads(s, x) == [x EXCEPT !.surface = s, !.size = sizes[s] + 1]

\* querySurface.
Queried(s, x) == [x EXCEPT !.surface = s, !.size = sizes[s]]

BugKeepsParts(x) == [x EXCEPT !.valid = FALSE]

\* gl_capture after a start that failed.
Disabled(x) == [Freed(x) EXCEPT !.valid = FALSE]

\* gl_init, and what gl_capture does when it fails: the states it can end in.
Started(api, s, x) ==
    LET y == Queried(s, x)
        failed == UNION {AllMade(y, left) : left \in GlLeftovers}
        byVulkan(k) == UNION {AllMade(z, VulkanParts(k)) : z \in failed}
    IN  {[z EXCEPT !.capturing = TRUE] : z \in AllMade(y, GlParts(api)) \cup byVulkan(5)}
            \cup {Disabled(z) : z \in UNION {byVulkan(k) : k \in 0..4}}

BugNoticesGrowth(s, x) ==
    IF x.surface = s /\ x.size < sizes[s] THEN Freed(x) ELSE x

\* A capture of the surface it was started on; a window that has changed its
\* size gives the buffer up, unless it has no size now.
Continued(s, x) ==
    IF x.surface = s /\ sizes[s] \notin {0, x.size} THEN Freed(x) ELSE x

\* gl_capture, when OBS wants a capture or not, as it is or anew. A window of
\* any size may be captured.
Capture(api, s, wanted, anew) ==
    LET x == IF capturing /\ (~wanted \/ anew) THEN Freed(Now) ELSE Now IN
    \E y \in IF ~x.capturing /\ wanted THEN Started(api, s, x) ELSE {x} :
        Becomes(IF y.capturing THEN Continued(s, y) ELSE y)

-----------------------------------------------------------------------------
\* The first function of the hook that is called resolves its own API only,
\* then those of GL; a failure on the way leaves the rest as it is. (A first
\* call of a function below is one of these and then the function.)
InitFuncs(api) ==
    /\ ~gl_seen
    /\ gl_seen' = TRUE
    /\ \E found \in {0, 1, 2} :
         /\ usable' = IF found >= 1 THEN {api} ELSE {}
         /\ valid' = (found = 2)
    /\ UNCHANGED <<surface, size, has, capturing, alive, sizes>>

\* eglSwapBuffers, glXSwapBuffers, glXSwapBuffersMscOML.
Swap(api, s, wanted, anew) ==
    /\ api \in usable
    /\ valid
    /\ Capture(api, s, wanted, anew)

SwapBuffers(api, s) == \E wanted, anew \in BOOLEAN : Swap(api, s, wanted, anew)

\* eglDestroyContext, glXDestroyContext: of whichever context.
DestroyContext(api) ==
    /\ api \in usable
    /\ Becomes(Freed(Now))

Resize(s) ==
    /\ sizes' \in {[sizes EXCEPT ![s] = z] : z \in Sizes}
    /\ UNCHANGED <<usable, gl_seen, valid, surface, size, has, capturing, alive>>

GlNext ==
    \/ \E api \in Apis : InitFuncs(api) \/ DestroyContext(api)
    \/ \E api \in Apis, s \in Surfaces : SwapBuffers(api, s)
    \/ \E s \in Surfaces : Resize(s)

\* The game keeps presenting each of its windows. What OBS wants need never
\* change: only swaps with which it is content are required.
GlFairness ==
    \A s \in Surfaces : WF_glVars(\E api \in Apis : Swap(api, s, capturing, FALSE))

GlSpec == GlInit /\ [][GlNext]_glVars /\ GlFairness

-----------------------------------------------------------------------------
(***************************************************************************)
(* Properties                                                              *)
(***************************************************************************)

\* Between calls the hook has handles exactly while it captures, and nothing
\* exists that it has no handle for, whichever step of gl_shtex_init or
\* vulkan_shtex_init failed. Textures are left out: one that gl_shtex_init
\* leaves behind is lost when vulkan_shtex_init makes another.
NothingLeaks ==
    /\ ~capturing => has = NoParts
    /\ {o \in alive : o[1] # "texture"} =
           {<<p, has[p]>> : p \in {q \in Parts \ {"texture"} : has[q] # NoName}}

\* As seen from capture.c this is a hook: CaptureHook.
Hook == INSTANCE CaptureHook WITH
    Buffers <- Names, NoBuffer <- NoName, buffer <- has["fds"]

IsAHook == Hook!HookInit /\ [][Hook!HookNext]_(Hook!hookVars)

\* A captured window that is resized does not stay in a buffer of its old
\* size, unless it has no size or its old one again (gl_capture).
ResizeIsNoticed ==
    \A s \in Surfaces, z \in Sizes :
        (capturing /\ surface = s /\ size = z /\ sizes[s] \notin {0, z})
            ~> (~capturing \/ surface # s \/ size # z \/ sizes[s] \in {0, z})
============================================================================
