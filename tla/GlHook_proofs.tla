---------------------------- MODULE GlHook_proofs ----------------------------
(***************************************************************************)
(* What the OpenGL hook keeps for every set of windows, every set of names *)
(* of objects and every bound on sizes, and that it implements             *)
(* CaptureHook.                                                            *)
(***************************************************************************)
EXTENDS GlHook, TLAPS

-----------------------------------------------------------------------------
(* What one capture changes. *)

Captures ==
    [surface : Surfaces \cup {NoSurface}, size : Sizes,
     has : [Parts -> Names \cup {NoName}], capturing : BOOLEAN,
     alive : SUBSET (Parts \X Names), valid : BOOLEAN]

\* What exists, textures left out, and what there is a handle for.
Exists(x) == {o \in x.alive : o[1] # "texture"}
Owned(x) == {<<p, x.has[p]>> : p \in {q \in Parts \ {"texture"} : x.has[q] # NoName}}

\* A capture between calls: all that exists has a handle, there are handles
\* only while it runs, and then there is a buffer.
Sound(x) ==
    /\ x \in Captures
    /\ Exists(x) = Owned(x)
    /\ ~x.capturing => x.has = NoParts
    /\ x.capturing => x.has["fds"] \in Names

\* The inductive invariant. Nothing can run before the functions are there.
GlInv ==
    /\ GlTypeOK
    /\ Sound(Now)
    /\ ~gl_seen => ~valid /\ ~capturing

LEMMA FreedSound ==
    ASSUME NEW x \in Captures, Exists(x) = Owned(x)
    PROVE  /\ Sound(Freed(x))
           /\ ~Freed(x).capturing
           /\ Freed(x).valid = x.valid
           /\ Freed(x).has = NoParts
<1> DEFINE y == Freed(x)
<1>1. /\ y.surface = x.surface /\ y.size = x.size /\ y.valid = x.valid
      /\ ~y.capturing /\ y.has = NoParts
      /\ y.alive = x.alive \ {<<p, x.has[p]>> : p \in Parts}
  BY DEF Freed, Captures
<1>2. y \in Captures
  BY DEF Freed, Captures, NoParts
<1>3. Owned(y) = {}
  BY <1>1 DEF Owned, NoParts
<1>4. Exists(y) = {}
  BY <1>1 DEF Exists, Owned
<1> QED
  BY <1>1, <1>2, <1>3, <1>4 DEF Sound, NoParts

\* Objects made where there are no handles yet, a texture's aside.
LEMMA MadeSound ==
    ASSUME NEW x \in Captures, Exists(x) = Owned(x), NEW parts \in SUBSET Parts,
           \A p \in Parts \ {"texture"} : x.has[p] = NoName,
           NEW y \in AllMade(x, parts)
    PROVE  /\ y \in Captures
           /\ Exists(y) = Owned(y)
           /\ y.valid = x.valid
           /\ y.capturing = x.capturing
           /\ \A p \in parts : y.has[p] \in Names
           /\ \A p \in Parts \ parts : y.has[p] = x.has[p]
<1>1. PICK n \in Names : y = Made(x, parts, n)
  BY DEF AllMade
<1>2. /\ y \in Captures /\ y.valid = x.valid /\ y.capturing = x.capturing
      /\ y.alive = x.alive \cup {<<p, n>> : p \in parts}
      /\ \A p \in Parts : y.has[p] = IF p \in parts THEN n ELSE x.has[p]
  <2> DEFINE now == x.alive \cup {<<p, n>> : p \in parts}
             handles == [p \in Parts |-> IF p \in parts THEN n ELSE x.has[p]]
  <2>1. now \in SUBSET (Parts \X Names) /\ handles \in [Parts -> Names \cup {NoName}]
    BY DEF Captures
  <2>2. y = [x EXCEPT !.alive = now, !.has = handles]
    BY <1>1 DEF Made
  <2>3. \A p \in Parts : handles[p] = IF p \in parts THEN n ELSE x.has[p]
    OBVIOUS
  <2>4. now = x.alive \cup {<<p, n>> : p \in parts}
    OBVIOUS
  <2> HIDE DEF now, handles
  <2>5. /\ y \in Captures /\ y.valid = x.valid /\ y.capturing = x.capturing
        /\ y.alive = now /\ y.has = handles
    BY <2>1, <2>2 DEF Captures
  <2> QED
    BY <2>3, <2>4, <2>5
<1>3. Exists(x) = {}
  BY DEF Owned
<1>4. Exists(y) = {<<p, n>> : p \in parts \ {"texture"}}
  BY <1>2, <1>3 DEF Exists
<1>5. Owned(y) = {<<p, n>> : p \in parts \ {"texture"}}
  BY <1>2, NoneAssumption DEF Owned
<1> QED
  BY <1>2, <1>4, <1>5

LEMMA VulkanPartsType ==
    /\ \A n \in 0..5 : VulkanParts(n) \subseteq Parts
    /\ "fds" \in VulkanParts(5)
<1> DEFINE parts == <<"fbo", "vkimage", "vkmemory", "texture", "fds">>
<1>1. \A i \in 1..5 : parts[i] \in Parts
  BY DEF Parts
<1>2. parts[5] = "fds"
  OBVIOUS
<1>3. \A n \in 0..5 : VulkanParts(n) = {parts[i] : i \in 1..n}
  BY DEF VulkanParts
<1> HIDE DEF parts
<1> QED
  BY <1>1, <1>2, <1>3

\* Wherever gl_init ends, it either runs with a buffer or has left nothing
\* and is disabled.
LEMMA StartedSound ==
    ASSUME NEW x, Sound(x), ~x.capturing, NEW s \in Surfaces, NEW api \in Apis,
           sizes \in [Surfaces -> Sizes], NEW z \in Started(api, s, x)
    PROVE  /\ Sound(z)
           /\ z.capturing => z.valid = x.valid
           /\ ~z.capturing => ~z.valid
<1> DEFINE y == Queried(s, x)
           failed == UNION {AllMade(y, left) : left \in GlLeftovers}
           byVulkan(k) == UNION {AllMade(w, VulkanParts(k)) : w \in failed}
           Grown(w) == w \in Captures /\ Exists(w) = Owned(w) /\ w.valid = x.valid
<1>1. /\ y \in Captures /\ Exists(y) = Owned(y) /\ y.valid = x.valid
      /\ \A p \in Parts : y.has[p] = NoName
  <2>1. /\ y \in Captures /\ y.valid = x.valid
        /\ y.has = x.has /\ y.alive = x.alive
    BY DEF Queried, Sound, Captures
  <2> QED
    BY <2>1 DEF Sound, Exists, Owned, NoParts
<1>2. \A w \in failed : Grown(w) /\ \A p \in Parts \ {"texture"} : w.has[p] = NoName
  <2> SUFFICES ASSUME NEW left \in GlLeftovers, NEW w \in AllMade(y, left)
               PROVE  Grown(w) /\ \A p \in Parts \ {"texture"} : w.has[p] = NoName
    OBVIOUS
  <2>1. left \in SUBSET Parts /\ left \subseteq {"texture"}
    BY DEF GlLeftovers, Parts
  <2> HIDE DEF y
  <2> QED
    BY <1>1, <2>1, MadeSound
<1>3. \A k \in 0..5 : \A w \in byVulkan(k) :
          Grown(w) /\ (k = 5 => w.has["fds"] \in Names)
  <2> SUFFICES ASSUME NEW k \in 0..5, NEW v \in failed, NEW w \in AllMade(v, VulkanParts(k))
               PROVE  Grown(w) /\ (k = 5 => w.has["fds"] \in Names)
    OBVIOUS
  <2>1. VulkanParts(k) \in SUBSET Parts
    BY VulkanPartsType
  <2> HIDE DEF y, failed
  <2> QED
    BY <1>2, <2>1, MadeSound, VulkanPartsType
<1>4. \A w \in AllMade(y, GlParts(api)) : Grown(w) /\ w.has["fds"] \in Names
  <2>1. GlParts(api) \in SUBSET Parts /\ "fds" \in GlParts(api)
    BY DEF GlParts, Parts
  <2> HIDE DEF y
  <2> QED
    BY <1>1, <2>1, MadeSound
<1>5. CASE \E w \in AllMade(y, GlParts(api)) \cup byVulkan(5) :
              z = [w EXCEPT !.capturing = TRUE]
  <2>1. PICK w : /\ w \in AllMade(y, GlParts(api)) \cup byVulkan(5)
                 /\ z = [w EXCEPT !.capturing = TRUE]
    BY <1>5
  <2>2. Grown(w) /\ w.has["fds"] \in Names
    <3> HIDE DEF y, byVulkan
    <3> QED
      BY <1>3, <1>4, <2>1
  <2>3. /\ z \in Captures /\ z.capturing /\ z.has = w.has /\ z.alive = w.alive
        /\ z.valid = w.valid
    BY <2>1, <2>2 DEF Captures
  <2> QED
    BY <2>2, <2>3 DEF Sound, Exists, Owned
<1>6. CASE \E k \in 0..4 : \E w \in byVulkan(k) : z = Disabled(w)
  <2>1. PICK k \in 0..4 : \E w \in byVulkan(k) : z = Disabled(w)
    BY <1>6
  <2>2. PICK w \in byVulkan(k) : z = Disabled(w)
    BY <2>1
  <2>3. Grown(w)
    <3> HIDE DEF y, byVulkan, Grown
    <3> QED
      BY <1>3, <2>2
  <2>4. Sound(Freed(w)) /\ ~Freed(w).capturing /\ Freed(w).has = NoParts
    BY <2>3, FreedSound
  <2>5. /\ z \in Captures /\ ~z.capturing /\ z.has = NoParts /\ ~z.valid
        /\ z.alive = Freed(w).alive
    BY <2>2, <2>4 DEF Disabled, Sound, Captures
  <2> QED
    BY <2>4, <2>5 DEF Sound, Exists, Owned
<1> QED
  BY <1>5, <1>6 DEF Started

LEMMA ContinuedSound ==
    ASSUME NEW x, Sound(x), NEW s \in Surfaces
    PROVE  Sound(Continued(s, x)) /\ Continued(s, x).valid = x.valid
BY FreedSound DEF Continued, Sound

-----------------------------------------------------------------------------
(* The steps. *)

\* What a swap makes of a sound capture: it stays valid, or gives up.
LEMMA CaptureSound ==
    ASSUME GlInv, NEW api \in Apis, NEW s \in Surfaces,
           NEW wanted \in BOOLEAN, NEW anew \in BOOLEAN, Capture(api, s, wanted, anew)
    PROVE  Sound(Now') /\ (valid' = valid \/ (~valid' /\ ~capturing'))
<1> DEFINE x == IF capturing /\ (~wanted \/ anew) THEN Freed(Now) ELSE Now
<1>1. Now.capturing = capturing /\ Now.valid = valid
  BY DEF Now
<1>2. Sound(x) /\ x.valid = valid
  BY <1>1, FreedSound DEF GlInv, Sound
<1>3. PICK y \in (IF ~x.capturing /\ wanted THEN Started(api, s, x) ELSE {x}) :
          Becomes(IF y.capturing THEN Continued(s, y) ELSE y)
  BY DEF Capture
<1> HIDE DEF x
<1>4. Sound(y) /\ (y.valid = valid \/ (~y.valid /\ ~y.capturing))
  BY <1>2, <1>3, StartedSound DEF GlInv, GlTypeOK, Sound, Captures
<1> DEFINE z == IF y.capturing THEN Continued(s, y) ELSE y
<1>5. Sound(z) /\ (z.valid = valid \/ (~z.valid /\ ~z.capturing))
  BY <1>4, ContinuedSound
<1>6. Now' = z
  <2>1. z \in Captures
    BY <1>5 DEF Sound
  <2> QED
    BY <1>3, <2>1 DEF Becomes, Now, Captures
<1>7. Now'.valid = valid' /\ Now'.capturing = capturing'
  BY DEF Now
<1> QED
  BY <1>5, <1>6, <1>7

LEMMA GlInitInv == GlInit => GlInv
<1> SUFFICES ASSUME GlInit PROVE GlInv
  OBVIOUS
<1>1. GlTypeOK
  <2>1. 0 \in Sizes
    BY MaxSizeAssumption DEF Sizes
  <2>2. NoParts \in [Parts -> Names \cup {NoName}]
    BY DEF NoParts
  <2> QED
    BY <2>1, <2>2 DEF GlInit, GlTypeOK
<1>2. Sound(Now)
  BY <1>1 DEF GlInit, GlTypeOK, Sound, Now, Captures, Exists, Owned, NoParts
<1> QED
  BY <1>1, <1>2 DEF GlInit, GlInv

LEMMA GlNextInv == GlInv /\ [GlNext]_glVars => GlInv'
<1> SUFFICES ASSUME GlInv, [GlNext]_glVars PROVE GlInv'
  OBVIOUS
<1> USE DEF GlInv
\* A sound capture is of the right type.
<1>1. ASSUME Sound(Now'), usable' \subseteq Apis, gl_seen' \in BOOLEAN,
             sizes' \in [Surfaces -> Sizes]
      PROVE  GlTypeOK'
  BY <1>1 DEF GlTypeOK, Sound, Now, Captures
<1>2. CASE UNCHANGED glVars
  BY <1>2 DEF glVars, GlTypeOK, Sound, Now, Captures, Exists, Owned
<1>3. ASSUME NEW api \in Apis, InitFuncs(api)
      PROVE  GlInv'
  <2>1. /\ Now' = [Now EXCEPT !.valid = valid'] /\ valid' \in BOOLEAN
    BY <1>3 DEF InitFuncs, Now
  <2>2. Sound(Now')
    BY <2>1 DEF Sound, Now, Captures, Exists, Owned
  <2> QED
    BY <1>1, <1>3, <2>2 DEF InitFuncs, GlTypeOK
<1>4. ASSUME NEW api \in Apis, DestroyContext(api)
      PROVE  GlInv'
  <2>1. Sound(Freed(Now)) /\ Freed(Now).valid = valid /\ ~Freed(Now).capturing
    BY FreedSound DEF Sound, Now
  <2>2. Now' = Freed(Now) /\ UNCHANGED <<usable, gl_seen, sizes>>
    BY <1>4, <2>1 DEF DestroyContext, Becomes, Now, Sound, Captures
  <2>3. Now'.valid = valid' /\ Now'.capturing = capturing'
    BY DEF Now
  <2> QED
    BY <1>1, <2>1, <2>2, <2>3 DEF GlTypeOK
<1>5. ASSUME NEW api \in Apis, NEW s \in Surfaces, SwapBuffers(api, s)
      PROVE  GlInv'
  <2>1. PICK wanted \in BOOLEAN, anew \in BOOLEAN :
            valid /\ Capture(api, s, wanted, anew)
    BY <1>5 DEF SwapBuffers, Swap
  <2>2. Sound(Now')
    BY <2>1, CaptureSound
  <2>3. UNCHANGED <<usable, gl_seen, sizes>>
    BY <2>1 DEF Capture, Becomes
  <2> QED
    BY <1>1, <2>1, <2>2, <2>3 DEF GlTypeOK
<1>6. ASSUME NEW s \in Surfaces, Resize(s)
      PROVE  GlInv'
  <2>1. sizes' \in [Surfaces -> Sizes]
    BY <1>6 DEF Resize, GlTypeOK
  <2>2. Now' = Now
    BY <1>6 DEF Resize, Now
  <2> QED
    BY <1>1, <1>6, <2>1, <2>2 DEF Resize, GlTypeOK, Sound, Exists, Owned
<1> QED
  BY <1>2, <1>3, <1>4, <1>5, <1>6 DEF GlNext

-----------------------------------------------------------------------------
(* The theorems. *)

\* The state of the hook has its types: gl_capture, gl_free, gl_init_funcs.
THEOREM GlTypeCorrect == GlSpec => []GlTypeOK
<1>1. GlInv => GlTypeOK
  BY DEF GlInv
<1> QED
  BY <1>1, GlInitInv, GlNextInv, PTL DEF GlSpec

\* Whichever step of gl_shtex_init or vulkan_shtex_init fails, nothing but
\* textures is left without a handle, and no handle without a capture.
THEOREM GlNothingLeaks == GlSpec => []NothingLeaks
<1>1. GlInv => NothingLeaks
  BY DEF GlInv, Sound, Now, Exists, Owned, NothingLeaks
<1> QED
  BY <1>1, GlInitInv, GlNextInv, PTL DEF GlSpec

LEMMA GlStepIsAHook ==
    ASSUME GlInv, [GlNext]_glVars
    PROVE  [Hook!HookNext]_(Hook!hookVars)
<1> USE DEF Hook!HookNext, Hook!hookVars
<1>1. GlInv'
  BY GlNextInv
<1>2. /\ ~capturing => has = NoParts
      /\ capturing => has["fds"] \in Names
      /\ ~capturing' => has' = NoParts
      /\ capturing' => has'["fds"] \in Names
  BY <1>1 DEF GlInv, Sound, Now
<1>3. NoParts["fds"] = NoName
  BY DEF NoParts, Parts
<1>4. CASE UNCHANGED glVars
  BY <1>4 DEF glVars
<1>5. ASSUME NEW api \in Apis, InitFuncs(api)
      PROVE  Hook!Renew
  BY <1>5 DEF InitFuncs, Hook!Renew, GlInv
<1>6. ASSUME NEW api \in Apis, DestroyContext(api)
      PROVE  Hook!Stop
  <2>1. ~Freed(Now).capturing /\ Freed(Now).valid = valid
    BY FreedSound DEF GlInv, Sound, Now
  <2> QED
    BY <1>2, <1>3, <1>6, <2>1 DEF DestroyContext, Becomes, Hook!Stop
<1>7. ASSUME NEW api \in Apis, NEW s \in Surfaces, SwapBuffers(api, s)
      PROVE  Hook!Start \/ Hook!Stop \/ Hook!Disable
  <2>1. PICK wanted \in BOOLEAN, anew \in BOOLEAN :
            valid /\ Capture(api, s, wanted, anew)
    BY <1>7 DEF SwapBuffers, Swap
  <2>2. valid' = valid \/ (~valid' /\ ~capturing')
    BY <2>1, CaptureSound
  <2> QED
    BY <1>2, <1>3, <2>1, <2>2 DEF Hook!Start, Hook!Stop, Hook!Disable
<1>8. ASSUME NEW s \in Surfaces, Resize(s)
      PROVE  UNCHANGED Hook!hookVars
  BY <1>8 DEF Resize
<1> QED
  BY <1>4, <1>5, <1>6, <1>7, <1>8 DEF GlNext

\* To capture.c the OpenGL hook is the hook that CaptureClient assumes: there
\* is a buffer exactly while it captures, and it stays off after a failure.
THEOREM GlIsAHook == GlSpec => IsAHook
<1>1. GlInit => Hook!HookInit
  BY DEF GlInit, Hook!HookInit, NoParts, Parts
<1>2. GlInv /\ [GlNext]_glVars => [Hook!HookNext]_(Hook!hookVars)
  BY GlStepIsAHook
<1> QED
  BY <1>1, <1>2, GlInitInv, GlNextInv, PTL DEF GlSpec, IsAHook
=============================================================================
