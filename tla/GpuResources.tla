---------------------------- MODULE GpuResources ----------------------------
(***************************************************************************)
(* The Vulkan objects of VulkanRenderer: those it keeps itself, those of   *)
(* m_frames, and those behind the geometry and texture handles it gives to *)
(* RmlUi, from Initialize to Shutdown, with every creating call failing.   *)
(*                                                                         *)
(* Each renderer belongs to one OverlayUI, and at most one exists.  The    *)
(* fences Render waits for are the subject of Overlay; here the wait is    *)
(* the guard that no submission of the image is in flight.  A null handle  *)
(* in a call may end the process, and the behaviour with it.               *)
(***************************************************************************)
EXTENDS Integers, Sequences

CONSTANTS
  NRenderers,   \* bound: overlays created one after the other
  NImages,      \* images of the swapchain
  NGeometry,    \* bound: geometry handles RmlUi holds at a time
  NTextures,    \* bound: texture handles RmlUi holds at a time
  PoolSize      \* maxSets of m_descPool

ASSUME GpuAssumption ==
  /\ NRenderers \in Nat /\ NGeometry \in Nat /\ NTextures \in Nat
  /\ NImages \in Nat \ {0}
  /\ PoolSize \in Nat \ {0}

Renderers == 1 .. NRenderers
Images    == 1 .. NImages
Geometry  == 1 .. NGeometry
Textures  == 1 .. NTextures

CoreKind ==
  {"commandPool", "descSetLayout", "pipelineLayout", "sampler", "descPool",
   "whiteImage", "whiteMemory", "whiteView", "renderPass", "pipeline"}
FrameKind    == {"cmdBuf", "imageView", "framebuffer"}
GeometryKind == {"vertexBuffer", "vertexMemory", "indexBuffer", "indexMemory"}
TextureKind  == {"image", "memory", "view"}

VARIABLES
  ren,       \* the renderer of the overlay, by order of creation
  phase,     \* "none", "initialized" (not resized yet) or "ready"
  fields,    \* members of the renderer that are not null
  whiteSet,  \* m_whiteDescSet is not null
  sets,      \* descriptor sets taken from m_descPool
  frames,    \* <<image, kind>> of m_frames that are not null
  geo, tex,  \* the handles RmlUi holds
  cmd,       \* the image m_currentCmdBuf is of (0: null)
  recording, \* between PrepareFrame and SubmitFrame
  refs,      \* objects recorded into m_currentCmdBuf
  flight,    \* for each image, the objects its submission in flight uses
  live,      \* objects the driver has created and not destroyed
  gone,      \* history: for each image, objects released after its frame recorded
             \* them and before it was submitted
  wild,      \* history: an object was destroyed that did not exist
  failed     \* history: renderers whose Initialize returned false

coreVars  == <<ren, phase, fields, whiteSet, failed>>
frameVars == <<cmd, recording, refs, flight, gone>>
vars == <<coreVars, frameVars, sets, frames, geo, tex, live, wild>>

(* An object is the renderer that made it, a handle or image, and a kind. *)
Of(r, N, K)   == {<<r, n, k>> : n \in N, k \in K}
Core(r, K)    == Of(r, {0}, K)
Geom(r, H)    == Of(r, H, GeometryKind)
Vertex(r, h)  == Of(r, {h}, {"vertexBuffer", "vertexMemory"})
Texture(r, H) == Of(r, H, TextureKind)
Frame(r, F)   == {<<r, f[1], f[2]>> : f \in F}
Staging(r)    == Core(r, {"stagingBuffer", "stagingMemory"})

Object == Renderers \X (0 .. NImages + NGeometry + NTextures)
            \X (CoreKind \cup FrameKind \cup GeometryKind \cup TextureKind)

Init ==
  /\ ren = 0 /\ phase = "none" /\ fields = {} /\ whiteSet = FALSE
  /\ sets = 0 /\ frames = {} /\ geo = {} /\ tex = {}
  /\ cmd = 0 /\ recording = FALSE /\ refs = {}
  /\ flight = [i \in Images |-> {}]
  /\ gone = [i \in Images |-> {}]
  /\ live = {} /\ wild = FALSE /\ failed = {}

(* The driver creates the one and destroys the other objects. *)
Drive(made, freed) ==
  /\ live' = (live \cup made) \ freed
  /\ wild' = (wild \/ ~(freed \subseteq live \cup made))

(* What exists when CreateDeviceBuffer or CreateDeviceImage gives up; it   *)
(* destroys all of it.                                                     *)
Unbacked(r, h, a, m) == {{}, {<<r, h, a>>}, {<<r, h, a>>, <<r, h, m>>}}

(* What UploadImageData has created and destroyed when it returns. *)
UploadFails(r) ==
  Unbacked(r, 0, "stagingBuffer", "stagingMemory") \cup {Staging(r)}
UploadDone(r) == Staging(r) \cup Core(r, {"uploadCommands"})

----------------------------------------------------------------------------
(* Creation and destruction. *)

InitSteps ==
  <<{"commandPool"}, {"descSetLayout"}, {"pipelineLayout"}, {"sampler"},
    {"descPool"}, {"whiteImage", "whiteMemory"}, {"whiteView"}>>
InitKind(k) == UNION {InitSteps[j] : j \in 1 .. k}

(* What Shutdown destroys among the members that are not null. *)
ShutdownKind ==
  {"pipeline", "renderPass", "whiteView", "whiteImage", "whiteMemory",
   "descPool", "sampler", "pipelineLayout", "descSetLayout", "commandPool"}

(* Initialize stops at the first failure, and the overlay is destroyed:    *)
(* the destructor of a renderer that is not m_initialized does nothing.    *)
(* SetupWithQueue ignores its failures.  When Rml::Initialise fails, the   *)
(* destructor shuts the renderer down.                                     *)
Initialize ==
  LET r == ren + 1
      core == Core(r, InitKind(Len(InitSteps)))
      passings == UploadFails(r) \cup {UploadDone(r)}
  IN
  /\ phase = "none" /\ r \in Renderers
  /\ ren' = r
  /\ \/ /\ \E k \in 0 .. Len(InitSteps) - 1 : Drive(Core(r, InitKind(k)), {})
        /\ failed' = failed \cup {r}
        /\ UNCHANGED <<phase, fields, whiteSet, sets>>
     \/ /\ \E passing \in passings :
             Drive(core \cup passing, passing \cup (core \cap Core(r, ShutdownKind)))
        /\ UNCHANGED <<phase, fields, whiteSet, sets, failed>>
     \/ /\ \E passing \in passings : Drive(core \cup passing, passing)
        /\ fields' = InitKind(Len(InitSteps))
        /\ whiteSet' \in BOOLEAN
        /\ sets' = IF whiteSet' THEN 1 ELSE 0
        /\ phase' = "initialized"
        /\ UNCHANGED failed
  /\ UNCHANGED <<frameVars, frames, geo, tex>>

(* m_frames as ResizeSwapchain can leave it: without handles, or with all  *)
(* command buffers and the views and framebuffers made before a failure.   *)
FrameHandles ==
  {{}} \cup
  UNION {{(Images \X {"cmdBuf"}) \cup ((1 .. v) \X {"imageView"})
                               \cup ((1 .. f) \X {"framebuffer"}) :
            f \in {v, v - 1} \cap Nat} : v \in 0 .. NImages}

\* The shader modules CreatePipeline has made when it fails or succeeds.
ShaderModules == {{}, {"vertModule"}, {"vertModule", "fragModule"}}

\* The shader modules kept.
ResizeKeepingModules ==
  /\ phase = "initialized"
  /\ phase' = "ready"
  /\ \E modules \in ShaderModules :
       /\ fields' = fields \cup {"renderPass"}
       /\ frames' \in FrameHandles
       /\ Drive(Core(ren, (fields' \ fields) \cup modules) \cup Frame(ren, frames'), {})
  /\ UNCHANGED <<ren, whiteSet, failed, frameVars, sets, geo, tex>>

(* The only caller resizes a renderer once, right after Initialize: there  *)
(* is nothing of an earlier call to destroy.                               *)
ResizeSwapchain ==
  /\ phase = "initialized"
  /\ phase' = "ready"
  /\ \/ UNCHANGED <<fields, frames, live, wild>>
     \/ \E modules \in ShaderModules, p \in BOOLEAN :
          /\ p => modules = {"vertModule", "fragModule"}
          /\ fields' = fields \cup {"renderPass"} \cup (IF p THEN {"pipeline"} ELSE {})
          /\ frames' \in FrameHandles
          /\ Drive(Core(ren, (fields' \ fields) \cup modules) \cup Frame(ren, frames'),
                   Core(ren, modules))
  /\ UNCHANGED <<ren, whiteSet, failed, frameVars, sets, geo, tex>>

\* m_currentCmdBuf left dangling.
DestroyFramesOnly ==
  /\ phase = "ready" /\ ~recording
  /\ frames' = {}
  /\ Drive({}, Frame(ren, frames))
  /\ UNCHANGED <<coreVars, frameVars, sets, geo, tex>>

(* The hooks that create or destroy a swapchain.  Nothing waits for        *)
(* submissions here (see Overlay).                                         *)
DestroySwapchainResources ==
  /\ phase = "ready" /\ ~recording
  /\ frames' = {}
  /\ cmd' = IF frames = {} THEN cmd ELSE 0
  /\ Drive({}, Frame(ren, frames))
  /\ UNCHANGED <<coreVars, recording, refs, flight, gone, sets, geo, tex>>

\* DeviceWaitIdle.  It does not wait for a frame that is still being recorded.
Idle == flight' = [i \in Images |-> {}]

(* ~OverlayUI: RmlUi gives back its handles, then the renderer goes. *)
Shutdown ==
  /\ phase = "ready" /\ ~recording
  /\ Idle
  /\ geo' = {} /\ tex' = {} /\ frames' = {} /\ cmd' = 0
  /\ fields' = fields \ ShutdownKind
  /\ whiteSet' = FALSE /\ sets' = 0
  /\ phase' = "none"
  /\ refs' = {}
  /\ Drive({}, Geom(ren, geo) \cup Texture(ren, tex) \cup Frame(ren, frames)
               \cup Core(ren, fields \cap ShutdownKind))
  /\ UNCHANGED <<ren, failed, recording, gone>>

----------------------------------------------------------------------------
(* Handles of RmlUi. *)

\* The memory of the vertices forgotten when the indices fail.
CompileGeometryLeaking(h) ==
  /\ phase = "ready" /\ h \notin geo
  /\ \E made \in Unbacked(ren, h, "indexBuffer", "indexMemory") :
       Drive(Vertex(ren, h) \cup made, made \cup {<<ren, h, "vertexBuffer">>})
  /\ UNCHANGED <<coreVars, frameVars, sets, frames, geo, tex>>

(* Vertex and index buffer, each created and filled; a failure undoes all. *)
CompileGeometry(h) ==
  /\ phase = "ready" /\ h \notin geo
  /\ \/ /\ geo' = geo \cup {h}
        /\ Drive(Geom(ren, {h}), {})
     \/ /\ \E made \in Unbacked(ren, h, "vertexBuffer", "vertexMemory") : Drive(made, made)
        /\ UNCHANGED geo
     \/ /\ Drive(Vertex(ren, h), Vertex(ren, h))
        /\ UNCHANGED geo
     \/ /\ \E made \in Unbacked(ren, h, "indexBuffer", "indexMemory") :
             Drive(Vertex(ren, h) \cup made, made \cup Vertex(ren, h))
        /\ UNCHANGED geo
     \/ /\ Drive(Geom(ren, {h}), Geom(ren, {h}))
        /\ UNCHANGED geo
  /\ UNCHANGED <<coreVars, frameVars, sets, frames, tex>>

(* Image, upload, view and descriptor set; a failure undoes what exists.   *)
(* A pool without sets left fails.                                         *)
GenerateTexture(h) ==
  LET pair == Of(ren, {h}, {"image", "memory"})
  IN
  /\ phase = "ready" /\ h \notin tex
  /\ \/ /\ \E made \in Unbacked(ren, h, "image", "memory") : Drive(made, made)
        /\ UNCHANGED <<tex, sets>>
     \/ /\ \E passing \in UploadFails(ren) : Drive(pair \cup passing, passing \cup pair)
        /\ UNCHANGED <<tex, sets>>
     \/ /\ \E made \in {pair, Texture(ren, {h})} :
             Drive(made \cup UploadDone(ren), UploadDone(ren) \cup made)
        /\ UNCHANGED <<tex, sets>>
     \/ /\ sets < PoolSize
        /\ sets' = sets + 1
        /\ tex' = tex \cup {h}
        /\ Drive(Texture(ren, {h}) \cup UploadDone(ren), UploadDone(ren))
  /\ UNCHANGED <<coreVars, frameVars, frames, geo>>

\* Objects destroyed under the frame being recorded.
Lost(objects) ==
  gone' = [i \in Images |-> IF i = cmd THEN gone[i] \cup (objects \cap refs) ELSE gone[i]]

\* The device not waited for.
ReleaseGeometryAtOnce(h) ==
  /\ h \in geo
  /\ geo' = geo \ {h}
  /\ Drive({}, Geom(ren, {h})) /\ Lost(Geom(ren, {h}))
  /\ UNCHANGED <<coreVars, cmd, recording, refs, flight, sets, frames, tex>>

(* RmlUi releases handles when it likes, also while it renders.            *)
ReleaseGeometry(h) ==
  /\ h \in geo
  /\ Idle
  /\ geo' = geo \ {h}
  /\ Drive({}, Geom(ren, {h})) /\ Lost(Geom(ren, {h}))
  /\ UNCHANGED <<coreVars, cmd, recording, refs, sets, frames, tex>>

(* The descriptor set stays in the pool. *)
ReleaseTexture(h) ==
  /\ h \in tex
  /\ Idle
  /\ tex' = tex \ {h}
  /\ Drive({}, Texture(ren, {h})) /\ Lost(Texture(ren, {h}))
  /\ UNCHANGED <<coreVars, cmd, recording, refs, sets, frames, geo>>

----------------------------------------------------------------------------
(* Frames. *)

\* What recording into the image's own command buffer works with.
OfFrame(i) == Of(ren, {i}, FrameKind)

(* Without a pipeline or frames there is none; a command buffer that       *)
(* cannot be begun stays the current one.                                  *)
PrepareFrame(i) ==
  /\ phase = "ready" /\ ~recording
  /\ flight[i] = {}
  /\ "pipeline" \in fields /\ <<i, "cmdBuf">> \in frames
  /\ cmd' = i
  /\ gone' = [gone EXCEPT ![i] = {}]
  /\ \/ UNCHANGED <<recording, refs>>
     \/ /\ <<i, "framebuffer">> \in frames
        /\ recording' = TRUE
        /\ refs' = OfFrame(i) \cup Core(ren, {"commandPool", "renderPass", "pipeline"})
  /\ UNCHANGED <<coreVars, flight, sets, frames, geo, tex, live, wild>>

(* A draw; without a texture it binds the set of the white one. *)
RenderGeometry(g, t) ==
  /\ recording
  /\ g \in geo /\ t \in tex \cup {0}
  /\ refs' = refs
       \cup Geom(ren, {g})
       \cup Core(ren, {"pipelineLayout"})
       \cup (IF t # 0
             THEN Texture(ren, {t}) \cup Core(ren, {"descPool", "sampler"})
             ELSE IF whiteSet
             THEN Core(ren, {"whiteImage", "whiteMemory", "whiteView", "descPool", "sampler"})
             ELSE {})
  /\ UNCHANGED <<coreVars, cmd, recording, flight, gone, sets, frames, geo, tex, live, wild>>

(* QueueSubmit may fail, which nobody looks at. *)
SubmitFrame ==
  /\ recording
  /\ \/ flight' = [flight EXCEPT ![cmd] = refs]
     \/ UNCHANGED flight
  /\ recording' = FALSE /\ refs' = {} /\ cmd' = 0
  /\ UNCHANGED <<coreVars, gone, sets, frames, geo, tex, live, wild>>

GpuComplete(i) ==
  /\ flight[i] # {}
  /\ flight' = [flight EXCEPT ![i] = {}]
  /\ UNCHANGED <<coreVars, cmd, recording, refs, gone, sets, frames, geo, tex, live, wild>>

----------------------------------------------------------------------------
Next ==
  \/ Initialize \/ ResizeSwapchain \/ DestroySwapchainResources \/ Shutdown
  \/ \E h \in Geometry : CompileGeometry(h) \/ ReleaseGeometry(h)
  \/ \E h \in Textures : GenerateTexture(h) \/ ReleaseTexture(h)
  \/ \E i \in Images : PrepareFrame(i) \/ GpuComplete(i)
  \/ \E g \in Geometry, t \in Textures \cup {0} : RenderGeometry(g, t)
  \/ SubmitFrame

Spec == Init /\ [][Next]_vars

----------------------------------------------------------------------------
Flags == whiteSet \in BOOLEAN /\ recording \in BOOLEAN /\ wild \in BOOLEAN

(* Every variable has its type; whatever a call needs for its own duration *)
(* (staging buffers, shader modules) is gone when it returns.              *)
TypeOK ==
  /\ Flags
  /\ ren \in 0 .. NRenderers
  /\ phase \in {"none", "initialized", "ready"}
  /\ fields \subseteq CoreKind
  /\ sets \in 0 .. PoolSize
  /\ frames \subseteq Images \X FrameKind
  /\ geo \subseteq Geometry /\ tex \subseteq Textures
  /\ cmd \in 0 .. NImages
  /\ refs \subseteq Object
  /\ flight \in [Images -> SUBSET Object]
  /\ gone \in [Images -> SUBSET Object]
  /\ live \subseteq Object
  /\ failed \subseteq Renderers

(* What the members, m_frames and the handles of RmlUi stand for. *)
Held ==
  Core(ren, fields) \cup Frame(ren, frames) \cup Geom(ren, geo) \cup Texture(ren, tex)

(* Every object the driver still has is one the renderer can still         *)
(* destroy, whichever call failed before, and a renderer that is gone has  *)
(* left nothing - unless its Initialize failed (the error paths of         *)
(* CompileGeometry, GenerateTexture and CreatePipeline; Shutdown).         *)
NothingOrphaned ==
  \A o \in live : o \in Held \/ o[1] \in failed

(* Nothing is destroyed twice, and no member, frame or handle, nor the     *)
(* current command buffer, refers to an object that is gone.               *)
HandlesAreLive ==
  /\ ~wild
  /\ Held \subseteq live
  /\ cmd # 0 => <<ren, cmd, "cmdBuf">> \in live

(* Recorded and submitted work uses only objects that exist, but for two   *)
(* cases: a swapchain hook drops m_frames under the frames in flight       *)
(* (DestroySwapchainResources waits for nothing), and RmlUi releases a     *)
(* handle between drawing with it and the end of that frame.  In every     *)
(* other order of draws, submissions, releases, hooks and shutdown the     *)
(* device is idle first, and PrepareFrame, which looks at m_pipeline       *)
(* alone, meets its render pass, view and command buffer.                  *)
InFlightWorkIsLive ==
  /\ recording => refs \subseteq live \cup gone[cmd]
  /\ \A i \in Images : \A o \in flight[i] :
       o \in live \cup gone[i] \/ (frames = {} /\ o[3] \in FrameKind)

----------------------------------------------------------------------------
(* What makes the properties inductive. *)

\* What submissions may use besides m_frames.
Lasting == Core(ren, fields) \cup Geom(ren, geo) \cup Texture(ren, tex)

\* A renderer that is gone has no handles, one that is there has its members;
\* a framebuffer has its view.
MembersByPhase ==
  /\ phase = "none" => fields = {} /\ frames = {} /\ geo = {} /\ tex = {}
  /\ phase = "initialized" => frames = {}
  /\ phase # "none" => ren \in Renderers /\ InitKind(Len(InitSteps)) \subseteq fields
  /\ "pipeline" \in fields => "renderPass" \in fields
  /\ whiteSet => {"whiteImage", "whiteView"} \subseteq fields
  /\ \A i \in Images : <<i, "framebuffer">> \in frames => <<i, "imageView">> \in frames

\* Recorded work uses what lasts and m_frames; submitted work may survive m_frames.
WorkIsHeld ==
  /\ recording => refs \subseteq Lasting \cup Frame(ren, frames) \cup gone[cmd]
  /\ \A i \in Images : \A o \in flight[i] :
       \/ o \in Lasting \cup Frame(ren, frames) \cup gone[i]
       \/ frames = {} /\ o[3] \in FrameKind
  /\ phase # "ready" => \A i \in Images : flight[i] = {}
  /\ recording => phase = "ready" /\ cmd # 0
  /\ ~recording => refs = {}
  /\ cmd # 0 => <<cmd, "cmdBuf">> \in frames

Accounted == ~wild /\ Held \subseteq live /\ NothingOrphaned

IInv == TypeOK /\ MembersByPhase /\ WorkIsHeld /\ Accounted
=============================================================================
