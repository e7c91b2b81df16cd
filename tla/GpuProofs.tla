----------------------------- MODULE GpuProofs -----------------------------
(***************************************************************************)
(* Theorems about GpuResources for every number of renderers, images,      *)
(* handles and descriptor sets.  What the driver creates and destroys in   *)
(* one call is accounted for by a single lemma about sets (DriveAccounts); *)
(* each operation only shows that the members, frames and handles change   *)
(* by exactly that.                                                        *)
(***************************************************************************)
EXTENDS GpuResources, TLAPS

USE GpuAssumption DEF Renderers, Images, Geometry, Textures

----------------------------------------------------------------------------
(* Kinds and objects. *)

\* Shutdown destroys every kind of member, and Initialize makes eight.
LEMMA Kinds ==
  /\ ShutdownKind = CoreKind
  /\ Len(InitSteps) = 7
  /\ InitKind(7) = {"commandPool", "descSetLayout", "pipelineLayout", "sampler",
                    "descPool", "whiteImage", "whiteMemory", "whiteView"}
  /\ \A k \in 0 .. 6 : InitKind(k) \subseteq CoreKind
<1>1. ShutdownKind = CoreKind
  BY DEF ShutdownKind, CoreKind
<1>2. Len(InitSteps) = 7
  BY DEF InitSteps
<1>3. \A j \in 1 .. 7 : InitSteps[j] \subseteq CoreKind
  BY DEF InitSteps, CoreKind
<1>4. \A k \in 0 .. 6 : InitKind(k) \subseteq CoreKind
  BY <1>3 DEF InitKind
<1>5. \A x : x \in InitKind(7) <=> \E j \in 1 .. 7 : x \in InitSteps[j]
  BY DEF InitKind
<1>6. \A x : (\E j \in 1 .. 7 : x \in InitSteps[j])
         <=> x \in InitSteps[1] \cup InitSteps[2] \cup InitSteps[3] \cup InitSteps[4]
                     \cup InitSteps[5] \cup InitSteps[6] \cup InitSteps[7]
  OBVIOUS
<1>7. InitKind(7) = {"commandPool", "descSetLayout", "pipelineLayout", "sampler",
                     "descPool", "whiteImage", "whiteMemory", "whiteView"}
  BY <1>5, <1>6 DEF InitSteps
<1> QED
  BY <1>1, <1>2, <1>4, <1>7

\* The objects made for members, handles and frames are objects.
LEMMA ObjectsHaveType ==
  ASSUME NEW r \in Renderers
  PROVE  /\ \A K \in SUBSET CoreKind : Core(r, K) \subseteq Object
         /\ \A H \in SUBSET Geometry : Geom(r, H) \subseteq Object
         /\ \A H \in SUBSET Textures : Texture(r, H) \subseteq Object
         /\ \A F \in SUBSET (Images \X FrameKind) : Frame(r, F) \subseteq Object
BY DEF Core, Geom, Texture, Frame, Of, Object

\* The one account for all calls: if what is held changes by what the driver
\* makes and destroys, nothing is orphaned, dangling or destroyed twice.
LEMMA DriveAccounts ==
  ASSUME Accounted, NEW made, NEW freed, Drive(made, freed),
         freed \subseteq Held \cup made,
         Held' = (Held \cup made) \ freed,
         failed \subseteq failed'
  PROVE  Accounted'
BY DEF Accounted, Drive, NothingOrphaned

\* A call that destroys all it has made leaves no trace, if it was new.
LEMMA DriveUndone ==
  ASSUME Accounted, NEW made, Drive(made, made),
         made \cap Held = {}, Held' = Held, failed' = failed
  PROVE  Accounted'
BY DEF Accounted, Drive, NothingOrphaned

\* The types of what a call leaves behind.
LEMMA DriveTypes ==
  ASSUME TypeOK, NEW made, NEW freed, Drive(made, freed), made \ freed \subseteq Object
  PROVE  live' \subseteq Object /\ wild' \in BOOLEAN
BY DEF Drive, TypeOK, Flags

\* What exists when a buffer or image could not be had.
LEMMA UnbackedIs ==
  ASSUME NEW r, NEW h, NEW a, NEW m, NEW made \in Unbacked(r, h, a, m)
  PROVE  made \subseteq Of(r, {h}, {a, m})
BY DEF Unbacked, Of

\* An upload leaves only objects of its own.
LEMMA UploadIs ==
  ASSUME NEW r, NEW passing \in UploadFails(r) \cup {UploadDone(r)}
  PROVE  passing \subseteq Core(r, {"stagingBuffer", "stagingMemory", "uploadCommands"})
<1>1. Staging(r) \subseteq Core(r, {"stagingBuffer", "stagingMemory", "uploadCommands"})
  BY DEF Staging, Core, Of
<1>2. ASSUME NEW made \in Unbacked(r, 0, "stagingBuffer", "stagingMemory")
      PROVE  made \subseteq Core(r, {"stagingBuffer", "stagingMemory", "uploadCommands"})
  BY <1>2, UnbackedIs DEF Core, Of
<1>3. UploadDone(r) \subseteq Core(r, {"stagingBuffer", "stagingMemory", "uploadCommands"})
  BY <1>1 DEF UploadDone, Core, Of
<1> QED
  BY <1>1, <1>2, <1>3 DEF UploadFails

\* A handle not given out yet has no objects, and what a call needs for its
\* own duration is never held.
LEMMA NewIsNotHeld ==
  ASSUME TypeOK
  PROVE  /\ \A h : h \notin geo => Geom(ren, {h}) \cap Held = {}
         /\ \A h : h \notin tex => Texture(ren, {h}) \cap Held = {}
         /\ Core(ren, {"stagingBuffer", "stagingMemory", "uploadCommands"}) \cap Held = {}
         /\ Core(ren, {"vertModule", "fragModule"}) \cap Held = {}
<1>1. \A o \in Core(ren, fields) : o[3] \in CoreKind
  BY DEF TypeOK, Core, Of
<1>2. \A o \in Frame(ren, frames) : o[3] \in FrameKind
  BY DEF TypeOK, Frame
<1>3. \A o \in Geom(ren, geo) : o[3] \in GeometryKind /\ o[2] \in geo
  BY DEF Geom, Of
<1>4. \A o \in Texture(ren, tex) : o[3] \in TextureKind /\ o[2] \in tex
  BY DEF Texture, Of
<1>5. \A h : \A o \in Geom(ren, {h}) : o[3] \in GeometryKind /\ o[2] = h
  BY DEF Geom, Of
<1>6. \A h : \A o \in Texture(ren, {h}) : o[3] \in TextureKind /\ o[2] = h
  BY DEF Texture, Of
<1>7. \A o \in Core(ren, {"stagingBuffer", "stagingMemory", "uploadCommands"}) :
        o[3] \in {"stagingBuffer", "stagingMemory", "uploadCommands"}
  BY DEF Core, Of
<1>8. \A o \in Core(ren, {"vertModule", "fragModule"}) : o[3] \in {"vertModule", "fragModule"}
  BY DEF Core, Of
<1> DEFINE kinds == CoreKind \cup FrameKind \cup GeometryKind \cup TextureKind
<1>9. \A o \in Held : o[3] \in kinds
  BY <1>1, <1>2, <1>3, <1>4 DEF Held
<1>10. /\ kinds \cap {"stagingBuffer", "stagingMemory", "uploadCommands"} = {}
       /\ kinds \cap {"vertModule", "fragModule"} = {}
       /\ GeometryKind \cap (CoreKind \cup FrameKind \cup TextureKind) = {}
       /\ TextureKind \cap (CoreKind \cup FrameKind \cup GeometryKind) = {}
  BY DEF CoreKind, FrameKind, GeometryKind, TextureKind
<1>11. \A h : h \notin geo => Geom(ren, {h}) \cap Held = {}
  BY <1>1, <1>2, <1>3, <1>4, <1>5, <1>10 DEF Held
<1>12. \A h : h \notin tex => Texture(ren, {h}) \cap Held = {}
  BY <1>1, <1>2, <1>3, <1>4, <1>6, <1>10 DEF Held
<1> QED
  BY <1>7, <1>8, <1>9, <1>10, <1>11, <1>12

----------------------------------------------------------------------------
(* One lemma per operation. *)

\* At first there is nothing.
LEMMA InitSafe == ASSUME Init PROVE IInv
<1> USE DEF Init
<1>1. Flags
  BY DEF Flags
<1>2a. TypeOK
  BY <1>1 DEF TypeOK
<1>2. MembersByPhase
  BY DEF MembersByPhase
<1>3. WorkIsHeld
  BY DEF WorkIsHeld
<1>4. Held = {}
  BY DEF Held, Core, Frame, Geom, Texture, Of
<1> QED
  BY <1>2a, <1>2, <1>3, <1>4 DEF IInv, Accounted, NothingOrphaned

\* A call that fails and undoes all it has made.
LEMMA UndoneSafe ==
  ASSUME IInv, NEW made, Drive(made, made), made \cap Held = {},
         UNCHANGED <<coreVars, frameVars, sets, frames, geo, tex>>
  PROVE  IInv'
<1> USE DEF IInv
<1>1. Held' = Held /\ Lasting' = Lasting
  BY DEF Held, Lasting, coreVars
<1>2. Accounted'
  BY <1>1, DriveUndone DEF coreVars
<1>3. live' \subseteq Object /\ wild' \in BOOLEAN
  BY DriveTypes
<1>4. Flags'
  BY <1>3 DEF TypeOK, Flags, coreVars, frameVars
<1>5. TypeOK'
  BY <1>3, <1>4 DEF TypeOK, coreVars, frameVars
<1>6. MembersByPhase'
  BY DEF MembersByPhase, coreVars
<1>7. WorkIsHeld'
  BY <1>1 DEF WorkIsHeld, coreVars, frameVars
<1> QED
  BY <1>2, <1>5, <1>6, <1>7

\* Objects of some numbers without those of one of them.
LEMMA OfMinus ==
  ASSUME NEW r, NEW N, NEW h \in N, NEW K
  PROVE  Of(r, {h}, K) \subseteq Of(r, N, K) /\ Of(r, N \ {h}, K) = Of(r, N, K) \ Of(r, {h}, K)
<1>1. \A n, k : <<r, n, k>> \in Of(r, {h}, K) <=> n = h /\ k \in K
  BY DEF Of
<1>2. \A n, k : <<r, n, k>> \in Of(r, N, K) <=> n \in N /\ k \in K
  BY DEF Of
<1>3. \A n, k : <<r, n, k>> \in Of(r, N \ {h}, K) <=> n \in N \ {h} /\ k \in K
  BY DEF Of
<1>4. \A o \in Of(r, N, K) : \E n, k : o = <<r, n, k>>
  BY DEF Of
<1>5. \A o \in Of(r, {h}, K) \cup Of(r, N \ {h}, K) : \E n, k : o = <<r, n, k>>
  BY DEF Of
<1> QED
  BY <1>1, <1>2, <1>3, <1>4, <1>5

\* A geometry compiled, or undone at any point of failure.
LEMMA CompileSafe ==
  ASSUME IInv, NEW h \in Geometry, CompileGeometry(h)
  PROVE  IInv'
<1> USE DEF IInv
<1>a. ren \in Renderers /\ h \notin geo
  BY DEF CompileGeometry, MembersByPhase
<1>b. UNCHANGED <<coreVars, frameVars, sets, frames, tex>>
  BY DEF CompileGeometry
<1>1. CASE geo' = geo \cup {h} /\ Drive(Geom(ren, {h}), {})
  <2>1. Held' = (Held \cup Geom(ren, {h})) \ {} /\ Lasting \subseteq Lasting'
    BY <1>1, <1>b DEF Held, Lasting, Geom, Of, coreVars
  <2>2. Accounted'
    BY <2>1, <1>1, <1>b, DriveAccounts DEF coreVars
  <2>3. live' \subseteq Object /\ wild' \in BOOLEAN
    BY <1>1, <1>a, DriveTypes, ObjectsHaveType
  <2>4. Flags'
    BY <2>3, <1>b DEF TypeOK, Flags, coreVars, frameVars
  <2>5. TypeOK'
    BY <2>3, <2>4, <1>1, <1>b DEF TypeOK, coreVars, frameVars
  <2>6. MembersByPhase'
    BY <1>b, <1>1 DEF CompileGeometry, MembersByPhase, coreVars
  <2>7. WorkIsHeld'
    BY <2>1, <1>b DEF WorkIsHeld, coreVars, frameVars
  <2> QED
    BY <2>2, <2>5, <2>6, <2>7
<1>2. CASE geo' = geo /\ \E made \in SUBSET Geom(ren, {h}) : Drive(made, made)
  BY <1>2, <1>a, <1>b, NewIsNotHeld, UndoneSafe
<1>3. Of(ren, {h}, {"vertexBuffer", "vertexMemory"}) \cup Of(ren, {h}, {"indexBuffer", "indexMemory"})
        \subseteq Geom(ren, {h})
  BY DEF Geom, Of, GeometryKind
<1>4. \A m \in Unbacked(ren, h, "vertexBuffer", "vertexMemory") : m \in SUBSET Geom(ren, {h})
  BY <1>3, UnbackedIs
<1>5. \A m \in Unbacked(ren, h, "indexBuffer", "indexMemory") :
        m \cup Vertex(ren, h) \in SUBSET Geom(ren, {h}) /\ m \cup Vertex(ren, h) = Vertex(ren, h) \cup m
  BY <1>3, UnbackedIs DEF Vertex
<1> QED
  BY <1>1, <1>2, <1>3, <1>4, <1>5 DEF CompileGeometry, Vertex

\* A texture generated, or undone at any point of failure.
LEMMA GenerateSafe ==
  ASSUME IInv, NEW h \in Textures, GenerateTexture(h)
  PROVE  IInv'
<1> USE DEF IInv
<1> DEFINE pair    == Of(ren, {h}, {"image", "memory"})
           passing == Core(ren, {"stagingBuffer", "stagingMemory", "uploadCommands"})
<1>a. ren \in Renderers /\ h \notin tex
  BY DEF GenerateTexture, MembersByPhase
<1>b. UNCHANGED <<coreVars, frameVars, frames, geo>>
  BY DEF GenerateTexture
<1>c. pair \subseteq Texture(ren, {h})
  BY DEF Texture, Of, TextureKind
<1>d. passing \cap Held = {} /\ Texture(ren, {h}) \cap Held = {}
  BY <1>a, NewIsNotHeld
<1>1. CASE /\ UNCHANGED <<tex, sets>>
           /\ \E made \in SUBSET (Texture(ren, {h}) \cup passing) : Drive(made, made)
  BY <1>1, <1>b, <1>d, UndoneSafe
<1>2. CASE /\ sets < PoolSize /\ sets' = sets + 1 /\ tex' = tex \cup {h}
           /\ Drive(Texture(ren, {h}) \cup UploadDone(ren), UploadDone(ren))
  <2>1. UploadDone(ren) \subseteq passing
    BY UploadIs
  <2>2. Held \cup Texture(ren, {h}) = Held' /\ Lasting \subseteq Lasting'
    BY <1>2, <1>b DEF Held, Lasting, Texture, Of, coreVars
  <2>3. passing \cap Texture(ren, {h}) = {}
    BY DEF Texture, Core, Of, TextureKind
  <2>4. Held' = (Held \cup (Texture(ren, {h}) \cup UploadDone(ren))) \ UploadDone(ren)
    BY <2>1, <2>2, <2>3, <1>d
  <2>5. Accounted'
    BY <2>4, <1>2, <1>b, DriveAccounts DEF coreVars
  <2>6. live' \subseteq Object /\ wild' \in BOOLEAN
    BY <1>2, <1>a, DriveTypes, ObjectsHaveType
  <2>7. Flags'
    BY <2>6, <1>b DEF TypeOK, Flags, coreVars, frameVars
  <2>8. TypeOK'
    BY <2>6, <2>7, <1>2, <1>b DEF TypeOK, coreVars, frameVars
  <2>9. MembersByPhase'
    BY <1>b, <1>2 DEF GenerateTexture, MembersByPhase, coreVars
  <2>10. WorkIsHeld'
    BY <2>2, <1>b DEF WorkIsHeld, coreVars, frameVars
  <2> QED
    BY <2>5, <2>8, <2>9, <2>10
<1>3. \A m \in Unbacked(ren, h, "image", "memory") : m \in SUBSET (Texture(ren, {h}) \cup passing)
  BY <1>c, UnbackedIs
<1>4. \A p \in UploadFails(ren) \cup {UploadDone(ren)} : p \in SUBSET passing
  BY UploadIs
<1>5. ASSUME NEW p, NEW q, Drive(p \cup q, q \cup p)
      PROVE  Drive(p \cup q, p \cup q)
  <2>1. q \cup p = p \cup q
    OBVIOUS
  <2> QED
    BY <1>5, <2>1
<1>6. CASE \E made \in Unbacked(ren, h, "image", "memory") : Drive(made, made) /\ UNCHANGED <<tex, sets>>
  BY <1>1, <1>3, <1>6
<1>7. CASE \E p \in UploadFails(ren) : Drive(pair \cup p, p \cup pair) /\ UNCHANGED <<tex, sets>>
  BY <1>1, <1>4, <1>5, <1>7, <1>c, ZenonT(40)
<1>8. CASE \E made \in {pair, Texture(ren, {h})} :
             Drive(made \cup UploadDone(ren), UploadDone(ren) \cup made) /\ UNCHANGED <<tex, sets>>
  BY <1>1, <1>4, <1>5, <1>8, <1>c, ZenonT(40)
<1> QED
  BY <1>2, <1>6, <1>7, <1>8 DEF GenerateTexture

\* What the recorded frame loses is remembered, and nothing else is.
LEMMA LostKeeps ==
  ASSUME TypeOK, NEW objects, Lost(objects)
  PROVE  /\ gone' \in [Images -> SUBSET Object]
         /\ cmd \in Images => gone'[cmd] = gone[cmd] \cup (objects \cap refs)
BY DEF Lost, TypeOK

\* Geometry released by an idle device, a frame being recorded or not.
LEMMA ReleaseGeometrySafe ==
  ASSUME IInv, NEW h \in Geometry, ReleaseGeometry(h)
  PROVE  IInv'
<1> USE DEF IInv
<1>1. h \in geo /\ geo' = geo \ {h} /\ Drive({}, Geom(ren, {h})) /\ Idle
  BY DEF ReleaseGeometry
<1>2. Lost(Geom(ren, {h})) /\ UNCHANGED <<coreVars, cmd, recording, refs, sets, frames, tex>>
  BY DEF ReleaseGeometry
<1>3. Geom(ren, {h}) \cap (Core(ren, fields) \cup Frame(ren, frames) \cup Texture(ren, tex)) = {}
  <2>1. \A o \in Core(ren, fields) \cup Frame(ren, frames) \cup Texture(ren, tex) :
          o[3] \in CoreKind \cup FrameKind \cup TextureKind
    BY DEF TypeOK, Core, Frame, Texture, Of
  <2>2. \A o \in Geom(ren, {h}) : o[3] \in GeometryKind
    BY DEF Geom, Of
  <2>3. GeometryKind \cap (CoreKind \cup FrameKind \cup TextureKind) = {}
    BY DEF CoreKind, FrameKind, GeometryKind, TextureKind
  <2> QED
    BY <2>1, <2>2, <2>3
<1>4. Geom(ren, {h}) \subseteq Geom(ren, geo) /\ Geom(ren, geo') = Geom(ren, geo) \ Geom(ren, {h})
  BY <1>1, OfMinus DEF Geom
<1>5. Held' = (Held \cup {}) \ Geom(ren, {h}) /\ Geom(ren, {h}) \subseteq Held \cup {}
  BY <1>1, <1>2, <1>3, <1>4 DEF Held, coreVars
<1>6. Accounted'
  BY <1>1, <1>2, <1>5, DriveAccounts DEF coreVars
<1>7. live' \subseteq Object /\ wild' \in BOOLEAN
  BY <1>1, DriveTypes
<1>8. Flags'
  BY <1>2, <1>7 DEF TypeOK, Flags, coreVars
<1>9. flight' \in [Images -> SUBSET Object] /\ \A i \in Images : flight'[i] = {}
  BY <1>1 DEF Idle
<1>10. TypeOK'
  BY <1>1, <1>2, <1>7, <1>8, <1>9, LostKeeps DEF TypeOK, coreVars
<1>11. MembersByPhase'
  BY <1>1, <1>2 DEF MembersByPhase, coreVars
<1>12. Lasting \subseteq Lasting' \cup Geom(ren, {h}) /\ Frame(ren, frames)' = Frame(ren, frames)
  BY <1>2, <1>4 DEF Lasting, coreVars
<1>13. ASSUME recording
       PROVE  refs \subseteq Lasting' \cup Frame(ren, frames) \cup gone'[cmd]
  <2>1. cmd \in Images
    BY <1>13 DEF TypeOK, WorkIsHeld
  <2>2. gone'[cmd] = gone[cmd] \cup (Geom(ren, {h}) \cap refs)
    BY <1>2, <2>1, LostKeeps
  <2> QED
    BY <1>12, <1>13, <2>2 DEF WorkIsHeld
<1>14. WorkIsHeld'
  BY <1>2, <1>9, <1>12, <1>13 DEF WorkIsHeld, coreVars
<1> QED
  BY <1>6, <1>10, <1>11, <1>14

\* A texture released by an idle device, a frame being recorded or not.
LEMMA ReleaseTextureSafe ==
  ASSUME IInv, NEW h \in Textures, ReleaseTexture(h)
  PROVE  IInv'
<1> USE DEF IInv
<1>1. h \in tex /\ tex' = tex \ {h} /\ Drive({}, Texture(ren, {h})) /\ Idle
  BY DEF ReleaseTexture
<1>2. Lost(Texture(ren, {h})) /\ UNCHANGED <<coreVars, cmd, recording, refs, sets, frames, geo>>
  BY DEF ReleaseTexture
<1>3. Texture(ren, {h}) \cap (Core(ren, fields) \cup Frame(ren, frames) \cup Geom(ren, geo)) = {}
  <2>1. \A o \in Core(ren, fields) \cup Frame(ren, frames) \cup Geom(ren, geo) :
          o[3] \in CoreKind \cup FrameKind \cup GeometryKind
    BY DEF TypeOK, Core, Frame, Geom, Of
  <2>2. \A o \in Texture(ren, {h}) : o[3] \in TextureKind
    BY DEF Texture, Of
  <2>3. TextureKind \cap (CoreKind \cup FrameKind \cup GeometryKind) = {}
    BY DEF CoreKind, FrameKind, GeometryKind, TextureKind
  <2> QED
    BY <2>1, <2>2, <2>3
<1>4. Texture(ren, {h}) \subseteq Texture(ren, tex)
      /\ Texture(ren, tex') = Texture(ren, tex) \ Texture(ren, {h})
  BY <1>1, OfMinus DEF Texture
<1>5. Held' = (Held \cup {}) \ Texture(ren, {h}) /\ Texture(ren, {h}) \subseteq Held \cup {}
  BY <1>1, <1>2, <1>3, <1>4 DEF Held, coreVars
<1>6. Accounted'
  BY <1>1, <1>2, <1>5, DriveAccounts DEF coreVars
<1>7. live' \subseteq Object /\ wild' \in BOOLEAN
  BY <1>1, DriveTypes
<1>8. Flags'
  BY <1>2, <1>7 DEF TypeOK, Flags, coreVars
<1>9. flight' \in [Images -> SUBSET Object] /\ \A i \in Images : flight'[i] = {}
  BY <1>1 DEF Idle
<1>10. TypeOK'
  BY <1>1, <1>2, <1>7, <1>8, <1>9, LostKeeps DEF TypeOK, coreVars
<1>11. MembersByPhase'
  BY <1>1, <1>2 DEF MembersByPhase, coreVars
<1>12. Lasting \subseteq Lasting' \cup Texture(ren, {h}) /\ Frame(ren, frames)' = Frame(ren, frames)
  BY <1>2, <1>4 DEF Lasting, coreVars
<1>13. ASSUME recording
       PROVE  refs \subseteq Lasting' \cup Frame(ren, frames) \cup gone'[cmd]
  <2>1. cmd \in Images
    BY <1>13 DEF TypeOK, WorkIsHeld
  <2>2. gone'[cmd] = gone[cmd] \cup (Texture(ren, {h}) \cap refs)
    BY <1>2, <2>1, LostKeeps
  <2> QED
    BY <1>12, <1>13, <2>2 DEF WorkIsHeld
<1>14. WorkIsHeld'
  BY <1>2, <1>9, <1>12, <1>13 DEF WorkIsHeld, coreVars
<1> QED
  BY <1>6, <1>10, <1>11, <1>14

\* The frames destroyed, with work in flight or not.
LEMMA DestroyFramesSafe ==
  ASSUME IInv, DestroySwapchainResources
  PROVE  IInv'
<1> USE DEF IInv
<1>1. /\ ~recording /\ frames' = {} /\ cmd' = (IF frames = {} THEN cmd ELSE 0)
      /\ Drive({}, Frame(ren, frames))
      /\ UNCHANGED <<coreVars, recording, refs, flight, gone, sets, geo, tex>>
  BY DEF DestroySwapchainResources
<1>2. cmd' = 0
  BY <1>1 DEF WorkIsHeld
<1>3. Frame(ren, frames) \cap Lasting = {} /\ Frame(ren, {}) = {}
  <2>1. \A o \in Lasting : o[3] \in CoreKind \cup GeometryKind \cup TextureKind
    BY DEF TypeOK, Lasting, Core, Texture, Geom, Of
  <2>2. \A o \in Frame(ren, frames) : o[3] \in FrameKind
    BY DEF TypeOK, Frame
  <2>3. FrameKind \cap (CoreKind \cup GeometryKind \cup TextureKind) = {}
    BY DEF CoreKind, FrameKind, GeometryKind, TextureKind
  <2>4. Frame(ren, {}) = {}
    BY DEF Frame
  <2> QED
    BY <2>1, <2>2, <2>3, <2>4
<1>4. Lasting' = Lasting
  BY <1>1 DEF Lasting, coreVars
<1>5. Held = Lasting \cup Frame(ren, frames) /\ Held' = Lasting
  BY <1>1, <1>3, <1>4 DEF Held, Lasting, coreVars
<1>6. Accounted'
  BY <1>1, <1>3, <1>5, DriveAccounts DEF coreVars
<1>7. live' \subseteq Object /\ wild' \in BOOLEAN
  BY <1>1, DriveTypes
<1>8. Flags'
  BY <1>1, <1>7 DEF TypeOK, Flags, coreVars
<1>9. TypeOK'
  BY <1>1, <1>2, <1>7, <1>8 DEF TypeOK, coreVars
<1>10. MembersByPhase'
  BY <1>1 DEF MembersByPhase, coreVars
<1>11. \A i \in Images : \A o \in flight[i] : o \in Lasting \cup gone[i] \/ o[3] \in FrameKind
  <2>1. \A o \in Frame(ren, frames) : o[3] \in FrameKind
    BY DEF TypeOK, Frame
  <2> QED
    BY <2>1 DEF WorkIsHeld
<1>12. WorkIsHeld'
  BY <1>1, <1>2, <1>4, <1>11 DEF WorkIsHeld, coreVars
<1> QED
  BY <1>6, <1>9, <1>10, <1>12

\* The renderer destroyed after everything of its.
LEMMA ShutdownSafe ==
  ASSUME IInv, Shutdown
  PROVE  IInv'
<1> USE DEF IInv
<1>1. /\ ~recording /\ Idle
      /\ geo' = {} /\ tex' = {} /\ frames' = {} /\ cmd' = 0
      /\ fields' = fields \ ShutdownKind
      /\ whiteSet' = FALSE /\ sets' = 0 /\ phase' = "none" /\ refs' = {}
      /\ UNCHANGED <<ren, failed, recording, gone>>
  BY DEF Shutdown
<1>2. fields' = {} /\ fields \cap ShutdownKind = fields
  BY <1>1, Kinds DEF TypeOK
<1>3. Drive({}, Held)
  <2>1. Geom(ren, geo) \cup Texture(ren, tex) \cup Frame(ren, frames)
          \cup Core(ren, fields \cap ShutdownKind) = Held
    BY <1>2 DEF Held
  <2> QED
    BY <2>1 DEF Shutdown
<1>4. Held' = {} /\ Lasting' = {}
  BY <1>1, <1>2 DEF Held, Lasting, Core, Frame, Geom, Texture, Of
<1>5. Accounted'
  BY <1>1, <1>3, <1>4, DriveAccounts
<1>6. live' \subseteq Object /\ wild' \in BOOLEAN
  BY <1>3, DriveTypes
<1>7. Flags'
  BY <1>1, <1>6 DEF TypeOK, Flags
<1>8. flight' \in [Images -> SUBSET Object] /\ \A i \in Images : flight'[i] = {}
  BY <1>1 DEF Idle
<1>9. TypeOK'
  BY <1>1, <1>2, <1>6, <1>7, <1>8 DEF TypeOK
<1>10. MembersByPhase'
  BY <1>1, <1>2 DEF MembersByPhase
<1>11. WorkIsHeld'
  BY <1>1, <1>8 DEF WorkIsHeld
<1> QED
  BY <1>5, <1>9, <1>10, <1>11

\* A frame begun, or given up with its command buffer the current one.
LEMMA PrepareSafe ==
  ASSUME IInv, NEW i \in Images, PrepareFrame(i)
  PROVE  IInv'
<1> USE DEF IInv
<1> DEFINE own == OfFrame(i) \cup Core(ren, {"commandPool", "renderPass", "pipeline"})
<1>1. /\ phase = "ready" /\ ~recording /\ "pipeline" \in fields
      /\ <<i, "cmdBuf">> \in frames /\ cmd' = i /\ flight[i] = {}
      /\ gone' = [gone EXCEPT ![i] = {}]
      /\ UNCHANGED <<coreVars, flight, sets, frames, geo, tex, live, wild>>
  BY DEF PrepareFrame
<1>2. \/ recording' = recording /\ refs' = refs
      \/ /\ <<i, "framebuffer">> \in frames
         /\ recording' = TRUE /\ refs' = own
  BY DEF PrepareFrame
<1>3. Lasting' = Lasting /\ Held' = Held /\ Frame(ren, frames)' = Frame(ren, frames)
  BY <1>1 DEF Lasting, Held, coreVars
<1>4. ren \in Renderers /\ {"commandPool", "renderPass", "pipeline"} \subseteq fields
  BY <1>1, Kinds DEF MembersByPhase
<1>5. Core(ren, {"commandPool", "renderPass", "pipeline"}) \subseteq Core(ren, fields)
  BY <1>4 DEF Core, Of
<1>6. <<i, "framebuffer">> \in frames => OfFrame(i) \subseteq Frame(ren, frames)
  <2>1. ASSUME <<i, "framebuffer">> \in frames, NEW k \in FrameKind
        PROVE  <<i, k>> \in frames
    BY <1>1, <2>1 DEF MembersByPhase, FrameKind
  <2>2. \A k : <<i, k>> \in frames => <<ren, i, k>> \in Frame(ren, frames)
    BY DEF Frame
  <2>3. \A o \in OfFrame(i) : \E k \in FrameKind : o = <<ren, i, k>>
    BY DEF OfFrame, Of
  <2> QED
    BY <2>1, <2>2, <2>3
<1>7. recording' => refs' \subseteq Lasting \cup Frame(ren, frames)
  BY <1>1, <1>2, <1>5, <1>6 DEF Lasting
<1>8. refs' \subseteq Object
  <2>1. Core(ren, fields) \subseteq Object /\ Frame(ren, frames) \subseteq Object
    BY <1>4, ObjectsHaveType DEF TypeOK
  <2> QED
    BY <2>1, <1>2, <1>5, <1>6 DEF TypeOK
<1>9. Flags'
  BY <1>1, <1>2 DEF TypeOK, Flags, coreVars
<1>10. gone' \in [Images -> SUBSET Object] /\ \A j \in Images : j # i => gone'[j] = gone[j]
  BY <1>1 DEF TypeOK
<1>11. TypeOK'
  BY <1>1, <1>8, <1>9, <1>10 DEF TypeOK, coreVars
<1>12. MembersByPhase'
  BY <1>1 DEF MembersByPhase, coreVars
<1>13. ~recording' => refs' = {}
  BY <1>1, <1>2 DEF WorkIsHeld
<1>14. \A j \in Images : \A o \in flight[j] :
         o \in Lasting \cup Frame(ren, frames) \cup gone'[j] \/ (frames = {} /\ o[3] \in FrameKind)
  BY <1>1, <1>10 DEF WorkIsHeld
<1>15. WorkIsHeld'
  BY <1>1, <1>3, <1>7, <1>13, <1>14 DEF WorkIsHeld, coreVars
<1>16. Accounted'
  BY <1>1, <1>3 DEF Accounted, NothingOrphaned, coreVars
<1> QED
  BY <1>11, <1>12, <1>15, <1>16

\* A draw records only objects of handles and members.
LEMMA RenderSafe ==
  ASSUME IInv, NEW g \in Geometry, NEW t \in Textures \cup {0}, RenderGeometry(g, t)
  PROVE  IInv'
<1> USE DEF IInv
<1>1. /\ recording /\ g \in geo /\ t \in tex \cup {0}
      /\ UNCHANGED <<coreVars, cmd, recording, flight, gone, sets, frames, geo, tex, live, wild>>
  BY DEF RenderGeometry
<1>2. phase = "ready" /\ ren \in Renderers
  BY <1>1 DEF WorkIsHeld, MembersByPhase
<1>3. {"pipelineLayout", "descPool", "sampler", "whiteImage", "whiteMemory", "whiteView"} \subseteq fields
  BY <1>2, Kinds DEF MembersByPhase
<1>4. /\ Core(ren, {"pipelineLayout"}) \subseteq Core(ren, fields)
      /\ Core(ren, {"descPool", "sampler"}) \subseteq Core(ren, fields)
      /\ Core(ren, {"whiteImage", "whiteMemory", "whiteView", "descPool", "sampler"})
           \subseteq Core(ren, fields)
  BY <1>3 DEF Core, Of
<1>5. Geom(ren, {g}) \subseteq Geom(ren, geo)
  BY <1>1, OfMinus DEF Geom
<1>6. t # 0 => Texture(ren, {t}) \subseteq Texture(ren, tex)
  BY <1>1, OfMinus DEF Texture
<1>7. refs' \subseteq refs \cup Lasting
  BY <1>4, <1>5, <1>6 DEF RenderGeometry, Lasting
<1>8. Lasting \subseteq Object
  <2>1. Core(ren, fields) \subseteq Object
    BY <1>2, ObjectsHaveType DEF TypeOK
  <2>2. Geom(ren, geo) \subseteq Object /\ Texture(ren, tex) \subseteq Object
    BY <1>2, ObjectsHaveType DEF TypeOK
  <2> QED
    BY <2>1, <2>2 DEF Lasting
<1>9. Lasting' = Lasting /\ Held' = Held
  BY <1>1 DEF Lasting, Held, coreVars
<1>10. Flags'
  BY <1>1 DEF TypeOK, Flags, coreVars
<1>11. TypeOK'
  BY <1>1, <1>7, <1>8, <1>10 DEF TypeOK, coreVars
<1>12. MembersByPhase'
  BY <1>1 DEF MembersByPhase, coreVars
<1>13. WorkIsHeld'
  BY <1>1, <1>7, <1>9 DEF WorkIsHeld, coreVars
<1>14. Accounted'
  BY <1>1, <1>9 DEF Accounted, NothingOrphaned, coreVars
<1> QED
  BY <1>11, <1>12, <1>13, <1>14

\* What was recorded is submitted, or lost.
LEMMA SubmitSafe ==
  ASSUME IInv, SubmitFrame
  PROVE  IInv'
<1> USE DEF IInv
<1>1. /\ recording /\ recording' = FALSE /\ refs' = {} /\ cmd' = 0
      /\ UNCHANGED <<coreVars, gone, sets, frames, geo, tex, live, wild>>
  BY DEF SubmitFrame
<1>2. flight' = [flight EXCEPT ![cmd] = refs] \/ flight' = flight
  BY DEF SubmitFrame
<1>3. Lasting' = Lasting /\ Held' = Held
  BY <1>1 DEF Lasting, Held, coreVars
<1>4. /\ flight' \in [Images -> SUBSET Object]
      /\ \A i \in Images : flight'[i] = flight[i] \/ (i = cmd /\ flight'[i] = refs)
  BY <1>2 DEF TypeOK
<1>5. Flags'
  BY <1>1 DEF TypeOK, Flags, coreVars
<1>6. TypeOK'
  BY <1>1, <1>4, <1>5 DEF TypeOK, coreVars
<1>7. MembersByPhase'
  BY <1>1 DEF MembersByPhase, coreVars
<1>8. WorkIsHeld'
  BY <1>1, <1>3, <1>4 DEF WorkIsHeld, coreVars
<1>9. Accounted'
  BY <1>1, <1>3 DEF Accounted, NothingOrphaned, coreVars
<1> QED
  BY <1>6, <1>7, <1>8, <1>9

\* A submission ends.
LEMMA CompleteSafe ==
  ASSUME IInv, NEW i \in Images, GpuComplete(i)
  PROVE  IInv'
<1> USE DEF IInv
<1>1. /\ flight' = [flight EXCEPT ![i] = {}]
      /\ UNCHANGED <<coreVars, cmd, recording, refs, gone, sets, frames, geo, tex, live, wild>>
  BY DEF GpuComplete
<1>2. Lasting' = Lasting /\ Held' = Held
  BY <1>1 DEF Lasting, Held, coreVars
<1>3. /\ flight' \in [Images -> SUBSET Object]
      /\ \A j \in Images : flight'[j] \subseteq flight[j]
  BY <1>1 DEF TypeOK
<1>4. Flags'
  BY <1>1 DEF TypeOK, Flags, coreVars
<1>5. TypeOK'
  BY <1>1, <1>3, <1>4 DEF TypeOK, coreVars
<1>6. MembersByPhase'
  BY <1>1 DEF MembersByPhase, coreVars
<1>7. WorkIsHeld'
  BY <1>1, <1>2, <1>3 DEF WorkIsHeld, coreVars
<1>8. Accounted'
  BY <1>1, <1>2 DEF Accounted, NothingOrphaned, coreVars
<1> QED
  BY <1>5, <1>6, <1>7, <1>8

\* The handles of m_frames have their types.
LEMMA FrameHandlesTyped ==
  ASSUME NEW F \in FrameHandles
  PROVE  /\ F \subseteq Images \X FrameKind
         /\ \A i \in Images : <<i, "framebuffer">> \in F => <<i, "imageView">> \in F
<1>1. CASE F = {}
  BY <1>1
<1>2. ASSUME NEW v \in 0 .. NImages, NEW f \in {v, v - 1} \cap Nat,
             F = (Images \X {"cmdBuf"}) \cup ((1 .. v) \X {"imageView"})
                   \cup ((1 .. f) \X {"framebuffer"})
      PROVE  /\ F \subseteq Images \X FrameKind
             /\ \A i \in Images : <<i, "framebuffer">> \in F => <<i, "imageView">> \in F
  <2>1. 1 .. v \subseteq Images /\ 1 .. f \subseteq Images
    OBVIOUS
  <2>3. 1 .. f \subseteq 1 .. v
    OBVIOUS
  <2>2. {"cmdBuf", "imageView", "framebuffer"} \subseteq FrameKind
    BY DEF FrameKind
  <2> QED
    BY <1>2, <2>1, <2>2, <2>3
<1> QED
  BY <1>1, <1>2 DEF FrameHandles

\* The render pass, the pipeline and the frames, up to the first failure.
LEMMA ResizeSafe ==
  ASSUME IInv, ResizeSwapchain
  PROVE  IInv'
<1> USE DEF IInv
<1>1. /\ phase = "initialized" /\ phase' = "ready" /\ ren \in Renderers
      /\ UNCHANGED <<ren, whiteSet, failed, frameVars, sets, geo, tex>>
  BY DEF ResizeSwapchain, MembersByPhase
<1>2. frames = {} /\ cmd = 0 /\ ~recording
  BY <1>1 DEF MembersByPhase, WorkIsHeld
<1>3. CASE UNCHANGED <<fields, frames, live, wild>>
  <2>1. Lasting' = Lasting /\ Held' = Held
    BY <1>1, <1>3 DEF Lasting, Held
  <2>2. Flags'
    BY <1>1, <1>3 DEF TypeOK, Flags, frameVars
  <2>3. TypeOK'
    BY <1>1, <1>3, <2>2 DEF TypeOK, frameVars
  <2>4. MembersByPhase'
    BY <1>1, <1>3 DEF MembersByPhase
  <2>5. WorkIsHeld'
    BY <1>1, <1>2, <1>3, <2>1 DEF WorkIsHeld, frameVars
  <2>6. Accounted'
    BY <1>1, <1>3, <2>1 DEF Accounted, NothingOrphaned
  <2> QED
    BY <2>3, <2>4, <2>5, <2>6
<1>4. ASSUME NEW modules \in ShaderModules, NEW p \in BOOLEAN,
             fields' = fields \cup {"renderPass"} \cup (IF p THEN {"pipeline"} ELSE {}),
             frames' \in FrameHandles,
             Drive(Core(ren, (fields' \ fields) \cup modules) \cup Frame(ren, frames'),
                   Core(ren, modules))
      PROVE  IInv'
  <2>1. fields \subseteq fields' /\ fields' \subseteq CoreKind /\ "renderPass" \in fields'
    BY <1>4 DEF TypeOK, CoreKind
  <2>2. /\ frames' \subseteq Images \X FrameKind
        /\ \A i \in Images : <<i, "framebuffer">> \in frames' => <<i, "imageView">> \in frames'
    BY <1>4, FrameHandlesTyped
  <2>3. Core(ren, fields') = Core(ren, fields) \cup Core(ren, fields' \ fields)
    BY <2>1 DEF Core, Of
  <2>4. Lasting \subseteq Lasting'
    BY <1>1, <2>3 DEF Lasting
  <2>5. Frame(ren, frames) = {}
    BY <1>2 DEF Frame
  <2>6. Core(ren, (fields' \ fields) \cup modules)
          = Core(ren, fields' \ fields) \cup Core(ren, modules)
    BY DEF Core, Of
  <2>7. Held' = Held \cup Core(ren, fields' \ fields) \cup Frame(ren, frames')
    BY <1>1, <2>3, <2>5 DEF Held
  <2>8. Core(ren, modules) \cap Held' = {}
    <3>1. \A o \in Core(ren, modules) : o[3] \in {"vertModule", "fragModule"}
      BY DEF Core, Of, ShaderModules
    <3>2. \A o \in Core(ren, fields') : o[3] \in CoreKind
      BY <2>1 DEF Core, Of
    <3>3. \A o \in Frame(ren, frames') : o[3] \in FrameKind
      BY <2>2 DEF Frame
    <3>4. \A o \in Geom(ren, geo) \cup Texture(ren, tex) : o[3] \in GeometryKind \cup TextureKind
      BY DEF Geom, Texture, Of
    <3>5. Held' = Core(ren, fields') \cup Frame(ren, frames') \cup Geom(ren, geo) \cup Texture(ren, tex)
      BY <1>1 DEF Held
    <3>6. (CoreKind \cup FrameKind \cup GeometryKind \cup TextureKind)
            \cap {"vertModule", "fragModule"} = {}
      BY DEF CoreKind, FrameKind, GeometryKind, TextureKind
    <3> QED
      BY <3>1, <3>2, <3>3, <3>4, <3>5, <3>6
  <2> DEFINE made == Core(ren, (fields' \ fields) \cup modules) \cup Frame(ren, frames')
  <2>9. Held' = (Held \cup made) \ Core(ren, modules) /\ Core(ren, modules) \subseteq made
    BY <2>6, <2>7, <2>8
  <2>10. Accounted'
    BY <1>1, <1>4, <2>9, DriveAccounts
  <2>11. live' \subseteq Object /\ wild' \in BOOLEAN
    <3>1. Core(ren, fields' \ fields) \subseteq Object /\ Frame(ren, frames') \subseteq Object
      BY <1>1, <2>1, <2>2, ObjectsHaveType
    <3>2. made \ Core(ren, modules) \subseteq Object
      BY <2>6, <3>1
    <3> QED
      BY <1>4, <3>2, DriveTypes
  <2>12. Flags'
    BY <1>1, <2>11 DEF TypeOK, Flags, frameVars
  <2>13. TypeOK'
    BY <1>1, <2>1, <2>2, <2>11, <2>12 DEF TypeOK, frameVars
  <2>14. MembersByPhase'
    BY <1>1, <2>1, <2>2 DEF MembersByPhase
  <2>15. WorkIsHeld'
    BY <1>1, <1>2, <2>4 DEF WorkIsHeld, frameVars
  <2> QED
    BY <2>10, <2>13, <2>14, <2>15
<1> QED
  BY <1>3, <1>4 DEF ResizeSwapchain

\* A renderer initialised, half initialised and gone, or shut down again.
LEMMA InitializeSafe ==
  ASSUME IInv, Initialize
  PROVE  IInv'
<1> USE DEF IInv
<1> DEFINE r == ren + 1
           core == Core(r, InitKind(7))
           passings == UploadFails(r) \cup {UploadDone(r)}
           passingKind == {"stagingBuffer", "stagingMemory", "uploadCommands"}
<1>1. /\ phase = "none" /\ r \in Renderers /\ ren' = r
      /\ UNCHANGED <<frameVars, frames, geo, tex>>
  BY DEF Initialize
<1>2. fields = {} /\ frames = {} /\ geo = {} /\ tex = {} /\ ~recording /\ cmd = 0
  BY <1>1 DEF MembersByPhase, WorkIsHeld
<1>3. Held = {} /\ Lasting = {}
  BY <1>2 DEF Held, Lasting, Core, Frame, Geom, Texture, Of
<1>4. refs = {} /\ \A i \in Images : flight[i] = {}
  BY <1>1, <1>2 DEF WorkIsHeld
<1>5. \A o \in live : o[1] \in failed
  BY <1>3 DEF Accounted, NothingOrphaned
<1>6. WorkIsHeld'
  BY <1>1, <1>2, <1>4 DEF WorkIsHeld, frameVars
<1>7. InitKind(7) \subseteq CoreKind /\ Len(InitSteps) = 7
  BY Kinds DEF CoreKind
<1>8. core \subseteq Object
  BY <1>1, <1>7, ObjectsHaveType
<1>9. \A q \in passings : q \cap core = {}
  <2>1. \A q \in passings : q \subseteq Core(r, passingKind)
    BY UploadIs
  <2>2. Core(r, passingKind) \cap Core(r, CoreKind) = {}
    BY DEF Core, Of, CoreKind
  <2>3. core \subseteq Core(r, CoreKind)
    BY <1>7 DEF Core, Of
  <2> QED
    BY <2>1, <2>2, <2>3
<1>10. CASE /\ \E k \in 0 .. 6 : Drive(Core(r, InitKind(k)), {})
            /\ failed' = failed \cup {r}
            /\ UNCHANGED <<phase, fields, whiteSet, sets>>
  <2>1. PICK k \in 0 .. 6 : Drive(Core(r, InitKind(k)), {})
    BY <1>10
  <2>2. Core(r, InitKind(k)) \subseteq Object
    BY <1>1, Kinds, ObjectsHaveType
  <2>3. live' \subseteq Object /\ wild' \in BOOLEAN
    BY <2>1, <2>2, DriveTypes
  <2>4. Flags'
    BY <1>1, <1>10, <2>3 DEF TypeOK, Flags, frameVars
  <2>5. TypeOK'
    BY <1>1, <1>10, <2>3, <2>4 DEF TypeOK, frameVars
  <2>6. MembersByPhase'
    BY <1>1, <1>2, <1>10 DEF MembersByPhase
  <2>7. \A o \in Core(r, InitKind(k)) : o[1] = r
    BY DEF Core, Of
  <2>8. Held' = {}
    BY <1>1, <1>2, <1>10 DEF Held, Core, Frame, Geom, Texture, Of
  <2>9. Accounted'
    BY <1>5, <1>10, <2>1, <2>7, <2>8 DEF Accounted, NothingOrphaned, Drive
  <2> QED
    BY <1>6, <2>5, <2>6, <2>9
<1>11. CASE /\ \E q \in passings : Drive(core \cup q, q \cup (core \cap Core(r, ShutdownKind)))
            /\ UNCHANGED <<phase, fields, whiteSet, sets, failed>>
  <2>1. PICK q \in passings : Drive(core \cup q, q \cup (core \cap Core(r, ShutdownKind)))
    BY <1>11
  <2>2. core \cap Core(r, ShutdownKind) = core
    BY <1>7, Kinds DEF Core, Of
  <2>3. q \cup (core \cap Core(r, ShutdownKind)) = core \cup q
    BY <2>2
  <2>4. Drive(core \cup q, core \cup q)
    BY <2>1, <2>3
  <2>5. live' \subseteq Object /\ wild' \in BOOLEAN
    BY <2>4, DriveTypes
  <2>6. Flags'
    BY <1>1, <1>11, <2>5 DEF TypeOK, Flags, frameVars
  <2>7. TypeOK'
    BY <1>1, <1>11, <2>5, <2>6 DEF TypeOK, frameVars
  <2>8. MembersByPhase'
    BY <1>1, <1>2, <1>11 DEF MembersByPhase
  <2>9. Held' = {}
    BY <1>1, <1>2, <1>11 DEF Held, Core, Frame, Geom, Texture, Of
  <2>10. Accounted'
    BY <1>5, <1>11, <2>4, <2>9 DEF Accounted, NothingOrphaned, Drive
  <2> QED
    BY <1>6, <2>7, <2>8, <2>10
<1>12. CASE /\ \E q \in passings : Drive(core \cup q, q)
            /\ fields' = InitKind(7)
            /\ whiteSet' \in BOOLEAN
            /\ sets' = (IF whiteSet' THEN 1 ELSE 0)
            /\ phase' = "initialized"
            /\ UNCHANGED failed
  <2>1. PICK q \in passings : Drive(core \cup q, q)
    BY <1>12
  <2>2. (core \cup q) \ q = core
    BY <1>9
  <2>3. live' \subseteq Object /\ wild' \in BOOLEAN
    BY <1>8, <2>1, <2>2, DriveTypes
  <2>4. Flags'
    BY <1>1, <1>12, <2>3 DEF TypeOK, Flags, frameVars
  <2>5. sets' \in 0 .. PoolSize
    BY <1>12
  <2>6. TypeOK'
    BY <1>1, <1>7, <1>12, <2>3, <2>4, <2>5 DEF TypeOK, frameVars
  <2>7. MembersByPhase'
    BY <1>1, <1>2, <1>7, <1>12, Kinds DEF MembersByPhase
  <2>8. Held' = core
    BY <1>1, <1>2, <1>12 DEF Held, Core, Frame, Geom, Texture, Of
  <2>9. Held' = (Held \cup (core \cup q)) \ q
    BY <1>3, <2>2, <2>8
  <2>10. Accounted'
    BY <1>12, <2>1, <2>9, DriveAccounts
  <2> QED
    BY <1>6, <2>6, <2>7, <2>10
<1>13. Len(InitSteps) = 7 /\ Len(InitSteps) - 1 = 6
  BY <1>7
<1>14. \/ /\ \E k \in 0 .. Len(InitSteps) - 1 : Drive(Core(r, InitKind(k)), {})
          /\ failed' = failed \cup {r}
          /\ UNCHANGED <<phase, fields, whiteSet, sets>>
       \/ /\ \E q \in passings :
               Drive(Core(r, InitKind(Len(InitSteps))) \cup q,
                     q \cup (Core(r, InitKind(Len(InitSteps))) \cap Core(r, ShutdownKind)))
          /\ UNCHANGED <<phase, fields, whiteSet, sets, failed>>
       \/ /\ \E q \in passings : Drive(Core(r, InitKind(Len(InitSteps))) \cup q, q)
          /\ fields' = InitKind(Len(InitSteps))
          /\ whiteSet' \in BOOLEAN
          /\ sets' = (IF whiteSet' THEN 1 ELSE 0)
          /\ phase' = "initialized"
          /\ UNCHANGED failed
  BY Zenon DEF Initialize
<1> QED
  BY <1>10, <1>11, <1>12, <1>13, <1>14, Zenon

----------------------------------------------------------------------------
(* The theorems. *)

\* Every step of the renderer, of RmlUi and of the driver keeps the account
\* (VulkanRenderer.cpp as a whole).
THEOREM RendererKeepsAccount == Spec => []IInv
<1>1. Init => IInv
  BY InitSafe
<1>2. IInv /\ [Next]_vars => IInv'
  <2> SUFFICES ASSUME IInv, [Next]_vars PROVE IInv'
    OBVIOUS
  <2>1. CASE UNCHANGED vars
    BY <2>1 DEF vars, coreVars, frameVars, IInv, TypeOK, Flags, MembersByPhase, WorkIsHeld,
                Accounted, NothingOrphaned, Held, Lasting
  <2>2. CASE Next
    BY <2>2, InitializeSafe, ResizeSafe, DestroyFramesSafe, ShutdownSafe, CompileSafe,
       ReleaseGeometrySafe, GenerateSafe, ReleaseTextureSafe, PrepareSafe, CompleteSafe,
       RenderSafe, SubmitSafe DEF Next
  <2> QED
    BY <2>1, <2>2
<1> QED
  BY <1>1, <1>2, PTL DEF Spec

\* What a call makes for its own duration is gone when it returns, and no
\* more descriptor sets are taken than the pool has (TypeOK).
THEOREM TypeCorrect == Spec => []TypeOK
<1>1. IInv => TypeOK
  BY DEF IInv
<1> QED
  BY <1>1, RendererKeepsAccount, PTL

\* No failing call and no order of calls leaks an object, but for those of
\* a renderer whose Initialize failed (CompileGeometry, GenerateTexture,
\* ResizeSwapchain, Shutdown).
THEOREM ObjectsAreNotOrphaned == Spec => []NothingOrphaned
<1>1. IInv => NothingOrphaned
  BY DEF IInv, Accounted
<1> QED
  BY <1>1, RendererKeepsAccount, PTL

\* Nothing is destroyed twice and nothing kept refers to a destroyed object
\* (the releases, DestroySwapchainResources, Shutdown).
THEOREM KeptHandlesAreLive == Spec => []HandlesAreLive
<1>1. IInv => HandlesAreLive
  <2> SUFFICES ASSUME IInv PROVE HandlesAreLive
    OBVIOUS
  <2>1. ~wild /\ Held \subseteq live
    BY DEF IInv, Accounted
  <2>2. cmd # 0 => <<ren, cmd, "cmdBuf">> \in Frame(ren, frames)
    BY DEF IInv, WorkIsHeld, Frame
  <2> QED
    BY <2>1, <2>2 DEF HandlesAreLive, Held
<1> QED
  BY <1>1, RendererKeepsAccount, PTL

\* Recorded and submitted work uses only objects that exist, but for m_frames
\* dropped by a swapchain hook and handles RmlUi released after drawing with
\* them in the same frame (DeviceWaitIdle in the releases and in Shutdown;
\* the order of ResizeSwapchain; what PrepareFrame looks at).
THEOREM SubmittedWorkIsLive == Spec => []InFlightWorkIsLive
<1>1. IInv => InFlightWorkIsLive
  <2> SUFFICES ASSUME IInv PROVE InFlightWorkIsLive
    OBVIOUS
  <2>1. Lasting \cup Frame(ren, frames) \subseteq live
    BY DEF IInv, Accounted, Lasting, Held
  <2> QED
    BY <2>1 DEF IInv, WorkIsHeld, InFlightWorkIsLive
<1> QED
  BY <1>1, RendererKeepsAccount, PTL
=============================================================================
