------------------------------ MODULE Overlay ------------------------------
(***************************************************************************)
(* The swapchain hooks of the Vulkan layer (vk_layer.cpp), the life of the *)
(* OverlayUI they own (OverlayUI.cpp) and the per-image objects it keeps   *)
(* (VulkanRenderer::m_frames, m_overlaySemaphores, m_fences), against the  *)
(* GPU that executes what Render submits and the presentation engine.      *)
(*                                                                         *)
(* Swapchains are numbered in the order of their creation; 0 is the null   *)
(* handle.  The application calls the hooks one at a time and uses only    *)
(* its newest swapchain; it may destroy an old one at any later moment.    *)
(***************************************************************************)
EXTENDS Integers, FiniteSets

CONSTANTS
  NImages,     \* images of a swapchain
  MaxSwaps,    \* bound: successful CreateSwapchainKHR calls
  MaxDevices,  \* bound: successful CreateDevice calls
  MaxBuilds,   \* bound: OverlayUI objects ever constructed
  Faults       \* the calls that may fail

FaultNames == {"create", "init", "renderpass", "pipeline", "frames",
               "context", "document", "sync", "begin", "submit"}

ASSUME BoundsAssumption ==
  /\ NImages \in Nat \ {0}
  /\ MaxSwaps \in Nat
  /\ MaxDevices \in Nat
  /\ MaxBuilds \in Nat

ASSUME FaultsAssumption == Faults \subseteq FaultNames

Image == 1 .. NImages
Swap  == 0 .. MaxSwaps

VARIABLES
  (* gOverlay *)
  device,     \* the device created last (0: none)
  queueOf,    \* the device graphicsQueue was fetched from (0: null)
  swap,       \* the swapchain created last
  images,     \* the swapchain gOverlay.images belongs to (0: empty)
  initd,      \* rmlInitialized
  (* the OverlayUI and its renderer *)
  ui,         \* serial number of rmlOverlay (0: null)
  built,      \* number of OverlayUI objects constructed
  launches,   \* number of injector processes started
  pipe,       \* m_pipeline # VK_NULL_HANDLE
  ctx,        \* m_context # nullptr
  frames,     \* the swapchain m_frames is for (0: empty)
  whole,      \* images whose m_frames entry has all its handles
  syncOf,     \* the swapchain the sync objects are for (0: vectors empty)
  sem,        \* m_overlaySemaphores
  fence,      \* m_fences
  dropped,    \* images whose fence was reset and never submitted
  (* the application, the GPU and the presentation engine *)
  alive,      \* swapchains not destroyed yet
  img,        \* images of the newest swapchain, as the application sees them
  waited,     \* waits queued on the game's semaphores of the image's present
  waiting,    \* the image whose Render is inside vkWaitForFences (0: none)
  gpu,        \* overlay submissions not yet executed
  crashed     \* a null or destroyed handle was used

layerVars == <<device, queueOf, swap, images, initd>>
lifeVars  == <<ui, built, launches, pipe, ctx>>
frameVars == <<frames, whole, syncOf>>
syncVars  == <<sem, fence, dropped>>
appVars   == <<alive, img, waited, waiting>>
vars == <<layerVars, lifeVars, frameVars, syncVars, appVars, gpu, crashed>>

Init ==
  /\ device = 0 /\ queueOf = 0 /\ swap = 0 /\ images = 0 /\ initd = FALSE
  /\ ui = 0 /\ built = 0 /\ launches = 0 /\ pipe = FALSE /\ ctx = FALSE
  /\ frames = 0 /\ whole = {} /\ syncOf = 0
  /\ sem = [i \in Image |-> "none"]
  /\ fence = [i \in Image |-> "none"]
  /\ dropped = {}
  /\ alive = {}
  /\ img = [i \in Image |-> "free"]
  /\ waited = [i \in Image |-> 0]
  /\ waiting = 0 /\ gpu = {} /\ crashed = FALSE

\* No hook is executing and the process lives.
Idle == waiting = 0 /\ ~crashed

----------------------------------------------------------------------------
(* CreateDevice overwrites the device and keeps the cached queue. *)
CreateDevice ==
  /\ Idle
  /\ device < MaxDevices
  /\ device' = device + 1
  /\ UNCHANGED <<queueOf, swap, images, initd, lifeVars, frameVars, syncVars,
                 appVars, gpu, crashed>>

\* Submissions that use the command buffers and sync objects now held.
InFlight == {g \in gpu : g[1] \in {frames, syncOf}}

\* What a forgotten tear-down would do.
TearDownForgotten == UNCHANGED <<frameVars, syncVars, crashed>>

(* OverlayUI::DestroySwapchainResources.  It waits for nothing: with work  *)
(* in flight the destroyed handles may or may not take the process down.   *)
TearDown ==
  IF ui = 0 THEN UNCHANGED <<frameVars, syncVars, crashed>>
  ELSE /\ frames' = 0 /\ whole' = {} /\ syncOf' = 0
       /\ sem' = [i \in Image |-> "none"]
       /\ fence' = [i \in Image |-> "none"]
       /\ dropped' = {}
       /\ crashed' \in (IF InFlight = {} THEN {FALSE} ELSE BOOLEAN)

(* CreateSwapchainKHR: the old resources go before the driver is asked. *)
CreateSwapchain ==
  /\ Idle
  /\ device > 0
  /\ TearDown
  /\ \/ /\ swap < MaxSwaps
        /\ swap' = swap + 1
        /\ images' = 0
        /\ initd' = FALSE
        /\ alive' = alive \cup {swap + 1}
        /\ img' = [i \in Image |-> "free"]
        /\ waited' = [i \in Image |-> 0]
     \/ /\ "create" \in Faults
        /\ UNCHANGED <<swap, images, initd, alive, img, waited>>
  /\ UNCHANGED <<device, queueOf, lifeVars, waiting, gpu>>

\* Vulkan lets a swapchain go once its images are no longer in use.
Unused(s) ==
  /\ \A g \in gpu : g[1] # s
  /\ s = swap => \A i \in Image : img[i] \in {"free", "acquired"}

(* DestroySwapchainKHR looks at no argument: the resources go whichever    *)
(* swapchain the application destroys.                                     *)
DestroySwapchain(s) ==
  /\ Idle
  /\ s \in alive
  /\ Unused(s)
  /\ TearDown
  /\ alive' = alive \ {s}
  /\ UNCHANGED <<layerVars, lifeVars, img, waited, waiting, gpu>>

----------------------------------------------------------------------------
\* A missing VK_FENCE_CREATE_SIGNALED_BIT.
SyncPrefixUnsignaled(k, half) ==
  /\ fence' = [i \in Image |-> IF i <= k THEN "unsignaled" ELSE "null"]
  /\ sem' = [i \in Image |-> IF i <= k \/ (half /\ i = k + 1)
                             THEN "unsignaled" ELSE "null"]

\* The creation loop with i <= imageCount.
SyncPrefixPastEnd(k, half) ==
  /\ fence' = [i \in 1 .. NImages + 1 |-> IF i <= k THEN "signaled" ELSE "null"]
  /\ sem' = [i \in Image |-> IF i <= k \/ (half /\ i = k + 1)
                             THEN "unsignaled" ELSE "null"]

(* The first k pairs were created; `half' when the next semaphore was too. *)
SyncPrefix(k, half) ==
  /\ fence' = [i \in Image |-> IF i <= k THEN "signaled" ELSE "null"]
  /\ sem' = [i \in Image |-> IF i <= k \/ (half /\ i = k + 1)
                             THEN "unsignaled" ELSE "null"]

(* CreateSyncObjects: both vectors are resized first, so a failure leaves  *)
(* null handles in vectors of full size.                                   *)
CreateSyncObjects ==
  /\ syncOf' = images'
  /\ dropped' = {}
  /\ \/ SyncPrefix(NImages, FALSE)
     \/ /\ "sync" \in Faults
        /\ \E k \in 0 .. NImages - 1, half \in BOOLEAN : SyncPrefix(k, half)

NoSyncObjects ==
  /\ syncOf' = 0
  /\ dropped' = {}
  /\ sem' = [i \in Image |-> "none"]
  /\ fence' = [i \in Image |-> "none"]

(* VulkanRenderer::ResizeSwapchain of a new renderer.  A render-pass       *)
(* failure leaves m_frames empty and no pipeline, a pipeline failure is    *)
(* logged, a failure later leaves null handles from some image on.         *)
RendererResize ==
  \/ /\ "renderpass" \in Faults
     /\ pipe' = FALSE /\ frames' = 0 /\ whole' = {}
  \/ /\ frames' = images'
     /\ \/ pipe' = TRUE
        \/ "pipeline" \in Faults /\ pipe' = FALSE
     /\ \/ whole' = Image
        \/ /\ "frames" \in Faults
           /\ \E k \in 0 .. NImages - 1 : whole' = 1 .. k

(* OverlayUI::ResizeSwapchain of a new overlay: without a context or the   *)
(* main document it returns before it creates the sync objects.            *)
ResizeSwapchain ==
  /\ RendererResize
  /\ \/ ctx' = FALSE /\ "context" \in Faults /\ NoSyncObjects
     \/ ctx' = TRUE /\ "document" \in Faults /\ NoSyncObjects
     \/ ctx' = TRUE /\ CreateSyncObjects

(* make_unique builds the new overlay and then destroys the old one, whose *)
(* Shutdown waits for the device to be idle.                               *)
OldOverlayGone == ui # 0 => gpu = {}

\* TryInitRmlUi without its first early return.
AlreadyInitialisedIgnored == FALSE

AlreadyInitialised == initd

(* The rest of TryInitRmlUi.  A queue of another device is used as if it   *)
(* were this one's.                                                        *)
InitOverlay ==
  /\ built < MaxBuilds
  /\ OldOverlayGone
  /\ queueOf' = IF queueOf = 0 THEN device ELSE queueOf
  /\ built' = built + 1
  /\ crashed' \in (IF queueOf' = device THEN {FALSE} ELSE BOOLEAN)
  /\ \/ /\ "init" \in Faults
        /\ ui' = 0 /\ pipe' = FALSE /\ ctx' = FALSE
        /\ frames' = 0 /\ whole' = {}
        /\ NoSyncObjects
        /\ UNCHANGED <<initd, launches>>
     \/ /\ ui' = built + 1
        /\ ResizeSwapchain
        /\ initd' = TRUE
        /\ launches' = launches + 1

(* A successful GetSwapchainImagesKHR with an array. *)
GetSwapchainImages ==
  /\ Idle
  /\ swap \in alive
  /\ images' = swap
  /\ \/ /\ AlreadyInitialised
        /\ UNCHANGED <<queueOf, initd, lifeVars, frameVars, syncVars, crashed>>
     \/ /\ ~AlreadyInitialised
        /\ InitOverlay
  /\ UNCHANGED <<device, swap, appVars, gpu>>

----------------------------------------------------------------------------
AcquireNextImage(i) ==
  /\ Idle
  /\ swap \in alive
  /\ img[i] = "free"
  /\ img' = [img EXCEPT ![i] = "acquired"]
  /\ waited' = [waited EXCEPT ![i] = 0]
  /\ UNCHANGED <<layerVars, lifeVars, frameVars, syncVars, alive, waiting, gpu,
                 crashed>>

\* The driver's present, with the wait semaphores the game passed in.
PresentOnGame(i) ==
  /\ img' = [img EXCEPT ![i] = "onGame"]
  /\ waited' = [waited EXCEPT ![i] = @ + 1]

\* The driver's present, with the overlay's semaphore instead.
PresentOnOverlay(i, submitted) ==
  /\ img' = [img EXCEPT ![i] = "onOverlay"]
  /\ waited' = [waited EXCEPT ![i] = IF submitted THEN @ + 1 ELSE @]

\* The first guards of QueuePresentKHR and of Render.
Bypassed(single) == ui = 0 \/ ~single \/ ~ctx \/ syncOf = 0

(* A present the overlay takes no part in; single says whether the call    *)
(* names one swapchain.                                                    *)
PresentBypass(i, single) ==
  /\ Idle
  /\ swap \in alive
  /\ img[i] = "acquired"
  /\ Bypassed(single)
  /\ PresentOnGame(i)
  /\ UNCHANGED <<layerVars, lifeVars, frameVars, syncVars, alive, waiting, gpu,
                 crashed>>

(* Render up to vkWaitForFences; a null fence there is fatal. *)
PresentWait(i) ==
  /\ Idle
  /\ swap \in alive
  /\ img[i] = "acquired"
  /\ ~Bypassed(TRUE)
  /\ \/ /\ fence[i] # "null"
        /\ waiting' = i
        /\ UNCHANGED crashed
     \/ /\ fence[i] = "null"
        /\ crashed' = TRUE
        /\ UNCHANGED waiting
  /\ UNCHANGED <<layerVars, lifeVars, frameVars, syncVars, alive, img, waited, gpu>>

\* What Render does between the wait and PrepareFrame.
FenceReset(i) ==
  /\ waiting = i
  /\ fence[i] = "signaled"
  /\ fence' = [fence EXCEPT ![i] = "unsignaled"]

(* PrepareFrame returns null: Render returns null, the fence stays reset   *)
(* and the game's present goes out unchanged.                              *)
RenderGivesUp(i) ==
  /\ FenceReset(i)
  /\ ~pipe \/ frames = 0 \/ "begin" \in Faults
  /\ dropped' = dropped \cup {i}
  /\ waiting' = 0
  /\ PresentOnGame(i)
  /\ UNCHANGED <<layerVars, lifeVars, frameVars, sem, alive, gpu, crashed>>

(* A null command buffer or framebuffer reaches the driver. *)
RenderCrashes(i) ==
  /\ waiting = i
  /\ fence[i] = "signaled"
  /\ pipe /\ frames # 0 /\ i \notin whole
  /\ crashed' = TRUE
  /\ UNCHANGED <<layerVars, lifeVars, frameVars, syncVars, appVars, gpu>>

\* QueuePresentKHR forgetting modifiedPresent.
SubmitPresentUnmodified(i) ==
  /\ sem' = [sem EXCEPT ![i] = "pending"]
  /\ PresentOnGame(i)

\* The submission without its signal semaphore.
SubmitUnsignaling(i) ==
  /\ UNCHANGED sem
  /\ PresentOnOverlay(i, TRUE)

\* The submission leaving the game's semaphores to the present as well.
SubmitWaitingTwice(i) ==
  /\ sem' = [sem EXCEPT ![i] = "pending"]
  /\ img' = [img EXCEPT ![i] = "onOverlay"]
  /\ waited' = [waited EXCEPT ![i] = @ + 2]

(* SubmitFrame's semaphore chain and the present that waits on it. *)
SubmitAndPresent(i) ==
  /\ sem' = [sem EXCEPT ![i] = "pending"]
  /\ PresentOnOverlay(i, TRUE)

(* The frame is submitted.  vkQueueSubmit's result is not looked at: after *)
(* a failure the present waits on a semaphore nobody will signal.          *)
RenderSubmits(i) ==
  /\ FenceReset(i)
  /\ pipe /\ frames # 0 /\ i \in whole
  /\ waiting' = 0
  /\ \/ /\ SubmitAndPresent(i)
        /\ gpu' = gpu \cup {<<syncOf, i>>}
        /\ UNCHANGED dropped
     \/ /\ "submit" \in Faults
        /\ PresentOnOverlay(i, FALSE)
        /\ dropped' = dropped \cup {i}
        /\ UNCHANGED <<sem, gpu>>
  /\ UNCHANGED <<layerVars, lifeVars, frameVars, alive, crashed>>

----------------------------------------------------------------------------
(* The GPU executes a submission: its fence and its semaphore are signaled, *)
(* unless a tear-down destroyed them meanwhile.                            *)
GpuComplete(g) ==
  /\ g \in gpu
  /\ ~crashed
  /\ gpu' = gpu \ {g}
  /\ IF g[1] = syncOf
     THEN /\ fence' = [fence EXCEPT ![g[2]] = "signaled"]
          /\ sem' = [sem EXCEPT ![g[2]] = IF @ = "pending" THEN "signaled" ELSE @]
     ELSE UNCHANGED <<fence, sem>>
  /\ UNCHANGED <<layerVars, lifeVars, frameVars, dropped, appVars, crashed>>

(* The presentation engine is done with an image of the newest swapchain:  *)
(* the wait of the present has consumed its semaphore.                     *)
PresentDone(i) ==
  /\ ~crashed
  /\ \/ /\ img[i] = "onGame"
        /\ UNCHANGED sem
     \/ /\ img[i] = "onOverlay"
        /\ sem[i] = "signaled"
        /\ sem' = [sem EXCEPT ![i] = "unsignaled"]
     \/ /\ img[i] = "onOverlay"
        /\ syncOf = 0
        /\ UNCHANGED sem
  /\ img' = [img EXCEPT ![i] = "free"]
  /\ UNCHANGED <<layerVars, lifeVars, frameVars, fence, dropped, alive, waited,
                 waiting, gpu, crashed>>

----------------------------------------------------------------------------
Hooks ==
  \/ CreateDevice
  \/ CreateSwapchain
  \/ \E s \in alive : DestroySwapchain(s)
  \/ GetSwapchainImages
  \/ \E i \in Image : AcquireNextImage(i)
  \/ \E i \in Image, single \in BOOLEAN : PresentBypass(i, single)
  \/ \E i \in Image : PresentWait(i)

Renders ==
  \E i \in Image : RenderGivesUp(i) \/ RenderCrashes(i) \/ RenderSubmits(i)

Next ==
  \/ Hooks
  \/ Renders
  \/ \E g \in gpu : GpuComplete(g)
  \/ \E i \in Image : PresentDone(i)

Spec == Init /\ [][Next]_vars

(* The driver executes what was submitted and shows what was presented; a  *)
(* thread whose fence is signaled goes on.  The application owes nothing.  *)
Fairness ==
  /\ WF_vars(Renders)
  /\ \A s \in 1 .. MaxSwaps, i \in Image : WF_vars(GpuComplete(<<s, i>>))
  /\ \A i \in Image : WF_vars(PresentDone(i))

FairSpec == Spec /\ Fairness

----------------------------------------------------------------------------
SemStates   == {"none", "null", "unsignaled", "pending", "signaled"}
FenceStates == {"none", "null", "unsignaled", "signaled"}
ImageStates == {"free", "acquired", "onGame", "onOverlay"}

Flags == {initd, pipe, ctx, crashed} \subseteq BOOLEAN

CounterTypes ==
  /\ device \in 0 .. MaxDevices
  /\ queueOf \in 0 .. MaxDevices
  /\ swap \in Swap
  /\ images \in Swap
  /\ built \in 0 .. MaxBuilds
  /\ ui \in 0 .. MaxBuilds
  /\ launches \in 0 .. MaxBuilds

FrameTypes ==
  /\ frames \in Swap
  /\ whole \subseteq Image
  /\ syncOf \in Swap
  /\ sem \in [Image -> SemStates]
  /\ fence \in [Image -> FenceStates]
  /\ dropped \subseteq Image

AppTypes ==
  /\ alive \subseteq Swap \ {0}
  /\ img \in [Image -> ImageStates]
  /\ waited \in [Image -> 0 .. 2]
  /\ waiting \in 0 .. NImages
  /\ gpu \subseteq (Swap \X Image)

(* Every variable has its type; in particular both sync vectors have one   *)
(* entry per image (CreateSyncObjects).                                    *)
TypeOK == Flags /\ CounterTypes /\ FrameTypes /\ AppTypes

(* Render never draws into, or waits on objects made for, an image of a    *)
(* swapchain other than the one being presented: whatever recreations,     *)
(* failures and late destructions came before, the command buffers and the *)
(* sync objects belong to the newest swapchain, and the overlay counts as  *)
(* initialised.  (vk_layer.cpp, the order of CreateSwapchainKHR.)          *)
TargetsNewestSwapchain ==
  \A s \in {frames, syncOf} \ {0} : s = swap /\ images = swap /\ initd /\ ui # 0

(* The wait in Render returns at once or, after a frame was dropped, never: *)
(* an image comes back to the application only after its present has       *)
(* consumed the overlay's semaphore, and by then the fence is signaled.    *)
WaitsOnlyForDroppedFrames ==
  waiting # 0 => fence[waiting] = "signaled" \/ waiting \in dropped

(* However a present goes - bypassed, given up after the fence wait, or    *)
(* drawn over - the game's wait semaphores are waited on at most once, and *)
(* exactly once when the image goes out without the overlay.               *)
GameSemaphoresWaitedOnce ==
  \A i \in Image : /\ waited[i] <= 1
                   /\ img[i] = "onGame" => waited[i] = 1

(* A frame is submitted only when its semaphore has been waited on since   *)
(* its last signal and its command buffer is not executing.                *)
SubmitsOnlyIdleFrames ==
  [][\A i \in Image : RenderSubmits(i) =>
        sem[i] = "unsignaled" /\ <<syncOf, i>> \notin gpu]_vars

(* The injector is started at most once per swapchain, however often the   *)
(* application asks for the images.                                        *)
OneInjectorPerSwapchain == launches <= swap

(* An image presented behind an overlay frame that was really submitted    *)
(* comes back to the application, or the process is gone.                  *)
DrawnImagesComeBack ==
  \A i \in Image :
    (img[i] = "onOverlay" /\ i \notin dropped) ~> (img[i] # "onOverlay" \/ crashed)

(* The present hook never waits on a fence that nothing will signal.       *)
PresentNeverHangs ==
  waiting # 0 => fence[waiting] = "signaled" \/ <<syncOf, waiting>> \in gpu

----------------------------------------------------------------------------
(* The strengthening used by OverlayProofs. *)

OneLaunchPerInit ==
  /\ initd => images = swap /\ swap > 0 /\ ui # 0
  /\ launches <= swap /\ launches <= built
  /\ ~initd /\ swap > 0 => launches < swap

WorkIsTracked ==
  /\ \A g \in gpu : g[1] # 0 /\ g[1] <= swap /\ (~initd => g[1] # swap)
  /\ \A i \in Image :
       syncOf # 0 =>
         /\ fence[i] # "none"
         /\ fence[i] = "unsignaled" => <<syncOf, i>> \in gpu \/ i \in dropped
         /\ <<syncOf, i>> \in gpu => /\ sem[i] = "pending"
                                     /\ fence[i] = "unsignaled"
                                     /\ img[i] = "onOverlay"
         /\ sem[i] = "pending" => <<syncOf, i>> \in gpu
         /\ sem[i] = "signaled" => img[i] = "onOverlay"
         /\ fence[i] = "signaled" => sem[i] \in {"unsignaled", "signaled"}

WaitingIsAcquired ==
  waiting # 0 => img[waiting] = "acquired" /\ syncOf # 0 /\ fence[waiting] # "null"

AcquiredNotWaitedYet ==
  \A i \in Image : /\ waited[i] <= 1
                   /\ img[i] = "acquired" => waited[i] = 0
                   /\ img[i] = "onGame" => waited[i] = 1

IInv ==
  /\ TypeOK
  /\ TargetsNewestSwapchain
  /\ OneLaunchPerInit
  /\ WorkIsTracked
  /\ WaitingIsAcquired
  /\ AcquiredNotWaitedYet
=============================================================================
