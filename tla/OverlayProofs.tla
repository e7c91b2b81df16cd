--------------------------- MODULE OverlayProofs ---------------------------
(***************************************************************************)
(* Theorems about Overlay for every number of images, every bound and      *)
(* every set of failing calls.  IInv is inductive: one lemma per hook and  *)
(* per step of the GPU and the presentation engine shows that it is kept.  *)
(* Flags is proved apart from the rest throughout: it is Boolean reasoning *)
(* only, which the provers do not mix well with arithmetic.                *)
(***************************************************************************)
EXTENDS Overlay, TLAPS

USE BoundsAssumption
    DEF Image, Swap, SemStates, FenceStates, ImageStates,
        layerVars, lifeVars, frameVars, syncVars, appVars, IInv, TypeOK

\* Before the first hook nothing exists, so nothing can be inconsistent.
LEMMA InitEstablishes ==
  ASSUME Init
  PROVE  IInv
<1>1. Flags
  BY DEF Init, Flags
<1>2. CounterTypes /\ FrameTypes /\ AppTypes
  BY DEF Init, CounterTypes, FrameTypes, AppTypes
<1>3. TargetsNewestSwapchain /\ OneLaunchPerInit
  BY DEF Init, TargetsNewestSwapchain, OneLaunchPerInit
<1>4. WorkIsTracked /\ WaitingIsAcquired /\ AcquiredNotWaitedYet
  BY DEF Init, WorkIsTracked, WaitingIsAcquired, AcquiredNotWaitedYet
<1>5. QED
  BY <1>1, <1>2, <1>3, <1>4

\* A stuttering step keeps the invariant.
LEMMA StutterKeeps ==
  ASSUME IInv, UNCHANGED vars
  PROVE  IInv'
<1>1. Flags'
  BY DEF vars, Flags
<1>2. CounterTypes' /\ FrameTypes' /\ AppTypes'
  BY DEF vars, CounterTypes, FrameTypes, AppTypes
<1>3. TargetsNewestSwapchain' /\ OneLaunchPerInit'
  BY DEF vars, TargetsNewestSwapchain, OneLaunchPerInit
<1>4. WorkIsTracked' /\ WaitingIsAcquired' /\ AcquiredNotWaitedYet'
  BY DEF vars, WorkIsTracked, WaitingIsAcquired, AcquiredNotWaitedYet
<1>5. QED
  BY <1>1, <1>2, <1>3, <1>4

----------------------------------------------------------------------------
(* The hooks. *)

\* CreateDevice touches nothing the invariant relates.
LEMMA CreateDeviceKeeps ==
  ASSUME IInv, CreateDevice
  PROVE  IInv'
<1> USE DEF CreateDevice
<1>1. Flags'
  BY DEF Flags
<1>2. CounterTypes' /\ FrameTypes' /\ AppTypes'
  BY DEF CounterTypes, FrameTypes, AppTypes
<1>3. TargetsNewestSwapchain' /\ OneLaunchPerInit'
  BY DEF TargetsNewestSwapchain, OneLaunchPerInit
<1>4. WorkIsTracked' /\ WaitingIsAcquired' /\ AcquiredNotWaitedYet'
  BY DEF WorkIsTracked, WaitingIsAcquired, AcquiredNotWaitedYet
<1>5. QED
  BY <1>1, <1>2, <1>3, <1>4

\* A tear-down leaves no frame and no sync object: without an overlay there
\* were none.
LEMMA TearDownLeavesNothing ==
  ASSUME IInv, TearDown
  PROVE  frames' = 0 /\ syncOf' = 0 /\ FrameTypes' /\ crashed' \in BOOLEAN
<1>1. CASE ui = 0
  <2>1. frames = 0 /\ syncOf = 0
    BY <1>1 DEF TargetsNewestSwapchain
  <2>2. crashed' \in BOOLEAN
    BY <1>1 DEF TearDown, Flags
  <2>3. QED
    BY <1>1, <2>1, <2>2 DEF TearDown, FrameTypes
<1>2. CASE ui # 0
  <2>1. crashed' \in BOOLEAN
    BY <1>2 DEF TearDown
  <2>2. QED
    BY <1>2, <2>1 DEF TearDown, FrameTypes
<1>3. QED
  BY <1>1, <1>2

\* CreateSwapchainKHR: the flag is cleared together with the resources.
LEMMA CreateSwapchainKeeps ==
  ASSUME IInv, CreateSwapchain
  PROVE  IInv'
<1>1. frames' = 0 /\ syncOf' = 0 /\ FrameTypes' /\ crashed' \in BOOLEAN
  BY TearDownLeavesNothing DEF CreateSwapchain
<1> USE <1>1 DEF CreateSwapchain
<1>2. Flags'
  BY DEF Flags
<1>3. CounterTypes' /\ AppTypes'
  <2>1. \/ /\ swap < MaxSwaps /\ swap' = swap + 1 /\ images' = 0
           /\ alive' = alive \cup {swap + 1}
           /\ img' = [i \in Image |-> "free"] /\ waited' = [i \in Image |-> 0]
        \/ UNCHANGED <<swap, images, alive, img, waited>>
    OBVIOUS
  <2>2. CounterTypes'
    BY <2>1 DEF CounterTypes
  <2>3. alive' \subseteq Swap \ {0}
    <3>1. alive \subseteq Swap \ {0}
      BY DEF AppTypes
    <3>2. CASE UNCHANGED alive
      BY <3>1, <3>2
    <3>3. CASE swap < MaxSwaps /\ alive' = alive \cup {swap + 1}
      <4>1. swap + 1 \in Swap \ {0}
        BY <3>3 DEF CounterTypes
      <4>2. QED
        BY <3>1, <3>3, <4>1
    <3>4. QED
      BY <2>1, <3>2, <3>3
  <2>4. /\ img' \in [Image -> ImageStates]
        /\ waited' \in [Image -> 0 .. 2]
    BY <2>1 DEF AppTypes
  <2>5. waiting' \in 0 .. NImages /\ gpu' \subseteq (Swap \X Image)
    BY DEF AppTypes
  <2>6. QED
    BY <2>2, <2>3, <2>4, <2>5 DEF AppTypes
<1>4. TargetsNewestSwapchain'
  BY DEF TargetsNewestSwapchain
<1>5. OneLaunchPerInit'
  BY DEF OneLaunchPerInit, CounterTypes
<1>6. WorkIsTracked'
  BY DEF WorkIsTracked, CounterTypes, AppTypes
<1>7. WaitingIsAcquired' /\ AcquiredNotWaitedYet'
  BY DEF Idle, WaitingIsAcquired, AcquiredNotWaitedYet
<1>8. QED
  BY <1>2, <1>3, <1>4, <1>5, <1>6, <1>7

\* DestroySwapchainKHR: the flag stays set, which the invariant allows.
LEMMA DestroySwapchainKeeps ==
  ASSUME NEW s \in alive, IInv, DestroySwapchain(s)
  PROVE  IInv'
<1>1. frames' = 0 /\ syncOf' = 0 /\ FrameTypes' /\ crashed' \in BOOLEAN
  BY TearDownLeavesNothing DEF DestroySwapchain
<1> USE <1>1 DEF DestroySwapchain
<1>2. Flags'
  BY DEF Flags
<1>3. CounterTypes' /\ AppTypes'
  BY DEF CounterTypes, AppTypes
<1>4. TargetsNewestSwapchain' /\ OneLaunchPerInit'
  BY DEF TargetsNewestSwapchain, OneLaunchPerInit
<1>5. WorkIsTracked'
  BY DEF WorkIsTracked
<1>6. WaitingIsAcquired' /\ AcquiredNotWaitedYet'
  BY DEF Idle, WaitingIsAcquired, AcquiredNotWaitedYet
<1>7. QED
  BY <1>2, <1>3, <1>4, <1>5, <1>6

\* Fresh sync objects, whole or cut short by a failure, are idle.
IdleSyncObjects ==
  /\ sem \in [Image -> {"none", "null", "unsignaled"}]
  /\ fence \in [Image -> {"none", "null", "signaled"}]
  /\ dropped = {}
  /\ syncOf # 0 => \A i \in Image : /\ fence[i] # "none"
                                    /\ fence[i] = "signaled" => sem[i] = "unsignaled"

\* The creation loop, stopped after k pairs, leaves idle objects.
LEMMA SyncPrefixIsIdle ==
  ASSUME NEW k \in Int, NEW half \in BOOLEAN, SyncPrefix(k, half), dropped' = {}
  PROVE  IdleSyncObjects'
  BY DEF SyncPrefix, IdleSyncObjects

\* CreateSyncObjects leaves idle objects for the current images, failing or not.
LEMMA CreateSyncObjectsIdle ==
  ASSUME CreateSyncObjects
  PROVE  syncOf' = images' /\ IdleSyncObjects'
<1>1. syncOf' = images' /\ dropped' = {}
  BY DEF CreateSyncObjects
<1>2. CASE SyncPrefix(NImages, FALSE)
  <2>1. NImages \in Int /\ FALSE \in BOOLEAN
    OBVIOUS
  <2>2. IdleSyncObjects'
    BY <1>1, <1>2, <2>1, SyncPrefixIsIdle
  <2>3. QED
    BY <1>1, <2>2
<1>3. CASE \E k \in 0 .. NImages - 1, half \in BOOLEAN : SyncPrefix(k, half)
  BY <1>1, <1>3, SyncPrefixIsIdle
<1>4. QED
  BY <1>1, <1>2, <1>3 DEF CreateSyncObjects

\* No sync objects at all are idle ones.
LEMMA NoSyncObjectsIdle ==
  ASSUME NoSyncObjects
  PROVE  syncOf' = 0 /\ IdleSyncObjects'
  BY DEF NoSyncObjects, IdleSyncObjects

\* What ResizeSwapchain leaves, whichever of its calls fail.
LEMMA ResizeSwapchainResult ==
  ASSUME ResizeSwapchain
  PROVE  /\ {pipe', ctx'} \subseteq BOOLEAN
         /\ frames' \in {0, images'} /\ whole' \subseteq Image
         /\ syncOf' \in {0, images'} /\ IdleSyncObjects'
<1>1. {pipe', ctx'} \subseteq BOOLEAN
  BY DEF ResizeSwapchain, RendererResize
<1>2. frames' \in {0, images'}
  BY DEF ResizeSwapchain, RendererResize
<1>3. whole' \subseteq Image
  BY DEF ResizeSwapchain, RendererResize
<1>4. syncOf' \in {0, images'} /\ IdleSyncObjects'
  BY CreateSyncObjectsIdle, NoSyncObjectsIdle DEF ResizeSwapchain
<1>5. QED
  BY <1>1, <1>2, <1>3, <1>4

\* What InitOverlay leaves: either no overlay and the flag unchanged, or a
\* new overlay, the flag set and one more injector started.
LEMMA InitOverlayResult ==
  ASSUME IInv, InitOverlay
  PROVE  /\ Flags' /\ whole' \subseteq Image /\ IdleSyncObjects'
         /\ frames' \in {0, images'} /\ syncOf' \in {0, images'}
         /\ \/ /\ ui' = 0 /\ frames' = 0 /\ syncOf' = 0
               /\ UNCHANGED <<initd, launches>>
            \/ ui' = built + 1 /\ initd' = TRUE /\ launches' = launches + 1
<1>1. crashed' \in BOOLEAN
  BY DEF InitOverlay
<1>2. CASE /\ ui' = 0 /\ pipe' = FALSE /\ ctx' = FALSE /\ frames' = 0 /\ whole' = {}
           /\ NoSyncObjects /\ UNCHANGED <<initd, launches>>
  <2>1. Flags'
    BY <1>1, <1>2 DEF Flags
  <2>2. QED
    BY <1>2, <2>1, NoSyncObjectsIdle
<1>3. CASE ui' = built + 1 /\ ResizeSwapchain /\ initd' = TRUE /\ launches' = launches + 1
  <2>1. Flags'
    BY <1>1, <1>3, ResizeSwapchainResult DEF Flags
  <2>2. QED
    BY <1>3, <2>1, ResizeSwapchainResult
<1>4. QED
  BY <1>2, <1>3 DEF InitOverlay

\* GetSwapchainImagesKHR with the initialisation it may trigger.
LEMMA GetSwapchainImagesKeeps ==
  ASSUME IInv, GetSwapchainImages
  PROVE  IInv'
<1> USE DEF GetSwapchainImages
<1>0. AppTypes' /\ WaitingIsAcquired' /\ AcquiredNotWaitedYet'
  BY DEF AppTypes, Idle, WaitingIsAcquired, AcquiredNotWaitedYet
<1>1. CASE AlreadyInitialised
  <2> USE <1>1 DEF AlreadyInitialised
  <2>1. UNCHANGED <<queueOf, initd, ui, built, launches, pipe, ctx, frames, whole,
                    syncOf, sem, fence, dropped, crashed>>
    BY DEF InitOverlay
  <2>2. Flags'
    BY <2>1 DEF Flags
  <2>3. CounterTypes' /\ FrameTypes'
    BY <2>1 DEF CounterTypes, FrameTypes
  <2>4. TargetsNewestSwapchain' /\ OneLaunchPerInit' /\ WorkIsTracked'
    BY <2>1 DEF TargetsNewestSwapchain, OneLaunchPerInit, WorkIsTracked
  <2>5. QED
    BY <1>0, <2>2, <2>3, <2>4
<1>2. CASE ~AlreadyInitialised
  <2>1. ~initd /\ InitOverlay /\ images' = swap /\ swap \in Swap \ {0}
    BY <1>2 DEF AlreadyInitialised, AppTypes
  <2>2. /\ built < MaxBuilds /\ built' = built + 1
        /\ queueOf' = IF queueOf = 0 THEN device ELSE queueOf
    BY <2>1 DEF InitOverlay
  <2>3. /\ Flags' /\ whole' \subseteq Image /\ IdleSyncObjects'
        /\ frames' \in {0, swap} /\ syncOf' \in {0, swap}
    BY <2>1, InitOverlayResult
  <2>4. \/ /\ ui' = 0 /\ frames' = 0 /\ syncOf' = 0
           /\ initd' = initd /\ launches' = launches
        \/ ui' = built + 1 /\ initd' = TRUE /\ launches' = launches + 1
    BY <2>1, InitOverlayResult
  <2>5. CounterTypes'
    BY <2>1, <2>2, <2>4 DEF CounterTypes, OneLaunchPerInit
  <2>6. FrameTypes'
    BY <2>1, <2>3 DEF FrameTypes, IdleSyncObjects
  <2>7. TargetsNewestSwapchain' /\ OneLaunchPerInit'
    BY <2>1, <2>2, <2>3, <2>4 DEF TargetsNewestSwapchain, OneLaunchPerInit, CounterTypes
  <2>8. WorkIsTracked'
    <3>1. \A g \in gpu : g[1] # swap
      BY <2>1 DEF WorkIsTracked
    <3>2. \A i \in Image : <<syncOf', i>> \notin gpu
      BY <2>3, <3>1 DEF WorkIsTracked
    <3>3. QED
      BY <2>3, <3>1, <3>2 DEF WorkIsTracked, IdleSyncObjects
  <2>9. QED
    BY <1>0, <2>3, <2>5, <2>6, <2>7, <2>8
<1>3. QED
  BY <1>1, <1>2

\* AcquireNextImageKHR hands out an image no present is using.
LEMMA AcquireNextImageKeeps ==
  ASSUME NEW i \in Image, IInv, AcquireNextImage(i)
  PROVE  IInv'
<1> USE DEF AcquireNextImage
<1>1. Flags'
  BY DEF Flags
<1>2. CounterTypes' /\ FrameTypes' /\ AppTypes'
  BY DEF CounterTypes, FrameTypes, AppTypes
<1>3. TargetsNewestSwapchain' /\ OneLaunchPerInit'
  BY DEF TargetsNewestSwapchain, OneLaunchPerInit
<1>4. WorkIsTracked'
  BY DEF WorkIsTracked, AppTypes
<1>5. WaitingIsAcquired' /\ AcquiredNotWaitedYet'
  BY DEF Idle, WaitingIsAcquired, AcquiredNotWaitedYet, AppTypes
<1>6. QED
  BY <1>1, <1>2, <1>3, <1>4, <1>5

\* A present the overlay takes no part in.
LEMMA PresentBypassKeeps ==
  ASSUME NEW i \in Image, NEW single \in BOOLEAN, IInv, PresentBypass(i, single)
  PROVE  IInv'
<1> USE DEF PresentBypass, PresentOnGame
<1>1. Flags'
  BY DEF Flags
<1>2. CounterTypes' /\ FrameTypes' /\ AppTypes'
  BY DEF CounterTypes, FrameTypes, AppTypes, AcquiredNotWaitedYet
<1>3. TargetsNewestSwapchain' /\ OneLaunchPerInit'
  BY DEF TargetsNewestSwapchain, OneLaunchPerInit
<1>4. WorkIsTracked'
  BY DEF WorkIsTracked, AppTypes
<1>5. WaitingIsAcquired' /\ AcquiredNotWaitedYet'
  BY DEF Idle, WaitingIsAcquired, AcquiredNotWaitedYet, AppTypes
<1>6. QED
  BY <1>1, <1>2, <1>3, <1>4, <1>5

\* Render enters the fence wait only with an acquired image and a fence.
LEMMA PresentWaitKeeps ==
  ASSUME NEW i \in Image, IInv, PresentWait(i)
  PROVE  IInv'
<1> USE DEF PresentWait
<1>1. Flags'
  BY DEF Flags
<1>2. CounterTypes' /\ FrameTypes' /\ AppTypes'
  BY DEF CounterTypes, FrameTypes, AppTypes
<1>3. TargetsNewestSwapchain' /\ OneLaunchPerInit'
  BY DEF TargetsNewestSwapchain, OneLaunchPerInit
<1>4. WorkIsTracked' /\ AcquiredNotWaitedYet'
  BY DEF WorkIsTracked, AcquiredNotWaitedYet
<1>5. WaitingIsAcquired'
  BY DEF Bypassed, Idle, WaitingIsAcquired
<1>6. QED
  BY <1>1, <1>2, <1>3, <1>4, <1>5

----------------------------------------------------------------------------
(* The rest of Render, the GPU and the presentation engine. *)

\* When the fence of the awaited image is signaled, its semaphore is idle
\* and the GPU is not executing its command buffer.
LEMMA ReadyFrameIsIdle ==
  ASSUME NEW i \in Image, IInv, waiting = i, fence[i] = "signaled"
  PROVE  /\ sem[i] = "unsignaled" /\ <<syncOf, i>> \notin gpu
         /\ img[i] = "acquired" /\ syncOf # 0
<1>1. img[i] = "acquired" /\ syncOf # 0
  BY DEF WaitingIsAcquired
<1>2. QED
  BY <1>1 DEF WorkIsTracked

\* A frame given up is recorded as dropped.
LEMMA RenderGivesUpKeeps ==
  ASSUME NEW i \in Image, IInv, RenderGivesUp(i)
  PROVE  IInv'
<1> USE DEF RenderGivesUp, FenceReset, PresentOnGame
<1>0. sem[i] = "unsignaled" /\ <<syncOf, i>> \notin gpu /\ img[i] = "acquired"
  BY ReadyFrameIsIdle
<1>1. Flags'
  BY DEF Flags
<1>2. CounterTypes' /\ FrameTypes' /\ AppTypes'
  BY <1>0 DEF CounterTypes, FrameTypes, AppTypes, AcquiredNotWaitedYet
<1>3. TargetsNewestSwapchain' /\ OneLaunchPerInit'
  BY DEF TargetsNewestSwapchain, OneLaunchPerInit
<1>4. WorkIsTracked'
  BY <1>0 DEF WorkIsTracked, AppTypes, FrameTypes
<1>5. WaitingIsAcquired' /\ AcquiredNotWaitedYet'
  BY <1>0 DEF WaitingIsAcquired, AcquiredNotWaitedYet, AppTypes
<1>6. QED
  BY <1>1, <1>2, <1>3, <1>4, <1>5

\* The crash changes nothing but the process.
LEMMA RenderCrashesKeeps ==
  ASSUME NEW i \in Image, IInv, RenderCrashes(i)
  PROVE  IInv'
<1> USE DEF RenderCrashes
<1>1. Flags'
  BY DEF Flags
<1>2. CounterTypes' /\ FrameTypes' /\ AppTypes'
  BY DEF CounterTypes, FrameTypes, AppTypes
<1>3. TargetsNewestSwapchain' /\ OneLaunchPerInit'
  BY DEF TargetsNewestSwapchain, OneLaunchPerInit
<1>4. WorkIsTracked' /\ WaitingIsAcquired' /\ AcquiredNotWaitedYet'
  BY DEF WorkIsTracked, WaitingIsAcquired, AcquiredNotWaitedYet
<1>5. QED
  BY <1>1, <1>2, <1>3, <1>4

\* A submission ties fence, semaphore and image to one entry of gpu; one the
\* driver refuses leaves the image dropped.
LEMMA RenderSubmitsKeeps ==
  ASSUME NEW i \in Image, IInv, RenderSubmits(i)
  PROVE  IInv'
<1> USE DEF RenderSubmits, FenceReset, PresentOnOverlay
<1>0. /\ sem[i] = "unsignaled" /\ <<syncOf, i>> \notin gpu
      /\ img[i] = "acquired" /\ syncOf # 0
  BY ReadyFrameIsIdle
<1>1. Flags'
  BY DEF Flags
<1>2. TargetsNewestSwapchain' /\ OneLaunchPerInit' /\ CounterTypes'
  BY DEF TargetsNewestSwapchain, OneLaunchPerInit, CounterTypes
<1>3. syncOf = swap /\ initd
  BY <1>0 DEF TargetsNewestSwapchain
<1>4. WaitingIsAcquired'
  BY DEF WaitingIsAcquired
<1>5. CASE gpu' = gpu \cup {<<syncOf, i>>} /\ SubmitAndPresent(i) /\ UNCHANGED dropped
  <2> USE <1>5 DEF SubmitAndPresent
  <2>1. FrameTypes'
    BY DEF FrameTypes
  <2>2. AppTypes'
    BY <1>0 DEF AppTypes, AcquiredNotWaitedYet, FrameTypes
  <2>3. AcquiredNotWaitedYet'
    BY <1>0 DEF AcquiredNotWaitedYet, AppTypes
  <2>4. WorkIsTracked'
    BY <1>0, <1>3 DEF WorkIsTracked, AppTypes, FrameTypes, CounterTypes
  <2>5. QED
    BY <1>1, <1>2, <1>4, <2>1, <2>2, <2>3, <2>4
<1>6. CASE /\ PresentOnOverlay(i, FALSE) /\ dropped' = dropped \cup {i}
           /\ UNCHANGED <<sem, gpu>>
  <2> USE <1>6
  <2>1. FrameTypes'
    BY DEF FrameTypes
  <2>2. AppTypes'
    BY <1>0 DEF AppTypes
  <2>3. AcquiredNotWaitedYet'
    BY <1>0 DEF AcquiredNotWaitedYet, AppTypes
  <2>4. WorkIsTracked'
    BY <1>0 DEF WorkIsTracked, AppTypes, FrameTypes
  <2>5. QED
    BY <1>1, <1>2, <1>4, <2>1, <2>2, <2>3, <2>4
<1>7. QED
  BY <1>5, <1>6

\* A completed submission signals its own fence and semaphore, or none when
\* they are gone.
LEMMA GpuCompleteKeeps ==
  ASSUME NEW g \in gpu, IInv, GpuComplete(g)
  PROVE  IInv'
<1> USE DEF GpuComplete
<1>0. g[2] \in Image /\ g = <<g[1], g[2]>>
  BY DEF AppTypes
<1>1. Flags'
  BY DEF Flags
<1>2. CounterTypes' /\ FrameTypes' /\ AppTypes'
  <2>1. CounterTypes' /\ AppTypes'
    BY DEF CounterTypes, AppTypes
  <2>2. fence' \in [Image -> FenceStates]
    BY <1>0 DEF FrameTypes
  <2>3. sem' \in [Image -> SemStates]
    <3>1. CASE UNCHANGED sem
      BY <3>1 DEF FrameTypes
    <3>2. CASE sem' = [sem EXCEPT ![g[2]] = IF @ = "pending" THEN "signaled" ELSE @]
      BY <1>0, <3>2 DEF FrameTypes
    <3>3. QED
      BY <3>1, <3>2
  <2>4. QED
    BY <2>1, <2>2, <2>3 DEF FrameTypes
<1>3. TargetsNewestSwapchain' /\ OneLaunchPerInit' /\ AcquiredNotWaitedYet'
  BY DEF TargetsNewestSwapchain, OneLaunchPerInit, AcquiredNotWaitedYet
<1>4. WorkIsTracked'
  BY <1>0, SMTT(30) DEF WorkIsTracked, FrameTypes
<1>5. WaitingIsAcquired'
  BY <1>0 DEF WaitingIsAcquired, FrameTypes, AppTypes
<1>6. QED
  BY <1>1, <1>2, <1>3, <1>4, <1>5

\* A finished present has consumed the semaphore it waited on.
LEMMA PresentDoneKeeps ==
  ASSUME NEW i \in Image, IInv, PresentDone(i)
  PROVE  IInv'
<1> USE DEF PresentDone
<1>1. Flags'
  BY DEF Flags
<1>2. CounterTypes' /\ FrameTypes' /\ AppTypes'
  BY DEF CounterTypes, FrameTypes, AppTypes
<1>3. TargetsNewestSwapchain' /\ OneLaunchPerInit'
  BY DEF TargetsNewestSwapchain, OneLaunchPerInit
<1>4. WorkIsTracked'
  BY DEF WorkIsTracked, FrameTypes, AppTypes
<1>5. WaitingIsAcquired' /\ AcquiredNotWaitedYet'
  BY DEF WaitingIsAcquired, AcquiredNotWaitedYet, AppTypes
<1>6. QED
  BY <1>1, <1>2, <1>3, <1>4, <1>5

----------------------------------------------------------------------------
\* Every step keeps the invariant.
LEMMA NextKeeps == IInv /\ [Next]_vars => IInv'
<1> SUFFICES ASSUME IInv, [Next]_vars
             PROVE  IInv'
  OBVIOUS
<1>1. CASE Hooks
  BY <1>1, CreateDeviceKeeps, CreateSwapchainKeeps, DestroySwapchainKeeps,
     GetSwapchainImagesKeeps, AcquireNextImageKeeps, PresentBypassKeeps,
     PresentWaitKeeps DEF Hooks
<1>2. CASE Renders
  BY <1>2, RenderGivesUpKeeps, RenderCrashesKeeps, RenderSubmitsKeeps DEF Renders
<1>3. CASE \E g \in gpu : GpuComplete(g)
  BY <1>3, GpuCompleteKeeps
<1>4. CASE \E i \in Image : PresentDone(i)
  BY <1>4, PresentDoneKeeps
<1>5. CASE UNCHANGED vars
  BY <1>5, StutterKeeps
<1>6. QED
  BY <1>1, <1>2, <1>3, <1>4, <1>5 DEF Next

\* The inductive invariant holds in every reachable state.
THEOREM Invariance == Spec => []IInv
<1>1. QED
  BY InitEstablishes, NextKeeps, PTL DEF Spec

\* Every variable keeps its type (both vectors of CreateSyncObjects have one
\* entry per image).
THEOREM TypeCorrect == Spec => []TypeOK
<1>1. IInv => TypeOK
  OBVIOUS
<1>2. QED
  BY <1>1, Invariance, PTL

\* Frames and sync objects always belong to the newest swapchain, whichever
\* hooks ran and failed before (CreateSwapchainKHR, DestroySwapchainKHR).
THEOREM FramesTargetNewestSwapchain == Spec => []TargetsNewestSwapchain
<1>1. IInv => TargetsNewestSwapchain
  OBVIOUS
<1>2. QED
  BY <1>1, Invariance, PTL

\* The fence wait of Render never waits for the GPU: it returns at once or,
\* for an image whose frame was dropped, never.
THEOREM FenceWaitIsInstantOrEndless == Spec => []WaitsOnlyForDroppedFrames
<1>1. IInv => WaitsOnlyForDroppedFrames
  <2> SUFFICES ASSUME IInv, waiting # 0
               PROVE  fence[waiting] = "signaled" \/ waiting \in dropped
    BY DEF WaitsOnlyForDroppedFrames
  <2>1. waiting \in Image
    BY DEF AppTypes
  <2>2. fence[waiting] \in FenceStates
    BY <2>1 DEF FrameTypes
  <2>3. syncOf # 0 /\ img[waiting] = "acquired" /\ fence[waiting] # "null"
    BY DEF WaitingIsAcquired
  <2>4. QED
    BY <2>1, <2>2, <2>3 DEF WorkIsTracked
<1>2. QED
  BY <1>1, Invariance, PTL

\* No present, whatever its way through the hook, waits twice on the game's
\* semaphores.
THEOREM GameSemaphores == Spec => []GameSemaphoresWaitedOnce
<1>1. IInv => GameSemaphoresWaitedOnce
  BY DEF AcquiredNotWaitedYet, GameSemaphoresWaitedOnce
<1>2. QED
  BY <1>1, Invariance, PTL

\* The injector starts at most once per swapchain (TryInitRmlUi).
THEOREM InjectorStarts == Spec => []OneInjectorPerSwapchain
<1>1. IInv => OneInjectorPerSwapchain
  BY DEF OneLaunchPerInit, OneInjectorPerSwapchain
<1>2. QED
  BY <1>1, Invariance, PTL

\* A frame is recorded and submitted only when its semaphore and its command
\* buffer are idle (Render, SubmitFrame).
THEOREM SubmissionsAreOrdered == Spec => SubmitsOnlyIdleFrames
<1>1. IInv => \A i \in Image : RenderSubmits(i) =>
                 sem[i] = "unsignaled" /\ <<syncOf, i>> \notin gpu
  BY ReadyFrameIsIdle DEF RenderSubmits, FenceReset
<1>2. QED
  BY <1>1, Invariance, PTL DEF SubmitsOnlyIdleFrames
=============================================================================
