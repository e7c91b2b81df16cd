# A verification of the WotLK overlay layer

The repository is a Vulkan layer for the World of Warcraft 3.3.5a client. The
layer hooks the swapchain functions of the game, draws an RmlUi interface over
each presented image, and fills that interface with data a small DLL reads in
the game's own process and sends over a loopback TCP connection.

This directory holds TLA+ modules that model it, the configurations that
model-check them with TLC, and theorems about them that TLAPS proves.
`PROJECT.json` says which lines of the source each definition stands for.

## 1. Inventory

The two processes: the native one of the game under Wine, into which the Vulkan
loader loads the layer, and the Windows side of the same client, into which an
injector loads `wowmemory.dll`. The actors are

- the thread that calls the hooks (one at a time),
- the GPU and the presentation engine,
- one server thread per `GameDataReader`,
- the thread of `wowmemory.dll`,
- the forked injector processes,
- the game, whose memory changes under the reader.

| Component | State it keeps | Operations | Interacts with | What is hard | What makes it correct |
|---|---|---|---|---|---|
| Layer hooks (`vklayer/vk_layer.cpp`) | `gOverlay`: device, queue, newest swapchain, its images, `rmlInitialized`, the overlay | CreateDevice, Create/DestroySwapchainKHR, GetSwapchainImagesKHR (with `TryInitRmlUi`), AcquireNextImageKHR, QueuePresentKHR | owns the OverlayUI, calls the driver, forks the injector | old and new swapchains alive together, every driver call failing, an overlay replaced while the GPU works for it | overlay resources always belong to the presented swapchain; the game's semaphores are waited on once; one injector per swapchain |
| OverlayUI (`rmlui/OverlayUI.cpp`) | context, documents, sync objects per image, a reader, a data model | Initialize, ResizeSwapchain, DestroySwapchainResources, Render, Shutdown | VulkanRenderer, GameDataReader, WowDataModel | early returns that leave part of the state behind; a fence reset and not submitted | no wait that nothing ends; no frame in use is submitted again |
| VulkanRenderer (`rmlui/VulkanRenderer.cpp`) | pipeline, frames per image, geometry, textures, descriptor pool | Initialize, ResizeSwapchain, PrepareFrame, SubmitFrame, geometry and texture calls, Shutdown | driver | failures half way, deferred destruction, a pool that never gets sets back | everything created is destroyed once, and never in use |
| GameDataReader (`wowmemory/wowmemory.cpp`, not Windows) | server thread, stop flag, two descriptors, cached snapshot under a mutex | constructor, destructor, ServerLoop, ReadGameData | DLL by TCP, OverlayUI | destructor and thread closing the same descriptors, a join of a thread that sleeps in a system call, a port still taken | nothing leaks; the join ends; framing is kept |
| Sender thread (`wowmemory_dll/wowmemory_dll.cpp`) | `g_Running`, connection, reader position | connect, read, serialise, send, reconnect | server thread | failed sends, a reset in the middle of a message | snapshots arrive in order and in the end |
| Combat log reader (`wowmemory/combat_log.cpp`) | address of the last node read | ReadCombatLogEvents | the game's linked list | nodes freed or appended during the walk, stale pointers, a batch limit | each event is reported once, in order |
| WowDataModel (`rmlui/WowDataModel.cpp`) | bound variables, group lists, combat log history | Initialise, Update, Shutdown | cached snapshot, RmlUi | Update runs per frame, snapshots arrive per packet | every frame shows the last snapshot; the newest event is the last line |
| GameData codec (`wowmemory/wowmemory.cpp`) | none | SerializeGameData, DeserializeGameData | both ends of the pipe | truncated and oversized input | round trip; malformed input refused |
| DoubleBufferedGameData | two buffers, an index | SwapBuffers, GetReadBuffer, GetWriteBuffer | no user | unsynchronised index | a reader sees a whole snapshot |
| Memory guards (`wowmemory/memory_utils.cpp`) | a one-entry cache per thread | IsReadableRange, ReadSafeString | every reader | stale cache, address wrap-around | what is reported readable can be read |
| Unit, aura, object, group readers (`wowmemory/*.cpp`, `client/*.cpp`) | none between calls; within one, the address found and what was read through it | ReadGameData: find an object by GUID, read its fields, auras and name | the game's memory | objects are destroyed and their memory reused between any two reads | what is entered for a unit is that unit's; nothing is read from a page that was always gone; walks end |
| Injector (`wowmemory_dll/injector.cpp`) | handles | find the client, write the path, start LoadLibrary | Windows API | client not started yet, failing steps | handles and remote memory given back |
| Object getters, client wrappers, profile check, file and system interfaces | none or trivial | reads of one field, input and output | | | |

The hazards of this code, each at its line and with the property that would catch
it, are listed in `PROJECT.json`. Nine of them no property catches, because it
would have to forbid what the code does and no document promises otherwise (a queue of the
first device, null sync objects, a reader whose bind failed, the events of a failed
send, descriptor sets that run out, data of a unit destroyed while it is read), because
nothing in the code could prevent them (a page that goes between its check and
its read, a range that wraps around), or because the model assumes them away (presents of
a retired swapchain); the `note` of each says what the models have of it.

## 2. Modules

| Module | Models | Used by |
|---|---|---|
| `Overlay` | the hooks, the overlay's life, frames and sync objects, GPU and presentation engine | runs `overlay`, `overlay_hang` |
| `MCOverlay` | the set of failing calls for TLC | the same |
| `OverlayProofs` | proofs about `Overlay` | TLAPS |
| `SnapshotRegister` | abstract: what the display of game data promises | refinement |
| `EventFeed` | abstract: a combat log read in batches, each in one step | refinement |
| `GameDataPipe` | DLL thread, TCP stream, ServerLoop, cache, combat log history | runs `pipe`, `combat_events` |
| `PipeProofs` | proofs about `GameDataPipe`, the refinement among them | TLAPS |
| `ReaderLifecycle` | the server thread against the destructor, on the descriptor table | runs `lifecycle`, `reader_join` |
| `ReaderProofs` | proofs about `ReaderLifecycle` | TLAPS |
| `GpuResources` | the Vulkan objects of the renderer, from Initialize to Shutdown | run `gpu_resources` |
| `GpuProofs` | proofs about `GpuResources` | TLAPS |
| `GameDataCodec` | SerializeGameData and DeserializeGameData | `DataModel`, run `codec_truncation` |
| `MCGameDataCodec` | the snapshots written, for TLC | run `codec_truncation`, `MCDataModel` |
| `CodecProofs` | proofs about `GameDataCodec` | TLAPS |
| `DataModel` | WowDataModel, on the receiving end of `GameDataCodec` | run `codec` |
| `MCDataModel` | the two together, for TLC | the same |
| `DataModelProofs` | proofs about `DataModel`, with the codec under it | TLAPS |
| `CombatLogReader` | ReadCombatLogEvents against the client's list | runs `combat_log`, `combat_resync` |
| `CombatLogProofs` | proofs about `CombatLogReader` | TLAPS |
| `UnitReader` | the rest of ReadGameData against the client's objects | run `unit_reader` |
| `UnitProofs` | proofs about `UnitReader` | TLAPS |

### Overlay

Swapchains are numbered by creation, so "the frames are for swapchain 3" is a
number in `frames`. `syncOf` and `frames` say which swapchain the sync objects
and the command buffers were made for (0: the vectors are empty); `whole` are the
images whose frame has all its handles; `sem` and `fence` are the Vulkan states of
`m_overlaySemaphores` and `m_fences`, where "null" is a handle a failed creation
left behind in a vector of full size. One action is one hook, except
QueuePresentKHR, which is cut where the thread can sleep: `PresentBypass` is a
present without the overlay, `PresentWait` goes up to `vkWaitForFences`, and
`RenderGivesUp`, `RenderSubmits` and `RenderCrashes` are the three ways on from
there. `GpuComplete` and `PresentDone` are the driver.

`Faults` names the calls that may fail; a failing call may fail at any time.
The model lets the process crash (`crashed`) where the code hands a null or
destroyed handle to the driver, and also lets it survive where that is possible.

Assumed: the application calls the hooks one at a time, presents only its newest
swapchain, and destroys a swapchain when its images are no longer in use, as
Vulkan demands. A present of a retired swapchain would draw into the newest one's
framebuffer (`QueuePresentKHR` does not look at the handle); that hazard is listed
and not covered.

### GameDataPipe

A snapshot is a record: `ver` is the number of changes of the game it shows, and
`from`, `to` bound the events it carries. The content of the snapshot is data no
property distinguishes. `game` and `log` are the game; `pc`, `running`,
`lastNode`, `packet` the DLL's thread; `link` and `wire` the connection; `srv`,
`got`, `cache` the reader; `shown` and `history` the data model. Each send and
each receive of a message is an action of its own, as are the caching and the
rendered frame, so any of them interleave, and `RecreateOverlay` replaces the
reader at any of these points.

`link = "reset"` is a connection whose server side is gone and whose client has
not noticed: the first send into it succeeds and is lost, the next fails.

Simplified here: the DLL reads the game in one step (`ReadGame`; the walk
over the list is the subject of `CombatLogReader`, and `EventFeed` joins the two),
the client never destroys events the walk still needs (the feed is never lost), and re-creating the
overlay is one step. What happens inside that step is the subject of
`ReaderLifecycle`.

### ReaderLifecycle

`m_serverFd` and `m_clientFd` are plain integers two threads use, and the
destructor and the server thread both close them. What a number means depends on
the process's descriptor table at that moment, so the model keeps the table
(`table`: number to kernel object and opener), lets the game open descriptors of
its own, hands out the lowest free number as POSIX does, and keeps an object
alive as long as an entry, a forked injector or a blocked call refers to it. Each
system call and each assignment of the two fields is a step. `confused` is a
history variable: some call reached an object its caller had not opened.

A blocked `accept` or `recv` holds its object (`ref`): on Linux, `close` of the
descriptor in another thread does not wake it. The server thread looks at
`m_stopServer` only at the heads of its two loops and after an error.

### CombatLogReader

`list` is the client's list of nodes, oldest first; `next` and `num` are what is
found at an address (the next pointer, and the event the fields describe), whether
or not the node is still in the list; `mapped` are the addresses `IsReadableRange`
accepts. `lastNode`, `headNode`, `tailNode`, `node` and `count` are the variables
of `ReadCombatLogEvents`, `pc` where it is: nothing synchronises it with the client,
so the two list pointers, the start, each record and each next pointer are read in
a step of their own. A page that goes away between its check and its read is the
end of the process and of the behaviour. `kMaxCombatLogEvents` bounds the batch.

The client is external, modelled from what the reader guards against: it
appends a node at an address that is free or was freed (`AppendNode`), takes the
oldest one off the list and leaves its memory alone (`Evict`), and later writes to
freed memory or unmaps it (`Reclaim`). A list ends in a pointer with its lowest
bit set; the tail of an empty list is null or the address of a sentinel, the two
forms such lists have.

`intact`, `want` and `seen` are history variables: whether the client has kept all
that the reader needs, the event to be reported next, and the one reported last.

`EventFeed` is what the callers of `ReadCombatLogEvents` may rely on: a call takes the
events after the last one taken, up to the size of a batch, in one step (`Read`); the
feed may be lost, which is the client destroying what the reader needs, and is then
taken up again anywhere in the log (`Resume`). `CombatLogReader` implements it with
the refinement mapping `Reported`, the event a call has decided to read up to. The
decision falls where the tail is read: from there on it is the event of the tail, or
the one that fills the batch. Only when the tail of an empty list is a sentinel, which
no node is compared equal to, does the call go on to wherever the list ends, and the
decision falls there. `GameDataPipe` takes its events from the same `EventFeed`, so
the two modules are joined by it; there the feed is never lost.

### UnitReader

ReadGameData looks for the player, his target and the members of his group in the
list of the client's object manager, each by its GUID, and reads through the
pointers it finds in the object: its descriptor fields, its table of auras, its
template with the name. Nothing stops the client meanwhile.

Memory is a set of blocks. `owner` are the units a block holds data of, `part` the
pointers in it, `next` the link of the list. The code follows three pointers of an
object (unit_info.cpp:10 and :188, auras.cpp:35), and each leads to a block of its own:
the descriptor fields, the aura table on the heap, and the template, which units of a
kind share and which points to the name (the name is kept in the same block). `mapped`
are the blocks whose pages exist. Two pointers are not addresses: `Odd` ends the list, and `Wrap`
is so close to the end of the address space that `addr + size` wraps around and the
Win32 loop of `IsReadableRange` asks about nothing. A read is two steps, the guard
(`guard`: what `IsReadableRange` said) and the dereference; a page may go in between,
and then the process is gone (`Fault`). One read has no guard: in
PopulateGroupMemberStats the pointer to the descriptor (`pc = "descriptor"`), which
relies on the object having been readable before. `pc` is named after what is read;
`base`, `fields`, `count`, `auras`, `stats` and `targetGUID` are the variables of the
code, `role` says for which of the three units it runs.

The client is external, modelled from what the code guards against: an object enters
the list at either end with or without its fields and a template (`Create`), leaves it
with its memory as it was (`Destroy`), gets other fields, another aura table or another
template, or loses one, while it stays in the list (`Replace`), and memory no object uses
is written to or unmapped (`Reclaim`). What was replaced is such memory, and may be given
to another unit. The repository says nothing of when the client does this
(docs/client-memory-profile.md leaves the life of the aura table to be observed), so it
may do so between any two reads. Assumed: what an object points to
at a moment holds its unit's data at that moment.

History variables are `foreign` (data of another unit, or of nobody, was entered for
this one), `kept` (the object found is in the list since, and so far the client has taken
from it neither that nor the block whose address the reader holds), `listed` (the unit was there when the
walk began and nothing left since) and `quiet` (no page went during this call).

Left out: the walk of the name cache (a player's name comes back or it does not), the
camera and the quest log. A refused read gives the value the code falls back to.

### GpuResources

An object is a triple: the renderer that made it, the handle or image it is for,
and its kind. `live` is what the driver has; against it stand the members of
VulkanRenderer that are not null (`fields`, `whiteSet`), the handles in `m_frames`
(`frames`), the geometry and texture handles RmlUi holds (`geo`, `tex`), and
`sets`, the descriptor sets taken from `m_descPool`, which never get back. `cmd` is
`m_currentCmdBuf`; `refs` collects what a frame records between PrepareFrame and
SubmitFrame and becomes `flight` of its image. `wild` and `failed` are history
variables.

One action is one call of the class with everything it makes and destroys on the
way, one disjunct per place it can fail: `Initialize` is Initialize with
SetupWithQueue (and the destructor, when either it or `Rml::Initialise` fails),
`Shutdown` the one of OverlayUI. `Drive` says what the driver does: it makes the
objects and destroys the others, and notes an object destroyed that is not there.

ResizeSwapchain happens once per renderer, right after Initialize, as in
`TryInitRmlUi`. The wait for a fence is the guard that nothing of that image is in
flight; fences themselves are the subject of `Overlay`. A frame uses its command
buffer, view and framebuffer, the command pool, render pass and pipeline, and what the
draws add to them. RmlUi compiles, generates and releases handles at any time, also
between PrepareFrame and SubmitFrame: the releases have no check against it, and
`DeviceWaitIdle` waits for submissions, not for the frame being recorded. Null handles
handed to the driver may end the process.

Two things the code does destroy under work that uses them, and `InFlightWorkIsLive`
names both: `DestroySwapchainResources` waits for nothing, so the frames in flight lose
what is theirs in `m_frames`; and a handle released after a draw with it is missing when
that frame is submitted (`gone`, a history variable, holds these objects).
Nothing in the repository shows RmlUi doing the latter, and nothing prevents it.

### GameDataCodec

`Written` and `ReadOrder` are the fields with their types in the order
SerializeGameData writes and DeserializeGameData reads them: the code has the list
twice, and so has the model. A scalar is the sequence of its bytes, because the code
copies bytes; a list is the sequence of its entries, with its count as the length, so
the counts of `GameData` are not fields of their own. A buffer is written whole, loses
any number of bytes from its end (`Truncate`), and is read field by field
(`ReadField`), each field by the function the code uses, with its rule for what is
short: a value reads as zero and is not consumed, so that narrower fields behind it
may take the rest of its bytes; of a string the length is consumed.

`IsGameData` says what a snapshot can be: a value of the right type for each field, with
each count within its array, where ReadGameData stops. `SnapshotAssumption` demands it of
what is written, and `CodecAssumption` that a count and a length of the 32-bit process fit
into 31 bits (`MaxLength`). Both are evaluated by TLC for the snapshots of the run and are
all the proofs know of them.

`DataModel` takes over where a whole buffer has been read (next section).

Assumed: the 32-bit process that writes and the 64-bit one that reads lay out
CombatLogEvent, which is sent as a struct, in the same 56 bytes.

### DataModel

`mirror` are the variables RmlUi documents are bound to, `view` what the documents
show of them, `cache` the reader's `m_cachedData`. ServerLoop stores each snapshot the
codec read (`Store`), `Initialise` binds the variables at any moment after the reader
started, and `Frame` is UpdateGameData with the Context::Update behind it: each
variable for which the code's comparison (`Changed`) finds a difference is
overwritten and marked, and only what is marked is shown anew. The comparisons are
those of the code: text and numbers by value, the corpse's place as floats (0 and -0 are
the same to it, so one may go on being shown for the other), auras by their lists, the
members of a group field by field with their auras. `Value` is what a variable becomes of the
snapshot: flags become one of two texts, coordinates lose what two decimals do not
show. The variables of the combat log are in `GameDataPipe`, where batches repeat.

Frames come at any moment, so a snapshot may be shown often or never, and Update then
compares with one that is not the one before. Before the first snapshot, frames show
a GameData as it is constructed.

## 3. Runs

| Run | Question | Bounds | Result |
|---|---|---|---|
| `overlay` | are frames, fences, semaphores and swapchains consistent through every order of hooks and failures? | 2 images, 3 swapchains, 2 devices, 4 overlays, all calls failing | 7 properties hold |
| `overlay_hang` | does a present ever wait for a fence nobody will signal? | 2 images, 1 swapchain, BeginCommandBuffer failing | it does (finding) |
| `pipe` | does the display show what the game was, in order and in the end? | 3 changes, 2 re-creations, 3 messages in flight, batches of 2, 3 lines of history | 7 properties hold |
| `combat_events` | is an event entered in the history once? | 2 changes | it is not (finding) |
| `lifecycle` | is the race of the destructor with its thread harmless? | 2 readers, 4 descriptors, 2 connections, 1 file of the game | 4 properties hold |
| `combat_log` | are events reported in order, once, and all of them, while the list changes under the walk? | 3 addresses, 4 events, 1 reclaimed node, batches of 2 | 5 properties hold |
| `combat_resync` | does the reader find its way back after its node is freed? | 2 addresses, 2 events | not always (finding) |
| `gpu_resources` | is every object destroyed once, and what may be destroyed in use, whatever fails? | 2 renderers, 2 images, 1 geometry, 2 textures, 3 descriptor sets | 4 properties hold |
| `codec` | is what one process writes what the other reads, and what the overlay shows? | 4 snapshots, three of 0, 1 and 2 characters and entries and up to 2 members and one that differs from the last in one aura, one byte of a coordinate and the sign of a zero; the first cut at every byte; 3 one after the other | 4 properties hold |
| `codec_truncation` | is a truncated buffer refused? | the same snapshots, one of them sent | it is not (finding) |
| `unit_reader` | what can go wrong while the client creates, destroys, replaces and reuses memory under the reader? | 7 addresses, 3 units, 2 changes, walks of 3 objects, 2 auras, 1 group slot | 5 properties hold |
| `reader_join` | does the destructor return? | 1 reader | not without a DLL that connects (finding) |

Why these bounds are enough to be interesting. Three swapchains give an old one
destroyed after the next was set up, and again after the one following it was; four
overlays allow each swapchain one and one spare for a failed `Initialize`; two
images let one be in flight while the other is waited for. Three changes of the
game exceed the batch (2) so that a batch is cut, and equal the history so that
repeated batches overflow it; three messages in flight hold a length, its payload
and the next length. Two readers are one being destroyed while the next is already
listening, which is the most the code ever has at once; four descriptors are the
two sockets, a connection and one more for the file that takes over a closed
number. Three addresses hold a node the reader remembers, one it is going to and one
the client reuses; four events in batches of two make a call end at its limit
in the middle of the list, and one reclaimed node is enough for each of the guards
of the walk to see bad memory. Two renderers show that the second is not confused
with what a failed or destroyed first one left; three descriptor sets, one of them
the white texture's, run out while two texture handles come and go. Two entries fill an
array, and three sizes leave every list and string empty once; every scalar has a value
of its own, so that no two fields can be taken for each other unseen. Three snapshots
in a row let a frame compare with one that is two behind. Two units with all they point
to take six addresses, and the seventh is one to create at or to replace with. Two
changes are one object destroyed and its memory reclaimed or created at again, or a part
replaced and the old one overwritten, unmapped or given to another unit. The third unit
can enter the list during a walk, before its first object or behind its last, while the
unit looked for stays; a walk of three objects passes all of them and stops at a fourth
pointer. One group slot gives all three roles, with any unit in it. The proofs
below remove the bounds for the safety properties of every module.

Deadlock is checked for `pipe`, `combat_log` and their finding runs. It is switched off for the runs of
`Overlay`, because a crashed process, a present that waits for ever and
exhausted bounds are legal ends there; for those of `ReaderLifecycle`, where a
stopped DLL and exhausted bounds leave every thread asleep; for `gpu_resources`,
whose renderers are used up; for `unit_reader`, where the process may end; and for
the runs of `GameDataCodec`, a function that returns.

### Properties

`Overlay`: `TargetsNewestSwapchain` (command buffers and sync objects belong to
the newest swapchain, through failures and late destructions),
`WaitsOnlyForDroppedFrames` (the fence wait returns at once unless a frame of
that image was dropped), `GameSemaphoresWaitedOnce`, `OneInjectorPerSwapchain`,
`SubmitsOnlyIdleFrames` (action properties) and
`DrawnImagesComeBack` (liveness).

`GameDataPipe`: `PayloadFollowsLength` (framing), `EventsTravelOnce` (along the
whole way a snapshot equals the one before it or starts after its events),
`NoGapOnTheWire`, `NewestEventLast`, `ImplementsRegister` (refinement of
`SnapshotRegister`, an INSTANCE with `shown` as its display) and `ChangesAreShown` (liveness).

`ReaderLifecycle`: `NothingLeaks`, `ConfusionStartsInDestructors` (action
property), `DestructorReturnsToTheDll` (liveness).

`CombatLogReader`: `EventsInTurn` and `RewindsOnlyAfterDamage` (action properties:
in order, once, and no way back to the head while the client keeps what the reader
needs), `ImplementsFeed` (refinement of `EventFeed`: a call reports what one look at
the list would have given) and `KeptEventsAreReported` (liveness).

`GpuResources`: `NothingOrphaned` (whatever fails, every object that exists can
still be destroyed, except those of a renderer whose Initialize failed),
`HandlesAreLive` (nothing is destroyed twice, nothing kept dangles) and
`InFlightWorkIsLive` (the GPU and the frame being recorded use no destroyed object, but
for `m_frames` dropped by a swapchain hook and what RmlUi released between drawing it
and the end of that frame). `TypeOK` there also says that staging buffers and shader modules are gone
when the call that made them returns, and that the pool is not overdrawn.

`GameDataCodec`: `RoundTrip` (a whole buffer is accepted, consumed and gives the
same snapshot) and `WholeFieldsSurvive` (a field all of whose bytes came is read as
written, whatever is missing behind it). `TypeOK` keeps the cursor in the buffer and
the lists in their arrays.

`DataModel`: `FramesShowWhatWasSent` (action property: after every frame each bound
variable shows what the DLL wrote into the last whole snapshot, through both lists of
the codec's fields and through Update's comparisons).

`UnitReader`: `UnitDataMatchesGuid` (nothing of another unit is entered for a unit,
whatever is replaced or shared, unless its object left the list or the block whose
address the reader held was taken from it), `NoFaultWhenQuiet`
(the process ends only if a page was taken away during the call, or at a pointer whose
range wraps around), `FoundUnlessRemoved` (action property: a walk finds a unit that
was in the list when it began, unless some object left it or the limit was reached)
and `CallReturns` (liveness, through lists with cycles).

### Fairness

- `Overlay`: the driver executes what was submitted and shows what was presented,
  and a thread whose fence is signaled goes on. The application owes nothing.
- `GameDataPipe`: both threads are scheduled (weak fairness of each) and
  frames are rendered. Nothing makes the game change, unload the DLL or re-create
  its swapchain.
- `ReaderLifecycle`: each server thread and the destructor are scheduled, the DLL
  retries its connection (its loops have no exit but `g_Running`), injectors end. The
  DLL need not ever start.
- `CombatLogReader`: the DLL's thread keeps calling. The client owes nothing.
- `UnitReader`: the DLL's thread goes on. The client owes nothing.
- `GpuResources`, `GameDataCodec` and `DataModel` have no liveness property and assume no fairness.

### Findings

1. `overlay_hang`: `Render` resets the fence before `PrepareFrame`; when that
   returns null nothing will signal the fence, and the next present of the same image
   waits for ever. The header says the caller should present normally.
2. `combat_events`: the cached snapshot is not emptied when it is read, and every
   rendered frame appends its events to the history again.
3. `reader_join`: closing a descriptor does not wake `accept`, so the destructor's
   join does not return until somebody connects.
4. `combat_resync`: the position is forgotten only if its next pointer cannot be
   read. When the last node read was the only one of the list and the client frees
   it, its next pointer ends the list for good: later events are never reported.
5. `codec_truncation`: DeserializeGameData accepts every prefix that is not empty,
   unless the rest of a field is taken for a count that is too large; its header says
   it returns false. The server thread only passes whole payloads.

## 4. Proofs

`OverlayProofs` proves `Spec => []IInv` and from it `TypeCorrect`,
`FramesTargetNewestSwapchain`, `FenceWaitIsInstantOrEndless`, `GameSemaphores`,
`InjectorStarts` and `SubmissionsAreOrdered`, for every number of images,
swapchains, devices and overlays and every set of failing calls, from the two
assumptions on the constants. None of them is inductive alone:

- `TargetsNewestSwapchain` needs that an overlay marked initialised was set up for
  the newest swapchain (`OneLaunchPerInit`), because GetSwapchainImagesKHR
  then leaves frames alone while it assigns the images;
- `WaitsOnlyForDroppedFrames` needs `WorkIsTracked`: an unsignaled fence of the
  current sync objects has a submission that will signal it or its frame was
  dropped, and an image with a submission in flight is not in the application's
  hands;
- `GameSemaphoresWaitedOnce` needs that an acquired image has not been waited for
  yet (`AcquiredNotWaitedYet`) and that the image in Render is an acquired one
  (`WaitingIsAcquired`).

There is one lemma per hook, and one step per conjunct of the invariant in it;
`TearDown`, `CreateSyncObjects` and `InitOverlay`, which several hooks share, have
lemmas of their own.

`ReaderProofs` proves `Spec => []IInv`, hence `TypeCorrect` and
`ReadersLeakNothing`, and `Spec => []OwnInv`, hence `ConfusionNeedsDestructor`, for
any number of readers, descriptors, connections and files. The
argument for leaks is `EntriesKnown`: a descriptor opened by a reader is always the
number in one of its two fields, at a point of ServerLoop from which that field will
still be closed; so a thread at its end has none left, and a destroyed reader's
thread is at its end because the destructor joined it. The argument for confusion
is `OwnNumbers`: as long as nothing was confused, the numbers of a reader whose
descriptors no destructor has closed are two different entries opened by itself.

`GpuProofs` proves `Spec => []IInv` for every number of renderers, images, handles
and descriptor sets, and from it `TypeCorrect`, `ObjectsAreNotOrphaned`,
`KeptHandlesAreLive` and `SubmittedWorkIsLive`. The heart is an account of objects:
a call changes what is held and what is live by the same objects, except for those
it makes and destroys itself. The lemma `DriveAccounts` states that once, for sets,
and each action only has to name the objects. For work in flight the strengthening
`WorkIsHeld` says that it uses what the renderer holds: lasting objects, which only a
call that idles the device destroys, and `m_frames`, for as long as they are there; or
what is `gone`. `MembersByPhase` says which members a renderer has in which phase (a
pipeline has its render pass, a framebuffer its view, a white descriptor set its image
and view), so that PrepareFrame, which looks at the pipeline alone, finds the others.

`PipeProofs` proves `Spec => []PipeInv`, hence `TypeCorrect`, `FramingHolds`,
`EventsTravelAtMostOnce`, `NothingSkipped` and `NewestIsLast`, and with it
`PipeImplementsRegister`, for every bound of `GameDataPipe`. A snapshot under way is
at a stage: the one on display, the cache, what was received, each message on the
wire, the DLL's packet. Every action of the two threads moves snapshots from
stage to stage without changing their order, so each is given as a function from the
stages after the step to those before it, and what a stage satisfies follows from what
its image satisfied (`CarriedKeeps`, `CompleteKeeps`). Besides the properties the
invariant needs `Connection` (both ends agree on the state of the link), `EofIsLast`,
`StartsAfresh` (a new connection starts with an empty cache) and `Genuine` (what is
under way was read from the game). The refinement then is one step per action: a
change of the game is `Change`, a frame is `Refresh` or a stutter, a re-creation is
`Restart`, and the rest stutters.

`CombatLogProofs` proves `Spec => []LogInv`, hence `TypeCorrect`,
`EventsAreReportedInTurn`, `NoRewindWithoutDamage` and `ReaderImplementsFeed`, for
any number of addresses, events and reclaimed nodes and any batch. A number is found at one address at most
(`NumbersDiffer`), so what the client has kept is what the reader's own pointers
point to: while `intact` holds, the position is the node of the event seen last and
the node to be copied that of the event wanted (`Position`). The newest node ends the
list (`NewestEnds`), so the position can be left only for a node that was not read.
`ReaderImplementsFeed` is the refinement of `EventFeed`. It needs one more invariant,
`Ahead`: from the reading of the tail to the end of the call, while `intact` holds,
the address of the tail still holds the event it held, which has not been read (or is
the one read last, and the call ends at once). An address can be reused for another
event only after its own has left the list, and if the reader still needed that one
the feed is lost (`ClientKeepsNumbers`). `PipeReadsFromFeed` in `PipeProofs` is the
other half: every step of the pipe is a step of the same `EventFeed` or a stutter.

`UnitProofs` proves `Spec => []UnitInv`, hence `TypeCorrect`, `DataIsTheUnits` and
`QuietCallsDoNotFault`, and with the larger invariant of its last part
`ListedUnitsAreFound`, for any number of addresses, units, changes and slots and any
limits. Whatever an object of the list points to, before and after each replacement, is
about its unit (`Coherent`: a template may be shared, an object is never part of
another), so a reader whose object was kept holds at every read that object's address or
one the object points to at that moment (`OwnPointers`): a pointer read before another
step of the client is used only if it still is the object's. What the guard has passed stays
readable while no page goes (`GuardHolds`), and so does the object of a member, which
is what the one unguarded read relies on (`MemberReadable`). A walk does not miss a
unit because the list is linked in its order (`Chained`) and the object looked for is
where the walk is or further on (`Ahead`): objects enter only at the ends.

`CodecProofs` proves `Spec => []CodecInv`, hence `CodecTypeOK`, `CodecRoundTrip` and
`CodecWholeFieldsSurvive`, for every set of snapshots and every size of the arrays. It
goes from the bytes up. Loops are recursive functions, and what they compute is shown by
induction over the numbers, which the library's theorem that < is well founded gives for
sets (`LeastNumber`, `Induction`; a rule with an operator parameter is out of the prover's
reach). `FlattenKeeps` then says where each of the pieces that are put one after the other
is found; `FieldRead`, that what the buffer holds of a field is read as it was written, for
each of the seven types (four digits of 256 are the number for every length); `KindBounds`,
that a read of anything stays in the buffer. The invariant of the call is `Cursor`: if the
field read last came whole, the cursor is where it ends, so the next one is found
(`FieldFound`). Fields not whole leave the cursor anywhere in the buffer, which is why the
invariant says nothing else about it.

`DataModelProofs` proves `DataSpec => []DataInv`, hence `CodecBehindModel` (the three
invariants above for calls one after the other) and the action property in `FramesShow`,
for any snapshots in any number. The cache is what was sent because `RoundTrip` holds
where `Store` takes it; a comparison that finds no difference means that there is none
(`SameList`, `SameGroup`), so a variable that Update leaves alone is already what it
would become (`Updated`).

Only model-checked: the liveness properties `DrawnImagesComeBack`, `ChangesAreShown`,
`DestructorReturnsToTheDll`, `KeptEventsAreReported` and `CallReturns` (fairness is
outside the prover's reach). Every invariant and action property of the runs that pass
is proved.

## 5. Not modelled, and why

- **DoubleBufferedGameData** (`wowmemory.cpp`): nothing in the program constructs one.
  Which threads would share it, and with what between their calls, the code does not
  say, so any property of it would be one of invented callers.
- **Presents of a retired swapchain**: `QueuePresentKHR` does not look at the handle it
  is given, and would draw such a present into the newest swapchain's framebuffer. In
  `Overlay` the application presents only its newest swapchain. The
  hazard is listed without a property.
- **The Linux half of `IsReadableRange`** with its page cache: no caller reaches
  it, because in the native process the readers read nothing but the cache of the
  server thread. The Windows half is the guard of `UnitReader` and `CombatLogReader`.
- **Name cache, camera, quest log**: further guarded reads of ReadGameData whose results
  nothing else depends on.
- **The injector's own sequence**: it decides whether the DLL gets loaded, which
  `GameDataPipe` leaves open, and its process with the descriptors it inherits is in
  `ReaderLifecycle`. Its Win32 handles end with it.
- **CDataStore** and most **client wrappers**: used by nothing in the program; the
  wrappers in use, and the **object getters**, are one call or one guarded read each.
- **Other documents and Lua globals of the overlay**: nothing here depends on
  them. **File and system interfaces** are input and output.
- **The DLL after an unload**: nothing in the repository unloads it.
- **Forwarding hooks, and the comparison of the PE header**: no state.

RmlUi, Lua, the driver, the kernel and the game are external, modelled from how the
code uses them.

Nearly all lines under `src/` are headers of the Vulkan SDK and of vkroots
(`include/vulkan`, `include/vkroots.h`, `include/vk_video`). The program's own code
has about 8,000 lines, a thousand of them a table of addresses; the definitions of
`PROJECT.json` stand for about a third of all of them.
