# switch-nvk in TLA+

switch-nvk runs Mesa's NVK Vulkan driver on the Nintendo Switch (Tegra X1, GM20B)
under Horizon. Mesa expects the Linux nouveau DRM driver below it; here that driver is
one C file, `src/winsys/drm_shim.c`, which answers NVK's libdrm calls with libnx calls.
Above it sit a window-system backend for the `nwindow` compositor, a libc shim, and a
patch set for Mesa, whose edited queue and image code is in `src/winsys/mesa-edits` and whose
unedited code is in `src/pristine-25.0.7`. This directory holds specifications of that code, the models TLC
checks, and proofs that TLAPS checks.

## 1. The system

| Component | State | Operations | Hard because |
|---|---|---|---|
| DRM shim, device half (`drm_shim.c` 1-823, 1030-1260) | `g_dev`: open count, BO table, channel table, VA arena; in the kernel: services, nvmap objects, channels, mappings | open, close, `GEM_NEW`, `drmCloseBufferHandle`, `VM_BIND`, `CHANNEL_ALLOC/FREE`, first `EXEC`, lookup by address | many failing steps; slots and addresses are reused; `nv_up` is tested without the lock |
| DRM shim, synchronisation half (846-1023, 1266-1497) | syncobj table; in libnx: the GPFIFO ring and the last fence of each channel; on the GPU: syncpoints | `EXEC`, `drmSyncobj{Create,Destroy,Reset,Signal,TimelineSignal,Query,Wait,TimelineWait}`, signals of `VM_BIND` | waits with and without the lock, caps whose expiry is ignored, a GPU that is slow, hangs or faults |
| Switch WSI backend (`wsi/wsi_common_switch.c`) | per swapchain: images, busy and configured flags; the nwindow's slots | create, acquire, present, release, destroy | two owners of a slot, fallback halfway, a retired chain destroyed after its successor was made |
| Common WSI (`mesa-edits/.../wsi_common.c`) | image fences, acquired flags, present serials | acquire, queue present, release | one step of a present failing |
| NVK drawing state (`pristine-25.0.7/.../nvk_cmd_draw.c`) | in a command buffer: dynamic state, its dirty bits, the pass, shaders, constant buffers; on the GPU: registers, scratch registers of macros, the root table | passes, `vkCmdSet*`, binds, draws, transform feedback, predicates, secondaries | what is flushed lazily must still be in the engine; macros combine separate commands; internal draws use the same engine |
| NVK queue (`mesa-edits/.../nvk_queue.c`) | the tables the engine knows, references on them, contexts, lost flag | init, submit, bind, finish | tables grow beside it; order of upload, submission and signal; every step may fail |
| NVK image (`mesa-edits/.../nvk_image.c`) | per image: planes, their addresses, the memory bound | format queries, create, bind, sparse bind, destroy | four walks over the same planes must agree; failures half-way |
| Mesa patch set | VA heap inside the arena; the root-upload experiment of FG-2 | | address reuse distance |
| libc shim, ICD shim, compat | none | fd routing, constants | `pread`/`pwrite` move a shared offset |
| smoke programs, validators, build scripts | none | | |

NVK calls the shim from any thread of the application. Handlers run under one mutex,
`g_dev.lock`. `EXEC` keeps it while it waits for dependencies, retries the kickoff and
drains; `drmSyncobjWait` and `drmSyncobjQuery` copy a fence under it and use the copy
without it. `VM_BIND` gives NVK's addresses to BOs. A BO remembers the last of them,
and two things rely on that memory: closing the BO, which unmaps it, and the zero-copy
presenter, which looks up the nvmap behind a rendered image by address. The WSI backend
waits for an image's fence through the shim and hands the image to the compositor.
Above, a command buffer turns API state into commands for the engine when a draw needs
them; a queue submits it after the tables and uploads it relies on; an image takes
addresses and maps memory there with `VM_BIND`, directly or in a queue's bind jobs.

What has to be true: tables and kernel objects agree on every path; a binding is changed
by nothing but `VM_BIND` and the end of a BO that has, or had, its address; work reaches
the GPU only on a channel that has its engines bound and after what it depends on; a wait
or a query never reports work that is pending; every call returns. In NVK: each draw runs with the state, the
buffers and the parameters the application set last; a submission signals when all its
work ran; an image sees the memory it was bound to, and no other.

## 2. Modules

| Module | What it is |
|---|---|
| `GpuVm` | abstract: GPU virtual memory as the shim gives it to NVK |
| `DrmShimDevice` | the device half of `drm_shim.c` |
| `MCDrmShimDevice` | its instance for TLC |
| `DrmShimDeviceProofs` | theorems about `DrmShimDevice` |
| `SerialGpu` | abstract: a GPU that is given work only when idle |
| `DrmShimSync` | the synchronisation half |
| `MCDrmShimSync` | its instance for TLC |
| `DrmShimSyncProofs` | theorems about `DrmShimSync` |
| `SwitchWsi` | swapchains: the Switch backend under the common acquire and present path |
| `MCSwitchWsi` | its instances for TLC |
| `SwitchWsiProofs` | theorems about `SwitchWsi` |
| `NvkMme` | the macros of `nvk_cmd_draw.c`, which run on the engine's front end |
| `NvkGfxState` | the flush of dynamic state: which rows of state make which registers |
| `NvkCmdDraw` | command buffers: passes, binds, draws, secondaries, internal draws |
| `MCNvkCmdDraw` | its instances for TLC, one per part of the state |
| `NvkGfxStateProofs` | lemmas about rows, macros and sample masks; a flush leaves all state in the engine |
| `NvkCmdDrawProofs` | theorems about `NvkCmdDraw`: linear image, bindings, clean state, what macros combine |
| `NvkQueue` | a queue: creation, tables, uploads, submissions |
| `MCNvkQueue` | its instance for TLC |
| `NvkQueueProofs` | theorems about `NvkQueue` |
| `NvkImageFormat` | what is supported, and the image made of a create info |
| `NvkImage` | images: creation, requirements, bindings, sparse binds |
| `SparseBacking` | abstract: each unit of an image is backed by what the last bind of it said |
| `MCNvkImage` | its instance for TLC |
| `NvkImageProofs` | theorems about `NvkImage`: types, ranges, queries |
| `NvkImageBindingProofs` | theorems about its bindings, and the lemmas on alignment they need |

### DrmShimDevice

A handler holds the lock from its first access of `g_dev` to its last, so it is one
action; the exceptions are modelled as steps. `Enter` is the unlocked test of `nv_up` in
`nouveau_dispatch`: a thread that passed it is in `inside` and may run its handler after
any number of other actions, closes and reopens included. `VM_BIND` is `VmBindBegin`,
one `VmBindMap` or `VmBindUnmap` per operation, and `VmBindReturn`, which may come
early: an operation failed. The lock is held in between.

| State | Code |
|---|---|
| `refcnt`, `nv_up`, `arena` | `g_dev.refcnt`, `nv_up`, `va_base != 0` |
| `bos`, `channels` | the tables; a handle is slot + 1; sizes in pages |
| `last` | history: where the client last bound each BO |
| `services`, `nvmaps`, `hwchans`, `asmap` | what the kernel holds: libnx services, nvmap objects, channels, mappings by start address |
| `queued`, `bound`, `executed` | per channel: a SET_OBJECT list in the ring, engines bound, a client pushbuf run |

Kernel objects are variables of their own, so that a table entry without its object, or
an object without an entry, is a state the model can reach. Every failing step of
bring-up, BO and channel creation is an alternative, with the labels that run. libnx
and nvgpu are modelled as the code uses them: a fixed mapping succeeds only inside the
arena and over no other mapping, and closing an nvmap object leaves its mapping.

The client binds what NVK binds: an image, each of its planes and each sparse range have
addresses of their own besides that of the memory, so any BO may be bound by any part (an
offset changes nothing the shim keeps, and is left out), at as many addresses as there are,
in any order with unbinds, and at addresses that open BOs were bound at before, since NVK
frees an address before it frees the memory. `ClientLeaks` says whether it may close the
device with BOs or channels open, which NVK does not and the code provides for.

`GpuVm` says what is left of virtual memory when a BO remembers one address: a binding
lasts until its address is unbound, but the end of a BO also ends what is bound where that
BO was last bound, of whichever BO, and leaves its other bindings behind, of none. That is
what NVK may count on, and no more: it may close a BO safely only while no other BO has
been given the address that one was last bound at.

### DrmShimSync

A syncobj is `used`, `value` and a fence, `NoFence` standing for `has_fence = false`;
`signaled` is written and never read, and is left out. A fence is a value of its
channel's syncpoint. `accepted` is the value that syncpoint has once the kernel's work
is done, counted by the fence command lists it was given; `expected` is the value
libnx has for it, counted by `IncrFence`. They are separate because the code keeps
them equal only by appending exactly one list per increment, on failing paths too.
`ring` holds what a failed kickoff left for the next one. `ChannelFence` is the fence libnx
gives at any moment, which counts the increments left there: an `EXEC` with nothing to push
attaches it, so that after a failed kickoff the fence is `Unaccepted`, beyond what
the GPU was given (`FencesAccepted` fails). A wait for such a fence ends by its cap only.

Each call is `Call`, then the steps between its accesses of shared state: for `EXEC`,
`ExecBegin`, a wait per dependency, then `ExecEmpty`, `ExecFails` or `ExecKickoff`
followed by `ExecDrain`, all under the lock; for a wait, a lookup per handle under the lock and the wait
for the copied fence without it; for a query, a lookup and a poll. `GpuStep`
finishes one submission and `GpuFault` ends a channel: the kernel forces its syncpoint
up and takes no more work. `CapsExpire` says whether a wait's cap may run out
before the fence is reached. `hist` is a history variable: what was ever signalled on
each syncobj, which the properties compare with what the code remembers.

`MaySignal` is the client's part of the contract: Vulkan orders the signals of one
semaphore, and a semaphore is either binary or a timeline.

### SwitchWsi

`images` holds for each image of a swapchain the `busy` flag of the backend, the
`acquired` flag and the fence of the common layer, and what the GPU still has to do on
it. `slots` is the nwindow: who registered each slot, where its buffer is (free,
dequeued by the client, queued, shown) and whether the display still reads it.

Calls on one swapchain are serial, so acquire, release, creation and destruction are
single actions. `vkQueuePresentKHR` is two: `PresentSubmit`, with the throttle before it,
and `PresentSlot` or `PresentCopy` after the wait for the fence; GPU and display act in
between. `PresentFails` fails before or in the submission, with the fence reset, and leaves
the image to the client. `PresentLost` fails after it, at a signal of a dma-buf or of a present
id: the image is not acquired any more and its present never reaches the backend. An acquire,
too, may fail after it took the image, at the signal of its semaphore or fence. Both leave
the image `lost`: busy, its slot dequeued, and the client without it.

The creation actions tell apart full registration, fallback to the copying framebuffer,
and failure, with the window reset or not. A slot is registered at most once until the
window is released, as the code's own fallback supposes. An acquire takes any free slot,
and the display latches any queued one: both are more than a FIFO does.

`Liberties` names two more things Vulkan lets a client do: `retire`, re-creation
before the old swapchain is destroyed, and `release`, giving an acquired image back.
`CurrentRegistered` fails with the first (`wsi_retire`), `SlotsAccounted` with the
second, `HeldOffScreen` with `CapsExpire`. Without `retire`
`CurrentRegistered` says no more than the creation actions do, and no run claims it.

The shim is seen through `CapsExpire` and the fence of an image: `DrmShimSync` says what a
wait for it means (`WaitSound`), and `DrmShimDevice` what a registration looks up
(`NvmapByVa`).

### NvkMme, NvkGfxState, NvkCmdDraw

`cmd` is the command buffer being recorded and `outer` the primary around a secondary;
`g` is the engine as the commands recorded so far leave it. The engine could run them
later; nothing but commands changes it, so recording and running are one. `NvkMme` has
an operator per macro, from the engine and the macro's arguments to the engine; a macro
keeps what it combines in scratch registers (`g.z`, `g.aa`, `g.tess`), not in `cmd`.

`NvkGfxState` describes the flush as data: `Rows` gives, per register, the states that
make `nvk_flush_*_state` write it, and the value. `WriteRows` writes the rows whose states
are dirty. What goes through macros, or has more conditions, is an operator of its own:
`FlushVi`, `FlushTs`, `FlushVp`, `FlushRs`, `FlushMs`, `FlushCb`. A draw flushes dynamic
state, shaders and constant buffers in that order (`FlushGfxState`) and runs a draw macro.

`MetaDraw` stands for the clears, copies and resolves of `vk_meta`, as NVK's
`nvk_meta_begin` and `nvk_meta_end` wrap them: the state and the bindings are saved, the
draw binds its own, and at the end the saved state is set again with every state of it
dirty. `BeginRendering` includes the
copy of a linear image into its tiled shadow and the clears; `EndRendering` the copy back
and the resolves.

| State | Code |
|---|---|
| `cmd.dyn`, `cmd.set`, `cmd.dirty` | `vk_dynamic_graphics_state`, by MESA_VK_DYNAMIC_* name |
| `cmd.render` | `nvk_rendering_state` |
| `cmd.cbufs`, `cmd.cbufs_dirty` | `cbuf_groups[].cbufs` and `dirty` |
| `g.reg` | registers written by plain methods |
| `g.cb0`, `g.selector` | the root table, and the buffer CB0 writes go to |
| `fresh` | which of a linear image and its shadow holds the latest contents |
| `bound`, `call`, `counters` | history: what the application bound and asked, and where feedback ended |

Taken as given: SET_DYN_* compares values as the runtime does; rasterization samples match
the attachments, as Vulkan asks; shader words of the vertex pipeline set RT_LAYER
to 0; the draws of a call fit one push; stream output is counted in draws.

### NvkQueue

Creation is one action per step, each of which may fail, and `Undone` is the chain of
labels from there. A submission looks at one table per step (`UpdateTable`), since another
thread may grow a table in between (`Grow`); then `Install` sends the words that program the
engine and waits for them, then uploads are flushed and waited for, then come the waits, the work,
in as many requests as it takes, and the signals. `gpu` holds per context
the jobs it was given; a job waits for an upload point and for submissions. `refs` counts
the holders of each memory, as the code's `ref` and `unref` do and nothing else.
`drains` is the driver below: `DrmShimSync` shows that the shim's EXEC returns with the GPU
idle; other drivers do not wait.

### NvkImageFormat, NvkImage

A plane format is what NIL knows of it, and its layouts are values: sizes, alignments,
tiles and mip tail. The queries and `nvk_image_init` are operators over them. In
`NvkImage` a plane that needs one has a range of addresses, and `vas` says what is mapped at
each unit of it. The walks of the code (`Requirements`, `LayoutOffset`, `Place`,
`OpaqueRows`) are written over `Starts`, one part behind the other, each with the parts and
alignments that function uses. `CreateBegin`, `AllocVa` per plane and `AllocShadow` may fail
anywhere; `BindBegin`, `BindImageMemory` per image and `BindEnd` are one
`vkBindImageMemory2`; the three `Queue*Bind` are what a bind job does to an image.

`SparseBacking` says what a sparse bind promises without rows, cuts or walks: it asks of
each unit whether the bind names it and which unit of memory goes there. The refinement
maps the ranges of the planes to it.

## 3. Runs

| Run | Instance | Shows |
|---|---|---|
| `device` | 4 BO slots, 2 channels, 2 pages, BOs of up to 2, 2 threads, 2 opens, no leaks | all invariants and the refinement of `GpuVm` |
| `sync_serial` | 1 syncobj, 2 channels, 2 threads, 3 submissions, no cap expires | the GPU is serial; `EXEC` and `VM_BIND` run after what they depend on |
| `sync_caps` | the same, caps expire | waits and queries are sound all the same; fences are of own work |
| `sync_live` | 2 syncobjs, 1 channel, 1 submission, caps expire, fair | every call returns |
| `sync_point_lost` | 1 syncobj, points up to 2 | `EXEC` does not record its timeline point |
| `wsi` | 1 swapchain at a time, up to 3 images, no cap expires, fair | no tearing, no lost image, exclusive acquire, every present returns |
| `wsi_retire` | 2 swapchains of 2 images | a retired swapchain's destruction unregisters its successor |
| `draw` | 2 viewports, targets, streams and views; 10 applications | clean state is in the engine; macros, masks, shading, bindings, draws and linear images are right |
| `draw_feedback` | the feedback application | buffer 1 does not resume from its counter |
| `draw_viewports` | viewports and their count vary | a viewport that returns into the count is not written |
| `queue` | 1 table, 4 memories, 2 submissions, 2 uploads, growth to 2; draining and not | references, tables, uploads and signals |
| `image` | 8 sets of create infos, 3 ranges, 2 memories of 10 units, 2 sparse binds; 8640 combinations asked about | ranges, bindings, requirements, queries, and the refinement of `SparseBacking` |

Bounds. Four BO slots hold two channels (two internal BOs each), or one channel and two
client BOs, or four of these, so that every pair of owners of a slot meets and a
full table is reached, in the middle of a channel's creation too. Two pages hold a BO of two,
two of its parts or aliases, or one of its parts beside another BO, at an address that the first
remembers or at one it does not. Two opens reach close-not-last; reopening is unbounded. Two threads
are enough for all races: one holds or queues for the lock while the other acts. In `DrmShimSync` the
syncobjs meet only in multi-handle waits, each handle of which is a step of
its own; one syncobj with three submissions on two channels reaches replaced, dropped and stale
fences, and a failed kickoff followed by a good one with one more pending. Points 0 and
1 are a binary and a timeline operation, and `TimelineSignal` and `VM_BIND` signal
points by the CPU. `sync_live` needs waits of several handles, not many submissions.

Three images are a shown, a queued and an acquired one, and four, in the code, add
one more of either of the last two; requests of 2 to 4 images reach the clamp.

`draw` has ten applications because state interacts in groups: each varies the states of
a group between values that matter and keeps the rest, and all run every pass, draw and
internal draw of its list, in any order and without end. Two of each array are enough for one that
changes and one that does not. The same shader takes two passes over 4 samples and four over 8, with masks of their own.
Constant buffers have three slots: the root table, one that shaders share and one that only
some use. In `queue` four memories are the table's, the queue's older copy of it, the root table
and the words of a call; with two submissions the second finds what the first left. The tables
are treated alike, one after the other, so the run has one. In `image`, a unit is half of the
binding alignment, so that a size may need rounding; the sparse images are two layers
with a tail and a stencil temporary, tiles in depth, and one that is all tail; two binds
overlap, and one undoes the other.

Fairness. In `sync_live`: strong fairness of each thread's steps within a call. A
thread in a call is never suspended for ever, and one that queues for a Horizon mutex
gets it, because the kernel hands the mutex to its waiters. Nothing is assumed of the
GPU: that is the point of the property. It fails without the caps.
In `wsi`: weak fairness of the GPU, of the display and of the hand-over of a present,
because no cap expires there and a display refreshes; nothing is asked of the client.

Deadlock is checked in all runs.

## 4. Where code and comments disagree

Each violation run quotes a comment and shows a behaviour that contradicts it; the
entries under `findings` in `PROJECT.json` give both places:

- timeline points of real submissions are not recorded (`sync_point_lost`);
- a swapchain's destruction releases buffers its successor registered (`wsi_retire`);
- before Turing, the transform feedback counter of buffer 1 and up goes to a register that
  is not its write pointer (`draw_feedback`);
- the number of viewports may change which of them must be written (`draw_viewports`).

Others have no run of their own; a changed constant or property of a run above shows them:

- `ImplementsGpuVm` in `device`, with a `Destroy` that spares the bindings of other BOs: a
  closing BO unmaps an address it no longer owns, against "Release the GPU-VA mapping before
  closing." (`drm_shim.c:575`).
- `LookupFindsBoundBo` in `device`: lookup by address misses a BO bound at two addresses or by a
  part, against "a GPU VA that falls inside a bound BO" (`drm_shim.c:534`).
- `ClientLeaks = TRUE` in `device`: `engines_bound` survives a close of the device and
  `WorkOnBoundEngines` fails, against "bind the engine classes to their subchannels
  (SET_OBJECT) FIRST" (`drm_shim.c:886`).
- `FencesAccepted` in `sync_serial`: after a failed kickoff an `EXEC` with nothing to push attaches
  a fence beyond "the last submitted work" (`drm_shim.c:873`).
- `CapsExpire = TRUE` in `sync_serial`: `EXEC` waits 2 s for its dependencies and 2 s for its
  work, and goes on whatever came of it: `DepsComplete` and `ImplementsSerialGpu` fail.
- `CapsExpire = TRUE` in `wsi`: an acquire waits 1 s for the display, and `HeldOffScreen` fails,
  against "so the app never renders over a buffer still on screen" (`wsi_common_switch.c:312`).
- `TimelineWaitReaches` as a property of `sync_point_lost`: a timeline wait ignores its point.
- `InheritedSamples` as the scenarios of `draw_viewports`, and `SamplesDeferredToDraw` as its
  property: a secondary that names its samples, in a pass without attachments, never sets the
  layout, against "we defer SET_ANTI_ALIAS to draw time" (`nvk_cmd_draw.c:1258`).

Three more were seen in NVK while it was modelled, and no property is about them:

- `nvk_mme_set_write_mask` compares masks with `mme_add` where the comment says "Check if
  all masks are common" (`nvk_cmd_draw.c:3123`): with a target there is, they never count as
  common, which costs writes and nothing else. `g.single` is modelled as the code computes it.
- `nvk_BindImageMemory2` sets each bind's status to `VK_SUCCESS`, that of a failed one too.
- A query of a multi-plane format with the linear modifier is supported where creation
  asserts a single plane; a modifier a client takes from the list never leads there
  (`QueriesKept`).

## 5. Proofs

`DrmShimDeviceProofs` proves, for all values of the constants that satisfy
`DeviceAssumption`:

| Theorem | For clients | Invariant it needs |
|---|---|---|
| `TypeCorrect` | any | `TypeOK` is inductive |
| `KernelObjectsCorrect` | any | with the arena reserved only on a device that is up, and `KernelObjectsMatch` |
| `InternalBosCorrect` | any | `InternalBosOwned`, relative to `TypeOK` |
| `EnginesCorrect` | that close what they opened | a channel flagged `engines_bound` has its list in the ring or its engines bound, and a free slot has a clear flag |
| `MapCorrect` | that close what they opened | `MapInv`: a client BO's `gpu_va` is the address it was last bound at, a free slot has none; what is mapped in the arena is of client BOs, open or gone, and what is mapped outside of it is of the internal BO it was made for |
| `VmRefinement` | that close what they opened | `MapInv` |

`VmRefinement` holds for any binds NVK may ask for, reused addresses among them, and maps
each action to a step of `GpuVm` or to a stutter: `GEM_NEW` and `CHANNEL_ALLOC` create BOs,
the closes destroy them, `VmBindMap` and `VmBindUnmap` bind and unbind, and the last close
clears the address space (`Shutdown`). It needs `MapInv` because a slot is used for a client's
BO and for an internal one in turn: if a free slot kept an address, or an internal
BO was mapped in the arena, the end of one BO would end a binding that `GpuVm` keeps.
A client that leaks is left out of these two: the last close of the device clears no slot,
and a BO made in one remembers the address of another.

`DrmShimSyncProofs` proves, for all values that satisfy `SyncAssumption`:

| Theorem | Caps | Invariant it needs |
|---|---|---|
| `TypeCorrect` | may expire | `LedgerInv`: libnx's count and the GPU's agree, on failing paths too, and the counters keep within `MaxSubmits` |
| `FenceCorrect` | may expire | `TableInv`: a fence is no earlier than an operation on its syncobj, counts no more than the lists in the ring will make, and what is pending there is of its channel and no later |
| `WaitCorrect`, `QueryCorrect` | may expire | `SnapInv`: the same of a fence a thread copied under the lock |
| `DepsCorrect`, `BindsCorrect`, `SerialRefinement` | never expire | `HolderInv` and `SerialInv`: a thread inside `EXEC` has the lock, and pending work is the newest of its channel, with a thread draining it |

`TypeOK` of `DrmShimSync` is not inductive without `LedgerInv`, which bounds `accepted`
and `ring` together with `budget`. `WaitSound` compares the present with what a thread
copied earlier; `SnapInv` carries the comparison from the copy to the use, and holds
because `accepted` values never change meaning and `done` only grows. `SerialInv`
excludes a second channel with pending work: `ExecKickoff` holds the lock at its
dependencies, so no other thread is draining, so nothing is pending. When caps expire
`ExecDrain` breaks it.

`SwitchWsiProofs` proves, for all values that satisfy the assumptions of `SwitchWsi`:

| Theorem | For | Invariant it needs |
|---|---|---|
| `TypeCorrect` | any client, any cap | `TypeOK` is inductive |
| `SlotsCorrect` | clients that neither retire nor release, any cap | `WindowInv`: there is one swapchain, the current one, and the registrations are its own; `HoldInv`: an image has one holder (the client, a present, or the failed call that lost it) and is busy while it is held, and its slot was taken; `TakenInv`: a slot that was dequeued has a holder |
| `TearingCorrect`, `ExclusiveCorrect` | clients that do not retire, no cap expires | the same without `TakenInv`, and `WorkInv`: work is on images that are held, a present's fence is unset while its work is pending, and the display reads only buffers that are free or shown |

Why a retired swapchain breaks all of them but the first: the slot of an image is its index,
in the window there is, so a present of the retired swapchain that is still waiting for its
fence queues a slot that the new swapchain dequeued. `HoldInv` already fails there. That is
the same cause as `wsi_retire`, seen from the other side.

`NvkQueueProofs` proves, for all values that satisfy `QueueAssumption`, drained or not, and
with any step failing:

| Theorem | Invariant it needs |
|---|---|
| `TypeCorrect` | `QueueInv`: types, what each phase of a creation or a call holds (`PhaseInv`, `CallInv`), which kind of memory is where (`KindInv`), and the uploads asked for (`UploadInv`) |
| `RefsCorrect` | `RefsExact` is inductive once the phases are known |
| `TablesCorrect` | `NeedInv`, `EngineCall` and `EngineJobs`: what the engine knows now, and what it will know after the jobs ahead, is what each job needs |
| `UploadsCorrect` | `OrderInv`: a job that does not wait for an upload is behind one that does |
| `SignalsCorrect` | `SignalInv`: the words of a submission in its jobs and those already run add up to what was asked |

`RefsExact` compares counts with sums over the holders and needs the phase, because a failing
step drops what the steps before it took and nothing else. The sum of `SignalInv` is over a sequence of jobs;
it is stated with a function of partial sums that exists, instead of a recursion. The
assumption `MaxUploads > 0` came out of the proof: the root table's fill is an upload.

`NvkImageProofs` and `NvkImageBindingProofs` prove, for all values that satisfy
`ImageAssumption` (formats of up to three planes, alignments that are powers of two, as
`nvk_image_plane_size_align_B` asserts):

| Theorem | For | Invariant it needs |
|---|---|---|
| `TypeCorrect`, `RangesCorrect` | any | `ImageInv`: an image keeps what `nvk_image_init` made of it but for addresses (`Shaped`); planes have ranges of their sizes, each its own (`Placed`); ranges per owner and the free ones balance (`Balanced`) |
| `QueriesCorrect` | questions without `VK_IMAGE_CREATE_EXTENDED_USAGE_BIT` | none: what the query checks implies what creation asserts |
| `BindingsFitCorrect` | any | with `ImageInv`, `AddrInv`: a plane with a range is addressed there; `BindInv`: what is reported, or will be if no later binding of the call fails, sits where its place is |
| `BindingsCorrect` | `PlanesByAlignment` | the same |

Most of the work of the bindings is in two places. `BindInv` speaks of the call in progress
too (`Reported`): the bindings before the one that fails were made but must not be relied
on. And a binding of one plane must leave every other range alone, also those of an image that
aliases it, which is what `Balanced` and `PlanesApart` are for. Where planes lie is then
arithmetic on `Starts`: a binding starts at a multiple of all alignments, so the planes lie
as they lie from 0 (`StartsShift`), in their order and apart (`StartsRise`). An image has at
most four planes, so that what `Starts` computes is proved by an explicit function and not by
induction.

Two hypotheses say something about the code. `QueriesCorrect`: a query leaves usages unchecked that
the extended-usage flag allows, but the query for the block of a sparse image takes no flags
and checks them (`nvk_image.c:703`), so that a supported image may have no block.
`PlanesByAlignment`: `nvk_get_image_subresource_layout` adds up the sizes of the planes before
one and does not align the sum for the plane itself (`nvk_image.c:1370`), as requirements and bindings
do. They agree as long as no plane needs a coarser alignment than the one before
it, which holds of chroma planes, smaller than luma.

`NvkCmdDrawProofs` proves, over the lemmas of `NvkGfxStateProofs`, for every number of targets,
streams, views and viewports and every application that satisfies `ScenarioAssumption` (its
passes are `VkRenderingInfo`s, a stage runs a shader of its own, no two attachments are
mapped to one location, sample counts are Vulkan's, streams and viewport counts are
within the engine's):

| Theorem | For | Invariant it needs |
|---|---|---|
| `LinearImageCorrect` | `PassesKeepImage` | `CmdInv`: a secondary has the pass of its primary; `ImageInv`: the copy that a pass renders, or that a suspended one will, is the latest |
| `BindingsCorrect`, `ClearsCorrect` | any | with `CmdInv`, `BindInv`: what the command buffer has and did not leave dirty is in the engine (`Corr`), and what the application bound without dirty bits is there at once (`Fed`) |
| `TypeCorrect` | any | the same, and that a feedback pointer is within `MaxFeedback` |
| `TessellationCorrect` | any | `StateCurrent`, a part of `Corr`: `Tuned`, what each macro keeps in its scratch agrees with what it last wrote; `DynIn`, states that are clean are in registers and scratch |
| `CleanStateCorrect` | `FixedCounts` | the same |
| `MacroStateCorrect` | `FixedCounts`, `ResetClip = INF` | the same |
| `SampleShadingCorrect` | `NothingInherited` | the same, and `InheritInv`: a secondary has the samples of its pass |
| `NoStrayColorCorrect` | `FewTargets` | the same: `ColorIn`, the target select and the mask of each target are in the engine once clean; `PassIn`, a target beyond those of the pass is null |

`BindingsCurrent` is not inductive. It speaks of the slots that the bound shaders use, but a
shader bound next may use a slot that was filled for another one; so `Corr` speaks of every slot that
is not dirty, used or not, and of what `cbufs` says is in it. Between draws the command buffer is
often wrong about the engine on purpose (an internal draw, a secondary); `Corr` holds at
each point inside `MetaDraw` too, with dirty bits that cover what was changed, and it is
proved of every part of a flush in turn: `FlushDynCorr`, `FlushShadersCorr`,
`FlushCbufsCorr`. A secondary begins with everything dirty (`StartCorr`), and so does what comes
after it.

A draw runs a macro per view and per draw. `BuildDraw` and `DrawAll` are recursive functions
on an interval, and induction is out of the prover's reach as a rule over formulas; as a
statement about sets it is not. `Climb` says that a set that has 0 and with each number below n the
next one has all up to n, because the successor would otherwise map a finite set into itself
one to one and not onto. With it, `BuildStill` and `DrawAllStill` say that no number of
draws binds anything.

`CleanStateInEngine` is not inductive either. It speaks of states inside a pass, but a state is
set outside of one, and stays clean when a pass begins that changes what its registers should hold;
so `RowsIn` speaks of `Settled` states: clean, and outside of a pass not among those that
`DirtyRenderPass` makes dirty again. Whether a register should be written follows from the
`Rows` of the command buffer, and these change with it: `LocalRows` proves of all the rows that
a register's value depends on no state but those that make it be written. That is the
heart of the matter, since the property is false for a state that is missing among them.
`FlushState` then says that a flush makes every state current, `StateLocal` that a command
buffer which asks for no more than another knows no less. What the macros compute needs
`Tuned`: a macro does nothing when its argument is the scratch it kept, which is right only if
the hardware holds what that scratch gave it. For the samples, `MasksDivide` goes through all
layouts and rates: the masks are a partition into as many parts as there are passes.

A stray write needs a location whose target is mapped elsewhere. `SelectFacts` says that
`CT_SELECT` gives each location a target that is mapped to it or to none: `Numbered` finds enough
targets without a location by counting. What remains is that an unmapped target of the pass has an
empty mask. The masks reach the macro packed into one number; `FlushCbFacts` proves, with
`Climb` and the eight powers of 16 there can be, that each nibble is one target's mask and
disturbs no other. It also shows that the macro's test for equal masks, which adds where it
means to extract, never holds in a pass with targets, so that no target takes another's mask.

Three hypotheses mark what the code does not do, and each is needed. `FixedCounts`: no
application varies how many viewports or scissors there are, since a viewport that returns
into the count is not written (`draw_viewports`). `NothingInherited`: no secondary names
samples for a pass that has no attachments, since they reach no macro (`SamplesDeferredToDraw`).
`ResetClip = INF`: `nvk_push_draw_state_init` leaves `VIEWPORT_CLIP_MIN_Z` and `MAX_Z` as they
are and `nvk_mme_set_z_clamp` writes them when clamping changes, so a channel whose clip
range is not the whole line keeps it until the first clamp. `FewTargets` is the engine's limit:
there are eight targets (`NVK_MAX_RTS`, the loop at `nvk_cmd_draw.c:970`), and their masks fill
the word the macro is given. The instances of `draw` satisfy all four.

`PassesKeepImage` says that every pass that binds the linear image loads or clears it and
stores it. A pass that does not, leaves the image undefined by Vulkan's rules, and
`LinearImageCurrent` says nothing useful of it.

Each inductive invariant was checked by TLC, on the run of its component, before it was
proved.

Model-checked only: `CallsReturn` and `PresentReturns`, since liveness is out of the
prover's reach; `RequirementsCover` and `ImplementsBacking`, which need division, products
of variables and unions of intervals in one step; `DrawnAsAsked`, about sequences that
folds build; the counterexamples.

## 6. Not modelled

In the shim: the self-test and logging; `mmap` and PRIME, which change no table; page
kinds and cache attributes; the words of command lists; deadlines as numbers. In the
swapchain: half-made images, and calls beside a creation under way. A creation that fails in `wsi_create_image` destroys an image
and leaves its handle, and the swapchain's own failure path destroys it again
(`wsi_common_switch.c:460`); `CreateFails` ends with the window only.

In NVK: what `nvk_cmd_draw.c` does only from Turing on (shading rate, indirect counts);
resume information of secondaries that inherit a pass with samples; push descriptors;
the tables of blend factors and of stencil operations, which are values; the initial words
of a queue; extents and sizes as NIL computes them; the Switch's hook that reads the layout
of an image for the presenter (`nvk_image.c:43`). Memory exhaustion in the client, except
where a step of a model may fail. A queue whose creation fails drops the fill of its root table
in the step that frees the table, so that an upload that is just running then is not seen; the
destruction of a queue is. The port edits `nvk_cmd_draw.c` in one place: `nvk_mme_set_priv_reg` takes
its arguments and skips the write, as Horizon refuses private registers; no property
depends on it.

Not modelled at all: `vk_image.c` of the runtime, a container of create infos; `wsi_common.c`
beyond the path of section 2; the libc and ICD shims and compat, which keep no
state; the smoke programs, validators and build scripts; the FG-2 experiment.

## 7. Plan

1. Half-made images in `SwitchWsi`, over `NvkImage`'s creation.
2. `NvkQueue` over `DrmShimSync`: the `drains` of the one from the other.
3. Operators checked against references: deadline conversion, arena heap.
