# TLA+ models of minigbm's hbm glue and buffer backends

This directory holds TLA+ models of the buffer-management code in `src/`:
- the TLC configurations that model-check the models on small instances;
- TLAPS proofs of their invariants for every value of the constants.

## The system

`src/` holds three alternative backends that sit below minigbm's generic
`drv.c` layer.

1. **hbm glue** (`src/hbm.c`, `src/hbm.h`). It is built with
   `DRV_HBM_HELPER`, and with `DRV_AMDGPU` for its `dri_bo_*` entry points.
   It adapts the hbm Vulkan-based allocator to minigbm, and has these parts:
   - *Resolver / policy.* The `use_*` predicates, `prefer_map` and
     `init_description` turn minigbm use flags into an hbm description.
   - *Memory-type selector.* `pick_memory_type` chooses a memory type for the
     bo and decides whether CPU access needs a staging bo.
     `pick_staging_memory_type` chooses the type of staging bos once, in
     `hbm_create`.
   - *Buffer object manager.*
     - `hbm_allocate` and `hbm_import` create an `hbm_bo` and bind memory
       through `create_resource`. On import, the dma-buf is dup'ed, and
       ownership always passes to hbm.
     - `hbm_reimport_to_driver` turns the bo into a GEM handle of the DRM fd.
       For a SW resource (CPU-mapped use flags), it keeps the dma-buf it
       exported or dup'ed as `implicit_fence_dmabuf`. Any other dma-buf it
       owns, it closes.
     - `hbm_free` destroys the bo and closes that fence.
   - *Synchronisation coordinator.*
     - `hbm_map` maps the bo directly, or creates, binds and maps a staging
       bo.
     - `hbm_sync` waits on the implicit fence (`wait_resource` polls the
       dma-buf: POLLOUT for a write mapping, POLLIN otherwise). It then copies
       between the staging bo and the bo, or flushes or invalidates a direct
       mapping.
     - `hbm_unmap` unmaps, and destroys the staging bo.
     - `dri_bo_map` calls `hbm_sync(flush = false)` for plane 0 of a READ
       mapping. `dri_bo_unmap` calls `hbm_sync(flush = true)` for plane 0 of
       a WRITE mapping. Both ignore its result.
2. **Mesa DRI backend** (`src/dri.c`). It provides the same `dri_bo_*`
   interface over a dlopen'ed Mesa `__DRIimage` driver, and is used when
   amdgpu is built without hbm.
3. **dma-buf heap backend** (`src/dmabuf_driver/dmabuf_internals.cpp`). It
   resolves formats and use flags, chooses a dma-buf heap through a lazily
   created `DmabufDriver`, and maps and syncs buffers with
   `DMA_BUF_IOCTL_SYNC`.

The caller, `drv.c` (not in `src/`), serialises the calls on one bo:
- it maps a bo at most once at a time;
- it unmaps before it releases;
- it releases (`dri_bo_release`, through the backend's `bo_release`) before
  it destroys (`dri_bo_destroy`, which closes the GEM handle).

The GPU is the other actor. Jobs submitted on the GEM handle run
concurrently with the CPU. The kernel signals their end on the dma-buf's
implicit fence.

## Modules

| module | models | status |
|---|---|---|
| `HbmBuffer` | one bo of the hbm glue through its whole life, and a GPU that uses it | modelled |
| `HbmBufferProofs` | TLAPS proofs of `HbmBuffer`'s type and ownership invariants, and of CPU/GPU exclusion and mapping coherence for single-plane bos with READ mappings | proved |
| `MC_HbmBuffer` | TLC instantiation: map-flag sets, symmetry | |
| `BufferObject` | the abstract promise of a buffer object (spec.md 4.5, 5): allocate/import, Idle/Mapped, release, destroy, device writes | abstract spec |
| `HbmBufferRefinement` | TLAPS proof that `HbmBuffer` implements `BufferObject` for single-plane bos with READ mappings | proved |
| `HbmPolicy` | the use-flag policy, `init_description`'s modifier, `pick_memory_type` and `pick_staging_memory_type` | modelled |
| `HbmPolicyProofs` | TLAPS proofs of the policy's types, the staging type's flags, and that a picked memory type is sound and the first preferable one | proved |
| `MC_HbmPolicy` | TLC instantiation: a discrete GPU's four memory types, five use flags | |
| `DmabufHeap` | the dma-buf heap backend: format resolution, lazy driver init by concurrent threads, create, import, destroy, map, unmap, flush, GPU jobs | modelled |
| `DmabufHeapProofs` | TLAPS proofs of `DmabufHeap`'s types, CPU sync bracket, plane-fd ledger and heap placement | proved |
| `MC_DmabufHeap` | TLC instantiation: threads, bos, fds, heap configurations, requests | |
| `DriImage` | the Mesa DRI backend: `dri_init`'s unwinding, `dri_close`, create, import (`import_into_minigbm`), release, destroy, map, unmap | partly (layout abstracted) |
| `DriImageProofs` | TLAPS proofs of `DriImage`'s types, `dri_init` rollback and GEM handle ownership | proved |
| `MC_DriImage` | TLC instantiation: bos and dma-bufs | |

### HbmBuffer: state

| variable | code |
|---|---|
| `phase` | Whether `bo->priv` holds a live `hbm_resource` (`"live"`), only a GEM handle from `drv_prime_bo_import` (`"prime"`), a freed resource whose GEM handle is still open (`"released"`), or nothing (`"none"`). |
| `useSw` | `res->use_sw` |
| `useStaging` | `res->staging_size != 0` |
| `fence` | `res->implicit_fence_dmabuf` |
| `fdOpen` | The fds the glue has obtained from `dup`/`hbm_bo_export_dma_buf` and not closed (a ghost ledger). |
| `hbmBos` | The number of live `hbm_bo` objects: the main bo plus the staging bo. |
| `gem` | `bo->handle.u32` is open. |
| `mapFlags` | `vma->map_flags` of the current mapping, `{}` when unmapped. |
| `staging` | `vma->priv` holds a staging bo. |
| `stg` | The per-plane contents of the staging bo. |
| `real` | The per-plane contents of the bo's memory. |
| `belief` | Ghost: what the CPU has read or written through the mapping. |
| `gpu` | The kinds of GPU job in flight (`"read"`, `"write"`). |
| `ret` | The result the last call reported. |

Plane contents are model values:
- `Values` for data a GPU job or a CPU store leaves behind;
- `Fresh` for newly allocated memory;
- `Unknown` for "the CPU expects nothing".

Layout arithmetic (offsets, strides, sizes) is abstracted away, and a plane
is one cell.

### HbmBuffer: actions

Each `dri_bo_*` call is one atomic action, including everything it calls.

| action | code |
|---|---|
| `CreateBo` = `AllocateBo(FALSE)` | `dri_bo_create_with_modifiers` → `hbm_allocate` → `create_resource` → `hbm_reimport_to_driver(NULL)`. On failure, `hbm_bo_destroy`/`hbm_free` roll everything back. |
| `ImportBo` | `dri_bo_import`: either the `drv_prime_bo_import` short cut, or `hbm_import` → `create_resource` → `hbm_reimport_to_driver(data)` (`AllocateBo(TRUE)`). |
| `ReleaseBo` | `dri_bo_release` → `hbm_free` (`HbmFree`) |
| `DestroyBo` | `dri_bo_destroy` |
| `MapBo(flags)` | `dri_bo_map`: `hbm_map` (`MapFails` or `Mapped`), then for READ `hbm_sync(flush = false)` of plane 0. The blocking `poll` of `wait_resource` is an enabling condition (`WaitReady`), and the copy is `CopyPlane`. |
| `MapSyncFails(flags)` | The same call when `hbm_sync` returns false (poll error or copy failure) and `dri_bo_map` ignores it. |
| `UnmapBo` | `dri_bo_unmap`: for WRITE, `hbm_sync(flush = true)` of plane 0; then `hbm_unmap` (`Unmapped`). |
| `UnmapSyncFails` | The same call when `hbm_sync` fails, which `dri_bo_unmap` ignores. |
| `ReimportAgain` | A second `hbm_reimport_to_driver(res, NULL)` through the public hbm API. |
| `CpuWrite(p, v)`, `GpuSubmit(k)`, `GpuComplete(k)` | The environment: CPU stores through the mapping, and GPU jobs. The client submits GPU work only while the bo is unmapped. |

How the actions are modelled:
- **Allocation.** The memory type and the staging decision are a free
  choice. Staging implies SW use, because `pick_memory_type` only sets
  `use_staging` under `use_sw`.
- **Failures.** Every failure point of an operation (a failing `hbm_bo_*`,
  `calloc`, `dup`, `drmPrimeFDToHandle`) is one disjunct with the
  operation's net effect, since every error path frees what it made.
- **Fds.** `FdIds` is finite. An exhausted fd table is how `dup` or export
  fails in the model.

The next-state relations:
- `Next` is the correct use of the code.
- `NextFaulty` adds the swallowed sync failures.
- `NextApi` adds the repeated reimport.

### HbmPolicy

`HbmPolicy` models one call from `hbm_create` up to the memory type handed
to `create_resource`. The call moves through phases recorded in `pc`:
1. `HbmCreate`: `hbm_create` up to the loop of `pick_staging_memory_type`
   over the staging bo's types (`best_mt = 0`), or its failure (no device,
   `create_staging` or `get_memory_types` failing). The loop is one step per
   iteration, like `pick_memory_type`'s:
   - `StagingSkip` is the `continue` on a type that is not MAPPABLE and
     COHERENT (`StagingReq`);
   - `StagingCached` takes a CACHED staging type and breaks;
   - `StagingOther` keeps the first uncached staging type;
   - `StagingEnd` ends the loop.
   `StagingDone` returns `best_mt`; `hbm_create` keeps it as `staging_mt`,
   or fails when it is 0 (`{}`).
2. `Describe`: `dri_bo_create_with_modifiers` (empty use flags become
   TEXTURE) or `dri_bo_import`. Then `init_description` fixes the
   modifier (`DescModifier`). The answer of `hbm_device_has_modifier` is a
   free boolean.
3. `CreateHbmBo`: hbm creates the bo. An import keeps the importer's
   modifier (`init_layout`). An allocation gets the modifier it asked for,
   one from its constraint, or any modifier.
4. `PickStart`: `pick_memory_type` computes `required_flags`,
   `disallowed_flags`, `preferred_flag` (`Required`, `Disallowed`,
   `Preferred`) and `use_staging`, and fetches the type list
   (`get_memory_types`).
5. The loop, one step per iteration:
   - `ScanSkip` is the `continue`;
   - `ScanPreferred` takes a type and breaks;
   - `ScanOther` is the `!best_mt` fallback;
   - `ScanEnd` ends the loop.
6. `Finish` fails on `best_mt == -1` and otherwise hands out the type.

Data is abstracted as follows:
- A memory type is its set of `HBM_MEMORY_TYPE_*` flags, because the code
  uses the flag word as the type. `best_mt = -1` is the model value `NoMt`.
- Use flags are sets of names.

Failing `hbm_bo_create_*` and `malloc` calls end the call with `ret = "fail"`.

| property | what it says |
|---|---|
| `PickSound` | A type handed out is in the list. A scanout/cursor bo is LOCAL and not CACHED. A SW bo without staging has a LINEAR layout and MAPPABLE memory, because `hbm_map` hands out the bo itself as the linear view. Staging is used only for SW bos. |
| `PickFirstPreferred` | The type handed out is the first allowed type that has the preferred flag. |
| `StagingTypeSound` | After `hbm_create` succeeds, the staging type is MAPPABLE and COHERENT, which `hbm_sync` relies on when it copies without flush/invalidate. |
| `PickComplete` | `pick_memory_type` fails only when no type of the list is allowed. This is the spec's policy, and the intent of the loop's fallback branch. It is violated. |

## Properties (HbmBuffer)

| property | kind | what it says |
|---|---|---|
| `TypeOK` | invariant | type correctness |
| `FdOwnership` | invariant | The only fd the glue holds is the implicit fence, and it exists exactly while a SW resource is live. No dup'ed or exported dma-buf is leaked. |
| `HbmBoAccounting` | invariant | There is one hbm_bo per live resource plus one per staging mapping, and a staging bo exists only under a mapping of a staged resource. |
| `CpuAccessExcludesGpu` | invariant | While a SW buffer is mapped directly, the GPU does not read it during a WRITE mapping and does not write it during any mapping. This is what the implicit-fence simulation promises. Checked by `hbm_write_only_race` (violated) and proved under `ReadMaps`; on `hbm_core` its content is part of `ImplementsBufferObject`. |
| `ReadCoherence` | action property | The step that maps a SW bo for READ shows the CPU exactly the buffer's contents. |
| `UnmapPublishesCpuView` | action property | The step that ends a WRITE mapping of a SW bo leaves in the buffer every plane the CPU read or wrote, as the CPU saw it (a map/unmap round trip corrupts nothing). |
| `ImplementsBufferObject` | refinement | `Spec` implements `BufferObject!Spec` under `life <- phase`, `sw <- useSw`, `map <- mapFlags`, `buf <- real`, `view <- CpuView` (the staging bo while one exists, else the buffer), `reading <- "read" \in gpu`. |

## Runs

All runs use:
- 2 data values;
- 2 fd numbers, so the fence and one more fd can be open, and dup/export can
  fail;
- symmetry over values and fds.

| run | spec | planes | map flags | result |
|---|---|---|---|---|
| `hbm_core` | `Spec` | 1 | R, RW | pass: `TypeOK`, `ReadCoherence`, `UnmapPublishesCpuView`, `ImplementsBufferObject` |
| `hbm_faults` | `SpecFaulty` | 2 | R, W, RW | pass: `FdOwnership`, `HbmBoAccounting` |
| `hbm_write_only_race` | `Spec` | 1 | R, W, RW | violation of `CpuAccessExcludesGpu` |
| `hbm_sync_failure` | `SpecFaulty` | 1 | R, RW | violation of `UnmapPublishesCpuView` |
| `hbm_reimport` | `SpecApi` | 1 | R, RW | violation of `FdOwnership` |

These bounds are enough because:
- a bo lives through create or import, map, unmap, release and destroy
  again and again;
- GPU reads and writes overlap the mapping windows in every order;
- two values tell a copied plane from a stale or fresh one;
- two planes are the least that shows per-plane behaviour (with 2 planes
  in `hbm_core.cfg`, `ReadCoherence` fails because `dri_bo_map` syncs
  plane 0 only, `hbm.c:909`; that divergence is listed as a hazard and not
  kept as a run);
- two fd numbers are enough to leak one.

Each violation run reproduces a disagreement between the code and what
`spec.md` or the code's own header comment promises:
1. A write-only `dri_bo_map` does not wait for the implicit fence
   (`hbm.c:900`), so the CPU writes while a GPU job still reads.
2. A failed read-side `hbm_sync` is ignored (`hbm.c:909`). A RW mapping of a
   staged bo then starts from fresh memory, and its unmap writes that memory
   over the buffer.
3. A second reimport overwrites `implicit_fence_dmabuf` (`hbm.c:583`) and
   leaks the previous fd.

Two more runs cover the policy (`MC_HbmPolicy`). They use four memory
types (VRAM, CPU-visible VRAM, write-combined and cached system memory),
lists of up to two of them, the use flags SCANOUT, RENDERING,
SW_READ_RARELY, SW_WRITE_OFTEN and LINEAR in every combination, and every
modifier request of an allocation or an import:

| run | result |
|---|---|
| `policy_sound` | pass: `TypeOK`, `PickSound`, `PickFirstPreferred`, `StagingTypeSound` (81139 states) |
| `policy_complete` | violation of `PickComplete` |

These bounds reach every branch of `prefer_map` and of the placement
rules: overlay with and without frequent CPU writes, GPU with rare reads,
pure CPU use. Lists of two types let a type be skipped before another is
taken, and let a later type compete with an earlier one. The policy run
stops when the call ends (`CHECK_DEADLOCK FALSE`), since one call is one
behaviour.

4. `best_mt` starts at -1 (`hbm.c:349`), so `!best_mt` (`hbm.c:357`) is
   never true, and the fallback that keeps the first allowed type never
   runs. A TEXTURE bo whose only memory type is system memory fails to
   allocate. An overlay bo that prefers mapping has its preferred flag
   cleared (`hbm.c:341`) and can never get memory.
   `pick_staging_memory_type` starts at 0 and keeps its fallback.

No run assumes fairness. Every property checked is a safety property.

## Proofs (`HbmBufferProofs`)

Proved by TLAPS for every value of the constants, under the `ASSUME`s of
`HbmBuffer`:
- `Values` is non-empty and distinct from `Fresh` and `Unknown`;
- `NoFd` is not in `FdIds`;
- `NumPlanes >= 1`;
- every map-flag choice is a non-empty subset of {R, W}.

The theorems:
- `TypeCorrect`: `SpecFaulty => []TypeOK`.
- `OwnershipSafe`: `SpecFaulty => [](FdOwnership /\ HbmBoAccounting)`.
- `OwnershipSafeSpec`: the same for `Spec`.
- `CpuAccessExcludesGpuThm`: `ReadMaps => (Spec => []CpuAccessExcludesGpu)`.
- `ReadCoherenceThm`: `SinglePlane => (Spec => ReadCoherence)`.
- `UnmapPublishesThm`: `ReadMaps /\ SinglePlane => (Spec => UnmapPublishesCpuView)`.

The ownership invariants are not inductive on their own. An unmap subtracts
a staging bo according to `res->staging_size`, so the proof must know that a
mapping's `vma->priv` agrees with it. The inductive invariant `IInv` adds
that every mapping belongs to a live resource and has
`staging = useStaging`; TLC checked it on `hbm_faults` before it was proved.

The proof has three parts:
- `InitIInv`.
- `StepIInv`, with one case per action. Allocation, mapping and unmapping
  each get a lemma, with one step per conjunct the action changes.
- PTL, which combines them.

The three data theorems carry hypotheses, and each hypothesis is needed:
- `ReadMaps` says every mapping asked of `dri_bo_map` includes READ. A
  write-only mapping skips the fence wait (`hbm.c:900`), and the
  `hbm_write_only_race` run shows `CpuAccessExcludesGpu` violated then. The
  proof strengthens `IInv` with the property itself (`XInv`). Only
  `MapBo` and `UnmapBo` change `mapFlags` (`MapFlagsFrame`), and no GPU
  job starts on a mapped SW bo (`XStep`).
- `SinglePlane` says `NumPlanes = 1`. `dri_bo_map` syncs from plane 0
  only (`hbm.c:909`). With one plane that copy is the whole bo
  (`CopyWhole`); with two, TLC finds `ReadCoherence` violated (see the
  bounds above). The proof goes through `MappedView`: after a READ map,
  the CPU view and the belief both equal the buffer.
- `UnmapPublishesThm` rests on `BeliefMatches`: while a SW bo is mapped,
  every plane the CPU has a belief about shows that value. `BStep` proves
  it inductive together with `XInv`.

What stays with TLC only:
- nothing more of these properties: with write-only mappings or with more
  than one plane they are false, as the runs above show;
- everything about recursive or liveness definitions, which TLAPS cannot
  handle.

## Refinement (`BufferObject`, `HbmBufferRefinement`)

`BufferObject` states what any backend's buffer object promises its
callers, with no staging bo, fence or fd in it. A bo is allocated or
imported, mapped and unmapped (Idle / Mapped), released and destroyed.
A READ map shows the buffer. A WRITE map of a bo with CPU use waits until
the device has stopped reading it (spec.md 4.5: the wait is "for the
requested access direction"). The device does not read or write a mapped
bo that has CPU use. An unmap leaves in the buffer what the CPU saw and
stored.
`HbmBuffer` maps onto it through `BO == INSTANCE BufferObject WITH ...`
(see `ImplementsBufferObject` above). The fd, GEM and hbm_bo bookkeeping
has no abstract counterpart. Submitting and completing a GPU read are
`DeviceReadStart` and `DeviceReadEnd`. A completed GPU write is a
`DeviceWrite`. Submitting a GPU write and failed calls are stutters.
Destroying the bo ends its device read.

`RefinementThm` proves `ReadMaps /\ SinglePlane => (Spec => ImplementsBufferObject)`
for every set of values, fds and map-flag choices. It rests on
`RInv == IInv /\ NoGpuWriteMapped /\ StagedSw /\ StgSync`, which TLC
checked on `hbm_core` before it was proved. Each added conjunct is needed:
- `NoGpuWriteMapped`: no GPU write is in flight while a SW bo is mapped.
  Without it a GPU write during a mapping would be no `DeviceWrite` step.
  It holds because a READ map waits for the implicit fence.
- `StagedSw`: only SW bos use staging. So a GPU write, which cannot
  happen on a mapped SW bo, never finds a staging bo, and
  `view = real` after it.
- `StgSync`: a staging bo not mapped for WRITE still holds the buffer. An
  unmap without the write-back then still publishes the CPU view.
`RStep` proves `RInv` inductive, and `RefStep` proves that each step maps to a
`BufferObject` step or a stutter, with one lemma per action (`AllocateRef`,
`MapRef`, `UnmapRef`, `StoreRef`, `GpuRef`). `MapRef` derives the
direction of the wait from `WaitReady` and `FdOwnership`: a live SW bo
always has an implicit fence to poll. Two mutants break the refinement
in TLC. One skips `hbm_sync`'s copy (`CopyPlaneSkipped`). The other polls
with POLLIN for a WRITE mapping (`WaitReadyPollIn`).
`SpecFaulty` does not refine `BufferObject`: a swallowed `hbm_sync` failure
loses the CPU's stores (`hbm_sync_failure`).

## Proofs (`HbmPolicyProofs`)

These hold for every set of use flags, memory types and list length:
- `TypeCorrect`: `Spec => []TypeOK`.
- `StagingTypeSoundThm`: `Spec => []StagingTypeSound`.
- `PickSoundThm`: `Spec => []PickSound`.
- `PickFirstPreferredThm`: `Spec => []PickFirstPreferred`.

The inductive invariant `IInv` says:
- `TypeOK` holds;
- during the staging loop, `best_mt` is 0 or a MAPPABLE and COHERENT type
  (`StagingTypes`), so the type `hbm_create` keeps is one too, and is never
  -1;
- once the loop has started, the flags are those `Required`, `Disallowed`
  and `DirectMap` give for the bo's use and layout;
- during the loop, `best_mt` is still -1 and no earlier type was
  preferable;
- after the loop, `best_mt` is -1 or the first preferable type.

Proving this needs the assumption that `NoMt` differs from every flag set.
That is why the `!best_mt` branch never fires, and why the fallback is dead
code.

`TypeOK` is not inductive on its own. `StagingEnd` stores `best_mt` and
`Finish` hands it out, so their types need the loop facts of `IInv`.
TLC checked `IInv` on `policy_sound` before it was proved.

## DmabufHeap (`dmabuf_internals.cpp`)

State:
- `heaps`: the `/dev/dma_heap` nodes of the device, chosen from
  `HeapConfigs`.
- `priv`: `drv->priv`, the `DmabufDriver` it points to, as a record giving
  each heap's fd as `"open"` (the node), `"dup"` (a dup of the system heap
  fd) or `"bad"` (-1). `NoDrv` stands for NULL.
- `orphan`: a ghost flag, set when a store to `drv->priv` overwrites a
  driver.
- Per thread:
  - `pc` is `idle`, `init` (about to build a driver) or `body`;
  - `tbo` is the bo being made;
  - `targ` is the call's resolved format, use flags and test flag;
  - `hold` is the driver the call uses (the `shared_ptr`).
- Per bo:
  - `live`, the number of planes `boNp` and the plane fds `boFds`;
  - `boUse`;
  - `backing`: which heap, or imported;
  - `mapped` and `cpu` (a `DMA_BUF_SYNC_START` bracket begun);
  - `gpu`: the GPU jobs pending on it.
- `fdOpen`: the ledger of open plane fds.

Actions:
- `dmabuf_bo_create2` is three steps of a thread, so two allocating threads
  interleave inside `dmabuf_get_or_init_driver`:
  - `CreateStart` resolves the format and use flags (`ResolveFormat`) and
    tests `drv->priv`;
  - `InitDriver` opens the heaps, falls back to a dup of the system heap,
    and stores the new driver;
  - `CreateBody` does the rest. A rejected format or flag, or a test-only
    call, returns. A -1 heap fd gives EBADF. ENOMEM returns. On success
    every plane gets a dup of the heap buffer fd.
- `ImportBo`, `DestroyBo`, `MapBo`, `UnmapBo` and `FlushBo` are atomic
  calls on a bo its caller owns. Map and flush issue `SYNC_START`, which
  waits for every pending GPU job.
- `DriverClose` is `dmabuf_driver_close`, once no call is running.
- `GpuSubmit` and `GpuComplete` are the GPU.

Faults:
- `DupMayFail` lets any `dup` return -1.
- `SyncMayFail` lets `SYNC_START` fail (EINTR). The code only logs that
  failure.
- `open` of a heap node succeeds exactly when the node exists.

Runs:

| run | threads | faults | result |
|---|---|---|---|
| `dmabuf_core` | 1 | dup | pass: `TypeOK`, `CpuBracket`, `ContigPlacement`, `PlaneFdLedger` (119406 states) |
| `dmabuf_init_race` | 2 | none | violation of `NoDriverLeak` |
| `dmabuf_bad_fd` | 2 | dup | violation of `NoBadFdKept` |

All runs use:
- two bos and four fds, enough for two live two-plane bos;
- three heap configurations: all heaps, system only, and CMA only (no
  system heap, so driver init fails);
- two requests: the flexible implementation-defined format and an
  unsupported one;
- four use-flag sets: texture, scanout with CPU reads, camera, and a
  protected texture (a residual flag that is rejected).

The pass run has one thread. Threads share nothing but `drv->priv`, and
what they do to it is the subject of `dmabuf_init_race`. With two threads
and dup faults, the state space does not finish within five minutes.

The violation runs show:
1. `dmabuf_get_or_init_driver` tests and stores `drv->priv` with no lock
   (`:74`). Two first allocations both build a driver, and one leaks with
   its three heap fds.
2. No `dup` result is checked (`:97`, `:249`, `:266`):
   - a -1 heap fd is cached in the driver, and every later contiguous
     allocation fails with EBADF until the driver is closed;
   - a bo is handed out with a -1 plane fd.

With `SyncMayFail = TRUE`, `CpuBracket` fails. The CPU then touches a
buffer with a GPU job pending, because a failed `SYNC_START` is only
logged (`:302`). This is listed as a hazard and not kept as a run.

## DriImage (`dri.c`)

Every call is one atomic step. A bo call is made on a bo its caller owns,
and map and unmap run under `drv.c`'s per-driver mutex.

State:
- `drv`: whether a `dri_driver` exists.
- `held`: the resources `dri_init` holds (`dri`, `fd`, `handle`, `screen`,
  `context`).
- `badFree`: a ghost flag, set when a release hits what was not acquired.
- `exts`: which optional `__DRIimage` entry points the Mesa driver has.
- Per bo:
  - `st` (`free`, `created`, `released`);
  - `img` (`bo->priv`: none, a live image, or a dangling one);
  - `gem` (`bo->handle`);
  - `mapped`.
- `gemOpen`: the GEM handles open on the minigbm fd. A handle is named by
  its dma-buf, because `drmPrimeFDToHandle` gives back the handle already
  open for a dma-buf.

Actions:
- `DriInit`. `InitSteps`, `Gives` and `Unwind` are the table of
  `dri_init`: what each step acquires and where each failure jumps.
- `DriClose`.
- `DriBoCreate`, `DriBoCreateWithModifiers` and `DriBoImport`. Each is the
  whole call, including `import_into_minigbm` with every failure point:
  - the NUM_PLANES or FD query;
  - lseek;
  - `drmPrimeFDToHandle`;
  - a plane query, after which cleanup closes the handle;
  - the caller's `destroyImage`.
- `DriBoRelease`, `DriBoDestroy`, `DriBoMap` and `DriBoUnmap` (which
  includes the context flush). `drv.c` calls `dri_bo_destroy` only for the
  last bo holding a handle.

The layout the import records (strides, offsets, sizes, modifier) is
abstracted away.

`ErrnoMayBeZero` lets a failing DRI callback leave errno 0, so `-errno` is
success. `ImportLive` lets a caller import a dma-buf a live bo already
holds.

| run | result |
|---|---|
| `dri_core` (3 bos, 4 dma-bufs, both flags FALSE, no symmetry) | pass: `InitRollback`, `GemOwnership` (4040 states) |
| `dri_shared_handle` (`ImportLive = TRUE`) | violation of `GemOwnership` |

`dri_core` has every set of optional entry points, three live bos and a
fresh dma-buf. It reaches every failing step of `dri_init`, and
create, import, release, destroy, map and unmap with every outcome.

The violation is a code bug: a failed import of a dma-buf that a live bo
holds closes that bo's GEM handle (`dri.c:165`). That handle number can
then be reused, and destroying the first bo closes it again.

With `ErrnoMayBeZero = TRUE`, `GemOwnership` fails on the first create:
the call reports success with `bo->priv` NULL. This is listed as a hazard.

## Proofs (`DriImageProofs`)

These hold for every set of bos and dma-bufs:
- `TypeCorrect`: `Spec => []TypeOK`.
- `InitRollbackThm`: `Spec => []InitRollback`. It rests on the lemma
  `UnwindExact`: for each of the twelve steps of `dri_init`, the label it
  jumps to releases exactly what the steps before it acquired. Given that
  lemma, `InitRollback` is inductive as it stands.
- `GemOwnershipThm`: under `~ImportLive` and `~ErrnoMayBeZero`,
  `Spec => []GemOwnership`.
  - The inductive invariant is `TypeOK /\ GemOwnership`.
  - The lemma `MakeImageOwned` covers each outcome of creating and
    importing an image for a free bo.
  - A destroy removes only a handle that no other bo names, by the
    `drv.c` guard.
  - `dri_shared_handle` shows that the first assumption is needed, and the
    errno hazard shows the second.

## Proofs (`DmabufHeapProofs`)

These hold for every set of threads, bos, fds, heap configurations and
requests:
- `TypeCorrect`: `Spec => []TypeOK`. There is one lemma per action.
  `CreateBody` is split by its outcome: a return without a bo, or a bo
  whose plane array `PlaneDups` fills.
- `CpuBracketThm`: under `~SyncMayFail`, `Spec => [](TypeOK /\ CpuBracket)`.
  - `TypeOK /\ CpuBracket` is inductive as it stands.
  - A map or a flush reaches `SYNC_START` only with an empty GPU queue,
    because a mapped bo takes no GPU job and destroy empties its queue.
  - With `SyncMayFail` the bracket is broken: a failed `SYNC_START` leaves
    the bo mapped without it. The code only logs that failure (a hazard).
- `PlaneFdLedgerThm`: `Spec => []PlaneFdLedger`, with or without dup
  failures. `PlaneFdLedger` is not inductive by itself. A create that
  fills a bo some other call also fills, or that is already live, would
  lose fds. The strengthening `BusyOK` says:
  - an idle thread owns no bo;
  - a thread inside a call owns a bo that is not live;
  - no two threads own the same bo.

  `CreateStart` keeps it through its `b \notin Busy` guard. Import and
  destroy keep it through the same guard. The lemma `AddPlanes` shows that
  fresh, pairwise distinct dups keep the ledger. `DropPlanes` shows the
  same for closing one bo's fds, which no other bo shares.

- `ContigPlacementThm`: `Spec => []ContigPlacement`, for any number of
  threads and whichever of them initialises the driver. `ContigPlacement`
  is not inductive by itself. `CreateBody` places a bo by the CMA fd of
  the driver its call holds, so the proof needs that fd to tell whether
  the device has a CMA heap. The strengthening `DrvKnown` says that for
  `drv->priv` and for every driver a call holds, the CMA fd is the node
  exactly when the node exists (`CmaKnown`). `FallbackCma` gives this for
  the driver `InitDriver` makes, and `CreateStart` copies `drv->priv`.
  TLC checked `PInv` on `dmabuf_core`, and with two threads, before it
  was proved.

`NoDriverLeak` and `NoBadFdKept` are violated by the code, so there is
nothing to prove about them.

## Not modelled

- **The composition of the two hbm modules.** `HbmBuffer` still chooses
  `use_sw` and `use_staging` freely, not through `HbmPolicy`.
- **Device setup and pass-through queries.** These only query the device
  and keep no state:
  - `get_device_id`, `hbm_log`, `hbm_get_format_modifiers` (`hbm_create`'s
    device lookup is a failure branch of `HbmCreate`);
  - `dri_query_modifiers`, `dri_num_planes_from_modifier`.
- **`dri.c`'s layout.** The strides, offsets and sizes that
  `import_into_minigbm` records are not modelled, so the `sizes[-1]` write
  for 0 planes and the wrap for non-increasing offsets are unchecked
  hazards.
- **`drv.c`.** It is outside `src/`. Its per-driver mutex is assumed by
  making calls atomic, and its handle reference count by the guard of
  `DriBoDestroy`.

## Plan

1. **`HbmGlue`** composes `HbmPolicy` into `HbmBuffer`.
2. **Liveness.** A map blocked on a GPU job completes, under weak fairness
   of `GpuComplete` (the kernel signals every job's fence).
