----------------------------- MODULE HbmBuffer -----------------------------
(***************************************************************************)
(* One buffer object of the amdgpu backend built on the hbm helper         *)
(* (src/hbm.c, DRV_HBM_HELPER && DRV_AMDGPU), as the dri_bo_* entry points *)
(* drive it: the hbm resource and its main hbm_bo, the implicit-fence      *)
(* dma-buf the glue owns, the staging hbm_bo of a CPU mapping, the GEM     *)
(* handle, and the contents of each plane as the CPU and the GPU see them. *)
(*                                                                         *)
(* Each dri_bo_* call is one atomic step: the caller (drv.c) serialises    *)
(* calls on a bo.  The GPU is a second actor: jobs submitted on the GEM    *)
(* handle run while the CPU works and signal the dma-buf's implicit fence  *)
(* when done.  Which memory type and staging decision an allocation gets   *)
(* is chosen freely here (HbmPolicy models how pick_memory_type makes it). *)
(***************************************************************************)
EXTENDS Naturals

CONSTANTS
  Values,         \* data a GPU job or a CPU store can leave in a plane
  Fresh,          \* content of newly allocated memory (zeroed pages)
  Unknown,        \* the CPU expects nothing of this plane
  FdIds,          \* fd numbers dup() and hbm_bo_export_dma_buf can return
  NoFd,           \* -1
  NumPlanes,      \* planes of the buffer's format
  MapFlagChoices  \* the map_flags callers pass to dri_bo_map

MapFlag == {"R", "W"}   \* BO_MAP_READ, BO_MAP_WRITE

ASSUME DataAssumption ==
  /\ Values # {}
  /\ Fresh \notin Values
  /\ Unknown \notin Values \cup {Fresh}

ASSUME FdAssumption == NoFd \notin FdIds

ASSUME PlanesAssumption == NumPlanes \in Nat \ {0}

ASSUME FlagsAssumption == MapFlagChoices \subseteq (SUBSET MapFlag) \ {{}}

Planes == 0 .. NumPlanes - 1
Data == Values \cup {Fresh}
FreshPlanes == [p \in Planes |-> Fresh]
NoBelief == [p \in Planes |-> Unknown]

VARIABLES
  phase,       \* "none" | "live" (bo->priv is a resource) | "prime" | "released"
  useSw,       \* res->use_sw
  useStaging,  \* res->staging_size # 0
  fence,       \* res->implicit_fence_dmabuf
  fdOpen,      \* fds of FdIds the glue has opened and not closed
  hbmBos,      \* live hbm_bo objects (main bo and staging bo)
  gem,         \* bo->handle.u32 is an open GEM handle
  mapFlags,    \* vma->map_flags of the current mapping, {} when unmapped
  staging,     \* vma->priv holds a staging hbm_bo
  stg,         \* contents of the staging bo
  belief,      \* what the CPU holds each plane to contain (ghost)
  real,        \* contents of the buffer's memory
  gpu,         \* GPU accesses in flight on the buffer
  ret          \* outcome the last dri_bo_* call reported

resVars == <<phase, useSw, useStaging, fence, fdOpen, hbmBos, gem>>
mapVars == <<mapFlags, staging, stg, belief>>
vars == <<resVars, mapVars, real, gpu, ret>>

TypeOK ==
  /\ phase \in {"none", "live", "prime", "released"}
  /\ useSw \in BOOLEAN
  /\ useStaging \in BOOLEAN
  /\ fence \in FdIds \cup {NoFd}
  /\ fdOpen \in SUBSET FdIds
  /\ hbmBos \in Nat
  /\ gem \in BOOLEAN
  /\ mapFlags \in MapFlagChoices \cup {{}}
  /\ staging \in BOOLEAN
  /\ stg \in [Planes -> Data]
  /\ belief \in [Planes -> Data \cup {Unknown}]
  /\ real \in [Planes -> Data]
  /\ gpu \in SUBSET {"read", "write"}
  /\ ret \in {"ok", "fail"}

Init ==
  /\ phase = "none"
  /\ useSw = FALSE
  /\ useStaging = FALSE
  /\ fence = NoFd
  /\ fdOpen = {}
  /\ hbmBos = 0
  /\ gem = FALSE
  /\ mapFlags = {}
  /\ staging = FALSE
  /\ stg = FreshPlanes
  /\ belief = NoBelief
  /\ real = FreshPlanes
  /\ gpu = {}
  /\ ret = "ok"

-----------------------------------------------------------------------------
(* Mutant: poll() always asks for POLLIN, whatever the map flags.          *)
WaitReadyPollIn(flags) == fence = NoFd \/ "write" \notin gpu

(* wait_resource: without an implicit fence there is nothing to wait for;  *)
(* otherwise poll() blocks until the fence allows the access: POLLOUT (no  *)
(* GPU access left) for a write mapping, POLLIN (no GPU write) otherwise.  *)
WaitReady(flags) ==
  \/ fence = NoFd
  \/ IF "W" \in flags THEN gpu = {} ELSE "write" \notin gpu

(* Mutant: hbm_sync copies nothing (a zero-sized transfer).               *)
CopyPlaneSkipped(dst, src, p) == dst

(* The copy hbm_sync does: plane `p` of `src` into `dst`.                  *)
CopyPlane(dst, src, p) == [dst EXCEPT ![p] = src[p]]

(* dup() and hbm_bo_export_dma_buf return a free fd number, or fail.       *)
FreeFds == FdIds \ fdOpen

(* hbm_reimport_to_driver owns the dma-buf it imports unless it was given  *)
(* the importer's fd of a non-SW resource.                                 *)
NeedsOwnedFd(imported, sw) == ~imported \/ sw

(* A successful hbm_reimport_to_driver: a SW resource keeps the owned      *)
(* dma-buf as its implicit fence, any other owned dma-buf is closed.       *)
ReimportOk(imported, sw) ==
  \E fd \in IF NeedsOwnedFd(imported, sw) THEN FreeFds ELSE {NoFd} :
    /\ fence' = IF sw THEN fd ELSE NoFd
    /\ fdOpen' = IF sw THEN fdOpen \cup {fd} ELSE fdOpen

(* hbm_allocate / hbm_import followed by hbm_reimport_to_driver.  On every *)
(* failure the hbm_bo is destroyed (and the resource freed) before -1 is   *)
(* returned.  On success pick_memory_type has chosen SW use and staging.   *)
AllocateBo(imported) ==
  /\ phase = "none"
  /\ \/ /\ ret' = "fail"
        /\ UNCHANGED <<resVars, mapVars, real, gpu>>
     \/ \E sw, st \in BOOLEAN :
          /\ st => sw
          /\ ReimportOk(imported, sw)
          /\ phase' = "live"
          /\ useSw' = sw
          /\ useStaging' = st
          /\ hbmBos' = hbmBos + 1
          /\ gem' = TRUE
          /\ IF imported THEN real' \in [Planes -> Values]
                         ELSE real' = FreshPlanes
          /\ ret' = "ok"
          /\ UNCHANGED <<mapVars, gpu>>

(* dri_bo_create_with_modifiers.                                           *)
CreateBo == AllocateBo(FALSE)

(* dri_bo_import: a dma-buf without modifier and stride only gets a GEM    *)
(* handle (drv_prime_bo_import); any other goes through hbm_import.        *)
ImportBo ==
  \/ /\ phase = "none"
     /\ \/ /\ phase' = "prime"
           /\ gem' = TRUE
           /\ real' \in [Planes -> Values]
           /\ ret' = "ok"
        \/ /\ ret' = "fail"
           /\ UNCHANGED <<phase, gem, real>>
     /\ UNCHANGED <<useSw, useStaging, fence, fdOpen, hbmBos, mapVars, gpu>>
  \/ AllocateBo(TRUE)

(* Mutant: hbm_free forgets to close the implicit fence.                   *)
HbmFreeKeepsFence ==
  /\ hbmBos' = hbmBos - 1
  /\ fence' = NoFd
  /\ UNCHANGED fdOpen

(* hbm_free: destroy the main hbm_bo, close the implicit fence if any.     *)
HbmFree ==
  /\ hbmBos' = hbmBos - 1
  /\ fence' = NoFd
  /\ fdOpen' = fdOpen \ {fence}

(* dri_bo_release; the caller has unmapped the bo first.                   *)
ReleaseBo ==
  /\ phase = "live"
  /\ mapFlags = {}
  /\ HbmFree
  /\ phase' = "released"
  /\ ret' = "ok"
  /\ UNCHANGED <<useSw, useStaging, gem, mapVars, real, gpu>>

(* dri_bo_destroy: close the GEM handle; GPU work on the old object is no  *)
(* longer observable through this bo.                                      *)
DestroyBo ==
  /\ phase \in {"released", "prime"}
  /\ phase' = "none"
  /\ gem' = FALSE
  /\ gpu' = {}
  /\ ret' = "ok"
  /\ UNCHANGED <<useSw, useStaging, fence, fdOpen, hbmBos, mapVars, real>>

(* Mutant: the staging bo is not destroyed when binding or mapping it     *)
(* fails.                                                                  *)
MapFailsLeaksStaging ==
  /\ ret' = "fail"
  /\ hbmBos' = hbmBos + (IF useStaging THEN 1 ELSE 0)
  /\ UNCHANGED <<phase, useSw, useStaging, fence, fdOpen, gem, mapVars, real, gpu>>

(* hbm_map returns NULL: create_staging, hbm_bo_bind_memory or hbm_bo_map  *)
(* failed, and the staging bo, if created, is destroyed again;             *)
(* dri_bo_map reports MAP_FAILED.                                          *)
MapFails ==
  /\ ret' = "fail"
  /\ UNCHANGED <<resVars, mapVars, real, gpu>>

(* A mapping is in place: the staging bo, if the resource has one, is     *)
(* live and mapped; the CPU reads the view it was given.                   *)
Mapped(flags, view) ==
  /\ mapFlags' = flags
  /\ staging' = useStaging
  /\ hbmBos' = hbmBos + (IF useStaging THEN 1 ELSE 0)
  /\ stg' = IF useStaging THEN view ELSE FreshPlanes
  /\ belief' = IF "R" \in flags THEN real ELSE NoBelief
  /\ ret' = "ok"
  /\ UNCHANGED <<phase, useSw, useStaging, fence, fdOpen, gem, real, gpu>>

(* Mutant: the pre-copy is skipped for every mapping that includes WRITE. *)
MapBoSkipsRW(flags) ==
  /\ phase = "live"
  /\ mapFlags = {}
  /\ \/ MapFails
     \/ /\ "R" \in flags => WaitReady(flags)
        /\ Mapped(flags, IF flags = {"R"} THEN CopyPlane(FreshPlanes, real, 0)
                                         ELSE FreshPlanes)

(* dri_bo_map: hbm_map, then for a READ mapping hbm_sync(flush = false)    *)
(* for plane 0: wait for the implicit fence, then copy the buffer into     *)
(* the staging bo (or invalidate a direct mapping).                        *)
MapBo(flags) ==
  /\ phase = "live"
  /\ mapFlags = {}
  /\ \/ MapFails
     \/ /\ "R" \in flags => WaitReady(flags)
        /\ Mapped(flags, IF "R" \in flags THEN CopyPlane(FreshPlanes, real, 0)
                                         ELSE FreshPlanes)

(* hbm_sync(flush = false) of a READ mapping fails (poll() error, or the   *)
(* copy fails); dri_bo_map ignores the result and returns the pointer.     *)
MapSyncFails(flags) ==
  /\ phase = "live"
  /\ mapFlags = {}
  /\ "R" \in flags
  /\ fence # NoFd \/ useStaging
  /\ Mapped(flags, FreshPlanes)

(* The client stores `v` into plane `p` through the mapping.               *)
CpuWrite(p, v) ==
  /\ "W" \in mapFlags
  /\ IF staging THEN /\ stg' = [stg EXCEPT ![p] = v]
                     /\ UNCHANGED real
                ELSE /\ real' = [real EXCEPT ![p] = v]
                     /\ UNCHANGED stg
  /\ belief' = [belief EXCEPT ![p] = v]
  /\ UNCHANGED <<resVars, mapFlags, staging, gpu, ret>>

(* Mutant: hbm_unmap without its early return destroys vma->priv even for *)
(* a direct mapping.                                                       *)
UnmappedNoEarlyReturn ==
  /\ mapFlags' = {}
  /\ staging' = FALSE
  /\ hbmBos' = hbmBos - 1
  /\ stg' = FreshPlanes
  /\ belief' = NoBelief
  /\ ret' = "ok"
  /\ UNCHANGED <<phase, useSw, useStaging, fence, fdOpen, gem, gpu>>

(* hbm_unmap: unmap, and destroy the staging bo of a staged resource.      *)
Unmapped ==
  /\ mapFlags' = {}
  /\ staging' = FALSE
  /\ hbmBos' = hbmBos - (IF useStaging THEN 1 ELSE 0)
  /\ stg' = FreshPlanes
  /\ belief' = NoBelief
  /\ ret' = "ok"
  /\ UNCHANGED <<phase, useSw, useStaging, fence, fdOpen, gem, gpu>>

(* Mutant: the flush at unmap copies in the direction of an invalidate.   *)
UnmapBoSwapped ==
  /\ mapFlags # {}
  /\ "W" \in mapFlags => WaitReady(mapFlags)
  /\ UNCHANGED real
  /\ Unmapped

(* dri_bo_unmap: for a WRITE mapping hbm_sync(flush = true) for plane 0:   *)
(* wait for the implicit fence, then copy the staging bo into the buffer   *)
(* (or flush a direct mapping); then hbm_unmap.  It always returns 0.      *)
UnmapBo ==
  /\ mapFlags # {}
  /\ "W" \in mapFlags => WaitReady(mapFlags)
  /\ real' = IF "W" \in mapFlags /\ useStaging THEN CopyPlane(real, stg, 0) ELSE real
  /\ Unmapped

(* hbm_sync(flush = true) fails and dri_bo_unmap still unmaps and returns *)
(* 0: the CPU's stores never reach the buffer.                             *)
UnmapSyncFails ==
  /\ "W" \in mapFlags
  /\ fence # NoFd \/ useStaging
  /\ UNCHANGED real
  /\ Unmapped

(* The client submits a GPU job on the GEM handle; it does not do so while *)
(* it has the bo mapped.                                                   *)
GpuSubmit(k) ==
  /\ phase \in {"live", "prime"}
  /\ mapFlags = {}
  /\ k \notin gpu
  /\ gpu' = gpu \cup {k}
  /\ UNCHANGED <<resVars, mapVars, real, ret>>

(* A GPU job ends and signals the implicit fence; a write leaves data.     *)
GpuComplete(k) ==
  /\ k \in gpu
  /\ gpu' = gpu \ {k}
  /\ IF k = "write" THEN real' \in [Planes -> Values] ELSE UNCHANGED real
  /\ UNCHANGED <<resVars, mapVars, ret>>

(* A second hbm_reimport_to_driver(res, NULL) on a live resource, through  *)
(* the public hbm API: it exports a new dma-buf and, for a SW resource,    *)
(* stores it as the implicit fence.                                        *)
ReimportAgain ==
  /\ phase = "live"
  /\ \/ /\ ret' = "fail"
        /\ UNCHANGED <<resVars, mapVars, real, gpu>>
     \/ /\ ReimportOk(FALSE, useSw)
        /\ ret' = "ok"
        /\ UNCHANGED <<phase, useSw, useStaging, hbmBos, gem, mapVars, real, gpu>>

Next ==
  \/ CreateBo
  \/ ImportBo
  \/ ReleaseBo
  \/ DestroyBo
  \/ \E flags \in MapFlagChoices : MapBo(flags)
  \/ UnmapBo
  \/ \E p \in Planes, v \in Values : CpuWrite(p, v)
  \/ \E k \in {"read", "write"} : GpuSubmit(k) \/ GpuComplete(k)

(* Next with the sync failures dri_bo_map and dri_bo_unmap swallow.        *)
NextFaulty ==
  \/ Next
  \/ \E flags \in MapFlagChoices : MapSyncFails(flags)
  \/ UnmapSyncFails

(* Next with the public hbm API called again on a live resource.           *)
NextApi == Next \/ ReimportAgain

Spec == Init /\ [][Next]_vars
SpecFaulty == Init /\ [][NextFaulty]_vars
SpecApi == Init /\ [][NextApi]_vars

-----------------------------------------------------------------------------
(* What the CPU sees through its pointer.                                  *)
CpuView == IF staging THEN stg ELSE real

(* Every fd the glue opened is owned exactly once: it is the implicit      *)
(* fence of the live SW resource (hbm_reimport_to_driver, hbm_free), and   *)
(* that resource has one, so that a CPU mapping can wait on it.            *)
FdOwnership ==
  /\ fdOpen = IF fence = NoFd THEN {} ELSE {fence}
  /\ (fence # NoFd) = (phase = "live" /\ useSw)

(* Every live hbm_bo has an owner: the main bo belongs to the live         *)
(* resource, a staging bo to the current mapping of a staged resource      *)
(* (hbm_allocate and hbm_map failure paths, hbm_unmap, hbm_free).          *)
HbmBoAccounting ==
  /\ hbmBos = (IF phase = "live" THEN 1 ELSE 0) + (IF staging THEN 1 ELSE 0)
  /\ staging => mapFlags # {} /\ useStaging

(* While the CPU has a SW bo mapped directly, the GPU does not write it,   *)
(* and does not touch it at all if the mapping may write (the implicit     *)
(* fence wait of dri_bo_map).                                              *)
CpuAccessExcludesGpu ==
  (phase = "live" /\ useSw /\ mapFlags # {} /\ ~useStaging) =>
    /\ "W" \in mapFlags => gpu = {}
    /\ "R" \in mapFlags => "write" \notin gpu

(* A successful READ mapping of a SW bo shows the CPU the buffer's         *)
(* contents, in every plane (dri_bo_map, hbm_sync).                        *)
ReadCoherence ==
  [][ (mapFlags = {} /\ "R" \in mapFlags' /\ useSw) => CpuView' = real' ]_vars

(* Unmapping a WRITE mapping of a SW bo leaves the buffer holding what the *)
(* CPU read or stored in each plane: stores reach the buffer and a         *)
(* read-write round trip corrupts nothing (dri_bo_unmap, hbm_sync).        *)
UnmapPublishesCpuView ==
  [][ (mapFlags # {} /\ mapFlags' = {} /\ "W" \in mapFlags /\ useSw) =>
        \A p \in Planes : belief[p] # Unknown => real'[p] = belief[p] ]_vars

(* The glue seen as a BufferObject: the resource's phase and CPU use, the  *)
(* current mapping's flags, the buffer's memory, what the CPU pointer      *)
(* shows, and whether a GPU job reads the buffer.                          *)
BO == INSTANCE BufferObject
        WITH life <- phase, sw <- useSw, map <- mapFlags, buf <- real,
             view <- CpuView, reading <- "read" \in gpu

(* The dri_bo_* calls keep every promise of a buffer object: a READ map    *)
(* shows the buffer (dri_bo_map's hbm_sync into the staging bo), the GPU   *)
(* does not write a mapped SW bo (wait_resource), and an unmap publishes   *)
(* what the CPU saw and stored (dri_bo_unmap's hbm_sync back).             *)
ImplementsBufferObject == BO!Spec
=============================================================================
