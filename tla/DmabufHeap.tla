----------------------------- MODULE DmabufHeap -----------------------------
(***************************************************************************)
(* The dma-buf heap backend (src/dmabuf_driver/dmabuf_internals.cpp).      *)
(*                                                                         *)
(* The backend keeps one piece of per-driver state, drv->priv, which the   *)
(* first dmabuf_bo_create2 fills lazily: it opens the system heap and the  *)
(* system-uncached and CMA heaps (falling back to dups of the system heap  *)
(* fd) and publishes a DmabufDriverPriv holding a shared_ptr to them.      *)
(* Several threads may allocate at once; the check of drv->priv and its    *)
(* store are separate steps of a thread.  Every other operation works on   *)
(* a bo its caller owns and touches no shared state of the backend, so it  *)
(* is one atomic step.                                                     *)
(*                                                                         *)
(* A DmabufDriver is the record of its three heap fds, each "open", "dup"  *)
(* (the fallback to the system heap fd) or "bad" (-1); NoDrv is nullptr.   *)
(* Plane fds of bos are identities from FdIds.  The GPU is the other       *)
(* actor: its jobs on a bo are what DMA_BUF_SYNC_START waits for.          *)
(***************************************************************************)
EXTENDS Naturals, FiniteSets

CONSTANTS
  Threads,      \* threads calling into the backend
  Bos,          \* bo structs handed to the backend
  FdIds,        \* fd numbers for plane fds
  NoFd,         \* -1
  NoBo,         \* a thread that works on no bo
  HeapConfigs,  \* which /dev/dma_heap nodes a device can have
  Requests,     \* formats callers ask for, before resolution
  UseSets,      \* use-flag sets callers ask for
  DupMayFail,   \* dup can fail (EMFILE)
  SyncMayFail   \* DMA_BUF_SYNC_START can fail (EINTR while waiting)

HeapKind == {"system", "system-uncached", "linux,cma"}
Planes == 1 .. 4                                    \* DRV_MAX_PLANES
GpuKind == {"job"}   \* SYNC_START with DMA_BUF_SYNC_RW waits for every fence

ASSUME HeapConfigsAssumption == HeapConfigs \subseteq SUBSET HeapKind
ASSUME FdAssumption == NoFd \notin FdIds /\ IsFiniteSet(FdIds)
ASSUME BoAssumption == NoBo \notin Bos
ASSUME CallAssumption == Requests # {} /\ UseSets # {}
ASSUME FlagsAssumption == DupMayFail \in BOOLEAN /\ SyncMayFail \in BOOLEAN

-----------------------------------------------------------------------------
(* BO_USE_* groups that dmabuf_bo_create2 unmasks.                          *)
SwMask == {"SW_READ_OFTEN", "SW_READ_RARELY", "SW_WRITE_OFTEN", "SW_WRITE_RARELY"}
Camera == {"CAMERA_READ", "CAMERA_WRITE"}
Codec == {"HW_VIDEO_DECODER", "HW_VIDEO_ENCODER"}
AnyHeap == {"CURSOR", "TEXTURE", "RENDERING"}

(* supported_formats and is_format_supported.                              *)
SupportedFormats ==
  {"ARGB8888", "XRGB8888", "ABGR8888", "XBGR8888", "RGB565", "BGR888",
   "NV12", "YVU420", "YVU420_ANDROID", "R8"}

(* The plane count drv_bo_from_format gives a format.                      *)
NumPlanes(f) ==
  IF f = "NV12" THEN 2 ELSE IF f \in {"YVU420", "YVU420_ANDROID"} THEN 3 ELSE 1

(* dmabuf_resolve_format_and_use_flags; the use flags pass unchanged.      *)
ResolveFormat(f, u) ==
  CASE f = "FLEX_IMPLEMENTATION_DEFINED" ->
         IF u \cap Camera # {} THEN "NV12" ELSE "XBGR8888"
    [] f = "FLEX_YCbCr_420_888" -> "NV12"
    [] f = "BGR565" -> "RGB565"
    [] OTHER -> f

(* Mutant: BO_USE_SCANOUT is unmasked without forcing CMA.                 *)
ForceCmaNoScanout(u) == u \cap (Camera \cup Codec) # {}

(* force_cma: scanout, camera and codec buffers go to the CMA heap.        *)
ForceCma(u) == u \cap ({"SCANOUT"} \cup Camera \cup Codec) # {}

(* The flags left in l_use_flags after every unmask64.                     *)
Residual(u) == u \ (SwMask \cup {"SCANOUT"} \cup Camera \cup Codec \cup AnyHeap)

(* Mutant: the commented-out choice of the uncached heap for non-SW bos.   *)
HeapChoiceUncached(u) ==
  IF ForceCma(u) THEN "linux,cma"
  ELSE IF u \cap SwMask = {} THEN "system-uncached" ELSE "system"

(* The heap whose fd DMA_HEAP_IOCTL_ALLOC is issued on.                    *)
HeapChoice(u) == IF ForceCma(u) THEN "linux,cma" ELSE "system"

(* What opening a heap node may give: the node itself, or, for a missing   *)
(* optional heap, a dup of the system heap fd; -1 when that fails too.     *)
SystemFd(hs) == IF "system" \in hs THEN {"open"} ELSE {"bad"}
FallbackFd(hs, k) ==
  IF k \in hs THEN {"open"}
  ELSE {"dup"} \cup (IF DupMayFail THEN {"bad"} ELSE {})

(* The fds the per-plane dups of a new bo may get: distinct free fds, or -1 *)
(* where dup fails.                                                        *)
PlaneDups(np, free) ==
  {fds \in [1 .. np -> free \cup (IF DupMayFail THEN {NoFd} ELSE {})] :
     \A p, q \in 1 .. np : p # q /\ fds[p] # NoFd => fds[p] # fds[q]}

VARIABLES
  heaps,     \* the /dev/dma_heap nodes of the device
  priv,      \* drv->priv: the driver its DmabufDriverPriv refers to
  orphan,    \* ghost: a DmabufDriverPriv was made unreachable
  pc,        \* pc[t]: "idle", or where dmabuf_bo_create2 is
  tbo,       \* tbo[t]: the bo of the call
  targ,      \* targ[t]: format, use flags and test_only of the call
  hold,      \* hold[t]: the driver the call's shared_ptr refers to
  live,      \* live[b]: bo->priv holds a DmabufBoPriv
  boNp,      \* bo->meta.num_planes
  boFds,     \* priv->fds[plane]
  boUse,     \* the use flags the bo was made with
  backing,   \* the heap the bo's memory came from
  fdOpen,    \* plane fds open (ghost ledger of the fd table)
  mapped,    \* the bo is mmap'ed
  cpu,       \* "begun" between DMA_BUF_SYNC_START and DMA_BUF_SYNC_END
  gpu        \* GPU jobs in flight on the bo

drvVars == <<heaps, priv, orphan>>
thrVars == <<pc, tbo, targ, hold>>
boVars == <<live, boNp, boFds, boUse, backing, fdOpen, mapped, cpu, gpu>>
vars == <<drvVars, thrVars, boVars>>

Driver == [HeapKind -> {"open", "dup", "bad"}]
NoDrv == [k \in HeapKind |-> "none"]
Args == {[fmt |-> ResolveFormat(f, u), use |-> u, test |-> x] :
           f \in Requests, u \in UseSets, x \in BOOLEAN}
NoArgs == CHOOSE a \in Args : TRUE
Busy == {tbo[t] : t \in Threads}

TypeOK ==
  /\ heaps \in HeapConfigs
  /\ priv \in Driver \cup {NoDrv}
  /\ orphan \in BOOLEAN
  /\ pc \in [Threads -> {"idle", "init", "body"}]
  /\ tbo \in [Threads -> Bos \cup {NoBo}]
  /\ targ \in [Threads -> Args]
  /\ hold \in [Threads -> Driver \cup {NoDrv}]
  /\ live \in [Bos -> BOOLEAN]
  /\ boNp \in [Bos -> 0 .. 4]
  /\ boFds \in [Bos -> [Planes -> FdIds \cup {NoFd}]]
  /\ boUse \in [Bos -> UseSets \cup {{}}]
  /\ backing \in [Bos -> {"none", "system", "linux,cma", "imported"}]
  /\ fdOpen \subseteq FdIds
  /\ mapped \in [Bos -> BOOLEAN]
  /\ cpu \in [Bos -> {"none", "begun"}]
  /\ gpu \in [Bos -> SUBSET GpuKind]

Init ==
  /\ heaps \in HeapConfigs
  /\ priv = NoDrv /\ orphan = FALSE
  /\ pc = [t \in Threads |-> "idle"]
  /\ tbo = [t \in Threads |-> NoBo]
  /\ targ = [t \in Threads |-> NoArgs]
  /\ hold = [t \in Threads |-> NoDrv]
  /\ live = [b \in Bos |-> FALSE]
  /\ boNp = [b \in Bos |-> 0]
  /\ boFds = [b \in Bos |-> [p \in Planes |-> NoFd]]
  /\ boUse = [b \in Bos |-> {}]
  /\ backing = [b \in Bos |-> "none"]
  /\ fdOpen = {}
  /\ mapped = [b \in Bos |-> FALSE]
  /\ cpu = [b \in Bos |-> "none"]
  /\ gpu = [b \in Bos |-> {}]
-----------------------------------------------------------------------------
(* dmabuf_bo_create2 starts with dmabuf_get_or_init_driver, which reads    *)
(* drv->priv: a set priv is shared (the shared_ptr copy), a null one is    *)
(* initialised in the next step.  The caller owns the fresh bo.            *)
CreateStart(t, b, a) ==
  /\ pc[t] = "idle"
  /\ ~live[b] /\ b \notin Busy
  /\ tbo' = [tbo EXCEPT ![t] = b]
  /\ targ' = [targ EXCEPT ![t] = a]
  /\ IF priv = NoDrv
     THEN pc' = [pc EXCEPT ![t] = "init"] /\ UNCHANGED hold
     ELSE pc' = [pc EXCEPT ![t] = "body"] /\ hold' = [hold EXCEPT ![t] = priv]
  /\ UNCHANGED <<drvVars, boVars>>

(* The rest of dmabuf_get_or_init_driver for a null drv->priv: open the    *)
(* system heap (nullptr if that fails), the uncached and CMA heaps or dups *)
(* of the system fd, then store a new DmabufDriverPriv in drv->priv,       *)
(* whatever drv->priv holds by now.                                        *)
InitDriver(t) ==
  /\ pc[t] = "init"
  /\ \E s \in SystemFd(heaps) :
       IF s = "bad"
       THEN UNCHANGED <<priv, orphan, hold>>
       ELSE \E u \in FallbackFd(heaps, "system-uncached"),
               c \in FallbackFd(heaps, "linux,cma") :
              LET d == [k \in HeapKind |->
                          IF k = "system" THEN s
                          ELSE IF k = "linux,cma" THEN c ELSE u]
              IN  /\ priv' = d
                  /\ orphan' = (orphan \/ priv # NoDrv)
                  /\ hold' = [hold EXCEPT ![t] = d]
  /\ pc' = [pc EXCEPT ![t] = "body"]
  /\ UNCHANGED <<heaps, tbo, targ, boVars>>

(* A call is over: its shared_ptr is dropped.                              *)
Return(t) ==
  /\ pc' = [pc EXCEPT ![t] = "idle"]
  /\ tbo' = [tbo EXCEPT ![t] = NoBo]
  /\ hold' = [hold EXCEPT ![t] = NoDrv]
  /\ targ' = [targ EXCEPT ![t] = NoArgs]

(* Whether dmabuf_bo_create2 rejects the request with -EINVAL: unsupported *)
(* format, no driver, or use flags no unmask64 consumed.                   *)
Rejected(a, d) ==
  a.fmt \notin SupportedFormats \/ d = NoDrv \/ Residual(a.use) # {}

(* The body of dmabuf_bo_create2 after the driver lookup: the checks,      *)
(* test_only, the heap choice, DMA_HEAP_IOCTL_ALLOC (EBADF on a -1 heap    *)
(* fd, or out of memory), the plane dups, and bo->priv.  buf_fd is closed *)
(* when the call returns; DMA_BUF_SET_NAME failing is only logged.         *)
CreateBody(t) ==
  LET b == tbo[t]
      a == targ[t]
      d == hold[t]
      k == HeapChoice(a.use)
      np == NumPlanes(a.fmt)
  IN  /\ pc[t] = "body"
      /\ \/ /\ Rejected(a, d) \/ a.test
            /\ Return(t)
            /\ UNCHANGED boVars
         \/ /\ ~Rejected(a, d) /\ ~a.test
            /\ d[k] = "bad"
            /\ Return(t)
            /\ UNCHANGED boVars
         \/ /\ ~Rejected(a, d) /\ ~a.test
            /\ d[k] # "bad"
            /\ Return(t)
            /\ UNCHANGED boVars
         \/ /\ ~Rejected(a, d) /\ ~a.test
            /\ d[k] # "bad"
            /\ \E fds \in PlaneDups(np, FdIds \ fdOpen) :
                 /\ boFds' = [boFds EXCEPT ![b] =
                                [p \in Planes |-> IF p <= np THEN fds[p] ELSE NoFd]]
                 /\ fdOpen' = fdOpen \cup ({fds[p] : p \in 1 .. np} \ {NoFd})
            /\ live' = [live EXCEPT ![b] = TRUE]
            /\ boNp' = [boNp EXCEPT ![b] = np]
            /\ boUse' = [boUse EXCEPT ![b] = a.use]
            /\ backing' = [backing EXCEPT ![b] =
                             IF d[k] = "open" THEN k ELSE "system"]
            /\ Return(t)
            /\ UNCHANGED <<mapped, cpu, gpu>>
      /\ UNCHANGED drvVars

(* dmabuf_bo_import: bo->priv of a fresh bo is null; each plane fd of the  *)
(* import data is dup'ed.                                                  *)
ImportBo(b, np) ==
  /\ ~live[b] /\ b \notin Busy
  /\ \E fds \in PlaneDups(np, FdIds \ fdOpen) :
       /\ boFds' = [boFds EXCEPT ![b] =
                      [p \in Planes |-> IF p <= np THEN fds[p] ELSE NoFd]]
       /\ fdOpen' = fdOpen \cup ({fds[p] : p \in 1 .. np} \ {NoFd})
  /\ live' = [live EXCEPT ![b] = TRUE]
  /\ boNp' = [boNp EXCEPT ![b] = np]
  /\ backing' = [backing EXCEPT ![b] = "imported"]
  /\ UNCHANGED <<drvVars, thrVars, boUse, mapped, cpu, gpu>>

(* Mutant: the DmabufBoPriv is not deleted.                                *)
DestroyKeepsFds(b) ==
  /\ live[b] /\ ~mapped[b] /\ b \notin Busy
  /\ live' = [live EXCEPT ![b] = FALSE]
  /\ boFds' = [boFds EXCEPT ![b] = [p \in Planes |-> NoFd]]
  /\ gpu' = [gpu EXCEPT ![b] = {}]
  /\ UNCHANGED <<drvVars, thrVars, boNp, boUse, backing, fdOpen, mapped, cpu>>

(* dmabuf_bo_destroy: deleting the DmabufBoPriv closes every plane fd.     *)
(* Jobs still queued on the old dma-buf are no longer this bo's.           *)
DestroyBo(b) ==
  /\ live[b] /\ ~mapped[b] /\ b \notin Busy
  /\ live' = [live EXCEPT ![b] = FALSE]
  /\ fdOpen' = fdOpen \ {boFds[b][p] : p \in Planes}
  /\ boFds' = [boFds EXCEPT ![b] = [p \in Planes |-> NoFd]]
  /\ backing' = [backing EXCEPT ![b] = "none"]
  /\ gpu' = [gpu EXCEPT ![b] = {}]
  /\ UNCHANGED <<drvVars, thrVars, boNp, boUse, mapped, cpu>>

(* DMA_BUF_SYNC_START: waits for every GPU job on the dma-buf, or is       *)
(* interrupted and fails, which the callers only log.                      *)
SyncStart(b) ==
  \/ gpu[b] = {} /\ cpu' = [cpu EXCEPT ![b] = "begun"]
  \/ SyncMayFail /\ cpu' = [cpu EXCEPT ![b] = "none"]

(* dmabuf_bo_map: mmap of plane 0's fd (MAP_FAILED for a -1 fd, and then   *)
(* nothing changes), then DMA_BUF_SYNC_START.                              *)
MapBo(b) ==
  /\ live[b] /\ ~mapped[b] /\ b \notin Busy
  /\ boFds[b][1] # NoFd
  /\ mapped' = [mapped EXCEPT ![b] = TRUE]
  /\ SyncStart(b)
  /\ UNCHANGED <<drvVars, thrVars, live, boNp, boFds, boUse, backing, fdOpen, gpu>>

(* dmabuf_bo_unmap: DMA_BUF_SYNC_END, then munmap.                         *)
UnmapBo(b) ==
  /\ mapped[b] /\ b \notin Busy
  /\ cpu' = [cpu EXCEPT ![b] = "none"]
  /\ mapped' = [mapped EXCEPT ![b] = FALSE]
  /\ UNCHANGED <<drvVars, thrVars, live, boNp, boFds, boUse, backing, fdOpen, gpu>>

(* Mutant: START issued before END.                                        *)
FlushSwapped(b) ==
  /\ mapped[b] /\ b \notin Busy
  /\ cpu' = [cpu EXCEPT ![b] = "none"]
  /\ UNCHANGED <<drvVars, thrVars, live, boNp, boFds, boUse, backing, fdOpen, mapped, gpu>>

(* dmabuf_bo_flush: DMA_BUF_SYNC_END, then DMA_BUF_SYNC_START.             *)
FlushBo(b) ==
  /\ mapped[b] /\ b \notin Busy
  /\ SyncStart(b)
  /\ UNCHANGED <<drvVars, thrVars, live, boNp, boFds, boUse, backing, fdOpen, mapped, gpu>>

(* dmabuf_driver_close, from drv_destroy when no call is running: deleting *)
(* the DmabufDriverPriv drops its shared_ptr, and the heap fds close.      *)
DriverClose ==
  /\ \A t \in Threads : pc[t] = "idle"
  /\ priv # NoDrv
  /\ priv' = NoDrv
  /\ UNCHANGED <<heaps, orphan, thrVars, boVars>>

(* The environment: the client submits GPU work on an unmapped bo, and the *)
(* kernel signals its end.                                                 *)
GpuSubmit(b, j) ==
  /\ live[b] /\ ~mapped[b] /\ j \notin gpu[b]
  /\ gpu' = [gpu EXCEPT ![b] = gpu[b] \cup {j}]
  /\ UNCHANGED <<drvVars, thrVars, live, boNp, boFds, boUse, backing, fdOpen, mapped, cpu>>

GpuComplete(b, j) ==
  /\ j \in gpu[b]
  /\ gpu' = [gpu EXCEPT ![b] = gpu[b] \ {j}]
  /\ UNCHANGED <<drvVars, thrVars, live, boNp, boFds, boUse, backing, fdOpen, mapped, cpu>>

Next ==
  \/ \E t \in Threads, b \in Bos, a \in Args : CreateStart(t, b, a)
  \/ \E t \in Threads : InitDriver(t) \/ CreateBody(t)
  \/ \E b \in Bos, np \in 1 .. 2 : ImportBo(b, np)
  \/ \E b \in Bos : DestroyBo(b) \/ MapBo(b) \/ UnmapBo(b) \/ FlushBo(b)
  \/ DriverClose
  \/ \E b \in Bos, j \in GpuKind : GpuSubmit(b, j) \/ GpuComplete(b, j)

Spec == Init /\ [][Next]_vars
-----------------------------------------------------------------------------
(* The plane fds of a bo.                                                  *)
BoFdSet(b) == {boFds[b][p] : p \in Planes} \ {NoFd}

(* CPU access is bracketed by the dma-buf sync ioctls: a bo is mapped      *)
(* exactly while a DMA_BUF_SYNC_START is in force on it (dmabuf_bo_map,    *)
(* dmabuf_bo_flush and dmabuf_bo_unmap), and no GPU job runs on a mapped   *)
(* bo, since SYNC_START waited for them.                                   *)
CpuBracket ==
  \A b \in Bos :
    /\ mapped[b] <=> cpu[b] = "begun"
    /\ mapped[b] => gpu[b] = {}

(* Every plane fd the backend dup'ed is held by exactly one plane of one   *)
(* live bo, and dmabuf_bo_destroy closes them all: no fd leaks and none is *)
(* closed twice, across create, import and destroy of concurrent threads.  *)
PlaneFdLedger ==
  /\ fdOpen = UNION {BoFdSet(b) : b \in Bos}
  /\ \A b \in Bos : ~live[b] => BoFdSet(b) = {}
  /\ \A b, c \in Bos, p, q \in Planes :
       <<b, p>> # <<c, q>> /\ boFds[b][p] # NoFd => boFds[b][p] # boFds[c][q]

(* Placement of dmabuf_bo_create2: a bo allocated for scanout, camera or   *)
(* codec use lies in the CMA heap whenever the device has one, any other   *)
(* in the system heap, and no request with flags that no unmask64 consumed *)
(* ever reached DMA_HEAP_IOCTL_ALLOC.                                      *)
ContigPlacement ==
  \A b \in Bos :
    backing[b] \in {"system", "linux,cma"} =>
      /\ Residual(boUse[b]) = {}
      /\ backing[b] = IF /\ boUse[b] \cap ({"SCANOUT"} \cup Camera \cup Codec) # {}
                         /\ "linux,cma" \in heaps
                      THEN "linux,cma" ELSE "system"

(* The lazy initialisation of dmabuf_get_or_init_driver makes one driver:  *)
(* every DmabufDriverPriv made is the one drv->priv points to, so          *)
(* dmabuf_driver_close frees it with its heap fds; none is overwritten.   *)
NoDriverLeak == ~orphan

(* A failing dup() is reported, never kept as an fd: the driver that      *)
(* dmabuf_get_or_init_driver caches has a usable fd for every heap, and a  *)
(* bo that dmabuf_bo_create2 or dmabuf_bo_import handed out has an fd for  *)
(* every plane (no partial bo is handed to the caller).                    *)
NoBadFdKept ==
  /\ priv # NoDrv => \A k \in HeapKind : priv[k] # "bad"
  /\ \A b \in Bos : live[b] => \A p \in 1 .. boNp[b] : boFds[b][p] # NoFd
=============================================================================
