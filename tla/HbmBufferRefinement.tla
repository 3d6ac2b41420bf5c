------------------------- MODULE HbmBufferRefinement -------------------------
(***************************************************************************)
(* Proof that the hbm glue's dri_bo_* calls implement the BufferObject     *)
(* specification under the mapping of HbmBuffer's BO: for every set of     *)
(* values and fds, when the format has one plane (hbm_sync copies plane 0) *)
(* and every mapping the callers ask for reads (so that dri_bo_map waits   *)
(* on the implicit fence).  Each step of Spec is a BufferObject step or    *)
(* leaves the mapped state alone.                                          *)
(***************************************************************************)
EXTENDS HbmBufferProofs

(* No GPU write is in flight while a SW bo is mapped: the map waited for   *)
(* the fence, and no job is submitted on a mapped bo.                      *)
NoGpuWriteMapped == phase = "live" /\ useSw /\ mapFlags # {} => "write" \notin gpu

(* pick_memory_type only decides on staging for SW bos.                    *)
StagedSw == useStaging => useSw

(* A staging bo not mapped for WRITE still holds what hbm_sync copied in.  *)
StgSync == staging /\ "W" \notin mapFlags => stg = real

RInv == IInv /\ NoGpuWriteMapped /\ StagedSw /\ StgSync

LEMMA RInit == Init => RInv
  BY InitIInv DEF Init, RInv, NoGpuWriteMapped, StagedSw, StgSync

(* The success branch of AllocateBo keeps the mapping conjuncts: it starts *)
(* from a bo with no mapping.                                              *)
LEMMA AllocateRInv ==
  ASSUME RInv, NEW imported \in BOOLEAN, AllocateBo(imported)
  PROVE  NoGpuWriteMapped' /\ StagedSw' /\ StgSync'
  <1>1. mapFlags = {} /\ ~staging
    BY DEF AllocateBo, RInv, IInv, HbmBoAccounting
  <1>2. CASE ret' = "fail" /\ UNCHANGED <<resVars, mapVars, real, gpu>>
    BY <1>2 DEF RInv, NoGpuWriteMapped, StagedSw, StgSync, resVars, mapVars
  <1>3. CASE ~(ret' = "fail" /\ UNCHANGED <<resVars, mapVars, real, gpu>>)
    <2>1. PICK sw, st \in BOOLEAN :
            /\ st => sw
            /\ useSw' = sw /\ useStaging' = st
            /\ UNCHANGED mapVars
      BY <1>3 DEF AllocateBo
    <2>2. QED
      BY <1>1, <2>1 DEF NoGpuWriteMapped, StagedSw, StgSync, mapVars
  <1>4. QED
    BY <1>2, <1>3

(* A successful READ map: the fence wait leaves no GPU write in flight on  *)
(* a SW bo, and the staging bo receives the whole buffer.                  *)
LEMMA MapRInv ==
  ASSUME ReadMaps, SinglePlane, RInv, NEW flags \in MapFlagChoices, MapBo(flags)
  PROVE  NoGpuWriteMapped' /\ StagedSw' /\ StgSync'
  <1>1. CASE MapFails
    BY <1>1 DEF MapFails, RInv, NoGpuWriteMapped, StagedSw, StgSync, resVars, mapVars
  <1>2. CASE ~MapFails
    <2>1. "R" \in flags /\ WaitReady(flags) /\ phase = "live"
      BY <1>1, <1>2 DEF MapBo, ReadMaps
    <2>2. Mapped(flags, IF "R" \in flags THEN CopyPlane(FreshPlanes, real, 0)
                                       ELSE FreshPlanes)
      BY <1>1, <1>2 DEF MapBo
    <2>3. useSw => fence # NoFd
      BY <2>1 DEF RInv, IInv, FdOwnership
    <2>4. useSw => "write" \notin gpu
      BY <2>1, <2>3 DEF WaitReady
    <2>5. CpuView' = real' /\ UNCHANGED <<phase, useSw, useStaging, real, gpu>>
      BY <2>1, <2>2, MappedView DEF RInv, IInv, Mapped
    <2>6. staging' = useStaging /\ (staging' => stg' = CpuView')
      BY <2>2 DEF Mapped, CpuView
    <2>7. QED
      BY <2>4, <2>5, <2>6 DEF RInv, NoGpuWriteMapped, StagedSw, StgSync
  <1>3. QED
    BY <1>1, <1>2

(* Every step keeps the strengthened invariant.                            *)
LEMMA RStep ==
  ASSUME ReadMaps, SinglePlane, RInv, [Next]_vars PROVE RInv'
  <1>1. IInv'
    BY NextIsFaulty, StepIInv DEF RInv
  <1>2. NoGpuWriteMapped' /\ StagedSw' /\ StgSync'
    <2>1. CASE CreateBo
      BY <2>1, AllocateRInv DEF CreateBo
    <2>2. CASE ImportBo
      <3>1. CASE AllocateBo(TRUE)
        BY <3>1, AllocateRInv
      <3>2. CASE ~AllocateBo(TRUE)
        <4>1. mapFlags = {} /\ ~staging
          BY <2>2, <3>2 DEF ImportBo, RInv, IInv, HbmBoAccounting
        <4>2. UNCHANGED <<useSw, useStaging, mapVars>>
          BY <2>2, <3>2 DEF ImportBo
        <4>3. QED
          BY <4>1, <4>2 DEF RInv, NoGpuWriteMapped, StagedSw, StgSync, mapVars
      <3>3. QED
        BY <3>1, <3>2
    <2>3. CASE ReleaseBo
      BY <2>3 DEF ReleaseBo, RInv, NoGpuWriteMapped, StagedSw, StgSync, mapVars
    <2>4. CASE DestroyBo
      BY <2>4 DEF DestroyBo, RInv, NoGpuWriteMapped, StagedSw, StgSync, mapVars
    <2>5. ASSUME NEW flags \in MapFlagChoices, MapBo(flags)
          PROVE  NoGpuWriteMapped' /\ StagedSw' /\ StgSync'
      BY <2>5, MapRInv
    <2>6. CASE UnmapBo
      BY <2>6 DEF UnmapBo, Unmapped, RInv, NoGpuWriteMapped, StagedSw, StgSync
    <2>7. ASSUME NEW p \in Planes, NEW v \in Values, CpuWrite(p, v)
          PROVE  NoGpuWriteMapped' /\ StagedSw' /\ StgSync'
      BY <2>7 DEF CpuWrite, RInv, NoGpuWriteMapped, StagedSw, StgSync, resVars
    <2>8. ASSUME NEW k \in {"read", "write"}, GpuSubmit(k)
          PROVE  NoGpuWriteMapped' /\ StagedSw' /\ StgSync'
      BY <2>8 DEF GpuSubmit, RInv, NoGpuWriteMapped, StagedSw, StgSync, resVars, mapVars
    <2>9. ASSUME NEW k \in {"read", "write"}, GpuComplete(k)
          PROVE  NoGpuWriteMapped' /\ StagedSw' /\ StgSync'
      <3>1. UNCHANGED <<resVars, mapVars>> /\ gpu' \subseteq gpu
        BY <2>9 DEF GpuComplete
      <3>2. staging => phase = "live" /\ useSw /\ mapFlags # {}
        BY DEF RInv, IInv, HbmBoAccounting, StagedSw
      <3>3. staging => UNCHANGED real
        BY <2>9, <3>2 DEF GpuComplete, RInv, NoGpuWriteMapped
      <3>4. QED
        BY <3>1, <3>3 DEF RInv, NoGpuWriteMapped, StagedSw, StgSync, resVars, mapVars
    <2>10. CASE UNCHANGED vars
      BY <2>10 DEF vars, resVars, mapVars, RInv, NoGpuWriteMapped, StagedSw, StgSync
    <2>11. QED
      BY <2>1, <2>2, <2>3, <2>4, <2>5, <2>6, <2>7, <2>8, <2>9, <2>10 DEF Next
  <1>3. QED
    BY <1>1, <1>2 DEF RInv

-----------------------------------------------------------------------------
(* With no mapping there is no staging bo, and the CPU pointer is the     *)
(* buffer itself.                                                          *)
LEMMA IdleView == ASSUME IInv, mapFlags = {} PROVE ~staging /\ CpuView = real
  BY DEF IInv, HbmBoAccounting, CpuView

(* hbm_allocate or hbm_import, then hbm_reimport_to_driver: an allocation  *)
(* or an import of the abstract bo, or nothing.                            *)
LEMMA AllocateRef ==
  ASSUME RInv, NEW imported \in BOOLEAN, AllocateBo(imported)
  PROVE  [BO!Next]_BO!vars
  <1>1. ~staging /\ mapFlags = {}
    BY IdleView DEF AllocateBo, RInv, IInv
  <1>2. CASE ret' = "fail" /\ UNCHANGED <<resVars, mapVars, real, gpu>>
    BY <1>2 DEF BO!vars, CpuView, resVars, mapVars
  <1>3. CASE ~(ret' = "fail" /\ UNCHANGED <<resVars, mapVars, real, gpu>>)
    <2>1. PICK sw, st \in BOOLEAN :
            /\ phase' = "live"
            /\ useSw' = sw
            /\ IF imported THEN real' \in [Planes -> Values]
                           ELSE real' = FreshPlanes
            /\ UNCHANGED <<mapVars, gpu>>
      BY <1>3 DEF AllocateBo
    <2>2. phase = "none" /\ CpuView' = real' /\ UNCHANGED <<mapFlags, gpu>>
      BY <1>1, <2>1 DEF AllocateBo, CpuView, mapVars
    <2>3. CASE imported
      <3>1. BO!Import
        BY <2>1, <2>2, <2>3 DEF BO!Import, BO!Planes, Planes
      <3>2. QED
        BY <3>1 DEF BO!Next
    <2>4. CASE ~imported
      <3>1. BO!Allocate
        BY <2>1, <2>2, <2>4 DEF BO!Allocate, BO!Planes, Planes, FreshPlanes
      <3>2. QED
        BY <3>1 DEF BO!Next
    <2>5. QED
      BY <2>3, <2>4
  <1>4. QED
    BY <1>2, <1>3

(* dri_bo_map: a failed map changes nothing the caller sees; a successful *)
(* READ map shows the buffer.                                              *)
LEMMA MapRef ==
  ASSUME ReadMaps, SinglePlane, RInv, NEW flags \in MapFlagChoices, MapBo(flags)
  PROVE  [BO!Next]_BO!vars
  <1>1. CASE MapFails
    BY <1>1 DEF MapFails, BO!vars, CpuView, resVars, mapVars
  <1>2. CASE ~MapFails
    <2>1. "R" \in flags /\ phase = "live" /\ mapFlags = {}
      BY <1>1, <1>2 DEF MapBo, ReadMaps
    <2>2. Mapped(flags, IF "R" \in flags THEN CopyPlane(FreshPlanes, real, 0)
                                       ELSE FreshPlanes)
      BY <1>1, <1>2 DEF MapBo
    <2>3. CpuView' = real' /\ UNCHANGED <<phase, useSw, real, gpu>> /\ mapFlags' = flags
      BY <2>1, <2>2, MappedView DEF RInv, IInv, Mapped
    <2>4. CpuView = real
      BY <2>1, IdleView DEF RInv
    <2>5. useSw /\ "W" \in flags => "read" \notin gpu
      <3>1. WaitReady(flags)
        BY <1>1, <1>2, <2>1 DEF MapBo
      <3>2. useSw => fence # NoFd
        BY <2>1 DEF RInv, IInv, FdOwnership
      <3>3. QED
        BY <3>1, <3>2 DEF WaitReady
    <2>6. BO!Map(flags)
      BY <2>1, <2>3, <2>4, <2>5 DEF BO!Map
    <2>7. QED
      BY <2>6 DEF BO!Next
  <1>3. QED
    BY <1>1, <1>2

(* dri_bo_unmap: the buffer ends up holding what the CPU pointer showed.  *)
LEMMA UnmapRef ==
  ASSUME SinglePlane, RInv, UnmapBo PROVE [BO!Next]_BO!vars
  <1>1. mapFlags # {} /\ mapFlags' = {} /\ ~staging' /\ staging = useStaging
        /\ UNCHANGED <<phase, useSw, gpu>>
    BY DEF UnmapBo, Unmapped, RInv, IInv
  <1>2. real' = CpuView
    <2>1. CASE staging /\ "W" \in mapFlags
      <3>1. real' = CopyPlane(real, stg, 0)
        BY <1>1, <2>1 DEF UnmapBo
      <3>2. CopyPlane(real, stg, 0) = stg
        BY CopyWhole DEF RInv, IInv, TypeOK
      <3>3. QED
        BY <2>1, <3>1, <3>2 DEF CpuView
    <2>2. CASE staging /\ "W" \notin mapFlags
      BY <1>1, <2>2 DEF UnmapBo, RInv, StgSync, CpuView
    <2>3. CASE ~staging
      BY <1>1, <2>3 DEF UnmapBo, CpuView
    <2>4. QED
      BY <2>1, <2>2, <2>3
  <1>3. CpuView' = real'
    BY <1>1 DEF CpuView
  <1>4. BO!Unmap
    BY <1>1, <1>2, <1>3 DEF BO!Unmap
  <1>5. QED
    BY <1>4 DEF BO!Next

(* A CPU store reaches the staging bo or, for a direct mapping, the        *)
(* buffer.                                                                 *)
LEMMA StoreRef ==
  ASSUME RInv, NEW p \in Planes, NEW v \in Values, CpuWrite(p, v)
  PROVE  [BO!Next]_BO!vars
  <1>1. "W" \in mapFlags /\ UNCHANGED <<phase, useSw, mapFlags, staging, gpu>>
    BY DEF CpuWrite, resVars
  <1>2. CpuView' = [CpuView EXCEPT ![p] = v]
    BY DEF CpuWrite, CpuView, RInv, IInv, TypeOK
  <1>3. real' = real \/ real' = CpuView'
    BY <1>2 DEF CpuWrite, CpuView
  <1>4. BO!Store(p, v)
    BY <1>1, <1>2, <1>3 DEF BO!Store
  <1>5. QED
    BY <1>4 DEF BO!Next, BO!Planes, Planes

(* A GPU job ends: a write is a device write the abstract bo allows, as    *)
(* no SW bo is mapped with a write in flight; a read ends a device read.   *)
LEMMA GpuRef ==
  ASSUME RInv, NEW k \in {"read", "write"}, GpuComplete(k)
  PROVE  [BO!Next]_BO!vars
  <1>1. UNCHANGED <<resVars, mapVars>>
    BY DEF GpuComplete
  <1>2. CASE k = "read"
    <2>1. BO!DeviceReadEnd
      BY <1>1, <1>2 DEF GpuComplete, BO!DeviceReadEnd, CpuView, resVars, mapVars
    <2>2. QED
      BY <2>1 DEF BO!Next
  <1>3. CASE k = "write"
    <2>1. ~(phase = "live" /\ useSw /\ mapFlags # {})
      BY <1>3 DEF GpuComplete, RInv, NoGpuWriteMapped
    <2>2. ~staging
      BY <2>1 DEF RInv, IInv, HbmBoAccounting, StagedSw
    <2>3. real' \in [Planes -> Values] /\ CpuView' = real'
      <3>1. real' \in [Planes -> Values]
        BY <1>3 DEF GpuComplete
      <3>2. ~staging'
        BY <1>1, <2>2 DEF mapVars
      <3>3. QED
        BY <3>1, <3>2 DEF CpuView
    <2>4. BO!DeviceWrite
      <3>1. ("read" \in gpu') = ("read" \in gpu)
        BY <1>3 DEF GpuComplete
      <3>2. QED
        BY <1>1, <2>1, <2>3, <3>1 DEF BO!DeviceWrite, BO!Planes, Planes, resVars, mapVars
    <2>5. QED
      BY <2>4 DEF BO!Next
  <1>4. QED
    BY <1>2, <1>3

(* Every step of the glue is a step of the abstract bo or a stutter.      *)
LEMMA RefStep ==
  ASSUME ReadMaps, SinglePlane, RInv, [Next]_vars PROVE [BO!Next]_BO!vars
  <1>1. CASE CreateBo
    BY <1>1, AllocateRef DEF CreateBo
  <1>2. CASE ImportBo
    <2>1. CASE AllocateBo(TRUE)
      BY <2>1, AllocateRef
    <2>2. CASE ~AllocateBo(TRUE)
      <3>0. phase = "none" /\ UNCHANGED <<useSw, mapVars, gpu>>
        BY <1>2, <2>2 DEF ImportBo
      <3>1. phase = "none" /\ UNCHANGED <<useSw, mapVars, gpu>> /\ ~staging /\ CpuView = real
        <4>1. mapFlags = {}
          BY <3>0 DEF RInv, IInv
        <4>2. QED
          BY <3>0, <4>1, IdleView DEF RInv
      <3>2. CpuView' = real'
        BY <3>1 DEF CpuView, mapVars
      <3>3. CASE phase' = "prime" /\ real' \in [Planes -> Values]
        <4>1. BO!Import
          <5>1. phase = "none" /\ phase' = "prime" /\ useSw' = useSw
            BY <3>1, <3>3
          <5>2. real' \in [BO!Planes -> Values] /\ CpuView' = real'
            BY <3>2, <3>3 DEF BO!Planes, Planes
          <5>3. mapFlags' = mapFlags /\ gpu' = gpu
            BY <3>1 DEF mapVars
          <5>4. QED
            BY <5>1, <5>2, <5>3 DEF BO!Import
        <4>2. QED
          BY <4>1 DEF BO!Next
      <3>4. CASE ~(phase' = "prime" /\ real' \in [Planes -> Values])
        BY <1>2, <2>2, <3>1, <3>4 DEF ImportBo, BO!vars, CpuView, mapVars
      <3>5. QED
        BY <3>3, <3>4
    <2>3. QED
      BY <2>1, <2>2
  <1>3. CASE ReleaseBo
    <2>1. BO!Release
      BY <1>3 DEF ReleaseBo, BO!Release, CpuView, mapVars
    <2>2. QED
      BY <2>1 DEF BO!Next
  <1>4. CASE DestroyBo
    <2>1. BO!Destroy
      BY <1>4 DEF DestroyBo, BO!Destroy, CpuView, mapVars
    <2>2. QED
      BY <2>1 DEF BO!Next
  <1>5. CASE \E flags \in MapFlagChoices : MapBo(flags)
    BY <1>5, MapRef
  <1>6. CASE UnmapBo
    BY <1>6, UnmapRef
  <1>7. CASE \E p \in Planes, v \in Values : CpuWrite(p, v)
    BY <1>7, StoreRef
  <1>8. CASE \E k \in {"read", "write"} : GpuSubmit(k)
    <2>1. PICK k \in {"read", "write"} : GpuSubmit(k)
      BY <1>8
    <2>2. CASE k = "read"
      <3>1. BO!DeviceReadStart
        BY <2>1, <2>2 DEF GpuSubmit, BO!DeviceReadStart, CpuView, resVars, mapVars
      <3>2. QED
        BY <3>1 DEF BO!Next
    <2>3. CASE k = "write"
      BY <2>1, <2>3 DEF GpuSubmit, BO!vars, CpuView, resVars, mapVars
    <2>4. QED
      BY <2>2, <2>3
  <1>9. CASE \E k \in {"read", "write"} : GpuComplete(k)
    BY <1>9, GpuRef
  <1>10. CASE UNCHANGED vars
    BY <1>10 DEF vars, BO!vars, CpuView, resVars, mapVars
  <1>11. QED
    BY <1>1, <1>2, <1>3, <1>4, <1>5, <1>6, <1>7, <1>8, <1>9, <1>10 DEF Next

(* For single-plane bos mapped with READ, the dri_bo_* calls of the hbm    *)
(* glue keep every promise of a buffer object (dri_bo_map, dri_bo_unmap,   *)
(* hbm_sync, wait_resource): a READ map shows the buffer, a WRITE map of a *)
(* SW bo waits for GPU reads, the GPU does not write a mapped SW bo, and   *)
(* an unmap publishes what the CPU saw and stored, for every set of values *)
(* and fds.                                                                *)
THEOREM RefinementThm ==
  ASSUME ReadMaps, SinglePlane PROVE Spec => ImplementsBufferObject
  <1>1. Init => BO!Init
    BY DEF Init, BO!Init, BO!Planes, Planes, FreshPlanes, CpuView
  <1>2. Spec => []RInv
    BY RInit, RStep, PTL DEF Spec
  <1>3. RInv /\ [Next]_vars => [BO!Next]_BO!vars
    BY RefStep
  <1>4. QED
    BY <1>1, <1>2, <1>3, PTL DEF Spec, ImplementsBufferObject, BO!Spec
=============================================================================
