-------------------------- MODULE HbmBufferProofs --------------------------
(***************************************************************************)
(* Proofs about HbmBuffer for every value of its constants: the type       *)
(* invariant, and that no fd and no hbm_bo the glue creates is ever        *)
(* leaked or left without an owner, even when dri_bo_map and dri_bo_unmap  *)
(* swallow sync failures (SpecFaulty, whose steps include those of Spec);  *)
(* and the coherence of CPU mappings when every mapping reads.             *)
(***************************************************************************)
EXTENDS HbmBuffer, TLAPS

(* The ownership invariants do not hold inductively on their own: an      *)
(* unmap must know that the mapping's staging bo matches the resource's    *)
(* staging decision, and a release that no mapping (hence no staging bo)   *)
(* is left.                                                                *)
IInv ==
  /\ TypeOK
  /\ FdOwnership
  /\ HbmBoAccounting
  /\ mapFlags # {} => phase = "live" /\ staging = useStaging

LEMMA NextIsFaulty == [Next]_vars => [NextFaulty]_vars
  BY DEF NextFaulty

-----------------------------------------------------------------------------
LEMMA InitIInv == Init => IInv
  <1> SUFFICES ASSUME Init PROVE IInv
    OBVIOUS
  <1>1. TypeOK
    BY DEF Init, TypeOK, FreshPlanes, NoBelief, Data
  <1>2. FdOwnership
    BY DEF Init, FdOwnership
  <1>3. HbmBoAccounting
    BY DEF Init, HbmBoAccounting
  <1>4. QED
    BY <1>1, <1>2, <1>3 DEF Init, IInv

(* The success branch of AllocateBo, for both entry points.                *)
LEMMA AllocateIInv ==
  ASSUME IInv, NEW imported \in BOOLEAN, AllocateBo(imported)
  PROVE  IInv'
  <1> USE DataAssumption, FdAssumption DEF IInv, TypeOK, FdOwnership, HbmBoAccounting
  <1>1. CASE ret' = "fail" /\ UNCHANGED <<resVars, mapVars, real, gpu>>
    BY <1>1 DEF resVars, mapVars
  <1>2. CASE \E sw, st \in BOOLEAN :
               /\ st => sw
               /\ ReimportOk(imported, sw)
               /\ phase' = "live" /\ useSw' = sw /\ useStaging' = st
               /\ hbmBos' = hbmBos + 1 /\ gem' = TRUE
               /\ IF imported THEN real' \in [Planes -> Values]
                              ELSE real' = FreshPlanes
               /\ ret' = "ok"
               /\ UNCHANGED <<mapVars, gpu>>
    <2>1. PICK sw, st \in BOOLEAN :
               /\ st => sw
               /\ ReimportOk(imported, sw)
               /\ phase' = "live" /\ useSw' = sw /\ useStaging' = st
               /\ hbmBos' = hbmBos + 1 /\ gem' = TRUE
               /\ IF imported THEN real' \in [Planes -> Values]
                              ELSE real' = FreshPlanes
               /\ ret' = "ok"
               /\ UNCHANGED <<mapVars, gpu>>
      BY <1>2
    <2>2. PICK fd \in IF NeedsOwnedFd(imported, sw) THEN FreeFds ELSE {NoFd} :
               /\ fence' = IF sw THEN fd ELSE NoFd
               /\ fdOpen' = IF sw THEN fdOpen \cup {fd} ELSE fdOpen
      BY <2>1 DEF ReimportOk
    <2>3. phase = "none" /\ fence = NoFd /\ fdOpen = {} /\ hbmBos = 0 /\ ~staging
      BY DEF AllocateBo
    <2>4. sw => fd \in FdIds
      BY <2>2 DEF NeedsOwnedFd, FreeFds
    <2>5. (real \in [Planes -> Data])'
      BY <2>1 DEF FreshPlanes, Data
    <2>6. QED
      BY <2>1, <2>2, <2>3, <2>4, <2>5 DEF mapVars
  <1>3. QED
    BY <1>1, <1>2 DEF AllocateBo

LEMMA MapIInv ==
  ASSUME IInv, NEW flags \in MapFlagChoices,
         MapBo(flags) \/ MapSyncFails(flags)
  PROVE  IInv'
  <1> USE DEF IInv
  <1>1. CASE MapFails
    BY <1>1 DEF MapFails, resVars, mapVars, TypeOK, FdOwnership, HbmBoAccounting
  <1>2. ASSUME NEW view \in [Planes -> Data], Mapped(flags, view)
        PROVE  IInv'
    <2>1. phase = "live" /\ mapFlags = {} /\ ~staging
      BY DEF MapBo, MapSyncFails, MapFails, HbmBoAccounting
    <2>2. flags # {}
      BY FlagsAssumption
    <2>3. TypeOK'
      BY <1>2, <2>1 DEF Mapped, TypeOK, NoBelief, Data, FreshPlanes
    <2>4. FdOwnership'
      BY <1>2, <2>1 DEF Mapped, FdOwnership
    <2>5. HbmBoAccounting'
      BY <1>2, <2>1, <2>2 DEF Mapped, HbmBoAccounting, TypeOK
    <2>6. (mapFlags # {} => phase = "live" /\ staging = useStaging)'
      BY <1>2, <2>1 DEF Mapped
    <2>7. QED
      BY <2>3, <2>4, <2>5, <2>6
  <1>3. CopyPlane(FreshPlanes, real, 0) \in [Planes -> Data]
    BY PlanesAssumption DEF CopyPlane, FreshPlanes, Data, Planes, TypeOK
  <1>4. FreshPlanes \in [Planes -> Data]
    BY DEF FreshPlanes, Data
  <1>5. QED
    BY <1>1, <1>2, <1>3, <1>4 DEF MapBo, MapSyncFails

LEMMA UnmapIInv ==
  ASSUME IInv, UnmapBo \/ UnmapSyncFails
  PROVE  IInv'
  <1> USE DEF IInv
  <1>1. phase = "live" /\ staging = useStaging /\ mapFlags # {} /\ Unmapped
    BY DEF UnmapBo, UnmapSyncFails
  <1>2. (real \in [Planes -> Data])'
    BY DEF UnmapBo, UnmapSyncFails, CopyPlane, Planes, TypeOK
  <1>3. TypeOK'
    <2>1. hbmBos' \in Nat
      BY <1>1 DEF Unmapped, HbmBoAccounting, TypeOK
    <2>2. stg' \in [Planes -> Data] /\ belief' \in [Planes -> Data \cup {Unknown}]
      BY <1>1 DEF Unmapped, NoBelief, FreshPlanes, Data
    <2>3. QED
      BY <1>1, <1>2, <2>1, <2>2 DEF Unmapped, TypeOK
  <1>4. FdOwnership'
    BY <1>1 DEF Unmapped, FdOwnership
  <1>5. HbmBoAccounting'
    BY <1>1 DEF Unmapped, HbmBoAccounting, TypeOK
  <1>6. QED
    BY <1>1, <1>3, <1>4, <1>5 DEF Unmapped

LEMMA StepIInv == IInv /\ [NextFaulty]_vars => IInv'
  <1> SUFFICES ASSUME IInv, [NextFaulty]_vars PROVE IInv'
    OBVIOUS
  <1>1. CASE CreateBo
    BY <1>1, AllocateIInv DEF CreateBo
  <1>2. CASE ImportBo
    <2>1. CASE AllocateBo(TRUE)
      BY <2>1, AllocateIInv
    <2>2. CASE ~AllocateBo(TRUE)
      <3>1. phase = "none" /\ UNCHANGED <<useSw, useStaging, fence, fdOpen, hbmBos, mapVars, gpu>>
        BY <1>2, <2>2 DEF ImportBo
      <3>2. ~staging /\ mapFlags = {} /\ hbmBos = 0
        BY <3>1 DEF IInv, HbmBoAccounting, TypeOK
      <3>3. phase' \in {"none", "prime"} /\ gem' \in BOOLEAN /\ ret' \in {"ok", "fail"}
        BY <1>2, <2>2, <3>1 DEF ImportBo, IInv, TypeOK
      <3>4. (real \in [Planes -> Data])'
        BY <1>2, <2>2, <3>1 DEF ImportBo, IInv, TypeOK, Data
      <3>5. QED
        BY <3>1, <3>2, <3>3, <3>4 DEF IInv, TypeOK, FdOwnership, HbmBoAccounting, mapVars
    <2>3. QED
      BY <2>1, <2>2
  <1>3. CASE ReleaseBo
    BY <1>3 DEF ReleaseBo, HbmFree, IInv, TypeOK, FdOwnership, HbmBoAccounting, mapVars
  <1>4. CASE DestroyBo
    BY <1>4 DEF DestroyBo, IInv, TypeOK, FdOwnership, HbmBoAccounting, mapVars
  <1>5. CASE \E flags \in MapFlagChoices : MapBo(flags) \/ MapSyncFails(flags)
    BY <1>5, MapIInv
  <1>6. CASE UnmapBo \/ UnmapSyncFails
    BY <1>6, UnmapIInv
  <1>7. CASE \E p \in Planes, v \in Values : CpuWrite(p, v)
    BY <1>7 DEF CpuWrite, IInv, TypeOK, FdOwnership, HbmBoAccounting, resVars, Data
  <1>8. CASE \E k \in {"read", "write"} : GpuSubmit(k)
    BY <1>8 DEF GpuSubmit, IInv, TypeOK, FdOwnership, HbmBoAccounting, resVars, mapVars
  <1>9. CASE \E k \in {"read", "write"} : GpuComplete(k)
    BY <1>9 DEF GpuComplete, IInv, TypeOK, FdOwnership, HbmBoAccounting, resVars, mapVars, Data
  <1>10. CASE UNCHANGED vars
    BY <1>10 DEF vars, resVars, mapVars, IInv, TypeOK, FdOwnership, HbmBoAccounting
  <1>11. QED
    BY <1>1, <1>2, <1>3, <1>4, <1>5, <1>6, <1>7, <1>8, <1>9, <1>10 DEF NextFaulty, Next

-----------------------------------------------------------------------------
(* The type invariant holds in every behaviour, sync failures included.    *)
THEOREM TypeCorrect == SpecFaulty => []TypeOK
  <1>1. IInv => TypeOK
    BY DEF IInv
  <1>2. QED
    BY <1>1, InitIInv, StepIInv, PTL DEF SpecFaulty

(* The glue never leaks an fd or an hbm_bo and never loses the implicit    *)
(* fence of a SW resource, along every sequence of dri_bo_* calls, GPU     *)
(* jobs and swallowed sync failures (hbm_allocate, hbm_import,             *)
(* hbm_reimport_to_driver, hbm_map, hbm_unmap, hbm_free).                  *)
THEOREM OwnershipSafe == SpecFaulty => [](FdOwnership /\ HbmBoAccounting)
  <1>1. IInv => FdOwnership /\ HbmBoAccounting
    BY DEF IInv
  <1>2. QED
    BY <1>1, InitIInv, StepIInv, PTL DEF SpecFaulty

(* The same holds for the behaviours without sync failures.                *)
THEOREM OwnershipSafeSpec == Spec => [](FdOwnership /\ HbmBoAccounting)
  <1>1. IInv /\ [Next]_vars => IInv'
    BY NextIsFaulty, StepIInv
  <1>2. QED
    BY <1>1, InitIInv, PTL DEF Spec, IInv

-----------------------------------------------------------------------------
(* The CPU mapping: the GPU stays off a mapped SW bo, a READ mapping shows  *)
(* the buffer, and an unmap publishes the CPU's view.                     *)

(* Every map_flags value the callers pass includes BO_MAP_READ, so that    *)
(* dri_bo_map waits on the implicit fence (hbm_core's MapFlagChoices).     *)
ReadMaps == \A f \in MapFlagChoices : "R" \in f

(* The format has one plane: hbm_sync copies plane 0 only.                 *)
SinglePlane == NumPlanes = 1

XInv == IInv /\ CpuAccessExcludesGpu

(* The steps that neither map nor unmap keep the mapping flags.            *)
LEMMA MapFlagsFrame ==
  ASSUME IInv, [Next]_vars,
         ~\E flags \in MapFlagChoices : MapBo(flags),
         ~UnmapBo
  PROVE  UNCHANGED mapFlags
  <1>1. CASE CreateBo
    BY <1>1 DEF CreateBo, AllocateBo, mapVars
  <1>2. CASE ImportBo
    BY <1>2 DEF ImportBo, AllocateBo, mapVars
  <1>3. CASE ReleaseBo
    BY <1>3 DEF ReleaseBo, mapVars
  <1>4. CASE DestroyBo
    BY <1>4 DEF DestroyBo, mapVars
  <1>5. CASE \E p \in Planes, v \in Values : CpuWrite(p, v)
    BY <1>5 DEF CpuWrite
  <1>6. CASE \E k \in {"read", "write"} : GpuSubmit(k) \/ GpuComplete(k)
    BY <1>6 DEF GpuSubmit, GpuComplete, mapVars
  <1>7. CASE UNCHANGED vars
    BY <1>7 DEF vars, mapVars
  <1>8. QED
    BY <1>1, <1>2, <1>3, <1>4, <1>5, <1>6, <1>7 DEF Next

(* With every mapping a READ mapping, the fence wait of dri_bo_map keeps   *)
(* the GPU off a directly mapped SW bo.                                    *)
LEMMA XStep ==
  ASSUME ReadMaps, XInv, [Next]_vars PROVE CpuAccessExcludesGpu'
  <1> USE DEF XInv
  <1>1. ASSUME NEW flags \in MapFlagChoices, MapBo(flags) PROVE CpuAccessExcludesGpu'
    <2>1. CASE MapFails
      BY <1>1, <2>1 DEF MapFails, CpuAccessExcludesGpu, resVars, mapVars
    <2>2. CASE ~MapFails
      <3>1. "R" \in flags /\ WaitReady(flags) /\ phase = "live"
        BY <1>1, <2>2 DEF MapBo, ReadMaps
      <3>2. useSw => fence # NoFd
        BY <3>1 DEF IInv, FdOwnership
      <3>3. /\ mapFlags' = flags /\ UNCHANGED <<phase, useSw, useStaging, gpu>>
        BY <1>1, <2>2 DEF MapBo, Mapped
      <3>4. useSw => IF "W" \in flags THEN gpu = {} ELSE "write" \notin gpu
        BY <3>1, <3>2 DEF WaitReady
      <3>5. useSw => ("W" \in flags => gpu = {}) /\ "write" \notin gpu
        BY <3>4
      <3>6. QED
        BY <3>3, <3>5 DEF CpuAccessExcludesGpu
    <2>3. QED
      BY <2>1, <2>2
  <1>2. CASE UnmapBo
    BY <1>2 DEF UnmapBo, Unmapped, CpuAccessExcludesGpu
  <1>3. CASE (~\E flags \in MapFlagChoices : MapBo(flags)) /\ ~UnmapBo
    <2>1. UNCHANGED mapFlags
      BY <1>3, MapFlagsFrame
    <2>2. CASE mapFlags = {}
      BY <2>1, <2>2 DEF CpuAccessExcludesGpu
    <2>3. CASE mapFlags # {}
      <3>1. phase = "live"
        BY <2>3 DEF IInv
      <3>2. UNCHANGED <<phase, useSw, useStaging>> /\ gpu' \subseteq gpu
        <4>1. ASSUME NEW k \in {"read", "write"}, GpuSubmit(k) PROVE FALSE
          BY <4>1, <2>1, <2>3 DEF GpuSubmit
        <4>6. ASSUME NEW k \in {"read", "write"}, GpuComplete(k)
              PROVE  UNCHANGED <<phase, useSw, useStaging>> /\ gpu' \subseteq gpu
          BY <4>6 DEF GpuComplete, resVars
        <4>2. CASE \E p \in Planes, v \in Values : CpuWrite(p, v)
          BY <4>2 DEF CpuWrite, resVars
        <4>3. CASE UNCHANGED vars
          BY <4>3 DEF vars, resVars
        <4>4. CASE CreateBo \/ ImportBo \/ ReleaseBo \/ DestroyBo
          BY <4>4, <3>1, <2>3 DEF CreateBo, ImportBo, AllocateBo, ReleaseBo, DestroyBo
        <4>5. QED
          BY <1>3, <4>1, <4>2, <4>3, <4>4, <4>6 DEF Next
      <3>3. QED
        BY <2>1, <3>2 DEF CpuAccessExcludesGpu
    <2>4. QED
      BY <2>2, <2>3
  <1>4. QED
    BY <1>1, <1>2, <1>3

(* The fence wait at map time keeps a directly mapped SW bo free of GPU    *)
(* writes, and of every GPU access while the mapping may write, along      *)
(* every sequence of dri_bo_* calls and GPU jobs in which every mapping is *)
(* a READ mapping (dri_bo_map, hbm_sync, wait_resource).                   *)
THEOREM CpuAccessExcludesGpuThm ==
  ASSUME ReadMaps PROVE Spec => []CpuAccessExcludesGpu
  <1>1. Init => XInv
    BY InitIInv DEF Init, XInv, CpuAccessExcludesGpu
  <1>2. XInv /\ [Next]_vars => XInv'
    BY XStep, NextIsFaulty, StepIInv DEF XInv
  <1>3. QED
    BY <1>1, <1>2, PTL DEF Spec, XInv

(* While a SW bo is mapped, every plane the CPU has read or stored holds,  *)
(* through the CPU's pointer, what the CPU expects.                        *)
BeliefMatches ==
  mapFlags # {} /\ useSw =>
    \A p \in Planes : belief[p] # Unknown => CpuView[p] = belief[p]

(* With one plane, the copy hbm_sync makes of plane 0 is the whole buffer. *)
LEMMA CopyWhole ==
  ASSUME SinglePlane, NEW dst \in [Planes -> Data], NEW src \in [Planes -> Data]
  PROVE  CopyPlane(dst, src, 0) = src
  BY DEF SinglePlane, Planes, CopyPlane

(* A successful READ mapping shows the CPU the buffer.                     *)
LEMMA MappedView ==
  ASSUME SinglePlane, TypeOK, NEW flags, "R" \in flags,
         Mapped(flags, IF "R" \in flags THEN CopyPlane(FreshPlanes, real, 0)
                                       ELSE FreshPlanes)
  PROVE  CpuView' = real' /\ belief' = real'
  <1>1. CopyPlane(FreshPlanes, real, 0) = real
    BY CopyWhole DEF TypeOK, FreshPlanes, Data
  <1>2. QED
    BY <1>1 DEF Mapped, CpuView

LEMMA BStep ==
  ASSUME ReadMaps, SinglePlane, XInv, BeliefMatches, [Next]_vars
  PROVE  BeliefMatches'
  <1> USE DEF XInv
  <1>1. ASSUME NEW flags \in MapFlagChoices, MapBo(flags) PROVE BeliefMatches'
    <2>1. CASE MapFails
      BY <1>1, <2>1 DEF MapBo, MapFails, BeliefMatches, resVars, mapVars, IInv
    <2>2. CASE ~MapFails
      <3>1. "R" \in flags
        BY DEF ReadMaps
      <3>2. CpuView' = real' /\ belief' = real'
        BY <1>1, <2>2, <3>1, MappedView DEF MapBo, IInv
      <3>3. QED
        BY <3>2 DEF BeliefMatches
    <2>3. QED
      BY <2>1, <2>2
  <1>2. CASE UnmapBo
    BY <1>2 DEF UnmapBo, Unmapped, BeliefMatches
  <1>3. ASSUME NEW p \in Planes, NEW v \in Values, CpuWrite(p, v) PROVE BeliefMatches'
    <2>1. UNCHANGED <<mapFlags, staging, useSw>>
      BY <1>3 DEF CpuWrite, resVars
    <2>2. belief' = [belief EXCEPT ![p] = v] /\ CpuView' = [CpuView EXCEPT ![p] = v]
      BY <1>3 DEF CpuWrite, CpuView, IInv, TypeOK
    <2>3. QED
      BY <2>1, <2>2 DEF BeliefMatches, IInv, TypeOK, CpuView
  <1>4. ASSUME NEW k \in {"read", "write"}, GpuComplete(k) PROVE BeliefMatches'
    <2>1. UNCHANGED <<mapFlags, staging, stg, belief, useSw>>
      BY <1>4 DEF GpuComplete, resVars, mapVars
    <2>2. CASE mapFlags # {} /\ useSw /\ ~staging
      <3>1. phase = "live" /\ ~useStaging /\ "R" \in mapFlags
        BY <2>2 DEF IInv, TypeOK, ReadMaps
      <3>2. k # "write"
        BY <1>4, <3>1, <2>2 DEF GpuComplete, CpuAccessExcludesGpu
      <3>3. UNCHANGED real
        BY <1>4, <3>2 DEF GpuComplete
      <3>4. QED
        BY <2>1, <3>3 DEF BeliefMatches, CpuView
    <2>3. CASE ~(mapFlags # {} /\ useSw /\ ~staging)
      BY <2>1, <2>3 DEF BeliefMatches, CpuView
    <2>4. QED
      BY <2>2, <2>3
  <1>5. ASSUME NEW k \in {"read", "write"}, GpuSubmit(k) PROVE BeliefMatches'
    BY <1>5 DEF GpuSubmit, mapVars, BeliefMatches
  <1>6. CASE CreateBo \/ ImportBo \/ ReleaseBo \/ DestroyBo
    <2>1. mapFlags = {}
      BY <1>6 DEF CreateBo, ImportBo, AllocateBo, ReleaseBo, DestroyBo, IInv
    <2>2. UNCHANGED mapFlags
      BY <1>6 DEF CreateBo, ImportBo, AllocateBo, ReleaseBo, DestroyBo, mapVars
    <2>3. QED
      BY <2>1, <2>2 DEF BeliefMatches
  <1>7. CASE UNCHANGED vars
    BY <1>7 DEF vars, resVars, mapVars, BeliefMatches, CpuView
  <1>8. QED
    BY <1>1, <1>2, <1>3, <1>4, <1>5, <1>6, <1>7 DEF Next

(* Only a successful dri_bo_map puts a mapping in place, and only          *)
(* dri_bo_unmap removes one.                                               *)
LEMMA MapFlagsChange ==
  ASSUME IInv, [Next]_vars, mapFlags' # mapFlags
  PROVE  \/ \E flags \in MapFlagChoices : MapBo(flags) /\ ~MapFails
         \/ UnmapBo
  <1>1. CASE \E flags \in MapFlagChoices : MapBo(flags)
    <2>1. PICK flags \in MapFlagChoices : MapBo(flags)
      BY <1>1
    <2>2. ~MapFails
      BY DEF MapFails, mapVars
    <2>3. QED
      BY <2>1, <2>2
  <1>2. QED
    BY <1>1, MapFlagsFrame

LEMMA SpecIInv == Spec => []IInv
  <1>1. IInv /\ [Next]_vars => IInv'
    BY NextIsFaulty, StepIInv
  <1>2. QED
    BY <1>1, InitIInv, PTL DEF Spec

(* A READ mapping of a single-plane bo shows the CPU exactly the buffer's  *)
(* contents, whether dri_bo_map mapped it directly or through a staging    *)
(* bo filled by hbm_sync.                                                  *)
THEOREM ReadCoherenceThm ==
  ASSUME SinglePlane PROVE Spec => ReadCoherence
  <1>1. IInv /\ [Next]_vars =>
          [(mapFlags = {} /\ "R" \in mapFlags' /\ useSw) => CpuView' = real']_vars
    <2> SUFFICES ASSUME IInv, [Next]_vars, mapFlags = {}, "R" \in mapFlags'
                 PROVE  CpuView' = real'
      OBVIOUS
    <2>1. PICK flags \in MapFlagChoices : MapBo(flags) /\ ~MapFails
      BY MapFlagsChange DEF UnmapBo, Unmapped
    <2>2. "R" \in flags
      BY <2>1 DEF MapBo, Mapped
    <2>3. QED
      BY <2>1, <2>2, MappedView DEF MapBo, IInv
  <1>2. QED
    BY <1>1, SpecIInv, PTL DEF Spec, ReadCoherence

(* Unmapping a WRITE mapping of a single-plane SW bo, when every mapping   *)
(* is a READ mapping, leaves in the buffer every value the CPU read or     *)
(* stored: dri_bo_unmap's hbm_sync copies the staging bo back, and no GPU  *)
(* job ran on a direct mapping.                                            *)
THEOREM UnmapPublishesThm ==
  ASSUME ReadMaps, SinglePlane PROVE Spec => UnmapPublishesCpuView
  <1>1. Spec => [](XInv /\ BeliefMatches)
    <2>1. Init => XInv /\ BeliefMatches
      BY InitIInv DEF Init, XInv, CpuAccessExcludesGpu, BeliefMatches
    <2>2. XInv /\ BeliefMatches /\ [Next]_vars => (XInv /\ BeliefMatches)'
      BY XStep, BStep, NextIsFaulty, StepIInv DEF XInv
    <2>3. QED
      BY <2>1, <2>2, PTL DEF Spec
  <1>2. XInv /\ BeliefMatches /\ [Next]_vars =>
          [(mapFlags # {} /\ mapFlags' = {} /\ "W" \in mapFlags /\ useSw) =>
             \A p \in Planes : belief[p] # Unknown => real'[p] = belief[p]]_vars
    <2> SUFFICES ASSUME XInv, BeliefMatches, [Next]_vars,
                        mapFlags # {}, mapFlags' = {}, "W" \in mapFlags, useSw,
                        NEW p \in Planes, belief[p] # Unknown
                 PROVE  real'[p] = belief[p]
      OBVIOUS
    <2>1. UnmapBo
      BY MapFlagsChange DEF MapBo, XInv
    <2>2. phase = "live" /\ staging = useStaging
      BY DEF XInv, IInv
    <2>3. CpuView[p] = belief[p]
      BY DEF BeliefMatches
    <2>4. CASE useStaging
      <3>1. real' = CopyPlane(real, stg, 0)
        BY <2>1, <2>4 DEF UnmapBo
      <3>2. CopyPlane(real, stg, 0) = stg
        BY CopyWhole DEF XInv, IInv, TypeOK
      <3>3. QED
        BY <2>2, <2>3, <2>4, <3>1, <3>2 DEF CpuView
    <2>5. CASE ~useStaging
      BY <2>1, <2>2, <2>3, <2>5 DEF UnmapBo, CpuView
    <2>6. QED
      BY <2>4, <2>5
  <1>3. QED
    BY <1>1, <1>2, PTL DEF Spec, UnmapPublishesCpuView
=============================================================================
