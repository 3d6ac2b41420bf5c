-------------------------- MODULE DmabufHeapProofs --------------------------
(***************************************************************************)
(* Proofs, for every set of threads, bos, fds, heap configurations and     *)
(* requests, of the dma-buf heap backend's types, its CPU sync bracket,    *)
(* its plane-fd ledger and the heap placement of new bos.                  *)
(***************************************************************************)
EXTENDS DmabufHeap, TLAPS

(* drv_num_planes_from_format gives one to three planes for any format.  *)
LEMMA NumPlanesBound == \A f : NumPlanes(f) \in 1 .. 3
  BY DEF NumPlanes

(* The placeholder arguments of an idle thread are some call's arguments. *)
LEMMA ArgsNonEmpty == NoArgs \in Args
  <1>1. PICK f \in Requests : TRUE
    BY CallAssumption
  <1>2. PICK u \in UseSets : TRUE
    BY CallAssumption
  <1>3. [fmt |-> ResolveFormat(f, u), use |-> u, test |-> FALSE] \in Args
    <2>1. \E ff \in Requests, uu \in UseSets, x \in BOOLEAN :
            [fmt |-> ResolveFormat(f, u), use |-> u, test |-> FALSE]
              = [fmt |-> ResolveFormat(ff, uu), use |-> uu, test |-> x]
      BY <1>1, <1>2
    <2>2. QED
      BY <2>1 DEF Args
  <1>4. \E a \in Args : TRUE
    BY <1>3
  <1>5. QED
    BY <1>4, Zenon DEF NoArgs

(* What a returning call leaves of its thread's state.                     *)
LEMMA ReturnType ==
  ASSUME TypeOK, NEW t \in Threads, Return(t)
  PROVE  /\ pc' \in [Threads -> {"idle", "init", "body"}]
         /\ tbo' \in [Threads -> Bos \cup {NoBo}]
         /\ targ' \in [Threads -> Args]
         /\ hold' \in [Threads -> Driver \cup {NoDrv}]
  <1>1. pc' \in [Threads -> {"idle", "init", "body"}]
    BY DEF Return, TypeOK
  <1>2. tbo' \in [Threads -> Bos \cup {NoBo}]
    BY DEF Return, TypeOK
  <1>3. targ' \in [Threads -> Args]
    BY ArgsNonEmpty DEF Return, TypeOK
  <1>4. hold' \in [Threads -> Driver \cup {NoDrv}]
    BY DEF Return, TypeOK
  <1>5. QED
    BY <1>1, <1>2, <1>3, <1>4

(* The plane fds PlaneDups hands out fill a plane array of a bo.           *)
LEMMA DupsType ==
  ASSUME NEW np \in 1 .. 3, NEW free \in SUBSET FdIds, NEW fds \in PlaneDups(np, free)
  PROVE  /\ [p \in Planes |-> IF p <= np THEN fds[p] ELSE NoFd] \in [Planes -> FdIds \cup {NoFd}]
         /\ {fds[p] : p \in 1 .. np} \ {NoFd} \subseteq free
  BY DEF PlaneDups, Planes

(* dmabuf_get_or_init_driver stores a driver of the right shape.         *)
LEMMA InitDriverType ==
  ASSUME TypeOK, NEW t \in Threads, InitDriver(t) PROVE TypeOK'
  <1>1. PICK s \in SystemFd(heaps) :
          IF s = "bad"
          THEN UNCHANGED <<priv, orphan, hold>>
          ELSE \E u \in FallbackFd(heaps, "system-uncached"),
                  c \in FallbackFd(heaps, "linux,cma") :
                 LET d == [k \in HeapKind |->
                             IF k = "system" THEN s
                             ELSE IF k = "linux,cma" THEN c ELSE u]
                 IN  /\ priv' = d
                     /\ orphan' = (orphan \/ priv # NoDrv)
                     /\ hold' = [hold EXCEPT ![t] = d]
    BY DEF InitDriver
  <1>2. /\ pc' = [pc EXCEPT ![t] = "body"]
        /\ UNCHANGED <<heaps, tbo, targ, boVars>>
    BY DEF InitDriver
  <1>3. /\ priv' \in Driver \cup {NoDrv}
        /\ orphan' \in BOOLEAN
        /\ hold' \in [Threads -> Driver \cup {NoDrv}]
    <2>1. CASE s = "bad"
      BY <1>1, <2>1 DEF TypeOK
    <2>2. CASE s # "bad"
      <3>1. PICK u \in FallbackFd(heaps, "system-uncached"),
                 c \in FallbackFd(heaps, "linux,cma") :
                 LET d == [k \in HeapKind |->
                             IF k = "system" THEN s
                             ELSE IF k = "linux,cma" THEN c ELSE u]
                 IN  /\ priv' = d
                     /\ orphan' = (orphan \/ priv # NoDrv)
                     /\ hold' = [hold EXCEPT ![t] = d]
        BY <1>1, <2>2
      <3>2. {s, u, c} \subseteq {"open", "dup", "bad"}
        BY DEF SystemFd, FallbackFd
      <3>3. [k \in HeapKind |-> IF k = "system" THEN s
                                ELSE IF k = "linux,cma" THEN c ELSE u] \in Driver
        BY <3>2 DEF Driver
      <3>4. QED
        BY <3>1, <3>3 DEF TypeOK
    <2>3. QED
      BY <2>1, <2>2
  <1>4. QED
    BY <1>2, <1>3 DEF TypeOK, boVars

(* The use flags of a call are one of the requested sets.                *)
LEMMA ArgsUse == \A a \in Args : a.use \in UseSets
  BY DEF Args

(* Every path of the body of dmabuf_bo_create2 keeps the types.          *)
LEMMA CreateBodyType ==
  ASSUME TypeOK, NEW t \in Threads, CreateBody(t) PROVE TypeOK'
  <1> DEFINE b == tbo[t]  a == targ[t]  d == hold[t]
             k == HeapChoice(a.use)  np == NumPlanes(a.fmt)
  <1>1. Return(t) /\ UNCHANGED drvVars
    BY DEF CreateBody
  <1>2. /\ pc' \in [Threads -> {"idle", "init", "body"}]
        /\ tbo' \in [Threads -> Bos \cup {NoBo}]
        /\ targ' \in [Threads -> Args]
        /\ hold' \in [Threads -> Driver \cup {NoDrv}]
    BY <1>1, ReturnType
  <1>3. heaps' \in HeapConfigs /\ priv' \in Driver \cup {NoDrv} /\ orphan' \in BOOLEAN
    BY <1>1 DEF drvVars, TypeOK
  <1>4. CASE UNCHANGED boVars
    BY <1>2, <1>3, <1>4 DEF boVars, TypeOK
  <1>5. CASE ~UNCHANGED boVars
    <2>1. /\ \E fds \in PlaneDups(np, FdIds \ fdOpen) :
               /\ boFds' = [boFds EXCEPT ![b] =
                              [p \in Planes |-> IF p <= np THEN fds[p] ELSE NoFd]]
               /\ fdOpen' = fdOpen \cup ({fds[p] : p \in 1 .. np} \ {NoFd})
          /\ live' = [live EXCEPT ![b] = TRUE]
          /\ boNp' = [boNp EXCEPT ![b] = np]
          /\ boUse' = [boUse EXCEPT ![b] = a.use]
          /\ backing' = [backing EXCEPT ![b] = IF d[k] = "open" THEN k ELSE "system"]
          /\ UNCHANGED <<mapped, cpu, gpu>>
      BY <1>5 DEF CreateBody, boVars
    <2>2. np \in 1 .. 3
      BY NumPlanesBound
    <2>3. a.use \in UseSets
      BY ArgsUse DEF TypeOK
    <2>4. k \in {"system", "linux,cma"}
      BY DEF HeapChoice
    <2>5. PICK fds \in PlaneDups(np, FdIds \ fdOpen) :
               /\ boFds' = [boFds EXCEPT ![b] =
                              [p \in Planes |-> IF p <= np THEN fds[p] ELSE NoFd]]
               /\ fdOpen' = fdOpen \cup ({fds[p] : p \in 1 .. np} \ {NoFd})
      BY <2>1
    <2>16. fds \in [1 .. np -> (FdIds \ fdOpen) \cup {NoFd}]
      BY DEF PlaneDups
    <2>6. /\ [p \in Planes |-> IF p <= np THEN fds[p] ELSE NoFd] \in [Planes -> FdIds \cup {NoFd}]
          /\ {fds[p] : p \in 1 .. np} \ {NoFd} \subseteq FdIds \ fdOpen
      BY <2>2, <2>16 DEF Planes
    <2>7. boFds' \in [Bos -> [Planes -> FdIds \cup {NoFd}]] /\ fdOpen' \subseteq FdIds
      BY <2>5, <2>6 DEF TypeOK
    <2>8. live' \in [Bos -> BOOLEAN]
      BY <2>1 DEF TypeOK
    <2>14. np \in 0 .. 4
      BY <2>2
    <2>10. boNp' \in [Bos -> 0 .. 4]
      BY <2>1, <2>14 DEF TypeOK
    <2>11. boUse' \in [Bos -> UseSets \cup {{}}]
      BY <2>1, <2>3 DEF TypeOK
    <2>12. (IF d[k] = "open" THEN k ELSE "system") \in {"none", "system", "linux,cma", "imported"}
      BY <2>4
    <2>13. backing' \in [Bos -> {"none", "system", "linux,cma", "imported"}]
      BY <2>1, <2>12 DEF TypeOK
    <2>9. QED
      BY <1>2, <1>3, <2>1, <2>7, <2>8, <2>10, <2>11, <2>13 DEF TypeOK
  <1>6. QED
    BY <1>4, <1>5

(* dmabuf_bo_import keeps the types.                                      *)
LEMMA ImportType ==
  ASSUME TypeOK, NEW b \in Bos, NEW np \in 1 .. 2, ImportBo(b, np) PROVE TypeOK'
  <1>1. PICK fds \in PlaneDups(np, FdIds \ fdOpen) :
          /\ boFds' = [boFds EXCEPT ![b] =
                         [p \in Planes |-> IF p <= np THEN fds[p] ELSE NoFd]]
          /\ fdOpen' = fdOpen \cup ({fds[p] : p \in 1 .. np} \ {NoFd})
    BY DEF ImportBo
  <1>2. /\ [p \in Planes |-> IF p <= np THEN fds[p] ELSE NoFd] \in [Planes -> FdIds \cup {NoFd}]
        /\ {fds[p] : p \in 1 .. np} \ {NoFd} \subseteq FdIds \ fdOpen
    <2>1. np \in 1 .. 3
      OBVIOUS
    <2>2. QED
      BY <1>1, <2>1, DupsType
  <1>3. boFds' \in [Bos -> [Planes -> FdIds \cup {NoFd}]] /\ fdOpen' \subseteq FdIds
    BY <1>1, <1>2 DEF TypeOK
  <1>6. np \in 0 .. 4
    OBVIOUS
  <1>4. live' \in [Bos -> BOOLEAN] /\ boNp' \in [Bos -> 0 .. 4]
        /\ backing' \in [Bos -> {"none", "system", "linux,cma", "imported"}]
    BY <1>6 DEF ImportBo, TypeOK
  <1>5. QED
    BY <1>3, <1>4 DEF ImportBo, TypeOK, drvVars, thrVars

(* destroy, map, unmap and flush keep the types.                          *)
LEMMA BoCallType ==
  ASSUME TypeOK, NEW b \in Bos, DestroyBo(b) \/ MapBo(b) \/ UnmapBo(b) \/ FlushBo(b)
  PROVE  TypeOK'
  <1>1. CASE DestroyBo(b)
    <2>1. fdOpen \ {boFds[b][p] : p \in Planes} \subseteq FdIds
      BY DEF TypeOK
    <2>2. QED
      BY <1>1, <2>1 DEF DestroyBo, TypeOK, drvVars, thrVars
  <1>2. CASE MapBo(b) \/ FlushBo(b)
    BY <1>2 DEF MapBo, FlushBo, SyncStart, TypeOK, drvVars, thrVars
  <1>3. CASE UnmapBo(b)
    BY <1>3 DEF UnmapBo, TypeOK, drvVars, thrVars
  <1>4. QED
    BY <1>1, <1>2, <1>3

(* dmabuf_driver_close keeps the types.                                    *)
LEMMA CloseType == TypeOK /\ DriverClose => TypeOK'
  BY DEF DriverClose, TypeOK, thrVars, boVars

(* GPU submission and completion keep the types.                          *)
LEMMA GpuType ==
  ASSUME TypeOK, NEW b \in Bos, NEW j \in GpuKind, GpuSubmit(b, j) \/ GpuComplete(b, j)
  PROVE  TypeOK'
  <1>1. CASE GpuSubmit(b, j)
    BY <1>1 DEF GpuSubmit, TypeOK, drvVars, thrVars
  <1>2. CASE GpuComplete(b, j)
    BY <1>2 DEF GpuComplete, TypeOK, drvVars, thrVars
  <1>3. QED
    BY <1>1, <1>2

(* The driver lookup at the start of dmabuf_bo_create2 keeps the types.   *)
LEMMA StartType ==
  ASSUME TypeOK, NEW t \in Threads, NEW b \in Bos, NEW a \in Args, CreateStart(t, b, a)
  PROVE  TypeOK'
  BY DEF CreateStart, TypeOK, drvVars, boVars

(* The initial state is well typed.                                       *)
LEMMA TypeInit == Init => TypeOK
  <1> SUFFICES ASSUME Init PROVE TypeOK
    OBVIOUS
  <1>1. NoArgs \in Args
    BY ArgsNonEmpty
  <1>2. /\ heaps \in HeapConfigs /\ priv \in Driver \cup {NoDrv} /\ orphan \in BOOLEAN
        /\ pc \in [Threads -> {"idle", "init", "body"}]
        /\ tbo \in [Threads -> Bos \cup {NoBo}]
        /\ hold \in [Threads -> Driver \cup {NoDrv}]
    BY DEF Init
  <1>3. targ \in [Threads -> Args]
    BY <1>1 DEF Init
  <1>4. boFds \in [Bos -> [Planes -> FdIds \cup {NoFd}]]
    BY DEF Init
  <1>5. QED
    BY <1>2, <1>3, <1>4 DEF Init, TypeOK

(* Every step of the backend keeps the types.                             *)
LEMMA TypeStep == TypeOK /\ [Next]_vars => TypeOK'
  <1> SUFFICES ASSUME TypeOK, [Next]_vars PROVE TypeOK'
    OBVIOUS
  <1>1. CASE \E t \in Threads, b \in Bos, a \in Args : CreateStart(t, b, a)
    BY <1>1, StartType
  <1>2. CASE \E t \in Threads : InitDriver(t) \/ CreateBody(t)
    BY <1>2, InitDriverType, CreateBodyType
  <1>3. CASE \E b \in Bos, np \in 1 .. 2 : ImportBo(b, np)
    BY <1>3, ImportType
  <1>4. CASE \E b \in Bos : DestroyBo(b) \/ MapBo(b) \/ UnmapBo(b) \/ FlushBo(b)
    BY <1>4, BoCallType
  <1>5. CASE DriverClose
    BY <1>5, CloseType
  <1>6. CASE \E b \in Bos, j \in GpuKind : GpuSubmit(b, j) \/ GpuComplete(b, j)
    BY <1>6, GpuType
  <1>7. CASE UNCHANGED vars
    BY <1>7 DEF TypeOK, vars, drvVars, thrVars, boVars
  <1>8. QED
    BY <1>1, <1>2, <1>3, <1>4, <1>5, <1>6, <1>7 DEF Next

(* Every reachable state of the backend is well typed.                    *)
THEOREM TypeCorrect == Spec => []TypeOK
  BY TypeInit, TypeStep, PTL DEF Spec
-----------------------------------------------------------------------------

(* The steps that leave the mapping, the sync state and the GPU queues     *)
(* alone: everything but the bo calls and the GPU environment.             *)
LEMMA CpuFrame ==
  ASSUME TypeOK, [Next]_vars,
         ~\E b \in Bos : MapBo(b) \/ UnmapBo(b) \/ FlushBo(b) \/ DestroyBo(b),
         ~\E b \in Bos, j \in GpuKind : GpuSubmit(b, j) \/ GpuComplete(b, j)
  PROVE  UNCHANGED <<mapped, cpu, gpu>>
  <1>1. CASE \E t \in Threads, b \in Bos, a \in Args : CreateStart(t, b, a)
    BY <1>1 DEF CreateStart, boVars
  <1>2. CASE \E t \in Threads : InitDriver(t)
    BY <1>2 DEF InitDriver, boVars
  <1>3. CASE \E t \in Threads : CreateBody(t)
    BY <1>3 DEF CreateBody, boVars
  <1>4. CASE \E b \in Bos, np \in 1 .. 2 : ImportBo(b, np)
    BY <1>4 DEF ImportBo
  <1>5. CASE DriverClose
    BY <1>5 DEF DriverClose, boVars
  <1>6. CASE UNCHANGED vars
    BY <1>6 DEF vars, boVars
  <1>7. QED
    BY <1>1, <1>2, <1>3, <1>4, <1>5, <1>6 DEF Next

(* Without interrupted SYNC_STARTs every step keeps the CPU bracket.      *)
LEMMA CpuStep ==
  ASSUME ~SyncMayFail, TypeOK, CpuBracket, [Next]_vars PROVE CpuBracket'
  <1>1. ASSUME NEW b \in Bos, MapBo(b) PROVE CpuBracket'
    BY <1>1 DEF MapBo, SyncStart, CpuBracket, TypeOK
  <1>2. ASSUME NEW b \in Bos, FlushBo(b) PROVE CpuBracket'
    BY <1>2 DEF FlushBo, SyncStart, CpuBracket, TypeOK
  <1>3. ASSUME NEW b \in Bos, UnmapBo(b) PROVE CpuBracket'
    BY <1>3 DEF UnmapBo, CpuBracket, TypeOK
  <1>4. ASSUME NEW b \in Bos, DestroyBo(b) PROVE CpuBracket'
    BY <1>4 DEF DestroyBo, CpuBracket, TypeOK
  <1>5. ASSUME NEW b \in Bos, NEW j \in GpuKind, GpuSubmit(b, j) PROVE CpuBracket'
    BY <1>5 DEF GpuSubmit, CpuBracket, TypeOK
  <1>6. ASSUME NEW b \in Bos, NEW j \in GpuKind, GpuComplete(b, j) PROVE CpuBracket'
    BY <1>6 DEF GpuComplete, CpuBracket, TypeOK
  <1>7. CASE /\ ~\E b \in Bos : MapBo(b) \/ UnmapBo(b) \/ FlushBo(b) \/ DestroyBo(b)
             /\ ~\E b \in Bos, j \in GpuKind : GpuSubmit(b, j) \/ GpuComplete(b, j)
    <2>1. UNCHANGED <<mapped, cpu, gpu>>
      BY <1>7, CpuFrame
    <2>2. QED
      BY <2>1 DEF CpuBracket
  <1>8. QED
    BY <1>1, <1>2, <1>3, <1>4, <1>5, <1>6, <1>7

(* With DMA_BUF_SYNC_START never interrupted, the CPU sync bracket holds   *)
(* in every state: a mapped bo is one whose SYNC_START is in force and no  *)
(* GPU job runs on it.                                                     *)
THEOREM CpuBracketThm ==
  ASSUME ~SyncMayFail PROVE Spec => [](TypeOK /\ CpuBracket)
  <1>1. Init => CpuBracket
    BY DEF Init, CpuBracket
  <1>2. TypeOK /\ CpuBracket /\ [Next]_vars => CpuBracket'
    BY CpuStep
  <1>3. QED
    BY <1>1, <1>2, TypeInit, TypeStep, PTL DEF Spec
-----------------------------------------------------------------------------

(* A thread inside a call owns a bo no other thread owns and that is not   *)
(* live yet; an idle thread owns none.                                     *)
BusyOK ==
  \A t \in Threads :
    /\ pc[t] = "idle" => tbo[t] = NoBo
    /\ pc[t] # "idle" => tbo[t] \in Bos /\ ~live[tbo[t]]
    /\ \A u \in Threads : u # t /\ pc[t] # "idle" => tbo[t] # tbo[u]

(* Filling the plane array of a bo that is not live with fresh dups keeps  *)
(* the ledger: the fds were free, and distinct from one another.           *)
LEMMA AddPlanes ==
  ASSUME TypeOK, PlaneFdLedger, NEW b \in Bos, ~live[b],
         NEW np \in 1 .. 3, NEW fds \in PlaneDups(np, FdIds \ fdOpen),
         boFds' = [boFds EXCEPT ![b] =
                     [p \in Planes |-> IF p <= np THEN fds[p] ELSE NoFd]],
         fdOpen' = fdOpen \cup ({fds[p] : p \in 1 .. np} \ {NoFd}),
         live' = [live EXCEPT ![b] = TRUE]
  PROVE  PlaneFdLedger'
  <1> DEFINE New == {fds[p] : p \in 1 .. np} \ {NoFd}
  <1>1. New \subseteq FdIds \ fdOpen
    BY DEF PlaneDups
  <1>2. \A p \in 1 .. np : fds[p] \in FdIds \cup {NoFd}
    BY DEF PlaneDups
  <1>3. \A p, q \in 1 .. np : p # q /\ fds[p] # NoFd => fds[p] # fds[q]
    BY DEF PlaneDups
  <1>12. \A p \in Planes : boFds'[b][p] = IF p <= np THEN fds[p] ELSE NoFd
    BY DEF TypeOK
  <1>13. \A c \in Bos \ {b} : boFds'[c] = boFds[c]
    BY DEF TypeOK
  <1>4. BoFdSet(b) = {}
    BY DEF PlaneFdLedger
  <1>5. BoFdSet(b)' = New
    <2>1. {boFds'[b][p] : p \in Planes} = {fds[p] : p \in 1 .. np} \cup {NoFd}
      BY <1>12 DEF Planes
    <2>2. QED
      BY <2>1 DEF BoFdSet
  <1>6. \A c \in Bos \ {b} : BoFdSet(c)' = BoFdSet(c)
    BY <1>13 DEF BoFdSet
  <1>7. fdOpen' = UNION {BoFdSet(c) : c \in Bos}'
    <2>1. fdOpen = UNION {BoFdSet(c) : c \in Bos}
      BY DEF PlaneFdLedger
    <2>2. QED
      BY <1>4, <1>5, <1>6, <2>1
  <1>8. \A c \in Bos : ~live'[c] => BoFdSet(c)' = {}
    BY <1>6 DEF PlaneFdLedger, TypeOK
  <1>9. \A c \in Bos, p \in Planes : boFds[c][p] # NoFd => boFds[c][p] \in fdOpen
    BY DEF PlaneFdLedger, BoFdSet
  <1>10. \A c, d \in Bos, p, q \in Planes :
           <<c, p>> # <<d, q>> /\ boFds'[c][p] # NoFd => boFds'[c][p] # boFds'[d][q]
    <2> SUFFICES ASSUME NEW c \in Bos, NEW d \in Bos, NEW p \in Planes, NEW q \in Planes,
                        c # d \/ p # q, boFds'[c][p] # NoFd
                 PROVE  boFds'[c][p] # boFds'[d][q]
      OBVIOUS
    <2>1. CASE c = b /\ d = b
      <3>1. p <= np /\ fds[p] # NoFd
        BY <2>1, <1>12
      <3>2. p # q
        BY <2>1
      <3>3. QED
        BY <2>1, <3>1, <3>2, <1>12, <1>3 DEF Planes
    <2>2. CASE c = b /\ d # b
      <3>1. boFds'[c][p] \in FdIds \ fdOpen
        BY <2>2, <1>12, <1>1, <1>2 DEF Planes
      <3>2. boFds'[d][q] \in fdOpen \cup {NoFd}
        BY <2>2, <1>13, <1>9 DEF TypeOK
      <3>3. QED
        BY <3>1, <3>2, FdAssumption
    <2>3. CASE c # b /\ d = b
      <3>1. boFds'[c][p] \in fdOpen
        BY <2>3, <1>13, <1>9
      <3>2. boFds'[d][q] \in (FdIds \ fdOpen) \cup {NoFd}
        BY <2>3, <1>12, <1>1, <1>2 DEF Planes
      <3>3. QED
        BY <3>1, <3>2
    <2>4. CASE c # b /\ d # b
      BY <2>4, <1>13 DEF PlaneFdLedger
    <2>5. QED
      BY <2>1, <2>2, <2>3, <2>4
  <1>11. QED
    BY <1>7, <1>8, <1>10 DEF PlaneFdLedger

(* Emptying the plane array of a bo and closing its fds keeps the ledger:  *)
(* no other bo holds one of them.                                          *)
LEMMA DropPlanes ==
  ASSUME TypeOK, PlaneFdLedger, NEW b \in Bos,
         fdOpen' = fdOpen \ {boFds[b][p] : p \in Planes},
         boFds' = [boFds EXCEPT ![b] = [p \in Planes |-> NoFd]],
         live' = [live EXCEPT ![b] = FALSE]
  PROVE  PlaneFdLedger'
  <1>1. \A c \in Bos \ {b} : boFds'[c] = boFds[c]
    BY DEF TypeOK
  <1>2. \A p \in Planes : boFds'[b][p] = NoFd
    BY DEF TypeOK
  <1>3. BoFdSet(b)' = {}
    BY <1>2 DEF BoFdSet
  <1>4. \A c \in Bos \ {b} : BoFdSet(c)' = BoFdSet(c)
    BY <1>1 DEF BoFdSet
  <1>5. \A c \in Bos \ {b} : BoFdSet(c) \cap {boFds[b][p] : p \in Planes} = {}
    BY DEF PlaneFdLedger, BoFdSet
  <1>6. fdOpen' = UNION {BoFdSet(c) : c \in Bos}'
    <2>1. fdOpen = UNION {BoFdSet(c) : c \in Bos}
      BY DEF PlaneFdLedger
    <2>2. BoFdSet(b) \subseteq {boFds[b][p] : p \in Planes}
      BY DEF BoFdSet
    <2>3. QED
      BY <1>3, <1>4, <1>5, <2>1, <2>2
  <1>7. \A c \in Bos : ~live'[c] => BoFdSet(c)' = {}
    BY <1>3, <1>4 DEF PlaneFdLedger, TypeOK
  <1>8. \A c, d \in Bos, p, q \in Planes :
          <<c, p>> # <<d, q>> /\ boFds'[c][p] # NoFd => boFds'[c][p] # boFds'[d][q]
    <2> SUFFICES ASSUME NEW c \in Bos, NEW d \in Bos, NEW p \in Planes, NEW q \in Planes,
                        c # d \/ p # q, boFds'[c][p] # NoFd
                 PROVE  boFds'[c][p] # boFds'[d][q]
      OBVIOUS
    <2>1. c # b
      BY <1>2
    <2>2. CASE d = b
      BY <2>1, <2>2, <1>1, <1>2
    <2>3. CASE d # b
      BY <2>1, <2>3, <1>1 DEF PlaneFdLedger
    <2>4. QED
      BY <2>2, <2>3
  <1>9. QED
    BY <1>6, <1>7, <1>8 DEF PlaneFdLedger

LInv == TypeOK /\ PlaneFdLedger /\ BusyOK

(* A step that leaves the bos' fds and liveness alone keeps the ledger.    *)
LEMMA LedgerUnchanged ==
  ASSUME PlaneFdLedger, UNCHANGED <<live, boFds, fdOpen>>
  PROVE  PlaneFdLedger'
  <1>1. \A c \in Bos : BoFdSet(c)' = BoFdSet(c)
    BY DEF BoFdSet
  <1>2. UNION {BoFdSet(c) : c \in Bos}' = UNION {BoFdSet(c) : c \in Bos}
    BY <1>1
  <1>3. QED
    BY <1>1, <1>2 DEF PlaneFdLedger

(* A step that also leaves the calls' bos alone keeps both invariants.     *)
LEMMA LedgerFrame ==
  ASSUME PlaneFdLedger, BusyOK, UNCHANGED <<live, boFds, fdOpen, pc, tbo>>
  PROVE  PlaneFdLedger' /\ BusyOK'
  <1>1. PlaneFdLedger'
    BY LedgerUnchanged
  <1>2. BusyOK'
    BY DEF BusyOK
  <1>3. QED
    BY <1>1, <1>2

(* The driver lookup claims a bo no call owns and leaves the fds alone.   *)
LEMMA StartLedger ==
  ASSUME LInv, NEW t \in Threads, NEW b \in Bos, NEW a \in Args, CreateStart(t, b, a)
  PROVE  PlaneFdLedger' /\ BusyOK'
  <1>1. PlaneFdLedger'
    BY LedgerUnchanged DEF CreateStart, boVars, LInv
  <1>2. \A u \in Threads \ {t} : pc[u] # "idle" => tbo[u] # b
    BY DEF CreateStart, Busy, LInv, BusyOK
  <1>5. /\ pc[t] = "idle" /\ ~live[b] /\ UNCHANGED live
        /\ tbo' = [tbo EXCEPT ![t] = b]
        /\ pc'[t] # "idle"
        /\ \A u \in Threads \ {t} : pc'[u] = pc[u] /\ tbo'[u] = tbo[u]
    BY DEF CreateStart, boVars, LInv, TypeOK
  <1>3. BusyOK'
    <2> SUFFICES ASSUME NEW u \in Threads
                 PROVE  /\ pc'[u] = "idle" => tbo'[u] = NoBo
                        /\ pc'[u] # "idle" => tbo'[u] \in Bos /\ ~live'[tbo'[u]]
                        /\ \A w \in Threads : w # u /\ pc'[u] # "idle" => tbo'[u] # tbo'[w]
      BY DEF BusyOK
    <2>1. CASE u = t
      <3>1. tbo'[u] = b
        BY <2>1, <1>5 DEF LInv, TypeOK
      <3>2. \A w \in Threads \ {t} : tbo'[w] # b
        BY <1>2, <1>5, BoAssumption DEF LInv, BusyOK, TypeOK
      <3>3. QED
        BY <2>1, <3>1, <3>2, <1>5
    <2>2. CASE u # t
      <3>1. pc[u] # "idle" => tbo[u] \in Bos \ {b} /\ ~live[tbo[u]]
        BY <2>2, <1>2 DEF LInv, BusyOK
      <3>2. tbo'[t] = b
        BY <1>5 DEF LInv, TypeOK
      <3>3. QED
        BY <2>2, <1>5, <3>1, <3>2 DEF LInv, BusyOK
    <2>3. QED
      BY <2>1, <2>2
  <1>4. QED
    BY <1>1, <1>3

(* Driver initialisation touches no bo.                                   *)
LEMMA InitDriverLedger ==
  ASSUME LInv, NEW t \in Threads, InitDriver(t)
  PROVE  PlaneFdLedger' /\ BusyOK'
  <1>1. PlaneFdLedger'
    BY LedgerUnchanged DEF InitDriver, boVars, LInv
  <1>2. BusyOK'
    BY DEF InitDriver, boVars, LInv, TypeOK, BusyOK
  <1>3. QED
    BY <1>1, <1>2

(* The body of dmabuf_bo_create2 fills, and then releases, its own bo.    *)
LEMMA BodyLedger ==
  ASSUME LInv, NEW t \in Threads, CreateBody(t)
  PROVE  PlaneFdLedger' /\ BusyOK'
  <1> DEFINE b == tbo[t]  a == targ[t]  d == hold[t]
             k == HeapChoice(a.use)  np == NumPlanes(a.fmt)
  <1>1. pc[t] = "body" /\ b \in Bos /\ ~live[b]
    BY DEF CreateBody, LInv, BusyOK
  <1>2. /\ pc' = [pc EXCEPT ![t] = "idle"]
        /\ tbo' = [tbo EXCEPT ![t] = NoBo]
    BY DEF CreateBody, Return
  <1>3. \A u \in Threads \ {t} : pc[u] # "idle" => tbo[u] # b
    BY <1>1 DEF LInv, BusyOK
  <1>4. \A c \in Bos \ {b} : live'[c] = live[c]
    BY DEF CreateBody, boVars, LInv, TypeOK
  <1>5. BusyOK'
    <2> SUFFICES ASSUME NEW u \in Threads
                 PROVE  /\ pc'[u] = "idle" => tbo'[u] = NoBo
                        /\ pc'[u] # "idle" => tbo'[u] \in Bos /\ ~live'[tbo'[u]]
                        /\ \A w \in Threads : w # u /\ pc'[u] # "idle" => tbo'[u] # tbo'[w]
      BY DEF BusyOK
    <2>1. CASE u = t
      BY <2>1, <1>2 DEF LInv, TypeOK
    <2>2. CASE u # t
      <3>1. pc'[u] = pc[u] /\ tbo'[u] = tbo[u] /\ tbo'[t] = NoBo
        BY <2>2, <1>2 DEF LInv, TypeOK
      <3>2. pc[u] # "idle" => tbo[u] \in Bos \ {b} /\ ~live[tbo[u]]
        BY <2>2, <1>3 DEF LInv, BusyOK
      <3>3. \A w \in Threads \ {t} : tbo'[w] = tbo[w]
        BY <1>2 DEF LInv, TypeOK
      <3>4. QED
        BY <2>2, <3>1, <3>2, <3>3, <1>4, BoAssumption DEF LInv, BusyOK
    <2>3. QED
      BY <2>1, <2>2
  <1>6. PlaneFdLedger'
    <2>1. CASE UNCHANGED boVars
      BY <2>1, LedgerUnchanged DEF boVars, LInv
    <2>2. CASE /\ \E fds \in PlaneDups(np, FdIds \ fdOpen) :
                    /\ boFds' = [boFds EXCEPT ![b] =
                                   [p \in Planes |-> IF p <= np THEN fds[p] ELSE NoFd]]
                    /\ fdOpen' = fdOpen \cup ({fds[p] : p \in 1 .. np} \ {NoFd})
               /\ live' = [live EXCEPT ![b] = TRUE]
      <3>1. np \in 1 .. 3
        BY NumPlanesBound
      <3>2. QED
        BY <1>1, <2>2, <3>1, AddPlanes DEF LInv
    <2>3. QED
      BY <2>1, <2>2 DEF CreateBody
  <1>7. QED
    BY <1>5, <1>6

(* dmabuf_bo_import fills a bo that no call owns.                         *)
LEMMA ImportLedger ==
  ASSUME LInv, NEW b \in Bos, NEW np \in 1 .. 2, ImportBo(b, np)
  PROVE  PlaneFdLedger' /\ BusyOK'
  <1>1. PlaneFdLedger'
    <2>1. np \in 1 .. 3
      OBVIOUS
    <2>2. QED
      BY <2>1, AddPlanes DEF ImportBo, LInv
  <1>2. \A u \in Threads : pc[u] # "idle" => tbo[u] # b
    BY DEF ImportBo, Busy
  <1>3. \A c \in Bos \ {b} : live'[c] = live[c]
    BY DEF ImportBo, LInv, TypeOK
  <1>4. BusyOK'
    BY <1>2, <1>3 DEF ImportBo, thrVars, LInv, BusyOK
  <1>5. QED
    BY <1>1, <1>4

(* dmabuf_bo_destroy closes the fds of a bo that no call owns.            *)
LEMMA DestroyLedger ==
  ASSUME LInv, NEW b \in Bos, DestroyBo(b)
  PROVE  PlaneFdLedger' /\ BusyOK'
  <1>1. PlaneFdLedger'
    BY DropPlanes DEF DestroyBo, LInv
  <1>2. \A c \in Bos \ {b} : live'[c] = live[c]
    BY DEF DestroyBo, LInv, TypeOK
  <1>3. \A u \in Threads : pc[u] # "idle" => tbo[u] # b
    BY DEF DestroyBo, Busy
  <1>4. BusyOK'
    BY <1>2, <1>3 DEF DestroyBo, thrVars, LInv, BusyOK
  <1>5. QED
    BY <1>1, <1>4

(* Every step keeps the ledger and the ownership of bos by calls.         *)
LEMMA LedgerStep == LInv /\ [Next]_vars => PlaneFdLedger' /\ BusyOK'
  <1> SUFFICES ASSUME LInv, [Next]_vars PROVE PlaneFdLedger' /\ BusyOK'
    OBVIOUS
  <1>0. PlaneFdLedger /\ BusyOK
    BY DEF LInv
  <1>1. CASE \E t \in Threads, b \in Bos, a \in Args : CreateStart(t, b, a)
    BY <1>1, StartLedger
  <1>2. CASE \E t \in Threads : InitDriver(t)
    BY <1>2, InitDriverLedger
  <1>3. CASE \E t \in Threads : CreateBody(t)
    BY <1>3, BodyLedger
  <1>4. CASE \E b \in Bos, np \in 1 .. 2 : ImportBo(b, np)
    BY <1>4, ImportLedger
  <1>5. CASE \E b \in Bos : DestroyBo(b)
    BY <1>5, DestroyLedger
  <1>6. CASE \E b \in Bos : MapBo(b) \/ UnmapBo(b) \/ FlushBo(b)
    BY <1>0, <1>6, LedgerFrame DEF MapBo, UnmapBo, FlushBo, thrVars
  <1>7. CASE DriverClose
    BY <1>0, <1>7, LedgerFrame DEF DriverClose, thrVars, boVars
  <1>8. CASE \E b \in Bos, j \in GpuKind : GpuSubmit(b, j) \/ GpuComplete(b, j)
    BY <1>0, <1>8, LedgerFrame DEF GpuSubmit, GpuComplete, thrVars
  <1>9. CASE UNCHANGED vars
    BY <1>0, <1>9, LedgerFrame DEF vars, thrVars, boVars
  <1>10. QED
    BY <1>1, <1>2, <1>3, <1>4, <1>5, <1>6, <1>7, <1>8, <1>9 DEF Next

(* The plane-fd ledger of dmabuf_bo_create2, dmabuf_bo_import and          *)
(* dmabuf_bo_destroy holds for any number of threads, bos and fds: every   *)
(* open dup belongs to exactly one plane of one live bo.                   *)
THEOREM PlaneFdLedgerThm == Spec => []PlaneFdLedger
  <1>1. Init => LInv
    <2> SUFFICES ASSUME Init PROVE LInv
      OBVIOUS
    <2>1. TypeOK
      BY TypeInit
    <2>2. \A c \in Bos : BoFdSet(c) = {}
      BY DEF Init, BoFdSet
    <2>3. PlaneFdLedger
      BY <2>2 DEF Init, PlaneFdLedger
    <2>4. BusyOK
      BY DEF Init, BusyOK
    <2>5. QED
      BY <2>1, <2>3, <2>4 DEF LInv
  <1>2. LInv /\ [Next]_vars => LInv'
    BY TypeStep, LedgerStep DEF LInv
  <1>3. QED
    BY <1>1, <1>2, PTL DEF Spec, LInv
-----------------------------------------------------------------------------

(* A driver knows whether the device has a CMA heap: its CMA fd is the     *)
(* heap node itself exactly when the node exists, and otherwise a dup of   *)
(* the system fd or -1.                                                    *)
CmaKnown(d) == d # NoDrv => (d["linux,cma"] = "open" <=> "linux,cma" \in heaps)

(* drv->priv and every driver a call holds know it.                        *)
DrvKnown == CmaKnown(priv) /\ \A t \in Threads : CmaKnown(hold[t])

PInv == TypeOK /\ DrvKnown /\ ContigPlacement

(* The CMA fd dmabuf_get_or_init_driver may get is the node exactly when   *)
(* the node is there.                                                      *)
LEMMA FallbackCma ==
  ASSUME NEW hs, NEW c \in FallbackFd(hs, "linux,cma")
  PROVE  c = "open" <=> "linux,cma" \in hs
  BY DEF FallbackFd

(* Every step keeps the drivers' knowledge of the CMA heap.                *)
LEMMA DrvKnownStep == TypeOK /\ DrvKnown /\ [Next]_vars => DrvKnown'
  <1> SUFFICES ASSUME TypeOK, DrvKnown, [Next]_vars PROVE DrvKnown'
    OBVIOUS
  <1>1. CASE \E t \in Threads, b \in Bos, a \in Args : CreateStart(t, b, a)
    BY <1>1 DEF CreateStart, DrvKnown, CmaKnown, drvVars, TypeOK
  <1>2. ASSUME NEW t \in Threads, InitDriver(t) PROVE DrvKnown'
    <2>1. PICK s \in SystemFd(heaps) :
            IF s = "bad"
            THEN UNCHANGED <<priv, orphan, hold>>
            ELSE \E u \in FallbackFd(heaps, "system-uncached"),
                    c \in FallbackFd(heaps, "linux,cma") :
                   LET d == [k \in HeapKind |->
                               IF k = "system" THEN s
                               ELSE IF k = "linux,cma" THEN c ELSE u]
                   IN  /\ priv' = d
                       /\ orphan' = (orphan \/ priv # NoDrv)
                       /\ hold' = [hold EXCEPT ![t] = d]
      BY <1>2 DEF InitDriver
    <2>2. heaps' = heaps
      BY <1>2 DEF InitDriver
    <2>3. CASE s = "bad"
      BY <2>1, <2>2, <2>3 DEF DrvKnown, CmaKnown
    <2>4. CASE s # "bad"
      <3>1. PICK u \in FallbackFd(heaps, "system-uncached"),
                 c \in FallbackFd(heaps, "linux,cma") :
              LET d == [k \in HeapKind |->
                          IF k = "system" THEN s
                          ELSE IF k = "linux,cma" THEN c ELSE u]
              IN  /\ priv' = d
                  /\ hold' = [hold EXCEPT ![t] = d]
        BY <2>1, <2>4
      <3>2. c = "open" <=> "linux,cma" \in heaps
        BY FallbackCma
      <3>3. priv'["linux,cma"] = c /\ CmaKnown(priv)'
        BY <2>2, <3>1, <3>2 DEF CmaKnown, HeapKind
      <3>4. \A v \in Threads : CmaKnown(hold[v])'
        BY <2>2, <3>1, <3>3 DEF CmaKnown, DrvKnown, TypeOK
      <3>5. QED
        BY <3>3, <3>4 DEF DrvKnown
    <2>5. QED
      BY <2>3, <2>4
  <1>3. ASSUME NEW t \in Threads, CreateBody(t) PROVE DrvKnown'
    BY <1>3 DEF CreateBody, Return, DrvKnown, CmaKnown, drvVars, TypeOK, NoDrv
  <1>4. CASE \/ \E b \in Bos, np \in 1 .. 2 : ImportBo(b, np)
             \/ \E b \in Bos : DestroyBo(b) \/ MapBo(b) \/ UnmapBo(b) \/ FlushBo(b)
             \/ \E b \in Bos, j \in GpuKind : GpuSubmit(b, j) \/ GpuComplete(b, j)
             \/ UNCHANGED vars
    BY <1>4 DEF ImportBo, DestroyBo, MapBo, UnmapBo, FlushBo, GpuSubmit,
                GpuComplete, vars, drvVars, thrVars, DrvKnown, CmaKnown
  <1>5. CASE DriverClose
    BY <1>5 DEF DriverClose, thrVars, DrvKnown, CmaKnown
  <1>6. QED
    BY <1>1, <1>2, <1>3, <1>4, <1>5 DEF Next

(* dmabuf_bo_create2 places a bo by the flags it accepted and by the heap  *)
(* the driver opened for them.                                             *)
LEMMA ContigBody ==
  ASSUME TypeOK, DrvKnown, ContigPlacement, NEW t \in Threads, CreateBody(t)
  PROVE  ContigPlacement'
  <1> DEFINE b == tbo[t]  a == targ[t]  d == hold[t]  k == HeapChoice(a.use)
  <1>1. UNCHANGED heaps
    BY DEF CreateBody, drvVars
  <1>2. CASE UNCHANGED boVars
    BY <1>1, <1>2 DEF boVars, ContigPlacement
  <1>3. CASE ~UNCHANGED boVars
    <2>1. /\ ~Rejected(a, d)
          /\ boUse' = [boUse EXCEPT ![b] = a.use]
          /\ backing' = [backing EXCEPT ![b] = IF d[k] = "open" THEN k ELSE "system"]
      BY <1>3 DEF CreateBody, boVars
    <2>2. Residual(a.use) = {} /\ d # NoDrv
      BY <2>1 DEF Rejected
    <2>3. d["linux,cma"] = "open" <=> "linux,cma" \in heaps
      BY <2>2 DEF DrvKnown, CmaKnown
    <2>4. (IF d[k] = "open" THEN k ELSE "system")
            = IF ForceCma(a.use) /\ "linux,cma" \in heaps THEN "linux,cma" ELSE "system"
      BY <2>3 DEF HeapChoice
    <2>5. SUFFICES ASSUME NEW c \in Bos, backing'[c] \in {"system", "linux,cma"}
                   PROVE  /\ Residual(boUse'[c]) = {}
                          /\ backing'[c] = IF /\ boUse'[c] \cap ({"SCANOUT"} \cup Camera \cup Codec) # {}
                                              /\ "linux,cma" \in heaps'
                                           THEN "linux,cma" ELSE "system"
      BY DEF ContigPlacement
    <2>6. CASE c = b
      BY <1>1, <2>1, <2>2, <2>4, <2>6 DEF TypeOK, ForceCma
    <2>7. CASE c # b
      BY <1>1, <2>1, <2>5, <2>7 DEF TypeOK, ContigPlacement
    <2>8. QED
      BY <2>6, <2>7
  <1>4. QED
    BY <1>2, <1>3

(* Every step keeps the placement of the bos.                             *)
LEMMA ContigStep == PInv /\ [Next]_vars => ContigPlacement'
  <1> SUFFICES ASSUME TypeOK, DrvKnown, ContigPlacement, [Next]_vars
               PROVE  ContigPlacement'
    BY DEF PInv
  <1>1. CASE \E t \in Threads : CreateBody(t)
    BY <1>1, ContigBody
  <1>2. ASSUME NEW b \in Bos, NEW np \in 1 .. 2, ImportBo(b, np)
        PROVE  ContigPlacement'
    BY <1>2 DEF ImportBo, drvVars, ContigPlacement, TypeOK
  <1>3. ASSUME NEW b \in Bos, DestroyBo(b) PROVE ContigPlacement'
    BY <1>3 DEF DestroyBo, drvVars, ContigPlacement, TypeOK
  <1>4. CASE \/ \E t \in Threads, b \in Bos, a \in Args : CreateStart(t, b, a)
             \/ \E t \in Threads : InitDriver(t)
             \/ \E b \in Bos : MapBo(b) \/ UnmapBo(b) \/ FlushBo(b)
             \/ \E b \in Bos, j \in GpuKind : GpuSubmit(b, j) \/ GpuComplete(b, j)
             \/ DriverClose
             \/ UNCHANGED vars
    <2>1. UNCHANGED <<heaps, boUse, backing>>
      BY <1>4 DEF CreateStart, InitDriver, MapBo, UnmapBo, FlushBo, GpuSubmit,
                  GpuComplete, DriverClose, vars, drvVars, boVars
    <2>2. QED
      BY <2>1 DEF ContigPlacement
  <1>5. QED
    BY <1>1, <1>2, <1>3, <1>4 DEF Next

(* dmabuf_bo_create2's placement holds for any threads, heap              *)
(* configurations and requests, whichever thread initialises the driver:  *)
(* a bo for scanout, camera or codec use is in the CMA heap exactly when   *)
(* the device has one, any other in the system heap, and no bo was         *)
(* allocated for flags no unmask64 consumed.                               *)
THEOREM ContigPlacementThm == Spec => []ContigPlacement
  <1>1. Init => PInv
    BY TypeInit DEF Init, PInv, DrvKnown, CmaKnown, ContigPlacement
  <1>2. PInv /\ [Next]_vars => PInv'
    BY TypeStep, DrvKnownStep, ContigStep DEF PInv
  <1>3. QED
    BY <1>1, <1>2, PTL DEF Spec, PInv
=============================================================================
