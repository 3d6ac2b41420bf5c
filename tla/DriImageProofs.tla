--------------------------- MODULE DriImageProofs ---------------------------
(***************************************************************************)
(* Proofs, for every set of bos and dma-bufs, that the DRI backend's state *)
(* keeps its types, that dri_init unwinds exactly what it acquired, and    *)
(* that GEM handles stay owned by the bos that hold them when imports are  *)
(* of dma-bufs minigbm does not hold yet and failing DRI calls set errno.  *)
(***************************************************************************)
EXTENDS DriImage, TLAPS

(* The step dri_init fails at gives back exactly what it had acquired.     *)
LEMMA UnwindExact ==
  \A i \in 1 .. Len(InitSteps) : Unwind(InitSteps[i]) = Acquired(i)
  <1> SUFFICES ASSUME NEW i \in 1 .. 12
               PROVE Unwind(InitSteps[i]) = Acquired(i)
    BY DEF InitSteps
  <1> USE DEF Unwind, Acquired, InitRes, Gives, InitSteps, FreeDri, CloseDriFd,
              FreeHandle, FreeScreen, FreeContext
  <1>1. CASE i = 1  BY <1>1
  <1>2. CASE i = 2  BY <1>2
  <1>3. CASE i = 3  BY <1>3
  <1>4. CASE i = 4  BY <1>4
  <1>5. CASE i = 5  BY <1>5
  <1>6. CASE i = 6  BY <1>6
  <1>7. CASE i = 7  BY <1>7
  <1>8. CASE i = 8  BY <1>8
  <1>9. CASE i = 9  BY <1>9
  <1>10. CASE i = 10  BY <1>10
  <1>11. CASE i = 11  BY <1>11
  <1>12. CASE i = 12  BY <1>12
  <1>13. i \in {1, 2, 3, 4, 5, 6, 7, 8, 9, 10, 11, 12}
    OBVIOUS
  <1>14. QED
    BY <1>13, <1>1, <1>2, <1>3, <1>4, <1>5, <1>6, <1>7, <1>8, <1>9, <1>10, <1>11, <1>12

LEMMA AllResIsInitRes == AllRes = InitRes
  BY DEF AllRes, Acquired, InitRes, Gives, InitSteps

LEMMA TypeInit == Init => TypeOK
  BY AllResIsInitRes DEF Init, TypeOK

LEMMA TypeStep == TypeOK /\ [Next]_vars => TypeOK'
  <1> SUFFICES ASSUME TypeOK, [Next]_vars PROVE TypeOK'
    OBVIOUS
  <1> USE DEF TypeOK
  <1>1. CASE DriInit
    <2>1. \A i \in 1 .. Len(InitSteps) : Acquired(i) \subseteq InitRes
      BY DEF Acquired
    <2>2. QED
      BY <1>1, <2>1, AllResIsInitRes DEF DriInit, boVars
  <1>2. CASE DriClose
    BY <1>2 DEF DriClose, boVars
  <1>3. ASSUME NEW b \in Bos, DriBoCreate(b) \/ DriBoCreateWithModifiers(b)
                                \/ DriBoImport(b)
        PROVE TypeOK'
    BY <1>3 DEF DriBoCreate, DriBoCreateWithModifiers, DriBoImport, MakeImage,
                CreateImageFails, ImportIntoMinigbm, Return, Refused, NewBufs,
                ImportBufs, DriErr, drvVars, boVars
  <1>4. ASSUME NEW b \in Bos, DriBoRelease(b) \/ DriBoDestroy(b)
        PROVE TypeOK'
    BY <1>4 DEF DriBoRelease, DriBoDestroy, drvVars
  <1>5. ASSUME NEW b \in Bos, DriBoMap(b) \/ DriBoUnmap(b)
        PROVE TypeOK'
    BY <1>5 DEF DriBoMap, DriBoUnmap, drvVars
  <1>6. CASE UNCHANGED vars
    BY <1>6 DEF vars
  <1>7. QED
    BY <1>1, <1>2, <1>3, <1>4, <1>5, <1>6 DEF Next

(* The states of a bo are all typed.                                       *)
THEOREM TypeCorrect == Spec => []TypeOK
  BY TypeInit, TypeStep, PTL DEF Spec

-----------------------------------------------------------------------------
(* dri_init's unwinding gives back exactly what the failing call acquired,*)
(* for every outcome of every step, and dri_close gives back the rest.    *)
THEOREM InitRollbackThm == Spec => []InitRollback
  <1>1. Init => InitRollback
    BY DEF Init, InitRollback
  <1>2. InitRollback /\ [Next]_vars => InitRollback'
    <2> SUFFICES ASSUME InitRollback, [Next]_vars PROVE InitRollback'
      OBVIOUS
    <2>1. CASE DriInit
      <3>1. drv = "none" /\ held = {} /\ ~badFree
        BY <2>1 DEF DriInit, InitRollback
      <3>2. CASE \E i \in 1 .. Len(InitSteps) :
                   /\ held' = held \cup (Acquired(i) \ Unwind(InitSteps[i]))
                   /\ badFree' = (badFree \/ ~(Unwind(InitSteps[i]) \subseteq Acquired(i)))
                   /\ UNCHANGED drv
        BY <3>1, <3>2, UnwindExact DEF InitRollback
      <3>3. QED
        BY <2>1, <3>1, <3>2 DEF DriInit, InitRollback
    <2>2. CASE DriClose
      BY <2>2 DEF DriClose, InitRollback
    <2>3. CASE UNCHANGED drvVars
      BY <2>3 DEF drvVars, InitRollback
    <2>4. ASSUME NEW b \in Bos,
                 \/ DriBoCreate(b) \/ DriBoCreateWithModifiers(b) \/ DriBoImport(b)
                 \/ DriBoRelease(b) \/ DriBoDestroy(b) \/ DriBoMap(b) \/ DriBoUnmap(b)
          PROVE  UNCHANGED drvVars
      BY <2>4 DEF DriBoCreate, DriBoCreateWithModifiers, DriBoImport,
                  DriBoRelease, DriBoDestroy, DriBoMap, DriBoUnmap
    <2>5. UNCHANGED vars => UNCHANGED drvVars
      BY DEF vars, drvVars
    <2>6. QED
      BY <2>1, <2>2, <2>3, <2>4, <2>5 DEF Next
  <1>3. QED
    BY <1>1, <1>2, PTL DEF Spec

-----------------------------------------------------------------------------
(* The inductive invariant behind GemOwnership: the types, and the         *)
(* property itself.                                                        *)
GemInv == TypeOK /\ GemOwnership

(* A create or import on a free bo, of a dma-buf no bo holds, keeps the    *)
(* handles owned, whichever of its failure points it stops at.             *)
LEMMA MakeImageOwned ==
  ASSUME ~ErrnoMayBeZero, GemInv, NEW b \in Bos, st[b] = "free",
         NEW x \in Bufs \ gemOpen, ImportIntoMinigbm(b, x) \/ CreateImageFails(b)
  PROVE  GemOwnership'
  <1> DEFINE Held(S, G) == {G[c] : c \in {d \in Bos : S[d] # "free"}}
  <1>1. DriErr = {"err"}
    BY DEF DriErr
  <1>2. gemOpen = Held(st, gem)
    BY DEF GemInv, GemOwnership
  <1>3. CASE st'[b] = "free" /\ gem' = [gem EXCEPT ![b] = 0]
             /\ img' = [img EXCEPT ![b] = "none"]
             /\ st' = [st EXCEPT ![b] = "free"] /\ gemOpen' = gemOpen
    <2>1. Held(st', gem') = Held(st, gem)
      BY <1>3 DEF GemInv, TypeOK
    <2>2. QED
      BY <1>2, <1>3, <2>1 DEF GemInv, GemOwnership, TypeOK
  <1>4. CASE st' = [st EXCEPT ![b] = "created"] /\ gem' = [gem EXCEPT ![b] = x]
             /\ img' = [img EXCEPT ![b] = "live"] /\ gemOpen' = gemOpen \cup {x}
    <2>1. Held(st', gem') = Held(st, gem) \cup {x}
      BY <1>4 DEF GemInv, TypeOK
    <2>2. QED
      BY <1>2, <1>4, <2>1 DEF GemInv, GemOwnership, TypeOK
  <1>5. QED
    <2>1. CASE CreateImageFails(b)
      BY <1>1, <1>3, <2>1 DEF CreateImageFails, Return, GemInv, TypeOK
    <2>2. CASE ImportIntoMinigbm(b, x)
      <3>1. gemOpen \ {x} = gemOpen
        OBVIOUS
      <3>2. QED
        BY <1>1, <1>3, <1>4, <2>2, <3>1 DEF ImportIntoMinigbm, Return, GemInv, TypeOK
    <2>3. QED
      BY <2>1, <2>2

LEMMA GemStep ==
  ASSUME ~ImportLive, ~ErrnoMayBeZero
  PROVE  GemInv /\ [Next]_vars => GemInv'
  <1> SUFFICES ASSUME GemInv, [Next]_vars PROVE GemOwnership'
    BY TypeStep DEF GemInv
  <1> DEFINE Held(S, G) == {G[c] : c \in {d \in Bos : S[d] # "free"}}
  <1>1. gemOpen = Held(st, gem)
    BY DEF GemInv, GemOwnership
  <1>2. CASE UNCHANGED boVars
    BY <1>2 DEF boVars, GemInv, GemOwnership
  <1>3. ASSUME NEW b \in Bos, BoStart(b), NEW x \in NewBufs,
               MakeImage(b, x) \/ ImportIntoMinigbm(b, x)
        PROVE  GemOwnership'
    BY <1>3, MakeImageOwned DEF BoStart, NewBufs, MakeImage
  <1>4. ASSUME NEW b \in Bos, DriBoCreate(b) \/ DriBoCreateWithModifiers(b)
                                \/ DriBoImport(b)
        PROVE  GemOwnership'
    <2>1. ImportBufs = NewBufs
      BY DEF ImportBufs
    <2>2. BoStart(b)
      BY <1>4 DEF DriBoCreate, DriBoCreateWithModifiers, DriBoImport
    <2>3. Refused \/ \E x \in NewBufs : MakeImage(b, x) \/ ImportIntoMinigbm(b, x)
      BY <1>4, <2>1 DEF DriBoCreate, DriBoCreateWithModifiers, DriBoImport
    <2>4. QED
      BY <1>2, <1>3, <2>2, <2>3 DEF Refused
  <1>5. ASSUME NEW b \in Bos, DriBoRelease(b) PROVE GemOwnership'
    <2>1. Held(st', gem') = Held(st, gem)
      BY <1>5 DEF DriBoRelease, GemInv, TypeOK
    <2>2. QED
      BY <1>1, <1>5, <2>1 DEF DriBoRelease, GemInv, GemOwnership, TypeOK
  <1>6. ASSUME NEW b \in Bos, DriBoDestroy(b) PROVE GemOwnership'
    <2>1. Held(st', gem') = Held(st, gem) \ {gem[b]}
      BY <1>6 DEF DriBoDestroy, GemInv, TypeOK
    <2>2. QED
      BY <1>1, <1>6, <2>1 DEF DriBoDestroy, GemInv, GemOwnership, TypeOK
  <1>7. ASSUME NEW b \in Bos, DriBoMap(b) \/ DriBoUnmap(b) PROVE GemOwnership'
    BY <1>7 DEF DriBoMap, DriBoUnmap, GemInv, GemOwnership
  <1>8. DriInit \/ DriClose => UNCHANGED boVars
    BY DEF DriInit, DriClose
  <1>9. QED
    BY <1>2, <1>4, <1>5, <1>6, <1>7, <1>8 DEF Next, vars, boVars

(* When callers import only dma-bufs minigbm does not hold and a failing   *)
(* DRI call sets errno, every GEM handle open on the minigbm fd belongs to *)
(* a bo the caller holds, each such bo's handle is open, and a created bo  *)
(* has a live image: create, import, release and destroy keep the handle   *)
(* ledger exact for every number of bos and dma-bufs.                      *)
THEOREM GemOwnershipThm ==
  ASSUME ~ImportLive, ~ErrnoMayBeZero
  PROVE  Spec => []GemOwnership
  <1>1. Init => GemInv
    BY TypeInit DEF Init, GemInv, GemOwnership
  <1>2. QED
    BY <1>1, GemStep, PTL DEF Spec, GemInv
=============================================================================
