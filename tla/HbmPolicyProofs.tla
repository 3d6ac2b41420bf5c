-------------------------- MODULE HbmPolicyProofs --------------------------
(***************************************************************************)
(* Proofs, for every set of use flags, memory types and list length, that *)
(* the policy's variables keep their types, that the staging memory type  *)
(* hbm_create keeps is MAPPABLE and COHERENT, and that a memory type       *)
(* pick_memory_type hands out meets the glue's placement rules and is the  *)
(* first preferred type of the list.                                       *)
(***************************************************************************)
EXTENDS HbmPolicy, TLAPS

(* The staging memory types pick_staging_memory_type may keep: MAPPABLE    *)
(* and COHERENT types of the device.                                       *)
StagingTypes == {t \in MemTypes : StagingReq \subseteq t}

(* The variables keep their types; during the staging loop best_mt is 0   *)
(* or a staging type; once hbm_create is past the loop the staging type    *)
(* is a staging type unless it failed.  The flags pick_memory_type         *)
(* computed stay tied to the bo's use flags and layout through the loop;   *)
(* during the loop best_mt is still -1 and no type before the current one  *)
(* was preferable; once the loop is over, best_mt is -1 or the first       *)
(* preferable type.                                                        *)
IInv ==
  /\ TypeOK
  /\ pc # "done" => ret = "pending"
  /\ pc = "stgscan" => i \in Nat \ {0} /\ best \in StagingTypes \cup {{}}
  /\ pc \notin {"hbm_create", "stgscan"} /\ ret # "nodev" =>
       StagingReq \subseteq stagingMt
  /\ ret = "ok" => pc = "done" /\ outMt = best /\ best # NoMt
  /\ pc \in {"scan", "chosen"} \/ ret = "ok" =>
       /\ req = Required(use, layoutMod)
       /\ dis = Disallowed(use)
       /\ useStaging = (UseSw(use) /\ ~DirectMap(use, layoutMod))
  /\ pc = "scan" =>
       /\ i \in Nat \ {0}
       /\ best = NoMt
       /\ \A j \in 1 .. i - 1 : ~Preferable(j)
  /\ pc = "chosen" \/ ret = "ok" =>
       \/ best = NoMt
       \/ \E k \in 1 .. Len(mts) :
            /\ best = mts[k]
            /\ Preferable(k)
            /\ \A j \in 1 .. k - 1 : ~Preferable(j)

LEMMA MtListsType == MtLists \subseteq Seq(MemTypes)
  BY MaxTypesAssumption DEF MtLists

(* The modifier init_description and hbm_bo_create give is a DRM modifier. *)
LEMMA DescribeType ==
  ASSUME TypeOK, Describe PROVE use' \in SUBSET (UseFlags \cup {"TEXTURE"})
                               /\ descMod' \in Modifier
  <1>1. mods \subseteq Modifier
    BY DEF TypeOK, ModLists, Modifier
  <1>2. AllocModifier(mods) \in Modifier
    BY <1>1 DEF AllocModifier, Modifier
  <1>3. QED
    BY <1>2 DEF Describe, DescModifier, TypeOK, Modifier

LEMMA InitIInv == Init => IInv
  <1> SUFFICES ASSUME Init PROVE IInv
    OBVIOUS
  <1>1. NoMt # {}
    BY NoMtAssumption
  <1>2. mods \in ModLists /\ importMod \in Modifier
    BY DEF Init, ModLists, Modifier
  <1>3. <<>> \in Seq(MemTypes)
    OBVIOUS
  <1>4. TypeOK
    <2>1. use \in SUBSET (UseFlags \cup {"TEXTURE"})
      BY DEF Init
    <2>2. stagingMt # NoMt /\ stagingMt \in SUBSET MtFlag
      BY <1>1 DEF Init
    <2>3. best \in MemTypes \cup {NoMt, {}} /\ outMt \in MemTypes \cup {NoMt}
      BY DEF Init
    <2>4. QED
      BY <1>2, <1>3, <2>1, <2>2, <2>3 DEF Init, TypeOK, Modifier
  <1>5. QED
    BY <1>4 DEF Init, IInv

(* Each step keeps the types; the staging type and the type handed out    *)
(* come from the reported list, so they are memory types.                  *)
LEMMA TypeStep == IInv /\ [Next]_vars => TypeOK'
  <1> SUFFICES ASSUME IInv, [Next]_vars PROVE TypeOK'
    OBVIOUS
  <1>0. TypeOK
    BY DEF IInv
  <1>1. CASE HbmCreate
    BY <1>0, <1>1, MtListsType DEF HbmCreate, TypeOK
  <1>2. CASE StagingSkip
    BY <1>0, <1>2 DEF StagingSkip, stgVars, TypeOK
  <1>3. CASE StagingCached
    <2>1. mts[i] \in MemTypes
      BY <1>0, <1>3 DEF StagingCached, TypeOK, IInv
    <2>2. mts[i] # NoMt /\ mts[i] \in SUBSET MtFlag
      BY <2>1, MemTypesAssumption, NoMtAssumption
    <2>3. QED
      BY <1>0, <1>3, <2>2 DEF StagingCached, StagingDone, TypeOK
  <1>4. CASE StagingOther
    BY <1>0, <1>4 DEF StagingOther, stgVars, TypeOK, IInv
  <1>5. CASE StagingEnd
    <2>1. best \in StagingTypes \cup {{}}
      BY <1>5 DEF StagingEnd, IInv
    <2>2. best # NoMt /\ best \in SUBSET MtFlag
      BY <2>1, MemTypesAssumption, NoMtAssumption DEF StagingTypes
    <2>3. QED
      BY <1>0, <1>5, <2>2 DEF StagingEnd, StagingDone, TypeOK
  <1>6. CASE Describe
    BY <1>0, <1>6, DescribeType DEF Describe, TypeOK
  <1>7. CASE CreateHbmBo
    <2>1. LayoutChoices \subseteq Modifier
      BY <1>0 DEF TypeOK, LayoutChoices, ModLists, Modifier
    <2>2. QED
      BY <1>0, <1>7, <2>1 DEF CreateHbmBo, TypeOK
  <1>8. CASE PickStart
    BY <1>0, <1>8, MtListsType DEF PickStart, TypeOK, Required, Disallowed,
                                   Preferred, MtFlag
  <1>9. CASE ScanSkip \/ ScanPreferred \/ ScanOther \/ ScanEnd
    BY <1>0, <1>9 DEF ScanSkip, ScanPreferred, ScanOther, ScanEnd, scanVars,
                      TypeOK, IInv
  <1>10. CASE Finish
    <2>1. best # NoMt => best \in MemTypes
      BY <1>0, <1>10 DEF Finish, IInv, TypeOK
    <2>2. QED
      BY <1>0, <1>10, <2>1 DEF Finish, TypeOK
  <1>11. CASE UNCHANGED vars
    BY <1>0, <1>11 DEF vars, TypeOK
  <1>12. QED
    BY <1>1, <1>2, <1>3, <1>4, <1>5, <1>6, <1>7, <1>8, <1>9, <1>10, <1>11
    DEF Next

LEMMA StepIInv == IInv /\ [Next]_vars => IInv'
  <1> SUFFICES ASSUME IInv, [Next]_vars PROVE IInv'
    OBVIOUS
  <1>0. TypeOK /\ TypeOK'
    BY TypeStep DEF IInv
  <1> USE <1>0 DEF IInv
  <1>1. CASE HbmCreate
    BY <1>1 DEF HbmCreate
  <1>11. CASE StagingSkip
    BY <1>11 DEF StagingSkip, stgVars, TypeOK
  <1>12. CASE StagingCached
    <2>1. mts[i] \in MemTypes /\ StagingReq \subseteq mts[i]
      BY <1>12 DEF StagingCached, TypeOK
    <2>2. mts[i] # {}
      BY <2>1 DEF StagingReq
    <2>3. QED
      BY <1>12, <2>1, <2>2 DEF StagingCached, StagingDone
  <1>13. CASE StagingOther
    <2>1. mts[i] \in StagingTypes
      BY <1>13 DEF StagingOther, TypeOK, StagingTypes
    <2>2. QED
      BY <1>13, <2>1 DEF StagingOther, stgVars
  <1>14. CASE StagingEnd
    <2>1. best \in StagingTypes \cup {{}}
      BY <1>14 DEF StagingEnd
    <2>2. CASE best = {}
      BY <1>14, <2>2 DEF StagingEnd, StagingDone
    <2>3. CASE best # {}
      BY <1>14, <2>1, <2>3 DEF StagingEnd, StagingDone, StagingTypes
    <2>4. QED
      BY <2>2, <2>3
  <1>2. CASE Describe
    BY <1>2 DEF Describe
  <1>3. CASE CreateHbmBo
    BY <1>3 DEF CreateHbmBo
  <1>4. CASE PickStart
    BY <1>4 DEF PickStart
  <1>5. CASE ScanSkip
    <2>1. pc = "scan" /\ i \in Nat \ {0} /\ i <= Len(mts) /\ ~Preferable(i)
      BY <1>5 DEF ScanSkip, Preferable
    <2>2. \A j \in 1 .. i'- 1 : ~Preferable(j)'
      BY <1>5, <2>1 DEF ScanSkip, scanVars, Preferable, Allowed
    <2>3. QED
      BY <1>5, <2>1, <2>2 DEF ScanSkip, scanVars
  <1>6. CASE ScanPreferred
    <2>1. pc = "scan" /\ i \in 1 .. Len(mts) /\ Preferable(i)
      BY <1>6 DEF ScanPreferred, Preferable
    <2>2. (\E k \in 1 .. Len(mts) : best = mts[k] /\ Preferable(k)
                                   /\ \A j \in 1 .. k - 1 : ~Preferable(j))'
      BY <1>6, <2>1 DEF ScanPreferred, scanVars, Preferable, Allowed
    <2>3. QED
      BY <1>6, <2>1, <2>2 DEF ScanPreferred, scanVars
  <1>7. CASE ScanOther
    <2>1. pc = "scan" /\ i \in 1 .. Len(mts) /\ best = NoMt /\ ~Preferable(i)
      BY <1>7 DEF ScanOther, Preferable
    <2>2. best # {}
      BY <2>1, NoMtAssumption
    <2>3. i' = i + 1 /\ pc' = pc /\ best' = best
      BY <1>7, <2>2 DEF ScanOther
    <2>4. \A j \in 1 .. i'- 1 : ~Preferable(j)'
      BY <1>7, <2>1, <2>3 DEF ScanOther, scanVars, Preferable, Allowed
    <2>5. QED
      BY <1>7, <2>1, <2>3, <2>4 DEF ScanOther, scanVars
  <1>8. CASE ScanEnd
    BY <1>8 DEF ScanEnd, scanVars
  <1>9. CASE Finish
    <2>1. pc = "chosen" /\ pc' = "done"
          /\ UNCHANGED <<use, layoutMod, mts, req, dis, pref, useStaging, best>>
      BY <1>9 DEF Finish
    <2>3. CASE best = NoMt
      BY <1>9, <2>1, <2>3 DEF Finish
    <2>4. CASE best # NoMt
      <3>1. ret' = "ok" /\ outMt' = best
        BY <1>9, <2>4 DEF Finish
      <3>2. \E k \in 1 .. Len(mts) : best = mts[k] /\ Preferable(k)
                                    /\ \A j \in 1 .. k - 1 : ~Preferable(j)
        BY <2>1, <2>4
      <3>3. (\E k \in 1 .. Len(mts) : best = mts[k] /\ Preferable(k)
                                     /\ \A j \in 1 .. k - 1 : ~Preferable(j))'
        BY <2>1, <3>2 DEF Preferable, Allowed
      <3>4. (req = Required(use, layoutMod) /\ dis = Disallowed(use)
             /\ useStaging = (UseSw(use) /\ ~DirectMap(use, layoutMod)))'
        BY <2>1
      <3>5. QED
        BY <1>9, <2>1, <2>4, <3>1, <3>3, <3>4 DEF Finish
    <2>5. QED
      BY <2>3, <2>4
  <1>10. CASE UNCHANGED vars
    BY <1>10 DEF vars, Preferable, Allowed
  <1>15. QED
    BY <1>1, <1>2, <1>3, <1>4, <1>5, <1>6, <1>7, <1>8, <1>9, <1>10, <1>11,
       <1>12, <1>13, <1>14 DEF Next

(* The placement rules follow from the invariant: the type handed out is   *)
(* a preferable one, hence allowed under flags computed from the bo's use  *)
(* and layout.                                                             *)
LEMMA IInvPickSound == IInv => PickSound
  <1> SUFFICES ASSUME IInv, ret = "ok" PROVE PickSound
    BY DEF PickSound
  <1>1. PICK k \in 1 .. Len(mts) : outMt = mts[k] /\ Preferable(k)
    BY DEF IInv
  <1>2. req \subseteq outMt /\ outMt \cap dis = {}
    BY <1>1 DEF Preferable, Allowed
  <1>3. req = Required(use, layoutMod) /\ dis = Disallowed(use)
        /\ useStaging = (UseSw(use) /\ ~DirectMap(use, layoutMod))
    BY DEF IInv
  <1>4. outMt \in Candidates
    BY <1>1 DEF Candidates
  <1>5. UseOverlay(use) => "LOCAL" \in outMt /\ "CACHED" \notin outMt
    BY <1>2, <1>3 DEF Required, Disallowed
  <1>6. UseSw(use) /\ ~useStaging => layoutMod = "LINEAR" /\ "MAPPABLE" \in outMt
    BY <1>2, <1>3 DEF Required, DirectMap
  <1>7. QED
    BY <1>3, <1>4, <1>5, <1>6 DEF PickSound

-----------------------------------------------------------------------------
(* pick_memory_type never hands out a type that breaks the glue's          *)
(* placement rules (scanout in LOCAL uncached memory, a directly mapped SW *)
(* bo LINEAR and MAPPABLE, staging only for SW bos), for every use flag    *)
(* set, device and memory-type list.                                       *)
THEOREM PickSoundThm == Spec => []PickSound
  BY InitIInv, StepIInv, IInvPickSound, PTL DEF Spec

(* A successful pick_memory_type returns the first preferable type of the *)
(* list, for every list.                                                   *)
THEOREM PickFirstPreferredThm == Spec => []PickFirstPreferred
  <1>1. IInv => PickFirstPreferred
    BY DEF IInv, PickFirstPreferred
  <1>2. QED
    BY <1>1, InitIInv, StepIInv, PTL DEF Spec

(* Every variable of the policy keeps its type: in particular the staging *)
(* type hbm_create stores is never -1, and the type handed to              *)
(* create_resource is one the device reported.                             *)
THEOREM TypeCorrect == Spec => []TypeOK
  <1>1. IInv => TypeOK
    BY DEF IInv
  <1>2. QED
    BY <1>1, InitIInv, StepIInv, PTL DEF Spec

(* Whenever hbm_create has returned an hbm, the staging memory type that   *)
(* pick_staging_memory_type chose and every later hbm_map and hbm_sync     *)
(* relies on is MAPPABLE and COHERENT, for every list of memory types.     *)
THEOREM StagingTypeSoundThm == Spec => []StagingTypeSound
  <1>1. IInv => StagingTypeSound
    BY DEF IInv, StagingTypeSound
  <1>2. QED
    BY <1>1, InitIInv, StepIInv, PTL DEF Spec
=============================================================================
