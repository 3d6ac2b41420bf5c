----------------------------- MODULE HbmPolicy -----------------------------
(***************************************************************************)
(* How the hbm glue (src/hbm.c) decides where a buffer lives.  hbm_create  *)
(* picks the memory type of every later staging bo; then, for one          *)
(* dri_bo_create_with_modifiers or dri_bo_import, init_description fixes   *)
(* the modifier asked of hbm, hbm creates the bo with some layout and      *)
(* reports the memory types it can bind, and pick_memory_type chooses one  *)
(* of them and decides whether CPU access goes through a staging bo.       *)
(*                                                                         *)
(* Use flags and memory-type flags are sets of names; a memory type is the *)
(* set of its HBM_MEMORY_TYPE_* flags, as the code uses the flag word as   *)
(* the type's identifier (mt 0 is the empty set).  The loop of             *)
(* pick_memory_type is one step per iteration, so its break and continue   *)
(* are kept.                                                               *)
(***************************************************************************)
EXTENDS Naturals, Sequences

CONSTANTS
  UseFlags,   \* the BO_USE_* flags callers combine
  MemTypes,   \* the memory types (flag sets) a device can report
  MaxTypes,   \* most memory types hbm_bo_memory_types reports
  NoMt        \* best_mt = -1

MtFlag == {"LOCAL", "CACHED", "COHERENT", "MAPPABLE"}  \* HBM_MEMORY_TYPE_*
Modifier == {"LINEAR", "TILED", "INVALID"}             \* DRM_FORMAT_MOD_*

ASSUME UseFlagsAssumption ==
  UseFlags \subseteq {"SCANOUT", "CURSOR", "RENDERING", "TEXTURE",
                      "GPU_DATA_BUFFER", "SENSOR_DIRECT_DATA", "LINEAR",
                      "SW_READ_OFTEN", "SW_READ_RARELY",
                      "SW_WRITE_OFTEN", "SW_WRITE_RARELY"}

ASSUME MemTypesAssumption == MemTypes \subseteq SUBSET MtFlag

ASSUME MaxTypesAssumption == MaxTypes \in Nat

ASSUME NoMtAssumption == \A t \in SUBSET MtFlag : NoMt # t

(* The lists hbm_bo_memory_types can return.                               *)
MtLists == UNION {[1 .. n -> MemTypes] : n \in 0 .. MaxTypes}

(* The modifier lists dri_bo_create_with_modifiers is given.              *)
ModLists == {{}, {"LINEAR"}, {"TILED"}, {"LINEAR", "TILED"}}

-----------------------------------------------------------------------------
(* use_overlay, use_gpu, use_sw_read, use_sw_write, use_sw, use_sw_often. *)
UseOverlay(u) == u \cap {"SCANOUT", "CURSOR"} # {}
UseGpu(u) == u \cap {"RENDERING", "TEXTURE", "GPU_DATA_BUFFER"} # {}
UseSwRead(u) == u \cap {"SW_READ_OFTEN", "SW_READ_RARELY"} # {}
UseSwWrite(u) == u \cap {"SW_WRITE_OFTEN", "SW_WRITE_RARELY"} # {}
UseSw(u) == UseSwRead(u) \/ UseSwWrite(u)
UseSwOften(u) == u \cap {"SW_READ_OFTEN", "SW_WRITE_OFTEN"} # {}

(* prefer_map: map the bo directly (MAP) rather than copy (COPY).          *)
PreferMap(u) ==
  IF UseOverlay(u) THEN UseSwOften(u) /\ ~UseSwRead(u)
  ELSE IF UseGpu(u) THEN UseSwOften(u)
  ELSE TRUE

(* The modifier init_description puts in the description; `linearOk` is  *)
(* hbm_device_has_modifier(test_desc, LINEAR).                             *)
DescModifier(u, mod, linearOk) ==
  LET m == IF mod = "INVALID" /\ u \cap {"LINEAR", "CURSOR"} # {}
           THEN "LINEAR" ELSE mod
  IN  IF UseSw(u) /\ m = "INVALID" /\ PreferMap(u) /\ linearOk
      THEN "LINEAR" ELSE m

(* hbm_allocate: one modifier is asked for, several become a constraint.   *)
AllocModifier(mods) ==
  IF \E m \in mods : mods = {m} THEN CHOOSE m \in mods : TRUE ELSE "INVALID"

(* The flags every staging memory type must have.                         *)
StagingReq == {"MAPPABLE", "COHERENT"}

VARIABLES
  pc,         \* where the call is
  entry,      \* "allocate" (dri_bo_create_with_modifiers) or "import"
  use,        \* use_flags
  mods,       \* the modifier list of an allocation
  importMod,  \* import_data->format_modifier
  stagingMt,  \* hbm->staging_mt
  descMod,    \* desc.modifier after init_description
  layoutMod,  \* layout.modifier of the created hbm_bo
  mts,        \* what hbm_bo_memory_types reported
  req,        \* required_flags
  dis,        \* disallowed_flags
  pref,       \* preferred_flag ({} for 0)
  useStaging, \* use_staging
  i,          \* loop index (from 1)
  best,       \* best_mt
  outMt,      \* *out_mt
  ret         \* how the call ended

vars == <<pc, entry, use, mods, importMod, stagingMt, descMod, layoutMod,
          mts, req, dis, pref, useStaging, i, best, outMt, ret>>

TypeOK ==
  /\ pc \in {"hbm_create", "stgscan", "describe", "create", "pick", "scan",
            "chosen", "done"}
  /\ entry \in {"allocate", "import"}
  /\ use \in SUBSET (UseFlags \cup {"TEXTURE"})
  /\ mods \in ModLists
  /\ importMod \in Modifier
  /\ stagingMt # NoMt /\ stagingMt \in SUBSET MtFlag   \* never -1
  /\ descMod \in Modifier
  /\ layoutMod \in Modifier
  /\ mts \in Seq(MemTypes)
  /\ req \in SUBSET MtFlag
  /\ dis \in SUBSET MtFlag
  /\ pref \in SUBSET MtFlag
  /\ useStaging \in BOOLEAN
  /\ i \in Nat
  /\ best \in MemTypes \cup {NoMt, {}}
  /\ outMt \in MemTypes \cup {NoMt}
  /\ ret \in {"pending", "ok", "nodev", "fail", "nomt"}

(* The arguments of the call; nothing computed yet.                        *)
Init ==
  /\ pc = "hbm_create"
  /\ entry \in {"allocate", "import"}
  /\ use \in SUBSET UseFlags
  /\ mods \in IF entry = "allocate" THEN ModLists ELSE {{}}
  /\ importMod \in IF entry = "import" THEN Modifier ELSE {"INVALID"}
  /\ stagingMt = {}
  /\ descMod = "INVALID"
  /\ layoutMod = "INVALID"
  /\ mts = <<>>
  /\ req = {} /\ dis = {} /\ pref = {}
  /\ useStaging = FALSE
  /\ i = 0
  /\ best = NoMt
  /\ outMt = NoMt
  /\ ret = "pending"
-----------------------------------------------------------------------------
(* Mutant: best_mt of pick_staging_memory_type starts at -1, as in        *)
(* pick_memory_type.                                                       *)
HbmCreateMinusOne ==
  /\ pc = "hbm_create"
  /\ \/ /\ pc' = "done" /\ ret' = "nodev"
        /\ UNCHANGED <<mts, i, best>>
     \/ /\ mts' \in MtLists /\ i' = 1 /\ best' = NoMt
        /\ pc' = "stgscan" /\ UNCHANGED ret
  /\ UNCHANGED <<entry, use, mods, importMod, stagingMt, descMod, layoutMod,
                 req, dis, pref, useStaging, outMt>>

(* hbm_create: no device, no hbm, or create_staging or get_memory_types    *)
(* fails in pick_staging_memory_type (which then returns 0); otherwise    *)
(* its loop starts over the types of a 1-byte staging bo, best_mt = 0.    *)
HbmCreate ==
  /\ pc = "hbm_create"
  /\ \/ /\ pc' = "done" /\ ret' = "nodev"
        /\ UNCHANGED <<mts, i, best>>
     \/ /\ mts' \in MtLists /\ i' = 1 /\ best' = {}
        /\ pc' = "stgscan" /\ UNCHANGED ret
  /\ UNCHANGED <<entry, use, mods, importMod, stagingMt, descMod, layoutMod,
                 req, dis, pref, useStaging, outMt>>

stgVars == <<entry, use, mods, importMod, stagingMt, descMod, layoutMod,
             req, dis, pref, useStaging, outMt, ret>>

(* pick_staging_memory_type returns best_mt (mts is freed) and hbm_create *)
(* keeps it as hbm->staging_mt, or destroys the hbm when it is 0.          *)
StagingDone(mt) ==
  /\ stagingMt' = mt
  /\ IF mt = {} THEN pc' = "done" /\ ret' = "nodev"
                ELSE pc' = "describe" /\ UNCHANGED ret
  /\ mts' = <<>> /\ i' = 0 /\ best' = NoMt
  /\ UNCHANGED <<entry, use, mods, importMod, descMod, layoutMod, req, dis,
                 pref, useStaging, outMt>>

(* Iteration i: the type is not MAPPABLE and COHERENT; continue.           *)
StagingSkip ==
  /\ pc = "stgscan"
  /\ i <= Len(mts)
  /\ ~(StagingReq \subseteq mts[i])
  /\ i' = i + 1
  /\ UNCHANGED <<pc, mts, best>>
  /\ UNCHANGED stgVars

(* Iteration i: a CACHED staging type is taken and the loop breaks.       *)
StagingCached ==
  /\ pc = "stgscan"
  /\ i <= Len(mts)
  /\ StagingReq \subseteq mts[i]
  /\ "CACHED" \in mts[i]
  /\ StagingDone(mts[i])

(* Mutant: types without the required flags are not skipped.              *)
StagingOtherNoRequired ==
  /\ pc = "stgscan"
  /\ i <= Len(mts)
  /\ "CACHED" \notin mts[i]
  /\ best' = IF best = {} THEN mts[i] ELSE best
  /\ i' = i + 1
  /\ UNCHANGED <<pc, mts>>
  /\ UNCHANGED stgVars

(* Iteration i: an uncached staging type is kept if it is the first.      *)
StagingOther ==
  /\ pc = "stgscan"
  /\ i <= Len(mts)
  /\ StagingReq \subseteq mts[i]
  /\ "CACHED" \notin mts[i]
  /\ best' = IF best = {} THEN mts[i] ELSE best
  /\ i' = i + 1
  /\ UNCHANGED <<pc, mts>>
  /\ UNCHANGED stgVars

(* The staging loop runs out of types.                                    *)
StagingEnd ==
  /\ pc = "stgscan"
  /\ i > Len(mts)
  /\ StagingDone(best)

(* dri_bo_create_with_modifiers (no use flags: TEXTURE) into hbm_allocate, *)
(* or dri_bo_import into hbm_import; both start with init_description.    *)
Describe ==
  /\ pc = "describe"
  /\ \E linearOk \in BOOLEAN :
       LET u == IF entry = "allocate" /\ use = {} THEN {"TEXTURE"} ELSE use
           m == IF entry = "allocate" THEN AllocModifier(mods) ELSE importMod
       IN  /\ use' = u
           /\ descMod' = DescModifier(u, m, linearOk)
  /\ pc' = "create"
  /\ UNCHANGED <<entry, mods, importMod, stagingMt, layoutMod, mts, req, dis,
                 pref, useStaging, i, best, outMt, ret>>

(* The layouts hbm can give the bo: an import keeps the importer's         *)
(* modifier (init_layout); an allocation gets the one asked for, one of    *)
(* the constraint's, or any.                                               *)
LayoutChoices ==
  IF entry = "import" THEN {importMod}
  ELSE IF descMod # "INVALID" THEN {descMod}
  ELSE IF mods # {} THEN mods
  ELSE {"LINEAR", "TILED"}

(* hbm_bo_create_with_constraint / init_layout and                         *)
(* hbm_bo_create_with_layout, then hbm_bo_layout.                          *)
CreateHbmBo ==
  /\ pc = "create"
  /\ \/ /\ pc' = "done"
        /\ ret' = "fail"
        /\ UNCHANGED layoutMod
     \/ /\ layoutMod' \in LayoutChoices
        /\ pc' = "pick"
        /\ UNCHANGED ret
  /\ UNCHANGED <<entry, use, mods, importMod, stagingMt, descMod, mts, req,
                 dis, pref, useStaging, i, best, outMt>>

(* Mutant: the modifier is not looked at.                                  *)
DirectMapIgnoresModifier(u, mod) == UseSw(u) /\ PreferMap(u)

(* pick_memory_type's choice between mapping the bo and a staging bo.     *)
DirectMap(u, mod) == UseSw(u) /\ mod = "LINEAR" /\ PreferMap(u)

(* required_flags, disallowed_flags and preferred_flag.                   *)
Required(u, mod) ==
  (IF UseOverlay(u) THEN {"LOCAL"} ELSE {})
    \cup (IF DirectMap(u, mod) THEN {"MAPPABLE"} ELSE {})
Disallowed(u) == IF UseOverlay(u) THEN {"CACHED"} ELSE {}
Preferred(u, mod) ==
  LET p == IF DirectMap(u, mod) THEN {"CACHED"} ELSE {"LOCAL"}
  IN  IF Disallowed(u) \cap p # {} THEN {} ELSE p

(* pick_memory_type up to the loop: the flags, use_staging, and           *)
(* get_memory_types (whose malloc can fail).                               *)
PickStart ==
  /\ pc = "pick"
  /\ req' = Required(use, layoutMod)
  /\ dis' = Disallowed(use)
  /\ pref' = Preferred(use, layoutMod)
  /\ useStaging' = (UseSw(use) /\ ~DirectMap(use, layoutMod))
  /\ \/ /\ pc' = "done"
        /\ ret' = "fail"
        /\ UNCHANGED <<mts, i>>
     \/ /\ mts' \in MtLists
        /\ i' = 1
        /\ pc' = "scan"
        /\ UNCHANGED ret
  /\ best' = NoMt
  /\ UNCHANGED <<entry, use, mods, importMod, stagingMt, descMod, layoutMod, outMt>>

Allowed(mt) == req \subseteq mt /\ mt \cap dis = {}

scanVars == <<entry, use, mods, importMod, stagingMt, descMod, layoutMod,
              mts, req, dis, pref, useStaging, outMt, ret>>

(* Iteration i: the type lacks a required or has a disallowed flag.        *)
ScanSkip ==
  /\ pc = "scan"
  /\ i <= Len(mts)
  /\ ~Allowed(mts[i])
  /\ i' = i + 1
  /\ UNCHANGED <<pc, best>>
  /\ UNCHANGED scanVars

(* Mutant: the loop does not break on a preferred type.                    *)
ScanPreferredNoBreak ==
  /\ pc = "scan"
  /\ i <= Len(mts)
  /\ Allowed(mts[i])
  /\ mts[i] \cap pref # {}
  /\ best' = mts[i]
  /\ i' = i + 1
  /\ UNCHANGED pc
  /\ UNCHANGED scanVars

(* Iteration i: the type has the preferred flag; take it and break.        *)
ScanPreferred ==
  /\ pc = "scan"
  /\ i <= Len(mts)
  /\ Allowed(mts[i])
  /\ mts[i] \cap pref # {}
  /\ best' = mts[i]
  /\ pc' = "chosen"
  /\ UNCHANGED i
  /\ UNCHANGED scanVars

(* Iteration i: an allowed type without the preferred flag is kept when   *)
(* best_mt is still 0, and ends the loop when nothing is preferred.        *)
ScanOther ==
  /\ pc = "scan"
  /\ i <= Len(mts)
  /\ Allowed(mts[i])
  /\ mts[i] \cap pref = {}
  /\ IF best = {}
       THEN /\ best' = mts[i]
            /\ IF pref = {} THEN pc' = "chosen" /\ UNCHANGED i
                            ELSE i' = i + 1 /\ UNCHANGED pc
       ELSE /\ i' = i + 1
            /\ UNCHANGED <<pc, best>>
  /\ UNCHANGED scanVars

(* The loop runs out of types.                                            *)
ScanEnd ==
  /\ pc = "scan"
  /\ i > Len(mts)
  /\ pc' = "chosen"
  /\ UNCHANGED <<i, best>>
  /\ UNCHANGED scanVars

(* After the loop: fail on best_mt == -1, else hand out the type and the  *)
(* staging decision (create_resource goes on with them).                   *)
Finish ==
  /\ pc = "chosen"
  /\ pc' = "done"
  /\ IF best = NoMt THEN ret' = "nomt" /\ UNCHANGED outMt
                    ELSE ret' = "ok" /\ outMt' = best
  /\ UNCHANGED <<entry, use, mods, importMod, stagingMt, descMod, layoutMod,
                 mts, req, dis, pref, useStaging, i, best>>

Next ==
  \/ HbmCreate
  \/ StagingSkip
  \/ StagingCached
  \/ StagingOther
  \/ StagingEnd
  \/ Describe
  \/ CreateHbmBo
  \/ PickStart
  \/ ScanSkip
  \/ ScanPreferred
  \/ ScanOther
  \/ ScanEnd
  \/ Finish

Spec == Init /\ [][Next]_vars

-----------------------------------------------------------------------------
(* The types of the list the loop may choose from.                         *)
Candidates == {mts[k] : k \in 1 .. Len(mts)}

(* Type k of the list meets the required and disallowed flags and has    *)
(* the preferred one.                                                       *)
Preferable(k) == Allowed(mts[k]) /\ mts[k] \cap pref # {}

(* What pick_memory_type hands to create_resource is what the rest of the *)
(* glue relies on: a scanout or cursor bo is in LOCAL, uncached memory; a  *)
(* SW bo that is mapped directly (no staging) has a LINEAR layout in       *)
(* MAPPABLE memory, since hbm_map hands out the bo itself as the linear    *)
(* view; and staging is only used for SW bos.                              *)
PickSound ==
  ret = "ok" =>
    /\ outMt \in Candidates
    /\ UseOverlay(use) => "LOCAL" \in outMt /\ "CACHED" \notin outMt
    /\ UseSw(use) /\ ~useStaging => layoutMod = "LINEAR" /\ "MAPPABLE" \in outMt
    /\ useStaging => UseSw(use)

(* Once hbm_create has succeeded, the memory type of every staging bo is  *)
(* MAPPABLE and COHERENT: hbm_map maps it, and hbm_sync copies through it  *)
(* with no flush or invalidate.                                            *)
StagingTypeSound ==
  pc \notin {"hbm_create", "stgscan"} /\ ret # "nodev" => StagingReq \subseteq stagingMt

(* When pick_memory_type succeeds it has taken the first allowed type     *)
(* that has the preferred flag: the loop breaks there, and no later type   *)
(* overrides it.                                                           *)
PickFirstPreferred ==
  ret = "ok" =>
    \E k \in 1 .. Len(mts) :
      /\ outMt = mts[k]
      /\ Preferable(k)
      /\ \A j \in 1 .. k - 1 : ~Preferable(j)

(* pick_memory_type fails only when no memory type of the bo meets the    *)
(* required and disallowed flags (the policy of the spec and of the loop's *)
(* fallback branch, which keeps the first allowed type).                   *)
PickComplete ==
  pc = "done" /\ ret \in {"ok", "nomt"} =>
    (ret = "ok" <=> \E mt \in Candidates : Allowed(mt))
=============================================================================
