------------------------------ MODULE DriImage ------------------------------
(***************************************************************************)
(* The Mesa DRI backend (src/dri.c): dri_init and dri_close, and the bo    *)
(* operations over __DRIimage.  Each call is one atomic step: bo calls are *)
(* made on a bo their caller owns, and map and unmap run under the         *)
(* driver's mutex (the comment above dri_bo_map).                          *)
(*                                                                         *)
(* dri_init's resources are names.  A GEM handle is named by its dma-buf: *)
(* drmPrimeFDToHandle gives the handle already open for a dma-buf, and 0  *)
(* is no handle.  Where dri.c returns -errno after a *)
(* DRI callback failed, errno is whatever the last failing libc call left; *)
(* DriErr is what that return can be: an error, or 0 (success) when the    *)
(* callback did not set errno and ErrnoMayBeZero holds.                    *)
(***************************************************************************)
EXTENDS Naturals, Sequences

CONSTANTS
  Bos,            \* bo structs handed to the backend
  Bufs,           \* dma-bufs; the GEM handle of one on the minigbm fd
  ImportLive,     \* a caller may import a dma-buf a live bo already holds
  ErrnoMayBeZero  \* a failing DRI callback may leave errno 0

ASSUME BufsAssumption == 0 \notin Bufs
ASSUME FlagsAssumption == ImportLive \in BOOLEAN /\ ErrnoMayBeZero \in BOOLEAN

DriErr == {"err"} \cup (IF ErrnoMayBeZero THEN {"ok"} ELSE {})

(* The optional entry points of __DRIimageExtension the calls test.       *)
OptionalExt == {"createImageWithModifiers", "createImageFromDmaBufs2"}

-----------------------------------------------------------------------------
(* The steps of dri_init, in order, and what each one acquires.            *)
InitSteps ==
  <<"calloc", "render_node", "open", "dlopen", "dlsym", "get_extensions",
    "lookup_core", "lookup_dri2", "createNewScreen2", "createNewContext",
    "lookup_image", "lookup_flush">>

Gives(s) ==
  CASE s = "calloc" -> {"dri"}
    [] s = "open" -> {"fd"}
    [] s = "dlopen" -> {"handle"}
    [] s = "createNewScreen2" -> {"screen"}
    [] s = "createNewContext" -> {"context"}
    [] OTHER -> {}

InitRes == {"dri", "fd", "handle", "screen", "context"}

(* What the steps before step i acquired.                                  *)
Acquired(i) == {r \in InitRes : \E j \in 1 .. i - 1 : r \in Gives(InitSteps[j])}
AllRes == Acquired(Len(InitSteps) + 1)

(* What each label of dri_init's unwinding releases, falling through.      *)
FreeDri == {"dri"}
CloseDriFd == FreeDri \cup {"fd"}
FreeHandle == CloseDriFd \cup {"handle"}
FreeScreen == FreeHandle \cup {"screen"}
FreeContext == FreeScreen \cup {"context"}

(* Mutant: a failing createNewContext jumps to free_handle.                *)
UnwindContextToHandle(s) ==
  CASE s = "calloc" -> {}
    [] s \in {"render_node", "open"} -> FreeDri
    [] s = "dlopen" -> CloseDriFd
    [] s \in {"dlsym", "get_extensions", "lookup_core", "lookup_dri2",
              "createNewScreen2", "createNewContext"} -> FreeHandle
    [] OTHER -> FreeContext

(* The label each failing step of dri_init jumps to.                       *)
Unwind(s) ==
  CASE s = "calloc" -> {}
    [] s \in {"render_node", "open"} -> FreeDri
    [] s = "dlopen" -> CloseDriFd
    [] s \in {"dlsym", "get_extensions", "lookup_core", "lookup_dri2",
              "createNewScreen2"} -> FreeHandle
    [] s = "createNewContext" -> FreeScreen
    [] OTHER -> FreeContext

VARIABLES
  drv,      \* "ready" when dri_init returned a dri_driver, else "none"
  held,     \* the dri_init resources held
  badFree,  \* ghost: dri_init released something it did not hold
  exts,     \* the optional entry points the DRI driver provides
  st,       \* st[b]: "free", "created" (by create or import), "released"
  img,      \* img[b]: bo->priv: "none", a "live" image, or "freed" (dangling)
  gem,      \* gem[b]: bo->handle.u32
  gemOpen,  \* GEM handles open on the minigbm DRM fd
  mapped    \* mapped[b]: vma->priv holds a mapImage mapping

vars == <<drv, held, badFree, exts, st, img, gem, gemOpen, mapped>>
drvVars == <<drv, held, badFree, exts>>
boVars == <<st, img, gem, gemOpen, mapped>>

TypeOK ==
  /\ drv \in {"none", "ready"}
  /\ held \subseteq AllRes
  /\ badFree \in BOOLEAN
  /\ exts \subseteq OptionalExt
  /\ st \in [Bos -> {"free", "created", "released"}]
  /\ img \in [Bos -> {"none", "live", "freed"}]
  /\ gem \in [Bos -> Bufs \cup {0}]
  /\ gemOpen \subseteq Bufs
  /\ mapped \in [Bos -> BOOLEAN]

Init ==
  /\ drv = "none" /\ held = {} /\ badFree = FALSE
  /\ exts \in SUBSET OptionalExt
  /\ st = [b \in Bos |-> "free"]
  /\ img = [b \in Bos |-> "none"]
  /\ gem = [b \in Bos |-> 0]
  /\ gemOpen = {}
  /\ mapped = [b \in Bos |-> FALSE]

-----------------------------------------------------------------------------
(* dri_init: the steps run in order until one fails; a failing step jumps *)
(* to its label and the labels below it release what they name.          *)
DriInit ==
  /\ drv = "none"
  /\ \/ \E i \in 1 .. Len(InitSteps) :
          /\ held' = held \cup (Acquired(i) \ Unwind(InitSteps[i]))
          /\ badFree' = (badFree \/ ~(Unwind(InitSteps[i]) \subseteq Acquired(i)))
          /\ UNCHANGED drv
     \/ /\ held' = held \cup AllRes
        /\ drv' = "ready"
        /\ UNCHANGED badFree
  /\ UNCHANGED <<exts, boVars>>

(* dri_close, called once no bo is left.                                   *)
DriClose ==
  /\ drv = "ready"
  /\ \A b \in Bos : st[b] = "free"
  /\ drv' = "none"
  /\ held' = held \ AllRes
  /\ UNCHANGED <<badFree, exts, boVars>>

(* The end of a create or import of bo b returning r: on 0 the caller     *)
(* keeps the bo with bo->priv = i and bo->handle = h; on an error drv.c    *)
(* frees it (after free_image destroyed any image made).                  *)
Return(b, r, i, h) ==
  /\ st' = [st EXCEPT ![b] = IF r = "ok" THEN "created" ELSE "free"]
  /\ img' = [img EXCEPT ![b] = IF r = "ok" THEN i ELSE "none"]
  /\ gem' = [gem EXCEPT ![b] = IF r = "ok" THEN h ELSE 0]

(* Mutant: the cleanup label does not close the handle it opened.          *)
ImportIntoMinigbmNoCleanup(b, x) ==
  \/ \E r \in DriErr : Return(b, r, "live", 0) /\ UNCHANGED gemOpen
  \/ Return(b, "err", "live", 0) /\ UNCHANGED gemOpen
  \/ Return(b, "ok", "live", x) /\ gemOpen' = gemOpen \cup {x}
  \/ \E r \in DriErr : Return(b, r, "live", x) /\ gemOpen' = gemOpen \cup {x}

(* import_into_minigbm on the new image of dma-buf x for bo b: the         *)
(* NUM_PLANES or FD query fails; lseek or drmPrimeFDToHandle fails; the    *)
(* handle of x is opened and every plane is queried; or a plane query      *)
(* fails and cleanup closes the handle, which bo->handle still names.      *)
ImportIntoMinigbm(b, x) ==
  \/ \E r \in DriErr : Return(b, r, "live", 0) /\ UNCHANGED gemOpen
  \/ Return(b, "err", "live", 0) /\ UNCHANGED gemOpen
  \/ Return(b, "ok", "live", x) /\ gemOpen' = gemOpen \cup {x}
  \/ \E r \in DriErr : Return(b, r, "live", x) /\ gemOpen' = gemOpen \ {x}

(* createImage, createImageWithModifiers or createImageFromFds returns     *)
(* NULL and the call returns -errno.                                       *)
CreateImageFails(b) ==
  \E r \in DriErr : Return(b, r, "none", 0) /\ UNCHANGED gemOpen

(* An image of dma-buf x is made, or not, and imported into minigbm.       *)
MakeImage(b, x) == CreateImageFails(b) \/ ImportIntoMinigbm(b, x)

(* A call that fails before any image is made: drv.c frees the bo.         *)
Refused == UNCHANGED boVars

(* The dma-bufs a create allocates, and those a caller may import.         *)
NewBufs == Bufs \ gemOpen
ImportBufs == IF ImportLive THEN Bufs ELSE NewBufs

BoStart(b) == drv = "ready" /\ st[b] = "free"

DriBoCreate(b) ==
  /\ BoStart(b)
  /\ \E x \in NewBufs : MakeImage(b, x)
  /\ UNCHANGED <<drvVars, mapped>>

DriBoCreateWithModifiers(b) ==
  /\ BoStart(b)
  /\ \/ "createImageWithModifiers" \notin exts /\ Refused
     \/ "createImageWithModifiers" \in exts /\ \E x \in NewBufs : MakeImage(b, x)
  /\ UNCHANGED <<drvVars, mapped>>

(* dri_bo_import with a modifier goes through createImageFromDmaBufs2,     *)
(* whose failure returns -ENOSYS; without one, through createImageFromFds. *)
DriBoImport(b) ==
  /\ BoStart(b)
  /\ \E x \in ImportBufs :
       \/ "createImageFromDmaBufs2" \notin exts /\ Refused
       \/ "createImageFromDmaBufs2" \in exts /\ (Refused \/ ImportIntoMinigbm(b, x))
       \/ MakeImage(b, x)
  /\ UNCHANGED <<drvVars, mapped>>

(* dri_bo_release destroys the image and leaves bo->priv dangling.         *)
DriBoRelease(b) ==
  /\ st[b] = "created"
  /\ ~mapped[b]
  /\ st' = [st EXCEPT ![b] = "released"]
  /\ img' = [img EXCEPT ![b] = "freed"]
  /\ UNCHANGED <<drvVars, gem, gemOpen, mapped>>

(* dri_bo_destroy closes bo->handle and clears bo->priv.  drv.c calls it   *)
(* when the last bo holding that handle goes.                              *)
DriBoDestroy(b) ==
  /\ st[b] = "released"
  /\ \A c \in Bos \ {b} : st[c] = "free" \/ gem[c] # gem[b]
  /\ gemOpen' = gemOpen \ {gem[b]}
  /\ st' = [st EXCEPT ![b] = "free"]
  /\ img' = [img EXCEPT ![b] = "none"]
  /\ gem' = [gem EXCEPT ![b] = 0]
  /\ UNCHANGED <<drvVars, mapped>>

(* dri_bo_map: mapImage on the shared context, under the driver's mutex;  *)
(* NULL gives MAP_FAILED.                                                  *)
DriBoMap(b) ==
  /\ drv = "ready"
  /\ st[b] = "created"
  /\ ~mapped[b]
  /\ mapped' \in {mapped, [mapped EXCEPT ![b] = TRUE]}
  /\ UNCHANGED <<drvVars, st, img, gem, gemOpen>>

(* dri_bo_unmap: unmapImage, then flush_with_flags on the context.         *)
DriBoUnmap(b) ==
  /\ mapped[b]
  /\ mapped' = [mapped EXCEPT ![b] = FALSE]
  /\ UNCHANGED <<drvVars, st, img, gem, gemOpen>>

Next ==
  \/ DriInit
  \/ DriClose
  \/ \E b \in Bos :
       \/ DriBoCreate(b)
       \/ DriBoCreateWithModifiers(b)
       \/ DriBoImport(b)
       \/ DriBoRelease(b)
       \/ DriBoDestroy(b)
       \/ DriBoMap(b)
       \/ DriBoUnmap(b)

Spec == Init /\ [][Next]_vars

-----------------------------------------------------------------------------
(* dri_init's unwinding releases exactly what the failing call had         *)
(* acquired: a failed dri_init leaks nothing and frees nothing twice, and  *)
(* a driver it returns holds every resource until dri_close.               *)
InitRollback ==
  /\ ~badFree
  /\ held = IF drv = "ready" THEN AllRes ELSE {}

(* Every GEM handle open on the minigbm fd belongs to a bo the caller      *)
(* holds, and every such bo's handle is open; a bo handed out by create or *)
(* import also has a live image (no partial bo, no leaked handle).         *)
GemOwnership ==
  /\ gemOpen = {gem[b] : b \in {c \in Bos : st[c] # "free"}}
  /\ \A b \in Bos :
       /\ st[b] # "free" => gem[b] \in gemOpen
       /\ st[b] = "created" => img[b] = "live"
=============================================================================
