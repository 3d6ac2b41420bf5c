--------------------------- MODULE MC_DmabufHeap ---------------------------
(* Two threads, two bos, four plane fds; devices with or without the CMA   *)
(* heap and without a system heap; a flexible and an unsupported format;   *)
(* texture, scanout with CPU reads, camera, and a use flag the backend     *)
(* does not know.  The fault runs have one thread: every fd a bo holds is *)
(* made and closed in one atomic step of its call.                         *)
EXTENDS DmabufHeap, TLC

CONSTANTS t1, t2, b1, b2, f1, f2, f3, f4

MCThreads == {t1, t2}
MCOneThread == {t1}
MCBos == {b1, b2}
MCFdIds == {f1, f2, f3, f4}
MCHeapConfigs ==
  {{"system", "system-uncached", "linux,cma"}, {"system"}, {"linux,cma"}}
MCRequests == {"FLEX_IMPLEMENTATION_DEFINED", "ABGR2101010"}
MCUseSets == {{"TEXTURE"}, {"SCANOUT", "SW_READ_OFTEN"}, {"CAMERA_WRITE"},
              {"TEXTURE", "PROTECTED"}}
MCSymmetry == Permutations(MCThreads) \cup Permutations(MCBos)
                \cup Permutations(MCFdIds)
=============================================================================
