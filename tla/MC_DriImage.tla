----------------------------- MODULE MC_DriImage -----------------------------
(***************************************************************************)
(* Instances of DriImage for TLC: three bos, four dma-bufs (enough for    *)
(* three live bos and a fresh one), every set of optional image entry     *)
(* points.                                                                 *)
(***************************************************************************)
EXTENDS DriImage, TLC

CONSTANTS b1, b2, b3, x1, x2, x3, x4

MCBos == {b1, b2, b3}
MCBufs == {x1, x2, x3, x4}
MCSymmetry == Permutations(MCBos) \cup Permutations(MCBufs)
=============================================================================
