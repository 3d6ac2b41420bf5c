---------------------------- MODULE MC_HbmBuffer ----------------------------
(***************************************************************************)
(* Instantiation of HbmBuffer for TLC.  Data values and fd numbers are     *)
(* model values and interchangeable, so runs are reduced by symmetry.      *)
(***************************************************************************)
EXTENDS HbmBuffer, TLC

\* READ and READ|WRITE mappings only.
MCFlagsRW == {{"R"}, {"R", "W"}}

\* Every map_flags value dri_bo_map accepts.
MCFlagsAll == {{"R"}, {"W"}, {"R", "W"}}

MCSymmetry == Permutations(Values) \cup Permutations(FdIds)
=============================================================================
