---------------------------- MODULE MC_HbmPolicy ----------------------------
(* HbmPolicy on the memory types a discrete GPU's Vulkan driver reports:   *)
(* VRAM, CPU-visible VRAM, write-combined and cached system memory.        *)
EXTENDS HbmPolicy

MCMemTypes ==
  { {"LOCAL"},
    {"LOCAL", "MAPPABLE", "COHERENT"},
    {"MAPPABLE", "COHERENT"},
    {"MAPPABLE", "COHERENT", "CACHED"} }

(* Use flags: scanout, GPU rendering, occasional CPU reads, frequent CPU   *)
(* writes, and the LINEAR request.                                         *)
MCUseFlags == {"SCANOUT", "RENDERING", "SW_READ_RARELY", "SW_WRITE_OFTEN", "LINEAR"}
=============================================================================
