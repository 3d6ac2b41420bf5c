---------------------------- MODULE BufferObject ----------------------------
(***************************************************************************)
(* What a buffer object promises its callers (spec.md 4.5 and 5), with no *)
(* staging bo, fence or fd in sight: a bo is allocated or imported, mapped *)
(* and unmapped (Idle / Mapped), released and destroyed.  `buf` is the     *)
(* buffer's memory and `view` what the CPU sees through its pointer.       *)
(*   - A READ mapping shows the CPU the buffer as the device left it.      *)
(*   - While a bo with CPU use is mapped, the device does not write it.    *)
(*   - An unmap leaves the buffer holding what the CPU saw and stored, so *)
(*     a round trip with no stores changes nothing.                        *)
(*   - A map of a bo with CPU use waits for the device in the direction it *)
(*     asks for: a WRITE mapping does not start while the device reads.    *)
(* A bo without CPU use flags makes none of these promises about its       *)
(* mapping except the last, as the CPU then maps the buffer itself.        *)
(***************************************************************************)
EXTENDS Naturals

CONSTANTS
  Values,         \* data the device or the CPU can leave in a plane
  Fresh,          \* content of newly allocated memory
  NumPlanes,      \* planes of the buffer's format
  MapFlagChoices  \* the access intents callers map with

Planes == 0 .. NumPlanes - 1
Data == Values \cup {Fresh}

VARIABLES
  life,   \* "none" | "live" | "prime" (imported without a resource) | "released"
  sw,     \* the bo was made with CPU use flags
  map,    \* the access intent of the current mapping, {} when Idle
  buf,    \* contents of the buffer
  view,   \* what the CPU sees through its pointer
  reading \* a device read of the buffer is in progress

vars == <<life, sw, map, buf, view, reading>>

Init ==
  /\ life = "none"
  /\ sw = FALSE
  /\ map = {}
  /\ buf = [p \in Planes |-> Fresh]
  /\ view = buf
  /\ reading = FALSE

(* allocate: a fresh buffer, with or without CPU use.                      *)
Allocate ==
  /\ life = "none"
  /\ life' = "live"
  /\ sw' \in BOOLEAN
  /\ buf' = [p \in Planes |-> Fresh]
  /\ view' = buf'
  /\ UNCHANGED <<map, reading>>

(* import: the buffer holds what its exporter left; it becomes a bo of    *)
(* its own, or only a device handle.                                       *)
Import ==
  /\ life = "none"
  /\ \/ life' = "live" /\ sw' \in BOOLEAN
     \/ life' = "prime" /\ UNCHANGED sw
  /\ buf' \in [Planes -> Values]
  /\ view' = buf'
  /\ UNCHANGED <<map, reading>>

Release ==
  /\ life = "live"
  /\ map = {}
  /\ life' = "released"
  /\ UNCHANGED <<sw, map, buf, view, reading>>

(* destroy: the handle is gone, and with it the device's use of the bo.   *)
Destroy ==
  /\ life \in {"released", "prime"}
  /\ life' = "none"
  /\ reading' = FALSE
  /\ UNCHANGED <<sw, map, buf, view>>

(* map: Idle -> Mapped; a READ intent sees the buffer, and a WRITE intent *)
(* on a bo with CPU use waits until the device has stopped reading.        *)
Map(flags) ==
  /\ life = "live"
  /\ map = {}
  /\ sw /\ "W" \in flags => ~reading
  /\ map' = flags
  /\ IF "R" \in flags THEN view' = buf ELSE view' \in [Planes -> Data]
  /\ UNCHANGED <<life, sw, buf, reading>>

(* A CPU store through a WRITE mapping; it may reach the buffer at once.   *)
Store(p, v) ==
  /\ "W" \in map
  /\ view' = [view EXCEPT ![p] = v]
  /\ buf' \in {buf, view'}
  /\ UNCHANGED <<life, sw, map, reading>>

(* unmap: Mapped -> Idle; the buffer holds what the CPU saw.              *)
Unmap ==
  /\ map # {}
  /\ map' = {}
  /\ buf' = view
  /\ UNCHANGED <<life, sw, view, reading>>

(* The device writes the buffer, never while a bo with CPU use is mapped; *)
(* the CPU pointer of an Idle bo, or of a mapping without CPU use, is the *)
(* buffer itself.                                                          *)
DeviceWrite ==
  /\ ~(life = "live" /\ sw /\ map # {})
  /\ buf' \in [Planes -> Values]
  /\ view' = buf'
  /\ UNCHANGED <<life, sw, map, reading>>

(* The device starts reading the buffer, under the same condition as a     *)
(* write, and later stops.                                                 *)
DeviceReadStart ==
  /\ ~(life = "live" /\ sw /\ map # {})
  /\ ~reading
  /\ reading' = TRUE
  /\ UNCHANGED <<life, sw, map, buf, view>>

DeviceReadEnd ==
  /\ reading
  /\ reading' = FALSE
  /\ UNCHANGED <<life, sw, map, buf, view>>

Next ==
  \/ Allocate
  \/ Import
  \/ Release
  \/ Destroy
  \/ \E flags \in MapFlagChoices : Map(flags)
  \/ \E p \in Planes, v \in Values : Store(p, v)
  \/ Unmap
  \/ DeviceWrite
  \/ DeviceReadStart
  \/ DeviceReadEnd

Spec == Init /\ [][Next]_vars
=============================================================================
