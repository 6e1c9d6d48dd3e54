------------------------------ MODULE Hardware ------------------------------
(***************************************************************************)
(* Where a GPU profile comes from: a key of the spec database              *)
(* (hardware/specdb.py), or the device NVML finds, with what the database  *)
(* knows under its name (hardware/nvml.py).                                *)
(*                                                                         *)
(* A wanted name w is what the database makes of it: [key] the entry whose *)
(* key it is, [names] those whose product name it is, [inside] those whose *)
(* key contains it, all after normalisation.                               *)
(***************************************************************************)
EXTENDS Integers, FiniteSets

CONSTANTS
  Entries,   (* the entries of gpus.json                                    *)
  Memory     (* total memory of every device                                *)

NoLink == "none"

(* _resolve_key: the entries it may answer with, none when it raises        *)
(* UnknownGPUError, for an unknown name and for an ambiguous one.           *)
Resolved(w) ==
  IF w.key # {} THEN w.key
  ELSE IF w.names # {} THEN w.names
  ELSE IF Cardinality(w.inside) = 1 THEN w.inside ELSE {}

(* load: a link only for more than one device, and every entry has one.     *)
SpecProfile(entry, count) ==
  [ source |-> "specdb", rates |-> entry, total |-> Memory, usable |-> Memory - 1,
    count |-> count, link |-> IF count > 1 THEN "link" ELSE NoLink ]

\* GPUProfile.__post_init__
Valid(gpu) ==
  /\ 0 < gpu.usable /\ gpu.usable <= gpu.total
  /\ gpu.count >= 1
  /\ gpu.count > 1 => gpu.link # NoLink

(* The profile discover builds for a device [name, visible, free]: it asks  *)
(* the database for one device, and for an unknown name goes by the         *)
(* compute capability.                                                      *)
LiveProfile(device) ==
  LET known == Resolved(device.name) IN
  [ source |-> "nvml",
    rates  |-> IF known = {} THEN "capability" ELSE CHOOSE e \in known : TRUE,
    total  |-> Memory, usable |-> device.free,
    count  |-> device.visible,
    link   |-> IF known # {} /\ device.visible > 1
               THEN SpecProfile(CHOOSE e \in known : TRUE, 1).link ELSE NoLink ]
=============================================================================
