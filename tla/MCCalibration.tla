--------------------------- MODULE MCCalibration ---------------------------
(* Two small models on one and two ranks for Calibration: at 16 bits the    *)
(* crossover to compute lies at a batch of 8 (equal efficiencies).          *)
EXTENDS Calibration, TLC

SetupOf(bits, tp, active) ==
  [ weights |-> 512 * (bits \div 8), active |-> active, layers |-> 1, hidden |-> 2,
    bits |-> bits, kv |-> 2, tp |-> tp, bandwidth |-> 2,
    flops |-> (16 :> 16 @@ 8 :> 32), link |-> [rate |-> 1, latency |-> 1], fixed |-> 2 ]

(* Dense and sparse models in 16 bits, and a sparse one in 8 on one rank.   *)
MCSetups == {SetupOf(16, tp, active) : tp \in {1, 2}, active \in {256, 512}}
              \cup {SetupOf(8, 1, 256)}

DenseFp8 == {SetupOf(8, 1, 512)}

MCTraffic == {[prompt |-> 4, generated |-> 8], [prompt |-> 8, generated |-> 8]}
=============================================================================
