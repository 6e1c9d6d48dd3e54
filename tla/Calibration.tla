---------------------------- MODULE Calibration -----------------------------
(***************************************************************************)
(* Refitting the roofline's two coefficients from stored points, after     *)
(* estimator/calibration.py: calibrate reads the points of the matching    *)
(* runs one by one, inverts a decode and a prefill time where it can, and  *)
(* takes medians.                                                          *)
(*                                                                         *)
(* The engine that was measured obeys the roofline with coefficients the   *)
(* fit does not know, plus a disturbance (queueing, a noisy neighbour, a   *)
(* cold cache).  A sample is the ratio num/den.                            *)
(***************************************************************************)
EXTENDS Roofline, Sequences

CONSTANTS
  Setups,        (* what may have been measured, see Roofline               *)
  Efficiencies,  (* the d of the engine's true mbu and mfu                  *)
  Concurrencies,
  Traffic,       (* [prompt, generated]: tokens per request                 *)
  Disturbances,  (* ticks added to a latency                                *)
  MaxPoints      (* bound: points in the store                              *)

MaxConcurrencyForMfu == 4

Missing == [none |-> TRUE]

ASSUME ParametersAssumption ==
  /\ Efficiencies \subseteq Nat \ {0}
  /\ Concurrencies \subseteq Nat /\ Disturbances \subseteq Nat
  /\ \A t \in Traffic : t.prompt \in Nat /\ t.generated \in Nat
  /\ MaxPoints \in Nat

ASSUME SetupsAssumption == \A s \in Setups : Measurable(s)

(* The time of every point that can be measured is a whole number of ticks. *)
ASSUME TicksAssumption ==
  \A s \in Setups, mbu, mfu \in Efficiencies, t \in Traffic :
    WholeTicks(s, [mbu |-> mbu, mfu |-> mfu], Concurrencies,
               {t.prompt + t.generated \div 2}, {t.prompt})

VARIABLES
  setup,
  truth,     \* the coefficients of the engine that was measured
  read,      \* points read
  mbu, mfu,  \* samples accepted
  exact,     \* history: how many of them tell the truth exactly
  rejected,  \* how many rejections were noted
  fitted     \* the CalibrationResult's coefficients, Missing before the end

calibrationVars == <<setup, truth, read, mbu, mfu, exact, rejected, fitted>>

-----------------------------------------------------------------------------
(* What a stored point may hold.  A run records the cache bytes per token   *)
(* or not, a point the average context or not.                              *)

Workloads == [concurrency : Concurrencies, traffic : Traffic,
              disturbance : Disturbances, context : BOOLEAN, kv : BOOLEAN]

TrueContext(w) == w.traffic.prompt + w.traffic.generated \div 2

TpotOf(w) ==
  Total(DecodeStep(setup, truth, w.concurrency, TrueContext(w))) + w.disturbance
TtftOf(w) ==
  Total(PrefillStep(setup, truth, w.traffic.prompt)) + w.disturbance

(* A decode time is missing (0) when no request had two tokens; the context *)
(* falls back to the prompt when it was not stored.                         *)
Points(w) ==
  [ concurrency : {w.concurrency},
    prompt : {w.traffic.prompt},
    context : {IF w.context THEN TrueContext(w) ELSE w.traffic.prompt},
    tpot : {0, TpotOf(w)},
    ttft : {TtftOf(w)},
    kv : {IF w.kv THEN setup.kv ELSE 0} ]

-----------------------------------------------------------------------------
(* The two inversions.                                                      *)

(* Mutant: the fixed overhead is subtracted twice.                          *)
FitMbuWithFixedTwice(p) ==
  LET available == p.tpot - 2 * setup.fixed - Communication(setup, p.concurrency, 16)
      bytes == WeightBytesPerGpu(setup) + p.concurrency * p.context * p.kv
  IN  IF available <= 0 THEN Missing ELSE [num |-> bytes, den |-> setup.bandwidth * available]

(* communication_time is called without the dtype here, and takes 16 bits.  *)
FitMbu(p) ==
  LET available == p.tpot - setup.fixed - Communication(setup, p.concurrency, 16)
      bytes == WeightBytesPerGpu(setup) + p.concurrency * p.context * p.kv
  IN  IF available <= 0 THEN Missing ELSE [num |-> bytes, den |-> setup.bandwidth * available]

FitMfu(p) ==
  LET available == p.ttft - setup.fixed - Communication(setup, p.prompt, setup.bits)
  IN  IF available <= 0 THEN Missing
      ELSE [num |-> PrefillFlops(setup, p.prompt), den |-> Peak(setup) * available]

\* FitSample.plausible: between 0.02 and 1
Plausible(sample) == 50 * sample.num >= sample.den /\ sample.num <= sample.den

Below(a, b) == a.num * b.den < b.num * a.den

(* What comes before sample i when they are sorted, and the k-th then.      *)
Ahead(samples, i) ==
  {j \in DOMAIN samples : \/ Below(samples[j], samples[i])
                          \/ ~Below(samples[i], samples[j]) /\ j < i}
Nth(samples, k) ==
  samples[CHOOSE i \in DOMAIN samples : Cardinality(Ahead(samples, i)) = k - 1]

Mean(a, b) == [num |-> a.num * b.den + b.num * a.den, den |-> 2 * a.den * b.den]

(* Mutant: the samples are not sorted.                                      *)
MedianUnsorted(samples) ==
  LET n == Len(samples) IN
  IF n % 2 = 1 THEN samples[(n + 1) \div 2]
  ELSE Mean(samples[n \div 2], samples[n \div 2 + 1])

Median(samples) ==
  LET n == Len(samples) IN
  IF n % 2 = 1 THEN Nth(samples, (n + 1) \div 2)
  ELSE Mean(Nth(samples, n \div 2), Nth(samples, n \div 2 + 1))

-----------------------------------------------------------------------------
(* calibrate.                                                               *)

CalibrationInit ==
  /\ setup \in Setups
  /\ truth \in [mbu : Efficiencies, mfu : Efficiencies]
  /\ read = 0
  /\ mbu = <<>> /\ mfu = <<>>
  /\ exact = [mbu |-> 0, mfu |-> 0]
  /\ rejected = 0
  /\ fitted = Missing

Reading == fitted = Missing /\ read < MaxPoints /\ read' = read + 1

(* requests_ok < 1                                                          *)
RejectPoint ==
  /\ Reading
  /\ rejected' = rejected + 1
  /\ UNCHANGED <<setup, truth, mbu, mfu, exact, fitted>>

(* What one inversion adds to its samples: nothing when it was not tried,   *)
(* or when it failed or gave an implausible value; then it is a rejection.  *)
Accepted(tried, sample) ==
  IF tried /\ sample # Missing /\ Plausible(sample) THEN <<sample>> ELSE <<>>

(* The point tells its coefficient exactly: nothing disturbed it, the       *)
(* coefficient is the one that limited the step, the context is the true    *)
(* one, and both ends mean the same communication.                          *)
Undisturbed(w) ==
  [ mbu |-> /\ w.disturbance = 0
            /\ w.context
            /\ Communication(setup, w.concurrency, 16)
                 = Communication(setup, w.concurrency, setup.bits)
            /\ LET step == DecodeStep(setup, truth, w.concurrency, TrueContext(w))
               IN  step.memory >= step.compute,
    mfu |-> /\ w.disturbance = 0
            /\ LET step == PrefillStep(setup, truth, w.traffic.prompt)
               IN  step.compute >= step.memory ]

ReadPoint ==
  /\ Reading
  /\ \E w \in Workloads : \E p \in Points(w) :
       LET decode  == p.tpot # 0 /\ p.kv # 0
           prefill == p.concurrency <= MaxConcurrencyForMfu
           newMbu  == Accepted(decode, FitMbu(p))
           newMfu  == Accepted(prefill, FitMfu(p))
       IN  /\ mbu' = mbu \o newMbu
           /\ mfu' = mfu \o newMfu
           /\ exact' = [ mbu |-> exact.mbu + (IF Undisturbed(w).mbu THEN Len(newMbu) ELSE 0),
                         mfu |-> exact.mfu + (IF Undisturbed(w).mfu THEN Len(newMfu) ELSE 0) ]
           /\ rejected' = rejected + (IF decode THEN 1 - Len(newMbu) ELSE 0)
                                   + (IF prefill THEN 1 - Len(newMfu) ELSE 0)
  /\ UNCHANGED <<setup, truth, fitted>>

(* The prior stays for a coefficient without samples.                       *)
Prior == [mbu |-> [num |-> 4, den |-> 5], mfu |-> [num |-> 1, den |-> 2]]

Finish ==
  /\ fitted = Missing
  /\ fitted' = [ mbu |-> IF mbu = <<>> THEN Prior.mbu ELSE Median(mbu),
                 mfu |-> IF mfu = <<>> THEN Prior.mfu ELSE Median(mfu),
                 samples |-> Len(mbu) + Len(mfu) ]
  /\ UNCHANGED <<setup, truth, read, mbu, mfu, exact, rejected>>

Refitted == fitted # Missing /\ UNCHANGED calibrationVars

CalibrationNext == RejectPoint \/ ReadPoint \/ Finish \/ Refitted

CalibrationSpec == CalibrationInit /\ [][CalibrationNext]_calibrationVars

-----------------------------------------------------------------------------
(* Properties.                                                              *)

(* sample <= 1/d                                                            *)
AtMost(sample, d) == sample.num * d <= sample.den
Equals(sample, d) == sample.num * d = sample.den

(* Nothing that disturbs a measurement makes the hardware look better than  *)
(* it is: queueing, a step limited by the other coefficient, and a context  *)
(* that misses the generated tokens all lower a sample, so neither a sample *)
(* nor a fitted coefficient exceeds the truth.                              *)
NeverOverstates ==
  /\ \A i \in DOMAIN mbu : AtMost(mbu[i], truth.mbu)
  /\ \A i \in DOMAIN mfu : AtMost(mfu[i], truth.mfu)
  /\ fitted # Missing =>
       /\ mbu # <<>> => AtMost(fitted.mbu, truth.mbu)
       /\ mfu # <<>> => AtMost(fitted.mfu, truth.mfu)

(* "The median ignores it; a mean would enshrine it": as long as most       *)
(* samples are undisturbed, the coefficient is the true one, to the digit.  *)
MedianRecovers ==
  fitted # Missing =>
    /\ 2 * exact.mbu > Len(mbu) => Equals(fitted.mbu, truth.mbu)
    /\ 2 * exact.mfu > Len(mfu) => Equals(fitted.mfu, truth.mfu)

(* "Below it, added concurrency is nearly free": up to the critical batch   *)
(* size that a prediction reports, the decode step it predicts is never     *)
(* limited by compute, whatever the context.                                *)
CriticalIsWall ==
  \A batch \in Concurrencies, t \in Traffic :
    LET p == Predict(setup, truth, batch, t.prompt, t.prompt + t.generated \div 2)
    IN  batch * p.critical.den <= p.critical.num => p.decodeBound # "compute"
=============================================================================
