--------------------------- MODULE BenchmarkProofs ---------------------------
(***************************************************************************)
(* What the benchmark command promises of the sweeps it climbs and stores, *)
(* proved for every ladder, every engine behaviour and every SLA.          *)
(***************************************************************************)
EXTENDS Benchmark, FiniteSetTheorems, SequenceTheorems, WellFoundedInduction, TLAPS

(* What every rung measures, whichever it is.                               *)
Points ==
  [concurrency : Nat, ok : Nat, failed : Nat, throughput : Nat, ttft : Nat, tpot : Nat]

Slas == [ttft : Limits, tpot : Limits]

(* A run the store may hold.                                                *)
Complete(run) ==
  /\ run # <<>>
  /\ \A i \in DOMAIN run : run[i].concurrency = Sorted[i]
  /\ EndsForAReason(run)

Before == stage \in {"asked", "waiting", "polling"}
During == stage \in {"sweeping", "recording", "counting"}

(* Before the engine answered and after the exit there is no sweep.  One    *)
(* run is stored at most, and it is there when the command counts.          *)
Staged ==
  /\ config \in Settings
  /\ Before => index = 1 /\ best = 0 /\ stop = "climbing"
  /\ During \/ points = <<>>
  /\ Before \/ stage \in {"sweeping", "recording"} => log = <<>>
  /\ Before \/ stage = "sweeping" => ~storing
  /\ stage \in {"recording", "counting"} => Finished /\ storing
  /\ stage = "counting" => log # <<>>
  /\ stage # "exited" => exit = None

(* The points are the curve as far as the climb got, best is the highest of *)
(* their throughputs.                                                       *)
Climbed ==
  During =>
    /\ curve \in Curves
    /\ index \in 1 .. Len(Ladder) + 1
    /\ stop # "raised" => points = [i \in 1 .. index - 1 |-> curve[i]]
    /\ stop = "raised" => points = <<>>
    /\ best \in Nat
    /\ best = 0 \/ \E i \in 1 .. index - 1 : best = curve[i].throughput

(* A point the climb went on after.                                         *)
Passed(i) ==
  /\ curve[i].throughput <= best
  /\ ~TooManyErrors(curve[i])
  /\ config.stopOnSaturation =>
       \A j \in 1 .. i - 1 : ~NotGaining(curve[i].throughput, curve[j].throughput)
  /\ config.stopOnSla /\ ~Unconstrained => Meets(curve[i], config.sla)

(* Every point but the last was passed, and the last as well while climbing.*)
Went ==
  During => \A i \in 1 .. index - 1 : i < index - 1 \/ stop = "climbing" => Passed(i)

(* Why it stopped, told from the curve.                                     *)
Reason ==
  \/ index = Len(Ladder) + 1
  \/ TooManyErrors(curve[index - 1])
  \/ /\ config.stopOnSaturation
     /\ \E i \in 1 .. index - 2 :
          NotGaining(curve[index - 1].throughput, curve[i].throughput)
  \/ config.stopOnSla /\ ~Unconstrained /\ ~Meets(curve[index - 1], config.sla)

Stopped == During /\ Finished => index > 1 /\ Reason

Stored == log = <<>> \/ \E run : log = <<run>> /\ Complete(run)

Honest ==
  /\ exit = 0 => Finished /\ (storing <=> log # <<>>)
  /\ log # <<>> => Finished /\ storing

IInv == Staged /\ Climbed /\ Went /\ Stopped /\ Stored /\ Honest

-----------------------------------------------------------------------------
LEMMA PointTyped ==
  ASSUME NEW c \in Nat \ {0}, NEW p \in Measurements(c)
  PROVE  p \in Points
<1>1. Requests(c) \in Nat \ {0}
  BY SweepAssumption DEF Requests, Larger
<1> DEFINE n == Requests(c)
           lossy == [concurrency : {c}, ok : {n - 1}, failed : {1},
                     throughput : Throughputs, ttft : Latencies \ {0}, tpot : Latencies]
           clean == [concurrency : {c}, ok : {n}, failed : {0},
                     throughput : Throughputs, ttft : Latencies \ {0}, tpot : Latencies]
           dead  == [concurrency : {c}, ok : {0}, failed : {n},
                     throughput : {0}, ttft : {0}, tpot : {0}]
<1>2. p \in clean \/ p \in lossy \/ p \in dead
  <2>1. Measurements(c) = clean \cup (IF n = 1 THEN {} ELSE lossy) \cup dead
    BY DEF Measurements
  <2> HIDE DEF clean, lossy, dead
  <2>2. QED
    BY <2>1
<1>3. n \in Nat /\ n - 1 \in Nat /\ Throughputs \subseteq Nat /\ Latencies \subseteq Nat
  BY <1>1, SweepAssumption
<1> HIDE DEF n
<1>4. /\ p = [concurrency |-> p.concurrency, ok |-> p.ok, failed |-> p.failed,
              throughput |-> p.throughput, ttft |-> p.ttft, tpot |-> p.tpot]
      /\ p.concurrency = c /\ p.ok \in {n, n - 1, 0} /\ p.failed \in {0, 1, n}
      /\ p.throughput \in Throughputs \cup {0}
      /\ p.ttft \in Latencies \cup {0} /\ p.tpot \in Latencies \cup {0}
  <2>1. CASE p \in clean
    BY <2>1
  <2>2. CASE p \in lossy
    BY <2>2
  <2>3. CASE p \in dead
    BY <2>3
  <2>4. QED
    BY <1>2, <2>1, <2>2, <2>3
<1>5. /\ p.concurrency \in Nat /\ p.ok \in Nat /\ p.failed \in Nat
      /\ p.throughput \in Nat /\ p.ttft \in Nat /\ p.tpot \in Nat
  BY <1>3, <1>4
<1>6. QED
  BY <1>4, <1>5 DEF Points

LEMMA CurveTyped ==
  ASSUME curve \in Curves, NEW i \in Rungs
  PROVE  curve[i] \in Points /\ curve[i].concurrency = Sorted[i]
<1>1. curve[i] \in Measurements(Sorted[i])
  BY DEF Curves
<1>2. curve[i].concurrency = Sorted[i]
  BY <1>1 DEF Measurements
<1>3. PICK k \in Rungs : curve[i] \in Measurements(Ladder[k])
  BY DEF Curves
<1>4. Ladder[k] \in Nat \ {0}
  BY SweepAssumption, ElementOfSeq DEF Rungs
<1>5. QED
  BY <1>2, <1>3, <1>4, PointTyped

(* What is stored of a point tells the same reason to stop.                 *)
LEMMA StoredAlike ==
  ASSUME NEW p \in Points, NEW sla \in Slas
  PROVE  /\ StoredPoint(p).concurrency = p.concurrency
         /\ StoredPoint(p).throughput = p.throughput
         /\ TooManyErrors(p) => TooManyErrors(StoredPoint(p))
         /\ ~Meets(p, sla) => ~Meets(StoredPoint(p), sla)
<1>1. /\ StoredPoint(p).concurrency = p.concurrency
      /\ StoredPoint(p).throughput = p.throughput
      /\ StoredPoint(p).ok = p.ok
      /\ StoredPoint(p).failed = p.failed
      /\ p.ttft # 0 => StoredPoint(p).ttft = p.ttft
      /\ p.tpot # 0 => StoredPoint(p).tpot = p.tpot
  BY DEF StoredPoint, Points
<1>2. TooManyErrors(p) => TooManyErrors(StoredPoint(p))
  BY <1>1 DEF TooManyErrors
<1>3. ASSUME ~Meets(p, sla) PROVE ~Meets(StoredPoint(p), sla)
  <2>1. \/ ~(p.ok > 0)
        \/ sla.ttft # None /\ ~(p.ttft <= sla.ttft)
        \/ sla.tpot # None /\ ~(p.tpot <= sla.tpot)
    BY <1>3 DEF Meets
  <2>2. /\ p.ttft \in Nat /\ p.tpot \in Nat
        /\ sla.ttft \in Nat \cup {None} /\ sla.tpot \in Nat \cup {None}
    BY SweepAssumption DEF Points, Slas
  <2>3. /\ sla.ttft # None /\ ~(p.ttft <= sla.ttft) => p.ttft # 0
        /\ sla.tpot # None /\ ~(p.tpot <= sla.tpot) => p.tpot # 0
    BY <2>2 DEF None
  <2>4. QED
    BY <1>1, <2>1, <2>3 DEF Meets
<1>4. QED
  BY <1>1, <1>2, <1>3

LEMMA InitHolds == BenchmarkInit => IInv
BY DEF BenchmarkInit, IInv, Staged, Climbed, Went, Stopped, Stored, Honest, Before, During,
       Finished, None

-----------------------------------------------------------------------------
(* Around the sweep.                                                        *)

LEMMA StoredKept ==
  ASSUME Stored, log' = log, config' = config
  PROVE  Stored'
BY DEF Stored, Complete, EndsForAReason, Unconstrained

(* The end of the process, however it comes.                                *)
LEMMA ExitKeeps ==
  ASSUME IInv, NEW code \in {0, 1}, Exit(code), log' = log,
         code = 0 => Finished /\ (storing <=> log # <<>>)
  PROVE  IInv'
<1>1. stage' = "exited" /\ points' = <<>> /\ exit' = code /\ config' = config /\ stop' = stop
      /\ storing' = storing
  BY DEF Exit
<1>2. Staged' /\ Climbed' /\ Went' /\ Stopped'
  BY <1>1 DEF IInv, Staged, Climbed, Went, Stopped, Before, During
<1>3. Stored'
  BY <1>1, StoredKept DEF IInv
<1>4. Honest'
  BY <1>1 DEF IInv, Honest, Finished
<1>5. QED
  BY <1>2, <1>3, <1>4 DEF IInv

LEMMA WaitKeeps ==
  ASSUME IInv, Wait
  PROVE  IInv'
<1>1. CASE AcceptArguments \/ DeadlinePasses \/ BeginPoll \/ NoAnswer
  <2>1. /\ Before /\ Before'
        /\ UNCHANGED <<config, curve, index, points, best, stop, storing, log, exit>>
    BY <1>1 DEF AcceptArguments, DeadlinePasses, BeginPoll, NoAnswer, Before, vars
  <2>2. Staged' /\ Climbed' /\ Went' /\ Stopped' /\ Honest'
    BY <2>1 DEF IInv, Staged, Climbed, Went, Stopped, Honest, Before, During, Finished
  <2>3. QED
    BY <2>1, <2>2, StoredKept DEF IInv
<1>2. CASE Answer
  <2>1. /\ Before /\ stage' = "sweeping" /\ curve' \in Curves
        /\ UNCHANGED <<config, index, points, best, stop, storing, log, exit>>
    BY <1>2 DEF Answer, Before
  <2>2. /\ index = 1 /\ points = <<>> /\ best = 0 /\ stop = "climbing" /\ log = <<>>
        /\ ~storing /\ exit = None /\ config \in Settings
    BY <2>1 DEF IInv, Staged, Before, During
  <2>3. Len(Ladder) \in Nat
    BY SweepAssumption, LenProperties
  <2>4. Staged' /\ Honest'
    BY <2>1, <2>2 DEF IInv, Staged, Honest, Before, Finished, None
  <2>5. Climbed' /\ Went' /\ Stopped'
    BY <2>1, <2>2, <2>3 DEF Climbed, Went, Stopped, During, Finished
  <2>6. QED
    BY <2>1, <2>4, <2>5, StoredKept DEF IInv
<1>3. CASE RejectArguments \/ GiveUp
  BY <1>3, ExitKeeps DEF RejectArguments, GiveUp
<1>4. QED
  BY <1>1, <1>2, <1>3 DEF Wait

-----------------------------------------------------------------------------
(* The climb.                                                               *)

(* What every step that measures a rung does.                               *)
LEMMA MeasureAdds ==
  ASSUME IInv, stage = "sweeping", Measure, UNCHANGED session
  PROVE  /\ During /\ During' /\ ~Before'
         /\ config' = config /\ curve' = curve /\ curve \in Curves
         /\ index \in Rungs /\ index' = index + 1 /\ index' - 1 = index
         /\ Len(Ladder) \in Nat
         /\ points' = [i \in 1 .. index' - 1 |-> curve'[i]]
         /\ best \in Nat
         /\ best = 0 \/ \E i \in 1 .. index - 1 : best = curve[i].throughput
         /\ \A i \in 1 .. index - 1 : Passed(i)
         /\ \A i \in 1 .. index : i \in 1 .. index - 1 \/ i = index
<1>1. During /\ During' /\ ~Before'
  BY DEF During, Before, session
<1>2. /\ stop = "climbing" /\ index \in Rungs /\ index' = index + 1
      /\ config' = config /\ curve' = curve /\ points' = Append(points, curve[index])
  BY DEF Measure
<1>3. /\ curve \in Curves /\ best \in Nat
      /\ points = [i \in 1 .. index - 1 |-> curve[i]]
      /\ best = 0 \/ \E i \in 1 .. index - 1 : best = curve[i].throughput
  BY <1>1, <1>2 DEF IInv, Climbed
<1>4. Len(Ladder) \in Nat
  BY SweepAssumption, LenProperties
<1>5. index \in Nat \ {0} /\ index' - 1 = index
  BY <1>2, <1>4 DEF Rungs
<1>6. points' = [i \in 1 .. index |-> curve[i]]
  <2>1. Len(points) = index - 1
    BY <1>3, <1>5
  <2>2. Append(points, curve[index])
          = [i \in 1 .. index |-> IF i = index THEN curve[index] ELSE points[i]]
    BY <1>3, <1>5, <2>1
  <2>3. QED
    BY <1>2, <1>3, <1>5, <2>2
<1>7. \A i \in 1 .. index - 1 : Passed(i)
  BY <1>1, <1>2 DEF IInv, Went
<1>8. \A i \in 1 .. index : i \in 1 .. index - 1 \/ i = index
  BY <1>5
<1>9. QED
  BY <1>1, <1>2, <1>3, <1>4, <1>5, <1>6, <1>7, <1>8

(* A passed point stays passed while best grows and the curve stays.        *)
LEMMA PassedStays ==
  ASSUME NEW i, Passed(i), curve' = curve, config' = config,
         curve[i].throughput \in Int, best \in Int, best' \in Int, best <= best'
  PROVE  Passed(i)'
BY DEF Passed, Unconstrained

LEMMA StopKeeps ==
  ASSUME IInv, stage = "sweeping", StopOnErrors \/ StopOnSaturation, UNCHANGED session
  PROVE  IInv'
<1>1. Measure /\ best' = best /\ stop' \in {"errors", "saturation"}
  BY DEF StopOnErrors, StopOnSaturation
<1>2. stop' # "climbing" /\ stop' # "raised" /\ Finished'
  BY <1>1 DEF Finished
<1>3. Staged' /\ Honest'
  BY <1>1, <1>2, MeasureAdds DEF IInv, Staged, Honest, session, Before, Finished
<1>4. Climbed'
  BY <1>1, <1>2, MeasureAdds DEF Climbed, Rungs
<1>5. Went'
  <2> SUFFICES ASSUME NEW i \in 1 .. index' - 1, i < index' - 1 PROVE Passed(i)'
    BY <1>2 DEF Went
  <2>1. i \in 1 .. index - 1 /\ i \in Rungs
    BY <1>1, MeasureAdds DEF Rungs
  <2>2. curve[i].throughput \in Int
    BY <1>1, <2>1, MeasureAdds, CurveTyped DEF Points
  <2>3. QED
    BY <1>1, <2>1, <2>2, MeasureAdds, PassedStays
<1>6. Stopped'
  <2>1. index' > 1
    BY <1>1, MeasureAdds DEF Rungs
  <2>2. CASE StopOnErrors
    BY <1>1, <2>1, <2>2, MeasureAdds DEF StopOnErrors, Stopped, Reason
  <2>3. CASE StopOnSaturation
    <3>1. config.stopOnSaturation /\ best > 0 /\ NotGaining(curve[index].throughput, best)
      BY <2>3 DEF StopOnSaturation, Saturated
    <3>2. PICK i \in 1 .. index - 1 : best = curve[i].throughput
      BY <1>1, <3>1, MeasureAdds
    <3>3. /\ config'.stopOnSaturation
          /\ i \in 1 .. index' - 2
          /\ NotGaining(curve'[index' - 1].throughput, curve'[i].throughput)
      BY <1>1, <3>1, <3>2, MeasureAdds DEF Rungs
    <3>4. QED
      BY <2>1, <3>3 DEF Stopped, Reason
  <2>4. QED
    BY <2>2, <2>3
<1>7. Stored'
  BY <1>1, MeasureAdds, StoredKept DEF IInv, session
<1>8. QED
  BY <1>3, <1>4, <1>5, <1>6, <1>7 DEF IInv

LEMMA ClimbKeeps ==
  ASSUME IInv, stage = "sweeping", Climb, UNCHANGED session
  PROVE  IInv'
<1> DEFINE t == curve[index].throughput
<1>1. /\ Measure /\ best' = Larger(best, t) /\ stop' \in {"sla", "climbing"}
      /\ stop' = "sla" <=> SlaBreached(curve[index])
  BY DEF Climb
<1>2. t \in Nat
  BY <1>1, MeasureAdds, CurveTyped DEF Points
<1>3. best' \in Nat /\ best <= best' /\ t <= best' /\ best' \in {best, t}
  BY <1>1, <1>2, MeasureAdds DEF Larger
<1>4. Staged' /\ Honest'
  BY <1>1, MeasureAdds DEF IInv, Staged, Honest, session, Before, Finished, None
<1>5. Climbed'
  <2>1. best' = 0 \/ \E i \in 1 .. index' - 1 : best' = curve'[i].throughput
    <3>1. CASE best' = best
      BY <1>1, <3>1, MeasureAdds DEF Rungs
    <3>2. CASE best' = t
      BY <1>1, <3>2, MeasureAdds DEF Rungs
    <3>3. QED
      BY <1>3, <3>1, <3>2
  <2>2. index' \in 1 .. Len(Ladder) + 1
    BY <1>1, MeasureAdds DEF Rungs
  <2>3. QED
    BY <1>1, <1>3, <2>1, <2>2, MeasureAdds DEF Climbed
<1>6. Went'
  <2>1. ASSUME NEW i \in 1 .. index - 1 PROVE Passed(i)'
    <3>1. i \in Rungs
      BY <1>1, MeasureAdds DEF Rungs
    <3>2. curve[i].throughput \in Int
      BY <1>1, <3>1, MeasureAdds, CurveTyped DEF Points
    <3>3. QED
      BY <1>1, <1>3, <3>2, MeasureAdds, PassedStays
  <2>2. ASSUME NEW i, i = index, stop' = "climbing" PROVE Passed(i)'
    <3>1. ~TooManyErrors(curve[index]) /\ ~Saturated(curve[index]) /\ ~SlaBreached(curve[index])
      BY <1>1, <2>2 DEF Climb
    <3>2. ASSUME config.stopOnSaturation, NEW j \in 1 .. index - 1
          PROVE  ~NotGaining(t, curve[j].throughput)
      <4>1. j \in Rungs
        BY <1>1, MeasureAdds DEF Rungs
      <4>2. curve[j].throughput \in Nat /\ curve[j].throughput <= best
        BY <1>1, <4>1, MeasureAdds, CurveTyped DEF Points, Passed
      <4>3. best = 0 \/ ~NotGaining(t, best)
        BY <1>1, <3>1, <3>2, MeasureAdds DEF Saturated
      <4>4. best \in Nat
        BY <1>1, MeasureAdds
      <4>5. QED
        BY <1>2, <4>2, <4>3, <4>4 DEF NotGaining
    <3>3. config.stopOnSla /\ ~Unconstrained => Meets(curve[index], config.sla)
      BY <3>1 DEF SlaBreached
    <3>4. config' = config /\ curve' = curve /\ curve'[i].throughput <= best'
      BY <1>1, <1>3, <2>2, MeasureAdds
    <3>5. config'.stopOnSaturation =>
            \A j \in 1 .. i - 1 : ~NotGaining(curve'[i].throughput, curve'[j].throughput)
      BY <2>2, <3>2, <3>4
    <3>6. QED
      BY <2>2, <3>1, <3>3, <3>4, <3>5 DEF Passed, Unconstrained
  <2>3. \A i \in 1 .. index' - 1 : i \in 1 .. index - 1 \/ i = index
    BY <1>1, MeasureAdds
  <2>4. index' - 1 = index
    BY <1>1, MeasureAdds
  <2> SUFFICES ASSUME NEW i \in 1 .. index' - 1, i < index' - 1 \/ stop' = "climbing"
               PROVE  Passed(i)'
    BY DEF Went
  <2>5. CASE i \in 1 .. index - 1
    BY <2>1, <2>5
  <2>6. CASE i = index
    <3>1. stop' = "climbing"
      BY <2>4, <2>6
    <3>2. QED
      BY <2>2, <2>6, <3>1
  <2>7. QED
    BY <2>3, <2>5, <2>6
<1>7. Stopped'
  <2>1. CASE stop' = "climbing"
    BY <2>1 DEF Stopped, Finished
  <2>2. CASE stop' = "sla"
    <3>1. config.stopOnSla /\ ~Unconstrained /\ ~Meets(curve[index], config.sla)
      BY <1>1, <2>2 DEF SlaBreached
    <3>2. index' > 1
      BY <1>1, MeasureAdds DEF Rungs
    <3>3. QED
      BY <1>1, <3>1, <3>2, MeasureAdds DEF Stopped, Reason, Unconstrained
  <2>3. QED
    BY <1>1, <2>1, <2>2
<1>8. Stored'
  BY <1>1, MeasureAdds, StoredKept DEF IInv, session
<1>9. QED
  BY <1>4, <1>5, <1>6, <1>7, <1>8 DEF IInv

LEMMA SweepKeeps ==
  ASSUME IInv, Sweeping
  PROVE  IInv'
<1>1. stage = "sweeping" /\ UNCHANGED session
  BY DEF Sweeping
<1>2. CASE StopOnErrors \/ StopOnSaturation
  BY <1>1, <1>2, StopKeeps
<1>3. CASE Climb
  BY <1>1, <1>3, ClimbKeeps
<1>4. CASE ReachTop \/ Raise
  <2>1. /\ stop = "climbing" /\ stop' \in {"top", "raised"} /\ best' = best
        /\ UNCHANGED <<config, curve, index>>
        /\ stop' = "top" => index \notin Rungs /\ points' = points
        /\ stop' = "raised" => points' = <<>>
    BY <1>4 DEF ReachTop, Raise
  <2>2. During /\ During' /\ stage' = stage /\ log' = log /\ storing' = storing /\ exit' = exit
    BY <1>1 DEF During, session
  <2>3. Staged' /\ Honest'
    BY <1>1, <2>1, <2>2 DEF IInv, Staged, Honest, Before, Finished, None
  <2>4. Climbed'
    BY <2>1, <2>2 DEF IInv, Climbed
  <2>5. Went'
    BY <2>1, <2>2 DEF IInv, Went, Passed, Unconstrained
  <2>6. Stopped'
    <3>1. Len(Ladder) \in Nat \ {0}
      BY SweepAssumption, LenProperties, EmptySeq
    <3>2. stop' = "top" => index' = Len(Ladder) + 1
      BY <2>1, <2>2, <3>1 DEF IInv, Climbed, Rungs
    <3>3. QED
      BY <2>1, <3>1, <3>2 DEF Stopped, Reason, Finished
  <2>7. QED
    BY <2>1, <2>2, <2>3, <2>4, <2>5, <2>6, StoredKept DEF IInv
<1>5. QED
  BY <1>2, <1>3, <1>4 DEF Sweeping, SweepStep

-----------------------------------------------------------------------------
(* What is done with the sweep.                                             *)

(* The points of a finished sweep, as the store keeps them, say why it      *)
(* ended.                                                                   *)
LEMMA FinishedComplete ==
  ASSUME IInv, During, Finished
  PROVE  Complete([i \in DOMAIN points |-> StoredPoint(points[i])])
<1> DEFINE run == [i \in DOMAIN points |-> StoredPoint(points[i])]
           n == index - 1
<1>1. /\ curve \in Curves /\ index \in 1 .. Len(Ladder) + 1
      /\ points = [i \in 1 .. index - 1 |-> curve[i]]
  BY DEF IInv, Climbed, Finished
<1>2. index > 1 /\ Reason
  BY DEF IInv, Stopped
<1>3. Len(Ladder) \in Nat
  BY SweepAssumption, LenProperties
<1>4. n \in Nat \ {0} /\ n \in 1 .. n /\ \A i \in 1 .. n : i \in Rungs
  BY <1>1, <1>2, <1>3 DEF Rungs
<1>5. \A i \in 1 .. n : curve[i] \in Points /\ curve[i].concurrency = Sorted[i]
  BY <1>1, <1>4, CurveTyped
<1>6. run = [i \in 1 .. n |-> StoredPoint(curve[i])]
  BY <1>1
<1>7. DOMAIN run = 1 .. n /\ Len(run) = n /\ run # <<>> /\ \A i \in 1 .. n : run[i] = StoredPoint(curve[i])
  BY <1>4, <1>6
<1> HIDE DEF run
<1>8. config.sla \in Slas
  BY DEF IInv, Staged, Settings, Slas
<1>9. \A i \in 1 .. n : run[i].concurrency = Sorted[i] /\ run[i].throughput = curve[i].throughput
  BY <1>5, <1>7, <1>8, StoredAlike
<1>10. /\ TooManyErrors(curve[n]) => TooManyErrors(run[n])
       /\ ~Meets(curve[n], config.sla) => ~Meets(run[n], config.sla)
  BY <1>4, <1>5, <1>7, <1>8, StoredAlike
<1>11. EndsForAReason(run)
  <2>1. CASE index = Len(Ladder) + 1
    BY <1>3, <1>7, <2>1 DEF EndsForAReason
  <2>2. CASE TooManyErrors(curve[index - 1])
    BY <1>7, <1>10, <2>2 DEF EndsForAReason
  <2>3. CASE /\ config.stopOnSaturation
             /\ \E i \in 1 .. index - 2 :
                  NotGaining(curve[index - 1].throughput, curve[i].throughput)
    <3>1. PICK i \in 1 .. index - 2 : NotGaining(curve[n].throughput, curve[i].throughput)
      BY <2>3
    <3>2. i \in 1 .. n - 1 /\ i \in 1 .. n
      BY <1>1, <1>3
    <3>3. NotGaining(run[n].throughput, run[i].throughput)
      BY <1>4, <1>9, <3>1, <3>2
    <3>4. QED
      BY <1>7, <2>3, <3>2, <3>3 DEF EndsForAReason
  <2>4. CASE config.stopOnSla /\ ~Unconstrained /\ ~Meets(curve[index - 1], config.sla)
    BY <1>7, <1>10, <2>4 DEF EndsForAReason
  <2>5. QED
    BY <1>2, <2>1, <2>2, <2>3, <2>4 DEF Reason
<1>12. QED
  BY <1>7, <1>9, <1>11 DEF Complete, run

LEMMA ReportKeeps ==
  ASSUME IInv, Report
  PROVE  IInv'
<1>1. CASE SweepRaised \/ StoreRaises
  BY <1>1, ExitKeeps DEF SweepRaised, StoreRaises
<1>2. CASE NothingToStore
  <2>1. Finished /\ ~storing /\ log = <<>>
    BY <1>2 DEF NothingToStore, IInv, Staged
  <2>2. QED
    BY <1>2, <2>1, ExitKeeps DEF NothingToStore
<1>3. CASE Count
  <2>1. Finished /\ storing /\ log # <<>>
    BY <1>3 DEF Count, IInv, Staged
  <2>2. QED
    BY <1>3, <2>1, ExitKeeps DEF Count
<1>4. CASE OpenStore \/ Record
  <2>1. /\ UNCHANGED <<config, curve, index, points, best, stop, exit>>
        /\ During /\ During' /\ ~Before' /\ stage # "exited" /\ Finished
    BY <1>4 DEF OpenStore, Record, vars, During, Before, IInv, Staged
  <2>2. Climbed' /\ Went' /\ Stopped'
    BY <2>1 DEF IInv, Climbed, Went, Stopped, Passed, Reason, Unconstrained, Finished
  <2>3. CASE OpenStore
    <3>1. stage' = "recording" /\ storing' /\ log' = log /\ log = <<>>
      BY <2>3 DEF OpenStore, IInv, Staged
    <3>2. Staged' /\ Honest'
      BY <2>1, <3>1 DEF IInv, Staged, Honest, Finished, None
    <3>3. QED
      BY <2>1, <2>2, <3>1, <3>2, StoredKept DEF IInv
  <2>4. CASE Record
    <3> DEFINE run == [i \in DOMAIN points |-> StoredPoint(points[i])]
    <3>1. stage' = "counting" /\ storing' = storing /\ log' = Append(log, run) /\ log = <<>> /\ storing
      BY <2>4 DEF Record, IInv, Staged
    <3>2. Complete(run)
      BY <2>1, FinishedComplete
    <3> HIDE DEF run
    <3>3. log' = <<run>>
      BY <3>1
    <3>4. Staged' /\ Honest'
      BY <2>1, <3>1, <3>3 DEF IInv, Staged, Honest, Finished, None
    <3>5. Stored'
      BY <2>1, <3>2, <3>3 DEF Stored, Complete, EndsForAReason, Unconstrained
    <3>6. QED
      BY <2>2, <3>4, <3>5 DEF IInv
  <2>5. QED
    BY <1>4, <2>3, <2>4
<1>5. QED
  BY <1>1, <1>2, <1>3, <1>4 DEF Report

LEMMA Inductive == BenchmarkSpec => []IInv
<1>1. IInv /\ [BenchmarkNext]_allvars => IInv'
  <2> SUFFICES ASSUME IInv, [BenchmarkNext]_allvars PROVE IInv'
    OBVIOUS
  <2>1. CASE UNCHANGED allvars
    <3>1. /\ UNCHANGED <<config, curve, index, points, best, stop>>
          /\ UNCHANGED <<stage, storing, log, exit>>
      BY <2>1 DEF allvars, vars, session
    <3>2. Staged' /\ Climbed' /\ Went' /\ Stopped' /\ Honest'
      BY <3>1 DEF IInv, Staged, Climbed, Went, Stopped, Honest, Passed, Reason,
                  Unconstrained, Finished, Before, During
    <3>3. QED
      BY <3>1, <3>2, StoredKept DEF IInv
  <2>2. CASE Die
    BY <2>2, ExitKeeps DEF Die
  <2>3. QED
    BY <2>1, <2>2, WaitKeeps, SweepKeeps, ReportKeeps DEF BenchmarkNext, Exited
<1>2. QED
  BY <1>1, InitHolds, PTL DEF BenchmarkSpec

-----------------------------------------------------------------------------
(* A run in the store is a finished sweep whose stored numbers show why it  *)
(* ended, for every ladder, engine and SLA, and there is one at most.       *)
THEOREM RunsFinished == BenchmarkSpec => []RecordedSweepsFinished
<1>1. IInv => RecordedSweepsFinished
  <2> SUFFICES ASSUME IInv PROVE RecordedSweepsFinished
    OBVIOUS
  <2>1. CASE log = <<>>
    BY <2>1 DEF RecordedSweepsFinished, Range
  <2>2. ASSUME NEW run, log = <<run>>, Complete(run) PROVE RecordedSweepsFinished
    <3>1. Len(log) = 1 /\ Range(log) = {run}
      BY <2>2 DEF Range
    <3>2. QED
      BY <2>2, <3>1 DEF RecordedSweepsFinished, Complete
  <2>3. QED
    BY <2>1, <2>2 DEF IInv, Stored
<1>2. QED
  BY <1>1, Inductive, PTL

(* Exit code 0 is only given for a finished sweep, in the store if one was  *)
(* named.                                                                   *)
THEOREM ExitHonest == BenchmarkSpec => []ExitTellsTruth
<1>1. IInv => ExitTellsTruth
  BY DEF IInv, Honest, ExitTellsTruth
<1>2. QED
  BY <1>1, Inductive, PTL

(* The place of a rung in the sorted ladder: how many come before it, rungs *)
(* of the same concurrency in the order they were given, itself included.   *)
UpTo(i) ==
  {j \in Rungs : Ladder[j] < Ladder[i] \/ (Ladder[j] = Ladder[i] /\ j <= i)}

Place == [i \in Rungs |-> Cardinality(UpTo(i))]

(* The places follow the concurrencies, and no two rungs share one.         *)
LEMMA PlacesDiffer ==
  /\ Place \in Bijection(Rungs, Rungs)
  /\ \A i, j \in Rungs : Place[i] < Place[j] => Ladder[i] <= Ladder[j]
<1>1. /\ Len(Ladder) \in Nat /\ \A i \in Rungs : i \in Nat /\ Ladder[i] \in Nat
      /\ IsFiniteSet(Rungs) /\ Cardinality(Rungs) = Len(Ladder)
  <2>1. Ladder \in Seq(Nat \ {0}) /\ Len(Ladder) \in Nat
    BY SweepAssumption, LenProperties
  <2>2. \A i \in Rungs : i \in Nat /\ Ladder[i] \in Nat
    BY <2>1, ElementOfSeq DEF Rungs
  <2>3. IsFiniteSet(Rungs) /\ Cardinality(Rungs) = Len(Ladder)
    <3>1. \A n \in Nat : /\ IsFiniteSet(1 .. n)
                        /\ Cardinality(1 .. n) = IF 1 > n THEN 0 ELSE n - 1 + 1
      BY FS_Interval
    <3>2. \A n \in Nat : IsFiniteSet(1 .. n) /\ Cardinality(1 .. n) = n
      BY <3>1
    <3>3. QED
      BY <2>1, <3>2 DEF Rungs
  <2>4. QED
    BY <2>1, <2>2, <2>3
<1>2. ASSUME NEW i \in Rungs
      PROVE  /\ i \in UpTo(i) /\ UpTo(i) \subseteq Rungs /\ IsFiniteSet(UpTo(i))
             /\ Place[i] = Cardinality(UpTo(i)) /\ Place[i] \in Rungs
  <2>1. i \in UpTo(i) /\ UpTo(i) \subseteq Rungs
    BY <1>1 DEF UpTo
  <2>2. /\ IsFiniteSet(UpTo(i)) /\ Cardinality(UpTo(i)) \in Nat
        /\ Cardinality(UpTo(i)) <= Len(Ladder) /\ Cardinality(UpTo(i)) # 0
    BY <1>1, <2>1, FS_Subset, FS_CardinalityType, FS_EmptySet
  <2>3. QED
    BY <1>1, <2>1, <2>2 DEF Place, Rungs
<1>3. ASSUME NEW i \in Rungs, NEW j \in Rungs, i # j, i \in UpTo(j)
      PROVE  Place[i] < Place[j]
  <2>1. UpTo(i) \subseteq UpTo(j) /\ j \notin UpTo(i)
    BY <1>1, <1>3 DEF UpTo
  <2>2. Cardinality(UpTo(i)) <= Cardinality(UpTo(j))
    BY <1>2, <2>1, FS_Subset
  <2>3. Cardinality(UpTo(i)) # Cardinality(UpTo(j))
    BY <1>2, <2>1, FS_Subset
  <2>4. QED
    BY <1>1, <1>2, <2>2, <2>3 DEF Rungs
<1>4. ASSUME NEW i \in Rungs, NEW j \in Rungs
      PROVE  i \in UpTo(j) \/ j \in UpTo(i)
  BY <1>1 DEF UpTo
<1>5. Place \in Injection(Rungs, Rungs)
  <2>1. Place \in [Rungs -> Rungs]
    BY <1>2 DEF Place
  <2>2. ASSUME NEW i \in Rungs, NEW j \in Rungs, Place[i] = Place[j] PROVE i = j
    BY <1>1, <1>2, <1>3, <1>4, <2>2 DEF Rungs
  <2>3. QED
    BY <2>1, <2>2 DEF Injection, IsInjective
<1>6. Place \in Surjection(Rungs, Rungs)
  BY <1>1, <1>5, FS_Injection
<1>7. ASSUME NEW i \in Rungs, NEW j \in Rungs, Place[i] < Place[j]
      PROVE  Ladder[i] <= Ladder[j]
  <2>1. i \in UpTo(j)
    <3>1. CASE j \in UpTo(i) /\ i # j
      BY <1>1, <1>2, <1>3, <1>7, <3>1 DEF Rungs
    <3>2. QED
      BY <1>2, <1>4, <3>1
  <2>2. QED
    BY <1>1, <2>1 DEF UpTo
<1>8. QED
  BY <1>5, <1>6, <1>7 DEF Bijection

(* The CHOOSE in Sorted finds a ladder that ascends.                        *)
LEMMA Ascending == \A i, j \in Rungs : i < j => Sorted[i] <= Sorted[j]
<1> DEFINE IsSorted(s) ==
             /\ \A i, j \in Rungs : i < j => s[i] <= s[j]
             /\ \E f \in Bijection(Rungs, Rungs) : \A i \in Rungs : s[i] = Ladder[f[i]]
           F == [Rungs -> {Ladder[i] : i \in Rungs}]
<1>1. PICK f \in Bijection(Rungs, Rungs) : \A n \in Rungs : Place[f[n]] = n
  <2> DEFINE g == [n \in Rungs |-> CHOOSE i \in Rungs : Place[i] = n]
  <2>1. /\ Place \in [Rungs -> Rungs]
        /\ \A i, j \in Rungs : Place[i] = Place[j] => i = j
        /\ \A n \in Rungs : \E i \in Rungs : Place[i] = n
    BY PlacesDiffer DEF Bijection, Injection, IsInjective, Surjection
  <2>2. \A n \in Rungs : g[n] \in Rungs /\ Place[g[n]] = n
    BY <2>1
  <2>3. g \in [Rungs -> Rungs]
    BY <2>2
  <2> HIDE DEF g
  <2>4. \A m, n \in Rungs : g[m] = g[n] => m = n
    BY <2>2
  <2>5. \A i \in Rungs : \E n \in Rungs : g[n] = i
    <3> SUFFICES ASSUME NEW i \in Rungs PROVE \E n \in Rungs : g[n] = i
      OBVIOUS
    <3>1. Place[i] \in Rungs /\ g[Place[i]] = i
      BY <2>1, <2>2
    <3>2. QED
      BY <3>1
  <2>6. g \in Bijection(Rungs, Rungs)
    BY <2>3, <2>4, <2>5 DEF Bijection, Injection, IsInjective, Surjection
  <2>7. QED
    BY <2>2, <2>6
<1> DEFINE s == [n \in Rungs |-> Ladder[f[n]]]
<1>2. \A n \in Rungs : f[n] \in Rungs
  BY DEF Bijection, Injection
<1>3. s \in F
  BY <1>2
<1>4. \A i, j \in Rungs : i < j => s[i] <= s[j]
  BY <1>1, <1>2, PlacesDiffer
<1>5. IsSorted(s)
  BY <1>4
<1>6. Sorted = CHOOSE t \in F : IsSorted(t)
  BY DEF Sorted
<1>7. IsSorted(Sorted)
  <2> HIDE DEF s, F, IsSorted
  <2> QED
    BY <1>3, <1>5, <1>6
<1>8. QED
  BY <1>7

(* Every state of a climb shows that it went on for a reason.               *)
LEMMA ClimbFollows == IInv => ClimbJustified
<1> SUFFICES ASSUME IInv PROVE ClimbJustified
  OBVIOUS
<1>1. CASE points = <<>>
  BY <1>1 DEF ClimbJustified
<1>2. CASE During /\ stop # "raised"
  <2>1. /\ curve \in Curves /\ index \in 1 .. Len(Ladder) + 1
        /\ points = [i \in 1 .. index - 1 |-> curve[i]]
    BY <1>2 DEF IInv, Climbed
  <2>2. Len(Ladder) \in Nat
    BY SweepAssumption, LenProperties
  <2>3. Len(points) = index - 1
    BY <2>1, <2>2
  <2> SUFFICES ASSUME NEW i \in 1 .. Len(points) - 1
               PROVE  /\ points[i].concurrency <= points[i + 1].concurrency
                      /\ ~TooManyErrors(points[i])
                      /\ config.stopOnSaturation =>
                           \A j \in 1 .. i - 1 :
                             ~NotGaining(points[i].throughput, points[j].throughput)
                      /\ config.stopOnSla /\ ~Unconstrained => Meets(points[i], config.sla)
    BY DEF ClimbJustified
  <2>4. /\ i \in 1 .. index - 1 /\ i < index - 1 /\ i + 1 \in 1 .. index - 1
        /\ i \in Rungs /\ i + 1 \in Rungs /\ i < i + 1
        /\ \A j \in 1 .. i - 1 : j \in 1 .. index - 1
    BY <2>1, <2>2, <2>3 DEF Rungs
  <2>5. points[i].concurrency <= points[i + 1].concurrency
    BY <2>1, <2>4, CurveTyped, Ascending
  <2>6. Passed(i)
    BY <1>2, <2>4 DEF IInv, Went
  <2>7. points[i] = curve[i] /\ \A j \in 1 .. i - 1 : points[j] = curve[j]
    BY <2>1, <2>4
  <2>8. QED
    BY <2>5, <2>6, <2>7 DEF Passed
<1>3. QED
  BY <1>1, <1>2 DEF IInv, Staged, Climbed

(* The climb goes on after a point only if the point gives no reason to     *)
(* stop, for every curve, SLA and choice of the flags.                      *)
THEOREM ClimbsForAReason == BenchmarkSpec => []ClimbJustified
BY ClimbFollows, Inductive, PTL

-----------------------------------------------------------------------------
(* A finite set has a member nothing in it precedes, for any strict order.  *)
LEMMA LeastMember ==
  ASSUME NEW S, IsFiniteSet(S), S # {}, NEW R,
         \A x \in S : <<x, x>> \notin R,
         \A x, y, z \in S : <<x, y>> \in R /\ <<y, z>> \in R => <<x, z>> \in R
  PROVE  \E m \in S : \A y \in S : <<y, m>> \notin R
<1> DEFINE Below(x) == {y \in S : <<y, x>> \in R}
           T == {Below(x) : x \in S}
<1>1. IsWellFoundedOn(StrictSubsetOrdering(S), SUBSET S)
  BY FS_StrictSubsetOrderingWellFounded, FS_FiniteSubsetsOfFinite
<1>2. T \subseteq SUBSET S /\ T # {}
  <2>1. \A x : Below(x) \in SUBSET S
    OBVIOUS
  <2>2. PICK x \in S : TRUE
    OBVIOUS
  <2> HIDE DEF Below
  <2> QED
    BY <2>1, <2>2
<1>3. PICK least \in T : \A t \in T : <<t, least>> \notin StrictSubsetOrdering(S)
  <2> HIDE DEF T
  <2> QED
    BY <1>1, <1>2, WFMin
<1>4. PICK m \in S : least = Below(m)
  BY <1>3
<1>5. ASSUME NEW y \in S, <<y, m>> \in R PROVE FALSE
  <2>1. Below(y) \subseteq Below(m)
    BY <1>5
  <2>2. y \in Below(m) /\ y \notin Below(y)
    BY <1>5
  <2>3. Below(y) \in T /\ Below(y) \in SUBSET S /\ Below(m) \in SUBSET S
    OBVIOUS
  <2>4. <<Below(y), Below(m)>> \in StrictSubsetOrdering(S)
    <3> HIDE DEF Below
    <3> QED
      BY <2>1, <2>2, <2>3 DEF StrictSubsetOrdering
  <2>5. QED
    BY <1>3, <1>4, <2>3, <2>4
<1>6. QED
  BY <1>5

(* What a climb that is on, or over, has measured.                          *)
LEMMA Measured ==
  ASSUME IInv, points # <<>>
  PROVE  /\ During /\ curve \in Curves /\ index \in 2 .. Len(Ladder) + 1
         /\ points = [i \in 1 .. index - 1 |-> curve[i]]
         /\ Len(points) = index - 1 /\ DOMAIN points = 1 .. index - 1
         /\ 1 .. index - 1 \subseteq Rungs
         /\ \A i \in 1 .. index - 1 :
              points[i] = curve[i] /\ curve[i] \in Points /\ curve[i].concurrency = Sorted[i]
<1>1. /\ During /\ curve \in Curves /\ index \in 1 .. Len(Ladder) + 1
      /\ points = [i \in 1 .. index - 1 |-> curve[i]]
  BY DEF IInv, Staged, Climbed
<1>2. Len(Ladder) \in Nat
  BY SweepAssumption, LenProperties
<1>3. index # 1
  BY <1>1
<1>4. 1 .. index - 1 \subseteq Rungs
  BY <1>1, <1>2 DEF Rungs
<1>5. Len(points) = index - 1 /\ DOMAIN points = 1 .. index - 1
  BY <1>1, <1>2
<1>6. QED
  BY <1>1, <1>2, <1>3, <1>4, <1>5, CurveTyped

LEMMA GreatestMember ==
  ASSUME NEW n \in Nat, NEW S, S \subseteq 1 .. n, S # {}
  PROVE  \E m \in S : \A j \in S : m >= j
<1> DEFINE R == {p \in S \X S : p[1] > p[2]}
<1>1. IsFiniteSet(S)
  <2>1. IsFiniteSet(1 .. n)
    BY FS_Interval
  <2>2. QED
    BY <2>1, FS_Subset
<1>2. \A x, y \in S : <<x, y>> \in R <=> x > y
  OBVIOUS
<1>3. \A x \in S : x \in Int
  OBVIOUS
<1>4. /\ \A x \in S : <<x, x>> \notin R
      /\ \A x, y, z \in S : <<x, y>> \in R /\ <<y, z>> \in R => <<x, z>> \in R
  <2> HIDE DEF R
  <2> QED
    BY <1>2, <1>3
<1>5. PICK m \in S : \A y \in S : <<y, m>> \notin R
  <2> HIDE DEF R
  <2> QED
    BY <1>1, <1>4, LeastMember
<1>6. ASSUME NEW y \in S PROVE m >= y
  <2>1. ~(y > m)
    BY <1>2, <1>5
  <2>2. y \in Int /\ m \in Int
    BY <1>3
  <2>3. QED
    BY <2>1, <2>2
<1>7. QED
  BY <1>6

(* The harness and the summary agree on saturation: whatever the curve, no  *)
(* usable point lies beyond the concurrency the result calls saturated.     *)
THEOREM SaturationAgreed == BenchmarkSpec => []SaturationAgrees
<1>1. IInv => SaturationAgrees
  <2> SUFFICES ASSUME IInv, config.stopOnSaturation, SaturationConcurrency(points) # None,
                      NEW i \in DOMAIN points, points[i].ok > 0
               PROVE  points[i].concurrency <= SaturationConcurrency(points)
    BY DEF SaturationAgrees
  <2> DEFINE usable == {k \in DOMAIN points : points[k].ok > 0}
             flat == {k \in usable : \E j \in usable :
                        j < k /\ NotGaining(points[k].throughput, points[j].throughput)}
             n == index - 1
  <2>1. points # <<>>
    OBVIOUS
  <2>2. /\ n \in Nat /\ DOMAIN points = 1 .. n /\ Len(points) = n
        /\ \A k \in 1 .. n : points[k].concurrency \in Nat
        /\ \A j, k \in 1 .. n : j <= k => points[j].concurrency <= points[k].concurrency
    <3>1. /\ n \in Nat /\ DOMAIN points = 1 .. n /\ Len(points) = n /\ 1 .. n \subseteq Rungs
          /\ \A k \in 1 .. n : points[k].concurrency \in Nat /\ points[k].concurrency = Sorted[k]
      BY <2>1, Measured, SweepAssumption, LenProperties DEF Points
    <3>2. \A j, k \in 1 .. n : j < k => Sorted[j] <= Sorted[k]
      BY <3>1, Ascending
    <3>3. QED
      BY <3>1, <3>2
  <2>3. \A k \in flat : k = n
    <3> SUFFICES ASSUME NEW k \in flat, k # n PROVE FALSE
      OBVIOUS
    <3>1. PICK j \in usable : j < k /\ NotGaining(points[k].throughput, points[j].throughput)
      OBVIOUS
    <3>2. k \in 1 .. Len(points) - 1 /\ j \in 1 .. k - 1
      BY <2>2, <3>1
    <3>3. QED
      BY <3>1, <3>2, ClimbFollows DEF ClimbJustified
  <2>4. i \in usable /\ usable \subseteq 1 .. n
    BY <2>2
  <2>5. ~(\A j, k \in usable : j = k)
    BY DEF SaturationConcurrency
  <2>6. CASE flat # {}
    <3>1. SaturationConcurrency(points)
            = points[CHOOSE k \in flat : \A j \in flat : k <= j].concurrency
      BY <2>5, <2>6 DEF SaturationConcurrency
    <3>2. n \in flat /\ \A j \in flat : n <= j
      BY <2>2, <2>3, <2>6
    <3> DEFINE first == CHOOSE k \in flat : \A j \in flat : k <= j
    <3>3. first = n
      <4> HIDE DEF flat
      <4>1. first \in flat
        BY <3>2
      <4>2. QED
        BY <2>3, <4>1
    <3> HIDE DEF usable, flat, first
    <3>4. i \in 1 .. n /\ n \in 1 .. n /\ i <= n
      BY <2>2, <2>4
    <3>5. points[i].concurrency <= points[first].concurrency
      BY <2>2, <3>3, <3>4
    <3>6. QED
      BY <3>1, <3>5 DEF first
  <2>7. CASE flat = {}
    <3>1. SaturationConcurrency(points)
            = points[CHOOSE k \in usable : \A j \in usable : k >= j].concurrency
      BY <2>5, <2>7 DEF SaturationConcurrency
    <3> DEFINE last == CHOOSE k \in usable : \A j \in usable : k >= j
    <3>2. last \in usable /\ \A j \in usable : last >= j
      <4> HIDE DEF usable
      <4>1. \E m \in usable : \A j \in usable : m >= j
        BY <2>2, <2>4, GreatestMember
      <4>2. QED
        BY <4>1
    <3> HIDE DEF usable, last
    <3>3. i <= last /\ i \in 1 .. n /\ last \in 1 .. n
      BY <2>2, <2>4, <3>2
    <3>4. points[i].concurrency <= points[last].concurrency
      BY <2>2, <3>3
    <3>5. QED
      BY <3>1, <3>4 DEF last
  <2>8. QED
    BY <2>6, <2>7
<1>2. QED
  BY <1>1, Inductive, PTL

-----------------------------------------------------------------------------
(* A climb that stopped at the SLA did so at a point that is within the     *)
(* error budget and outside the SLA; without a sweep there is no curve.      *)
Breached ==
  /\ During /\ stop = "sla" =>
       /\ index > 1
       /\ ~TooManyErrors(curve[index - 1])
       /\ ~Meets(curve[index - 1], config.sla)
  /\ During \/ curve = <<>>

LEMMA BreachHolds == BenchmarkSpec => []Breached
<1>1. BenchmarkInit => Breached
  BY DEF BenchmarkInit, Breached, During
<1>2. ASSUME IInv, Breached, [BenchmarkNext]_allvars PROVE Breached'
  <2>1. CASE \E code : Exit(code)
    BY <2>1 DEF Exit, Breached, During
  <2>2. CASE stage # "exited" /\ UNCHANGED vars /\ stage' # "exited" /\ (During' <=> During)
    BY <1>2, <2>2 DEF Breached, vars, TooManyErrors, Meets
  <2>3. CASE Answer
    BY <1>2, <2>3 DEF Answer, Breached, During, IInv, Staged, Before
  <2>4. CASE Sweeping
    <3>1. stage = "sweeping" /\ UNCHANGED session /\ stage' = stage
      BY <2>4 DEF Sweeping, session
    <3>2. CASE Climb
      <4>1. index' - 1 = index /\ index' > 1 /\ curve' = curve /\ config' = config
        <5>1. Measure
          BY <3>2 DEF Climb
        <5>2. QED
          BY <1>2, <3>1, <5>1, MeasureAdds DEF Rungs
      <4>2. stop' = "sla" => ~TooManyErrors(curve[index]) /\ ~Meets(curve[index], config.sla)
        BY <3>2 DEF Climb, SlaBreached
      <4>3. QED
        BY <3>1, <4>1, <4>2 DEF Breached, During, TooManyErrors, Meets
    <3>3. CASE StopOnErrors \/ StopOnSaturation \/ ReachTop \/ Raise
      BY <1>2, <3>1, <3>3 DEF StopOnErrors, StopOnSaturation, ReachTop, Raise, Breached, During
    <3>4. QED
      BY <2>4, <3>2, <3>3 DEF Sweeping, SweepStep
  <2>5. CASE UNCHANGED allvars
    BY <1>2, <2>5 DEF allvars, vars, session, Breached, During, TooManyErrors, Meets
  <2>6. CASE Wait
    BY <2>1, <2>2, <2>3, <2>6
       DEF Wait, RejectArguments, AcceptArguments, DeadlinePasses, BeginPoll, NoAnswer,
           GiveUp, During
  <2>7. CASE Report
    BY <2>1, <2>2, <2>7
       DEF Report, SweepRaised, NothingToStore, OpenStore, Record, Count, StoreRaises, During
  <2>8. QED
    BY <1>2, <2>1, <2>4, <2>5, <2>6, <2>7 DEF BenchmarkNext, Die, Exited
<1>3. QED
  BY <1>1, <1>2, Inductive, PTL DEF BenchmarkSpec

(* Two sequences of points that agree on I have the same highest there.     *)
LEMMA HighestAlike ==
  ASSUME NEW n \in Nat, NEW I, I \subseteq 1 .. n, I # {}, NEW f, NEW g,
         \A i \in I : f[i] = g[i] /\ g[i].throughput \in Int
  PROVE  Highest(f, I).throughput = Highest(g, I).throughput
<1> DEFINE Top(h, i) ==
             \A j \in I : \/ h[j].throughput < h[i].throughput
                          \/ h[j].throughput = h[i].throughput /\ i <= j
           R == {p \in I \X I : \/ g[p[1]].throughput > g[p[2]].throughput
                                \/ /\ g[p[1]].throughput = g[p[2]].throughput
                                   /\ p[1] < p[2]}
<1>1. IsFiniteSet(I) /\ \A i \in I : i \in Int
  <2>1. IsFiniteSet(1 .. n)
    BY FS_Interval
  <2>2. IsFiniteSet(I)
    BY <2>1, FS_Subset
  <2>3. \A i \in 1 .. n : i \in Int
    OBVIOUS
  <2>4. QED
    BY <2>2, <2>3
<1>2. \A x, y \in I : <<x, y>> \in R <=>
        \/ g[x].throughput > g[y].throughput
        \/ g[x].throughput = g[y].throughput /\ x < y
  OBVIOUS
<1>3. /\ \A x \in I : <<x, x>> \notin R
      /\ \A x, y, z \in I : <<x, y>> \in R /\ <<y, z>> \in R => <<x, z>> \in R
  <2> HIDE DEF R
  <2> QED
    BY <1>1, <1>2
<1>4. PICK m \in I : \A y \in I : <<y, m>> \notin R
  <2> HIDE DEF R
  <2> QED
    BY <1>1, <1>3, LeastMember
<1>5. Top(g, m)
  <2> SUFFICES ASSUME NEW j \in I
               PROVE  \/ g[j].throughput < g[m].throughput
                      \/ g[j].throughput = g[m].throughput /\ m <= j
    OBVIOUS
  <2>1. ~(g[j].throughput > g[m].throughput \/ (g[j].throughput = g[m].throughput /\ j < m))
    BY <1>2, <1>4
  <2>2. j \in Int /\ m \in Int /\ g[j].throughput \in Int /\ g[m].throughput \in Int
    BY <1>1
  <2> HIDE DEF R, Top
  <2>3. QED
    BY <2>1, <2>2
<1>6. \A i \in I : Top(f, i) <=> Top(g, i)
  OBVIOUS
<1>7. \A i, k \in I : Top(g, i) /\ Top(g, k) => i = k
  BY <1>1
<1>8. /\ Highest(f, I) = f[CHOOSE i \in I : Top(f, i)]
      /\ Highest(g, I) = g[CHOOSE i \in I : Top(g, i)]
  BY DEF Highest
<1>9. /\ (CHOOSE i \in I : Top(f, i)) = m
      /\ (CHOOSE i \in I : Top(g, i)) = m
  <2> HIDE DEF Top
  <2> QED
    BY <1>5, <1>6, <1>7
<1>10. QED
  BY <1>8, <1>9

(* Within an error budget below 100% something succeeds at a rung.          *)
LEMMA SomethingSucceeds ==
  ASSUME NEW c \in Nat \ {0}, NEW p \in Measurements(c),
         MaxErrorPercent < 100, ~TooManyErrors(p)
  PROVE  p.ok > 0
<1>1. Requests(c) \in Nat \ {0}
  BY SweepAssumption DEF Requests, Larger
<1>2. p.ok \in Nat /\ p.failed \in Nat
  BY PointTyped DEF Points
<1>3. SUFFICES ASSUME p.ok = 0 PROVE FALSE
  BY <1>2
<1>4. p.failed = Requests(c) \/ (p.failed = 1 /\ Requests(c) # 1)
  BY <1>1, <1>3 DEF Measurements
<1>5. p.failed > 0
  BY <1>1, <1>4
<1>6. \A e \in 0 .. 99, f \in Nat \ {0} : 100 * f > e * f
  OBVIOUS
<1>7. MaxErrorPercent \in 0 .. 99
  BY SweepAssumption
<1>8. 100 * p.failed > MaxErrorPercent * p.failed
  BY <1>2, <1>5, <1>6, <1>7
<1>9. 100 * p.failed > MaxErrorPercent * (p.ok + p.failed)
  BY <1>2, <1>3, <1>8
<1>10. QED
  BY <1>9 DEF TooManyErrors

(* Granted that latency grows with concurrency, stopping at the SLA loses   *)
(* nothing: the knee of the points measured is that of the whole ladder.    *)
THEOREM SlaStopHarmless == BenchmarkSpec => []SlaStopKeepsKnee
<1>1. IInv /\ Breached => SlaStopKeepsKnee
  <2> SUFFICES ASSUME IInv, Breached, stop = "sla", LatencyMonotone, MaxErrorPercent < 100
               PROVE  Knee(points, config.sla) = Knee(curve, config.sla)
    BY DEF SlaStopKeepsKnee
  <2> DEFINE I(pts) == {i \in DOMAIN pts : Meets(pts[i], config.sla)}
             n == index - 1
  <2>1. CASE ~During
    <3>1. points = <<>> /\ curve = <<>>
      BY <2>1 DEF IInv, Staged, Breached
    <3>2. QED
      BY <3>1
  <2>2. CASE During
    <3>1. /\ curve \in Curves /\ index \in 1 .. Len(Ladder) + 1 /\ index > 1
          /\ points = [i \in 1 .. n |-> curve[i]] /\ Len(Ladder) \in Nat
          /\ DOMAIN curve = Rungs
      BY <2>2, SweepAssumption, LenProperties DEF IInv, Climbed, Breached, Curves
    <3>2. n \in Rungs /\ n \in Nat /\ 1 .. n \subseteq Rungs /\ DOMAIN points = 1 .. n
      BY <3>1 DEF Rungs
    <3>3. \A i \in Rungs : curve[i] \in Points
      BY <3>1, CurveTyped
    <3>4. curve[n].ok > 0
      <4>1. PICK k \in Rungs : curve[n] \in Measurements(Ladder[k])
        BY <3>1, <3>2 DEF Curves
      <4>2. Ladder[k] \in Nat \ {0}
        BY SweepAssumption, ElementOfSeq DEF Rungs
      <4>3. QED
        BY <2>2, <4>1, <4>2, SomethingSucceeds DEF Breached
    <3>5. \/ config.sla.ttft # None /\ ~(curve[n].ttft <= config.sla.ttft)
          \/ config.sla.tpot # None /\ ~(curve[n].tpot <= config.sla.tpot)
      BY <2>2, <3>4 DEF Breached, Meets
    <3>6. config.sla.ttft \in Int /\ config.sla.tpot \in Int
      <4>1. config.sla \in [ttft : Limits, tpot : Limits]
        BY DEF IInv, Staged, Settings
      <4>2. config.sla.ttft \in Limits /\ config.sla.tpot \in Limits
        BY <4>1
      <4>3. Limits \subseteq Int
        BY SweepAssumption DEF None
      <4>4. QED
        BY <4>2, <4>3
    <3>7. ASSUME NEW i \in Rungs, i > n PROVE ~Meets(curve[i], config.sla)
      <4> SUFFICES ASSUME curve[i].ok > 0, Meets(curve[i], config.sla) PROVE FALSE
        BY DEF Meets
      <4>1. curve[n].ttft <= curve[i].ttft /\ curve[n].tpot <= curve[i].tpot
        BY <3>1, <3>2, <3>4, <3>7 DEF LatencyMonotone
      <4>2. /\ curve[n].ttft \in Nat /\ curve[n].tpot \in Nat
            /\ curve[i].ttft \in Nat /\ curve[i].tpot \in Nat
        BY <3>2, <3>3 DEF Points
      <4>3. QED
        BY <3>5, <3>6, <4>1, <4>2 DEF Meets
    <3>8. I(points) = I(curve) /\ I(points) \subseteq 1 .. n
      <4>1. \A i \in I(curve) : i \in 1 .. n
        BY <3>1, <3>2, <3>7 DEF Rungs
      <4>2. QED
        BY <3>1, <3>2, <4>1
    <3>9. \A i \in I(points) : points[i] = curve[i] /\ curve[i].throughput \in Int
      BY <3>1, <3>2, <3>3, <3>8 DEF Points
    <3>10. /\ Knee(points, config.sla)
                = IF I(points) = {} THEN 0 ELSE Highest(points, I(points)).throughput
           /\ Knee(curve, config.sla)
                = IF I(curve) = {} THEN 0 ELSE Highest(curve, I(curve)).throughput
      BY DEF Knee
    <3>11. QED
      <4> HIDE DEF I
      <4> QED
        BY <3>2, <3>8, <3>9, <3>10, HighestAlike
  <2>3. QED
    BY <2>1, <2>2
<1>2. QED
  BY <1>1, Inductive, BreachHolds, PTL
=============================================================================
