--------------------------- MODULE TimedScan_proof ---------------------------
(***************************************************************************)
(* Proofs about CyclicRunner, for every task configuration and every bound *)
(* on the length of the run, and about the timer in it (TimedScan), for    *)
(* every list of intervals and every preset: the scan clock gains nothing  *)
(* on the wall from the start of a wait to its end.                        *)
(***************************************************************************)
EXTENDS TimedScan, TLAPS
-----------------------------------------------------------------------------
(* Arithmetic the provers do not do unaided. *)

LEMMA TimesNat == ASSUME NEW a \in Nat, NEW b \in Nat PROVE a * b \in Nat
OBVIOUS

LEMMA OneMore ==
  ASSUME NEW a \in Int, NEW t \in Int PROVE (a + 1) * t = a * t + t
OBVIOUS

LEMMA TimesMonotone ==
  ASSUME NEW a \in Int, NEW b \in Int, NEW t \in Nat \ {0}
  PROVE  /\ a <= b => a * t <= b * t
         /\ a < b => a * t < b * t
<1> DEFINE d == b - a
<1>1. b * t = a * t + d * t
  OBVIOUS
<1>2. d >= 0 => d * t >= 0
  OBVIOUS
<1>3. d > 0 => d * t > 0
  OBVIOUS
<1>4. QED
  BY <1>1, <1>2, <1>3

LEMMA TimesAssociates ==
  ASSUME NEW a \in Int, NEW b \in Int, NEW t \in Int
  PROVE  (a * b) * t = a * (b * t)
OBVIOUS

\* Dividing a multiple gives the factor back.
LEMMA DivideMultiple ==
  ASSUME NEW n \in Nat, NEW t \in Nat \ {0}
  PROVE  (n * t) \div t = n
<1> DEFINE q == (n * t) \div t
<1>1. q \in Int /\ q * t <= n * t /\ n * t < (q + 1) * t
  OBVIOUS
<1> HIDE DEF q
<1>2. ~ (q < n)
  <2>1. q < n => q + 1 <= n
    BY <1>1
  <2>2. q + 1 <= n => (q + 1) * t <= n * t
    BY <1>1, TimesMonotone
  <2>3. QED
    BY <1>1, <2>1, <2>2, TimesNat
<1>3. ~ (n < q)
  BY <1>1, TimesMonotone
<1>4. q = n
  BY <1>1, <1>2, <1>3
<1>5. QED
  BY <1>4 DEF q

\* Within one period of the last multiple, only the multiple itself divides.
LEMMA MultipleInPeriod ==
  ASSUME NEW c \in Nat, NEW r \in Nat, NEW d \in Nat \ {0},
         (r - 1) * d < c, c <= r * d
  PROVE  c % d = 0 <=> c = r * d
<1> DEFINE q == c \div d
           m == c % d
<1>1. q \in Int /\ m \in Nat /\ c = q * d + m
  OBVIOUS
<1> HIDE DEF q, m
<1>2. ASSUME m = 0 PROVE c = r * d
  <2>1. ~ (q <= r - 1) /\ ~ (r < q)
    BY <1>1, <1>2, TimesMonotone
  <2>2. q = r
    BY <1>1, <2>1
  <2>3. QED
    BY <1>1, <1>2, <2>2
<1>3. ASSUME c = r * d PROVE m = 0
  <2>1. q = r
    BY <1>3, DivideMultiple DEF q
  <2>2. QED
    BY <1>1, <1>3, <2>1
<1>4. QED
  BY <1>2, <1>3 DEF m
-----------------------------------------------------------------------------
(* The task configuration. *)

LEMMA PeriodIsMultiple ==
  ASSUME NEW i \in Programs
  PROVE  /\ Divisor(i) \in Nat \ {0}
         /\ Period(i) = Divisor(i) * CommonTick
         /\ Due(i) <=> cycle % Divisor(i) = 0
<1>1. CommonTick \in Nat \ {0}
  BY TickAssumption
<1>2. Period(i) \in Nat \ {0}
  BY IntervalAssumption DEF Period, Programs
<1>3. PICK n \in 1 .. Period(i) : Period(i) = n * CommonTick
  BY TickAssumption
<1>4. Divisor(i) = n
  BY <1>1, <1>2, <1>3, DivideMultiple DEF Divisor
<1>5. QED
  BY <1>1, <1>2, <1>3, <1>4 DEF Due

LEMMA LenTyped == Len(Interval) \in Nat \ {0} /\ CommonTick \in Nat \ {0}
BY IntervalAssumption, TickAssumption
-----------------------------------------------------------------------------
(* Type correctness. *)

LEMMA InitTyped == Init => TypeOK
BY LenTyped DEF Init, TypeOK

LEMMA StepTyped == TypeOK /\ [Next]_vars => TypeOK'
<1> SUFFICES ASSUME TypeOK, [Next]_vars PROVE TypeOK'
  OBVIOUS
<1> USE LenTyped DEF TypeOK
<1>1. CASE StartScan
  BY <1>1 DEF StartScan
<1>2. CASE Stop
  BY <1>2 DEF Stop
<1>3. CASE RunProgram
  <2>1. runs' \in [Programs -> Nat]
    BY <1>3 DEF RunProgram
  <2>2. prog' \in 1 .. Len(Interval) + 1
    BY <1>3 DEF RunProgram, Programs
  <2>3. QED
    BY <1>3, <2>1, <2>2 DEF RunProgram
<1>4. CASE EndScan
  BY <1>4 DEF EndScan, NextScan
<1>5. CASE Wake
  BY <1>5 DEF Wake
<1>6. CASE Signal
  <2>1. running' \in BOOLEAN
    BY <1>6, Zenon DEF Signal
  <2>2. askedAt' \in Int
    BY <1>6 DEF Signal
  <2>3. QED
    BY <1>6, <2>1, <2>2 DEF Signal
<1>7. CASE Pass
  BY <1>7 DEF Pass
<1>8. CASE UNCHANGED vars
  BY <1>8 DEF vars
<1>9. QED
  BY <1>1, <1>2, <1>3, <1>4, <1>5, <1>6, <1>7, <1>8 DEF Next, Loop

\* Every variable of every reachable state has its type.
THEOREM TypeCorrect == Spec => []TypeOK
BY InitTyped, StepTyped, PTL DEF Spec
-----------------------------------------------------------------------------
(* Stopping. *)

StopInv ==
  /\ running => askedAt = -1
  /\ ~running => askedAt \in Nat /\ cycle <= askedAt + 1
  /\ ~running /\ phase = "scan" => cycle = askedAt

\* A stop request costs at most the scan in progress, whenever it arrives.
THEOREM StopAlwaysPrompt == Spec => []StopIsPrompt
<1>1. Init => StopInv
  BY DEF Init, StopInv
<1>2. TypeOK /\ StopInv /\ [Next]_vars => StopInv'
  <2> SUFFICES ASSUME TypeOK, StopInv, [Next]_vars PROVE StopInv'
    OBVIOUS
  <2> USE DEF StopInv, TypeOK
  <2>1. CASE StartScan
    BY <2>1 DEF StartScan
  <2>2. CASE Stop
    BY <2>2 DEF Stop
  <2>3. CASE RunProgram
    BY <2>3 DEF RunProgram
  <2>4. CASE EndScan
    BY <2>4 DEF EndScan
  <2>5. CASE Wake
    BY <2>5 DEF Wake
  <2>6. CASE Signal
    BY <2>6 DEF Signal
  <2>7. CASE Pass
    BY <2>7 DEF Pass
  <2>8. CASE UNCHANGED vars
    BY <2>8 DEF vars
  <2>9. QED
    BY <2>1, <2>2, <2>3, <2>4, <2>5, <2>6, <2>7, <2>8 DEF Next, Loop
<1>3. TypeOK /\ StopInv => StopIsPrompt
  BY DEF TypeOK, StopInv, StopIsPrompt
<1>4. QED
  BY <1>1, <1>2, <1>3, InitTyped, StepTyped, PTL DEF Spec
-----------------------------------------------------------------------------
(* The clock and next_tick.  next_tick alone carries the promise: it is a  *)
(* tick past every scan for each scan since, and no scan begins before it. *)

PaceInv ==
  /\ plcTime = cycle * CommonTick
  /\ Len(starts) = IF phase = "scan" THEN cycle + 1 ELSE cycle
  /\ nextTick >= cycle * CommonTick
  /\ phase \in {"head", "scan"} => wall >= nextTick
  /\ \A i \in 1 .. Len(starts) : starts[i] <= wall
  /\ \A i \in 1 .. cycle : nextTick >= starts[i] + (cycle - i) * CommonTick

LEMMA InitPaced == Init => PaceInv
BY LenTyped DEF Init, PaceInv

LEMMA StepPaced == TypeOK /\ PaceInv /\ [Next]_vars => PaceInv'
<1> SUFFICES ASSUME TypeOK, PaceInv, [Next]_vars PROVE PaceInv'
  OBVIOUS
<1>0. CommonTick \in Nat \ {0} /\ cycle \in Nat /\ wall \in Nat
      /\ nextTick \in Nat /\ starts \in Seq(Nat)
  BY LenTyped DEF TypeOK
<1>1. CASE StartScan
  <2>1. Len(starts') = cycle + 1 /\ starts' = Append(starts, wall)
    BY <1>0, <1>1 DEF StartScan, PaceInv
  <2>2. \A i \in 1 .. Len(starts') :
          starts'[i] = IF i = cycle + 1 THEN wall ELSE starts[i]
    BY <1>0, <1>1, <2>1 DEF StartScan, PaceInv
  <2>3. QED
    BY <1>0, <1>1, <2>1, <2>2 DEF StartScan, PaceInv
<1>2. CASE Stop
  BY <1>2 DEF Stop, PaceInv
<1>3. CASE RunProgram
  BY <1>3 DEF RunProgram, PaceInv
<1>4. CASE EndScan
  <2>1. nextTick' >= nextTick + CommonTick /\ nextTick' >= wall
    BY <1>0, <1>4 DEF EndScan, NextScan
  <2>2. nextTick' \in Nat
    BY <1>0, <1>4 DEF EndScan, NextScan
  <2>3. cycle' = cycle + 1 /\ phase = "scan" /\ phase' = "sleep"
        /\ plcTime' = plcTime + CommonTick /\ UNCHANGED <<starts, wall>>
    BY <1>4 DEF EndScan
  <2>4. cycle' * CommonTick = cycle * CommonTick + CommonTick
    BY <1>0, <2>3, OneMore
  <2>5. ASSUME NEW i \in 1 .. cycle'
        PROVE  nextTick' >= starts'[i] + (cycle' - i) * CommonTick
    <3>1. CASE i = cycle + 1
      <4>1. (cycle' - i) * CommonTick = 0
        BY <1>0, <2>3, <3>1
      <4>2. starts[i] <= wall /\ starts[i] \in Nat
        BY <1>0, <2>3, <3>1 DEF PaceInv
      <4>3. starts'[i] + (cycle' - i) * CommonTick = starts[i]
        BY <2>3, <4>1, <4>2
      <4>4. nextTick' >= starts[i]
        BY <1>0, <2>1, <2>2, <4>2
      <4>5. QED
        BY <4>3, <4>4
    <3>2. CASE i \in 1 .. cycle
      <4>1. nextTick >= starts[i] + (cycle - i) * CommonTick
        BY <3>2 DEF PaceInv
      <4>2. (cycle' - i) * CommonTick = (cycle - i) * CommonTick + CommonTick
        BY <1>0, <2>3, <3>2, OneMore
      <4>3. starts[i] \in Nat /\ (cycle - i) * CommonTick \in Nat
        BY <1>0, <2>3, <3>2, TimesNat DEF PaceInv
      <4>4. QED
        BY <1>0, <2>1, <2>2, <2>3, <4>1, <4>2, <4>3
    <3>3. QED
      BY <1>0, <2>3, <3>1, <3>2
  <2>6. nextTick' >= cycle' * CommonTick
    BY <1>0, <2>1, <2>2, <2>4, TimesNat DEF PaceInv
  <2>7. QED
    BY <1>0, <2>3, <2>4, <2>5, <2>6 DEF PaceInv
<1>5. CASE Wake
  BY <1>0, <1>5 DEF Wake, PaceInv
<1>6. CASE Signal
  BY <1>6 DEF Signal, PaceInv
<1>7. CASE Pass
  BY <1>0, <1>7 DEF Pass, PaceInv
<1>8. CASE UNCHANGED vars
  BY <1>8 DEF vars, PaceInv
<1>9. QED
  BY <1>1, <1>2, <1>3, <1>4, <1>5, <1>6, <1>7, <1>8 DEF Next, Loop

\* The loop implements the pacing the runtime promises: scans never outrun
\* the clock by more than a tick, whatever the overruns and late wake-ups.
THEOREM RunnerIsPaced == Spec => ImplementsPacing
<1>1. Init => Pacing!Init
  BY DEF Init, Pacing!Init
<1>2. TypeOK /\ PaceInv /\ [Next]_vars => [Pacing!Next]_(Pacing!vars)
  <2> SUFFICES ASSUME TypeOK, PaceInv, [Next]_vars
               PROVE  [Pacing!Next]_(Pacing!vars)
    OBVIOUS
  <2>0. CommonTick \in Nat \ {0} /\ cycle \in Nat /\ wall \in Nat
        /\ nextTick \in Nat /\ starts \in Seq(Nat)
    BY LenTyped DEF TypeOK
  <2>1. CASE StartScan
    <3>1. Len(starts) = cycle /\ wall >= nextTick /\ plcTime = cycle * CommonTick
      BY <2>1 DEF StartScan, PaceInv
    <3>2. ASSUME NEW i \in 1 .. Len(starts)
          PROVE  wall >= starts[i] + (Len(starts) - i) * CommonTick
      <4>1. nextTick >= starts[i] + (cycle - i) * CommonTick
        BY <3>1 DEF PaceInv
      <4>2. starts[i] \in Nat /\ (cycle - i) * CommonTick \in Nat
        BY <2>0, <3>1, TimesNat
      <4>3. QED
        BY <2>0, <3>1, <4>1, <4>2
    <3>3. wall >= Len(starts) * CommonTick
      BY <2>0, <3>1, TimesNat DEF PaceInv
    <3>4. QED
      BY <2>1, <3>1, <3>2, <3>3 DEF StartScan, Pacing!Next, Pacing!Start,
         Pacing!Paced
  <2>2. CASE EndScan
    <3>1. Len(starts) * CommonTick = cycle * CommonTick + CommonTick
      BY <2>0, <2>2, OneMore DEF EndScan, PaceInv
    <3>2. plcTime < Len(starts) * CommonTick
      BY <2>0, <3>1, TimesNat DEF PaceInv
    <3>3. QED
      BY <2>2, <3>2 DEF EndScan, Pacing!Next, Pacing!End
  <2>3. CASE Pass
    BY <2>0, <2>3 DEF Pass, Pacing!Next, Pacing!Pass
  <2>4. CASE UNCHANGED <<wall, starts, plcTime>>
    BY <2>4 DEF Pacing!vars
  <2>5. QED
    BY <2>1, <2>2, <2>3, <2>4
       DEF Next, Loop, Stop, RunProgram, Wake, Signal, vars
<1>3. QED
  BY <1>1, <1>2, InitTyped, StepTyped, InitPaced, StepPaced, PTL
     DEF Spec, ImplementsPacing, Pacing!Spec
-----------------------------------------------------------------------------
(* Schedules, in units of the common tick. *)

\* The cycles program i has been considered in.
Considered(i) == IF phase = "scan" /\ prog > i THEN cycle + 1 ELSE cycle

RunsInv ==
  \A i \in Programs :
    /\ Considered(i) <= runs[i] * Divisor(i)
    /\ Considered(i) > (runs[i] - 1) * Divisor(i)

\* One program considered in one cycle.
LEMMA ConsideredOnce ==
  ASSUME NEW c \in Nat, NEW r \in Nat, NEW d \in Nat \ {0},
         c <= r * d, c > (r - 1) * d
  PROVE  /\ c % d = 0 => c + 1 <= (r + 1) * d /\ c + 1 > r * d
         /\ c % d # 0 => c + 1 <= r * d /\ c + 1 > (r - 1) * d
<1>1. c % d = 0 <=> c = r * d
  BY MultipleInPeriod
<1>2. (r + 1) * d = r * d + d /\ r * d \in Nat /\ (r - 1) * d \in Int
  BY OneMore, TimesNat
<1>3. QED
  BY <1>1, <1>2

LEMMA InitScheduled == Init => RunsInv
BY PeriodIsMultiple, LenTyped DEF Init, RunsInv, Considered

LEMMA StepScheduled == TypeOK /\ RunsInv /\ [Next]_vars => RunsInv'
<1> SUFFICES ASSUME TypeOK, RunsInv, [Next]_vars, NEW i \in Programs
             PROVE  /\ Considered(i)' <= runs'[i] * Divisor(i)
                    /\ Considered(i)' > (runs'[i] - 1) * Divisor(i)
  BY DEF RunsInv, Divisor
<1>0. /\ Considered(i) <= runs[i] * Divisor(i)
      /\ Considered(i) > (runs[i] - 1) * Divisor(i)
      /\ i \in 1 .. Len(Interval)
      /\ runs[i] \in Nat
  BY DEF RunsInv, TypeOK, Programs
<1>1. CASE RunProgram
  <2>1. CASE prog = i
    <3>1. Considered(i) = cycle /\ Considered(i)' = cycle + 1
      BY <1>0, <1>1, <2>1 DEF RunProgram, Considered, TypeOK
    <3>2. Due(i) => runs'[i] = runs[i] + 1
      BY <1>1, <2>1 DEF RunProgram, TypeOK
    <3>3. ~Due(i) => runs'[i] = runs[i]
      BY <1>1, <2>1 DEF RunProgram
    <3>4. cycle \in Nat
      BY DEF TypeOK
    <3>5. CASE Due(i)
      <4>1. cycle + 1 <= (runs[i] + 1) * Divisor(i)
            /\ cycle + 1 > runs[i] * Divisor(i)
        BY <1>0, <3>1, <3>4, <3>5, PeriodIsMultiple, ConsideredOnce
      <4>2. runs'[i] = runs[i] + 1 /\ runs'[i] - 1 = runs[i]
        BY <1>0, <3>2, <3>5
      <4>3. QED
        BY <3>1, <4>1, <4>2
    <3>6. CASE ~Due(i)
      BY <1>0, <3>1, <3>3, <3>4, <3>6, PeriodIsMultiple, ConsideredOnce
    <3>7. QED
      BY <3>5, <3>6
  <2>2. CASE prog # i
    <3>1. Considered(i)' = Considered(i)
      BY <1>0, <1>1, <2>2 DEF RunProgram, Considered, TypeOK
    <3>2. runs'[i] = runs[i]
      BY <1>1, <2>2 DEF RunProgram, TypeOK
    <3>3. QED
      BY <1>0, <3>1, <3>2
  <2>3. QED
    BY <2>1, <2>2
<1>2. CASE ~RunProgram
  <2>1. Considered(i)' = Considered(i)
    BY <1>0, <1>2 DEF Next, Loop, StartScan, Stop, EndScan, Wake, Signal, Pass,
       vars, Considered, TypeOK
  <2>2. runs' = runs
    BY <1>2 DEF Next, Loop, StartScan, Stop, EndScan, Wake, Signal, Pass, vars
  <2>3. QED
    BY <1>0, <2>1, <2>2
<1>3. QED
  BY <1>1, <1>2

\* Every program runs exactly once for each multiple of its interval the
\* clock has reached.
THEOREM RunsAlwaysOnSchedule == Spec => []RunsOnSchedule
<1>1. TypeOK /\ PaceInv /\ RunsInv => RunsOnSchedule
  <2> SUFFICES ASSUME TypeOK, PaceInv, RunsInv, phase # "scan",
                      NEW i \in Programs
               PROVE  /\ plcTime <= runs[i] * Period(i)
                      /\ plcTime > (runs[i] - 1) * Period(i)
    BY DEF RunsOnSchedule
  <2> DEFINE d == Divisor(i)
             t == CommonTick
  <2>1. /\ cycle \in Nat /\ runs[i] \in Nat
        /\ d \in Nat \ {0} /\ t \in Nat \ {0} /\ Period(i) = d * t
    BY PeriodIsMultiple, LenTyped DEF TypeOK
  <2>2. cycle <= runs[i] * d /\ cycle > (runs[i] - 1) * d
    BY DEF RunsInv, Considered
  <2>3. plcTime = cycle * t
    BY DEF PaceInv
  <2> HIDE DEF d, t
  <2>4. cycle * t <= (runs[i] * d) * t /\ ((runs[i] - 1) * d) * t < cycle * t
    BY <2>1, <2>2, TimesMonotone, TimesNat
  <2>5. (runs[i] * d) * t = runs[i] * Period(i)
        /\ ((runs[i] - 1) * d) * t = (runs[i] - 1) * Period(i)
    BY <2>1, TimesAssociates
  <2>6. plcTime \in Int /\ (runs[i] - 1) * Period(i) \in Int
    BY <2>1, <2>3, TimesNat
  <2>7. QED
    BY <2>3, <2>4, <2>5, <2>6
<1>2. QED
  BY <1>1, InitTyped, StepTyped, InitPaced, StepPaced, InitScheduled,
     StepScheduled, PTL DEF Spec
-----------------------------------------------------------------------------
Timer == [state : {0, 1, 2}, prev : BOOLEAN, start : Int, q : BOOLEAN,
          et : Int]

LEMMA NewTimerTyped == NewTimer \in Timer /\ NewTimer.state = 0
BY DEF NewTimer, Timer

LEMMA TonTyped ==
  ASSUME NEW t \in Timer, NEW in \in BOOLEAN, NEW pt \in Nat, NEW now \in Nat
  PROVE  TonCall(t, in, pt, now) \in Timer
<1>1. now - t.start \in Int
  BY DEF Timer
<1> DEFINE s == [t EXCEPT !.prev = in]
<1>2. s \in Timer
  BY DEF Timer
<1> HIDE DEF s
<1>3. /\ [s EXCEPT !.state = 1, !.q = FALSE, !.start = now] \in Timer
      /\ [s EXCEPT !.state = 0, !.q = FALSE, !.et = 0] \in Timer
      /\ [s EXCEPT !.state = 2, !.q = TRUE, !.et = pt] \in Timer
      /\ [s EXCEPT !.et = now - t.start] \in Timer
  <2> DEFINE e == now - t.start
  <2>1. now \in Int /\ pt \in Int /\ 0 \in Int /\ e \in Int
    BY <1>1
  <2> HIDE DEF e
  <2>2. [s EXCEPT !.et = e] \in Timer
    BY <1>2, <2>1 DEF Timer
  <2>3. [s EXCEPT !.state = 1, !.q = FALSE, !.start = now] \in Timer
    BY <1>2, <2>1 DEF Timer
  <2>4. [s EXCEPT !.state = 0, !.q = FALSE, !.et = 0] \in Timer
    BY <1>2, <2>1 DEF Timer
  <2>5. [s EXCEPT !.state = 2, !.q = TRUE, !.et = pt] \in Timer
    BY <1>2, <2>1 DEF Timer
  <2>6. QED
    BY <2>2, <2>3, <2>4, <2>5 DEF e
<1>4. QED
  BY <1>2, <1>3, Zenon DEF TonCall, s

\* A wait that stands after a call began in it or stood before it.
LEMMA TonWaits ==
  ASSUME NEW t \in Timer, NEW in \in BOOLEAN, NEW pt \in Nat, NEW now \in Nat,
         TonCall(t, in, pt, now).state = 1
  PROVE  \/ /\ t.state = 1
            /\ TonCall(t, in, pt, now).start = t.start
         \/ /\ t.state = 0
            /\ in
            /\ TonCall(t, in, pt, now).start = now
BY DEF TonCall, Timer

\* Q rises only at the end of a wait that has lasted PT on the scan clock.
LEMMA TonRises ==
  ASSUME NEW t \in Timer, NEW in \in BOOLEAN, NEW pt \in Nat, NEW now \in Nat,
         ~t.q, TonCall(t, in, pt, now).q
  PROVE  t.state = 1 /\ t.start + pt <= now
BY DEF TonCall, Timer, Elapsed
-----------------------------------------------------------------------------
TimedTypeOK ==
  /\ TypeOK
  /\ ton \in Timer
  /\ began \in Int

\* How far the scan clock may have gained on the wall while the timer waits:
\* one tick at most in any scan, and nothing that the next scan can add to.
Waited == began + plcTime - ton.start

WaitInv ==
  ton.state = 1 =>
    /\ phase = "scan" => ThisScan >= Waited - CommonTick /\ NextScan >= Waited
    /\ phase # "scan" => nextTick >= Waited - CommonTick

\* When the loop is back at its head, or in a scan, the scan is due.
DueInv ==
  /\ phase \in {"head", "scan"} => wall >= nextTick
  /\ phase = "scan" => Len(starts) > 0 /\ ThisScan <= wall

TimedInv == TimedTypeOK /\ WaitInv /\ DueInv

LEMMA TimedInit == TInit => TimedInv
<1> SUFFICES ASSUME TInit PROVE TimedInv
  OBVIOUS
<1>1. TypeOK
  BY InitTyped DEF TInit
<1>2. phase = "head" /\ wall = 0 /\ nextTick = 0 /\ ton.state = 0
  BY NewTimerTyped DEF TInit, Init
<1>3. QED
  BY <1>1, <1>2, NewTimerTyped
     DEF TInit, TimedInv, TimedTypeOK, WaitInv, DueInv

LEMMA RunnerSteps == [TNext]_timedVars => [Next]_vars
BY DEF TNext, TimedProgram, Next, Loop, timedVars, vars

LEMMA TimedTyped == TimedInv /\ [TNext]_timedVars => TimedTypeOK'
<1> SUFFICES ASSUME TimedInv, [TNext]_timedVars PROVE TimedTypeOK'
  OBVIOUS
<1>1. TypeOK'
  BY RunnerSteps, StepTyped DEF TimedInv, TimedTypeOK
<1>2. ASSUME NEW in \in BOOLEAN, TimedProgram(in)
      PROVE  ton' \in Timer /\ began' \in Int
  <2>1. CASE prog = Owner /\ Due(prog)
    <3>1. phase = "scan" /\ ThisScan \in Int
      <4>1. phase = "scan"
        BY <1>2 DEF TimedProgram, RunProgram
      <4>2. QED
        BY <4>1 DEF TimedInv, TimedTypeOK, TypeOK, DueInv, ThisScan
    <3>2. ton' = TonCall(ton, in, PT, plcTime)
      BY <1>2, <2>1 DEF TimedProgram, CallTimer
    <3>3. began' \in {began, ThisScan}
      BY <1>2, <2>1 DEF TimedProgram, CallTimer
    <3>4. QED
      BY <3>1, <3>2, <3>3, TonTyped, TimerAssumption
         DEF TimedInv, TimedTypeOK, TypeOK
  <2>2. CASE ~(prog = Owner /\ Due(prog))
    BY <1>2, <2>2 DEF TimedProgram, TimedInv, TimedTypeOK
  <2>3. QED
    BY <2>1, <2>2
<1>3. CASE UNCHANGED <<ton, began>>
  BY <1>1, <1>3 DEF TimedInv, TimedTypeOK
<1>4. QED
  BY <1>1, <1>2, <1>3 DEF TimedTypeOK, TNext, timedVars

LEMMA TimedDue == TimedInv /\ [TNext]_timedVars => DueInv'
<1> SUFFICES ASSUME TimedInv, [Next]_vars PROVE DueInv'
  BY RunnerSteps
<1> USE DEF TimedInv, TimedTypeOK, TypeOK, DueInv, ThisScan
<1>1. CASE StartScan
  BY <1>1 DEF StartScan
<1>2. CASE RunProgram
  BY <1>2 DEF RunProgram
<1>3. CASE Stop \/ EndScan \/ Wake \/ Signal
  BY <1>3 DEF Stop, EndScan, Wake, Signal
<1>4. CASE Pass
  BY <1>4 DEF Pass
<1>5. CASE UNCHANGED vars
  BY <1>5 DEF vars
<1>6. QED
  BY <1>1, <1>2, <1>3, <1>4, <1>5 DEF Next, Loop

LEMMA TimedWaits == TimedInv /\ [TNext]_timedVars => WaitInv'
<1> SUFFICES ASSUME TimedInv, [TNext]_timedVars, ton'.state = 1
             PROVE  /\ phase' = "scan" => /\ ThisScan' >= Waited' - CommonTick
                                          /\ NextScan' >= Waited'
                    /\ phase' # "scan" => nextTick' >= Waited' - CommonTick
  BY DEF WaitInv
<1>0. /\ CommonTick \in Nat \ {0} /\ wall \in Nat /\ nextTick \in Nat
      /\ plcTime \in Nat /\ starts \in Seq(Nat) /\ began \in Int
      /\ ton.start \in Int
  BY LenTyped DEF TimedInv, TimedTypeOK, TypeOK, Timer
<1>1. ASSUME NEW in \in BOOLEAN, TimedProgram(in), prog = Owner, Due(prog),
             ton.state = 1, ton'.start = ton.start
      PROVE  /\ phase' = "scan" /\ ThisScan' >= Waited' - CommonTick
             /\ NextScan' >= Waited'
  BY <1>0, <1>1 DEF TimedProgram, RunProgram, CallTimer, TimedInv, WaitInv,
                    ThisScan, NextScan, Waited
<1>2. ASSUME NEW in \in BOOLEAN, TimedProgram(in), prog = Owner, Due(prog),
             ton.state = 0, in, ton'.start = plcTime
      PROVE  /\ phase' = "scan" /\ ThisScan' >= Waited' - CommonTick
             /\ NextScan' >= Waited'
  <2>1. /\ phase = "scan" /\ phase' = "scan" /\ began' = ThisScan
        /\ UNCHANGED <<starts, wall, nextTick, plcTime>>
    BY <1>2 DEF TimedProgram, RunProgram, CallTimer
  <2>2. ThisScan \in Nat /\ ThisScan <= wall
    BY <1>0, <2>1 DEF TimedInv, DueInv, ThisScan
  <2>3. Waited' = ThisScan /\ ThisScan' = ThisScan
    BY <1>0, <1>2, <2>1, <2>2 DEF Waited, ThisScan
  <2>4. NextScan' >= wall
    BY <1>0, <2>1 DEF NextScan
  <2>5. QED
    BY <1>0, <2>1, <2>2, <2>3, <2>4 DEF NextScan
<1>3. CASE UNCHANGED <<ton, began>>
  <2> USE <1>3 DEF TimedInv, WaitInv, Waited, ThisScan, NextScan
  <2>1. CASE StartScan
    BY <1>0, <2>1 DEF StartScan, DueInv
  <2>2. CASE RunProgram \/ Stop \/ Wake \/ Signal
    BY <1>0, <2>2 DEF RunProgram, Stop, Wake, Signal
  <2>3. CASE EndScan
    BY <1>0, <2>3 DEF EndScan
  <2>4. CASE Pass
    BY <1>0, <2>4 DEF Pass
  <2>5. CASE UNCHANGED vars
    BY <1>0, <2>5 DEF vars
  <2>6. QED
    BY <2>1, <2>2, <2>3, <2>4, <2>5, RunnerSteps DEF Next, Loop
<1>4. ASSUME NEW in \in BOOLEAN, TimedProgram(in), prog = Owner, Due(prog)
      PROVE  \/ ton.state = 1 /\ ton'.start = ton.start
             \/ ton.state = 0 /\ in /\ ton'.start = plcTime
  <2>1. ton' = TonCall(ton, in, PT, plcTime)
    BY <1>4 DEF TimedProgram, CallTimer
  <2>2. ton \in Timer
    BY DEF TimedInv, TimedTypeOK
  <2>3. QED
    BY <1>0, <2>1, <2>2, TonWaits, TimerAssumption
<1>5. QED
  BY <1>1, <1>2, <1>3, <1>4 DEF TNext, TimedProgram, timedVars

\* However overruns and late wake-ups make next_tick slip, a timer called in a
\* scan elapses on the wall no more than one common tick before PT has passed.
THEOREM TimersElapseInWallTime == TSpec => ElapsesInWallTime
<1>1. TimedInv /\ [TNext]_timedVars => TimedInv'
  BY TimedTyped, TimedDue, TimedWaits DEF TimedInv
<1>2. TimedInv /\ [TNext]_timedVars => [NeverEarly]_timedVars
  <2> SUFFICES ASSUME TimedInv, TNext, ~ton.q, ton'.q
               PROVE  ThisScan >= began + PT - CommonTick
    BY DEF NeverEarly
  <2>1. PICK in \in BOOLEAN : TimedProgram(in) /\ prog = Owner /\ Due(prog)
    BY DEF TNext, TimedProgram
  <2>2. ton' = TonCall(ton, in, PT, plcTime) /\ phase = "scan"
    BY <2>1 DEF TimedProgram, CallTimer, RunProgram
  <2>3. ton \in Timer /\ plcTime \in Nat /\ PT \in Nat
    BY TimerAssumption DEF TimedInv, TimedTypeOK, TypeOK
  <2>4. ton.state = 1 /\ ton.start + PT <= plcTime
    BY <2>2, <2>3, TonRises
  <2>5. ThisScan >= Waited - CommonTick
    BY <2>2, <2>4 DEF TimedInv, WaitInv
  <2>6. /\ CommonTick \in Nat \ {0} /\ began \in Int /\ ton.start \in Int
        /\ ThisScan \in Nat
    BY <2>2, LenTyped
       DEF TimedInv, TimedTypeOK, TypeOK, Timer, DueInv, ThisScan
  <2>7. QED
    BY <2>3, <2>4, <2>5, <2>6 DEF Waited
<1>3. QED
  BY <1>1, <1>2, TimedInit, PTL DEF TSpec, ElapsesInWallTime
=============================================================================
