---------------------------- MODULE CyclicRunner ----------------------------
(***************************************************************************)
(* cyclic_run (src/runtime/repl/iec_cyclic.hpp): the loop that runs every  *)
(* program at the interval of its task, on the greatest common tick of all *)
(* intervals, against the steady clock, until a signal stops it.  What one *)
(* scan does to the variables is ScanCycle's; here a scan is the set of    *)
(* programs it runs and the time it takes.                                 *)
(***************************************************************************)
EXTENDS Integers, Sequences

CONSTANTS
  Interval,         \* Interval[i], the configured interval of program i
  DefaultInterval,  \* the interval of a program configured with none
  MaxWall,          \* bound: time passes in a scan up to here
  MaxCycles         \* bound: scans started

ASSUME IntervalAssumption ==
  /\ Interval \in Seq(Int) \ {<<>>}
  /\ DefaultInterval \in Nat \ {0}
  /\ MaxWall \in Nat
  /\ MaxCycles \in Nat

Programs == 1 .. Len(Interval)

\* An interval of zero or less means the default.
Period(i) == IF Interval[i] <= 0 THEN DefaultInterval ELSE Interval[i]

\* repl_gcd: while (b) { a %= b; swap(a, b); }
Gcd[a \in Nat, b \in Nat] == IF b = 0 THEN a ELSE Gcd[b, a % b]

CommonUpTo[i \in Programs] ==
  IF i = 1 THEN Period(1) ELSE Gcd[CommonUpTo[i - 1], Period(i)]

CommonTick == CommonUpTo[Len(Interval)]

\* What the gcd computes; a fact about a recursive function, so it is checked
\* by TLC on every configuration and assumed by the proofs.
ASSUME TickAssumption ==
  /\ CommonTick \in Nat \ {0}
  /\ \A i \in Programs :
       \E n \in 1 .. Period(i) : Period(i) = n * CommonTick

VARIABLES
  phase,     \* "head", "scan", "sleep" or "stopped"
  running,   \* g_cyclic_running
  wall,      \* steady_clock::now(), counted from the start of the loop
  nextTick,  \* next_tick
  cycle,     \* cycle_count
  plcTime,   \* __CURRENT_TIME_NS
  prog,      \* the program about to be considered in this scan
  starts,    \* history: the wall time each scan began at
  runs,      \* history: runs[i], how often program i has run
  askedAt    \* history: cycle_count when the stop was asked for, -1 before

vars == <<phase, running, wall, nextTick, cycle, plcTime, prog, starts, runs,
          askedAt>>
-----------------------------------------------------------------------------
Init ==
  /\ phase = "head"
  /\ running = TRUE
  /\ wall = 0
  /\ nextTick = 0
  /\ cycle = 0
  /\ plcTime = 0
  /\ prog = 1
  /\ starts = <<>>
  /\ runs = [i \in Programs |-> 0]
  /\ askedAt = -1

\* while (g_cyclic_running), entered: inputs are read and the scan begins.
StartScanRegardless ==
  /\ phase = "head"
  /\ cycle < MaxCycles
  /\ phase' = "scan"
  /\ prog' = 1
  /\ starts' = Append(starts, wall)
  /\ UNCHANGED <<running, wall, nextTick, cycle, plcTime, runs, askedAt>>
StartScan ==
  /\ phase = "head"
  /\ running
  /\ cycle < MaxCycles
  /\ phase' = "scan"
  /\ prog' = 1
  /\ starts' = Append(starts, wall)
  /\ UNCHANGED <<running, wall, nextTick, cycle, plcTime, runs, askedAt>>

\* while (g_cyclic_running), left.
Stop ==
  /\ phase = "head"
  /\ ~running
  /\ phase' = "stopped"
  /\ UNCHANGED <<running, wall, nextTick, cycle, plcTime, prog, starts, runs,
                 askedAt>>

Divisor(i) == Period(i) \div CommonTick

DueFromOne(i) == Divisor(i) <= 0 \/ (cycle + 1) % Divisor(i) = 0
Due(i) == Divisor(i) <= 0 \/ cycle % Divisor(i) = 0

RunProgram ==
  /\ phase = "scan"
  /\ prog \in Programs
  /\ runs' = IF Due(prog) THEN [runs EXCEPT ![prog] = @ + 1] ELSE runs
  /\ prog' = prog + 1
  /\ UNCHANGED <<phase, running, wall, nextTick, cycle, plcTime, starts,
                 askedAt>>

\* Outputs are written, the programs' clock advances, and the next scan is
\* one tick after this one was due, or now when that is already past.
NextScanCatchUp == nextTick + CommonTick
NextScan ==
  IF nextTick + CommonTick < wall THEN wall ELSE nextTick + CommonTick

EndScan ==
  /\ phase = "scan"
  /\ prog = Len(Interval) + 1
  /\ plcTime' = plcTime + CommonTick
  /\ cycle' = cycle + 1
  /\ nextTick' = NextScan
  /\ phase' = "sleep"
  /\ UNCHANGED <<running, wall, prog, starts, runs, askedAt>>

\* sleep_until returns at next_tick or, on a loaded machine, any time later.
WakeOnTheDot ==
  /\ phase = "sleep"
  /\ wall = nextTick
  /\ phase' = "head"
  /\ UNCHANGED <<running, wall, nextTick, cycle, plcTime, prog, starts, runs,
                 askedAt>>
Wake ==
  /\ phase = "sleep"
  /\ wall >= nextTick
  /\ phase' = "head"
  /\ UNCHANGED <<running, wall, nextTick, cycle, plcTime, prog, starts, runs,
                 askedAt>>

\* SIGINT or SIGTERM, at any moment.
Signal ==
  /\ phase # "stopped"
  /\ running
  /\ running' = FALSE
  /\ askedAt' = cycle
  /\ UNCHANGED <<phase, wall, nextTick, cycle, plcTime, prog, starts, runs>>

\* Time passes in a program, in the loop and in the sleep.
Pass ==
  /\ phase # "stopped"
  /\ wall < MaxWall \/ (phase = "sleep" /\ wall < nextTick)
  /\ wall' = wall + 1
  /\ UNCHANGED <<phase, running, nextTick, cycle, plcTime, prog, starts, runs,
                 askedAt>>
-----------------------------------------------------------------------------
Loop == StartScan \/ Stop \/ RunProgram \/ EndScan \/ Wake

Next == Loop \/ Signal \/ Pass

Spec == Init /\ [][Next]_vars

\* The thread is scheduled, program bodies return, and the clock moves.
Fairness == WF_vars(Loop) /\ WF_vars(Pass)

FairSpec == Spec /\ Fairness
-----------------------------------------------------------------------------
TypeOK ==
  /\ phase \in {"head", "scan", "sleep", "stopped"}
  /\ running \in BOOLEAN
  /\ wall \in Nat
  /\ nextTick \in Nat
  /\ cycle \in Nat
  /\ plcTime \in Nat
  /\ prog \in 1 .. Len(Interval) + 1
  /\ starts \in Seq(Nat)
  /\ runs \in [Programs -> Nat]
  /\ askedAt \in Int

(* Between scans every program has run once for each multiple of its own    *)
(* interval the clock has reached, no more and no less, whatever the other  *)
(* intervals and the common tick are: runs = ceil(plcTime / Period).        *)
RunsOnSchedule ==
  phase # "scan" =>
    \A i \in Programs :
      /\ plcTime <= runs[i] * Period(i)
      /\ plcTime > (runs[i] - 1) * Period(i)

(* The clock of the programs is behind the wall when a scan begins, and a   *)
(* run of scans never outpaces it by more than one tick, although late      *)
(* wake-ups and overruns make next_tick slip: no burst of catch-up cycles   *)
(* (iec_cyclic.hpp, the comment on falling behind).                         *)
Pacing == INSTANCE ScanPacing WITH Tick <- CommonTick, clock <- plcTime

ImplementsPacing == Pacing!Spec

(* A stop request costs at most the scan in progress.                       *)
StopIsPrompt == askedAt >= 0 => cycle <= askedAt + 1

(* A stop request is followed by the end of the loop, also when it arrives  *)
(* while a program runs or the loop sleeps.                                 *)
ShutdownCompletes == ~running ~> phase = "stopped"
=============================================================================
