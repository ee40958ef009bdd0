----------------------------- MODULE MCRuntime -----------------------------
(***************************************************************************)
(* The host of a program, one suite per service: the cyclic runner with a  *)
(* timer in one of its tasks, and retention across power cycles.  The      *)
(* other suite stays as it started.                                        *)
(***************************************************************************)
EXTENDS TimedScan, Retain

CONSTANT Suites  \* a subset of {"cyclic", "retain"}

VARIABLE suite

runtimeVars == <<suite, timedVars, storeVars>>

\* A task of 4 and a program without an interval, which the default makes 6:
\* a tick of 2.  The timer is in the faster.
TwoTasks == <<4, 0>>

\* Gcd against its definition.
ASSUME GcdIsGreatest ==
  \A a, b \in 1 .. 24 :
    /\ a % Gcd[a, b] = 0 /\ b % Gcd[a, b] = 0
    /\ \A d \in 1 .. 24 : a % d = 0 /\ b % d = 0 => d <= Gcd[a, b]

\* Programs that follow one another in a target.  "first" retains two one-byte
\* variables; "swapped" declares them in the other order, "fixed" makes one of
\* them CONSTANT, "widened" is built with a runtime that moves one byte more
\* for the same type, one more than the length field of the run can hold.
Builds == {"first", "swapped", "fixed", "widened"}

Layouts ==
  [b \in Builds |-> IF b = "swapped" THEN <<"count", "mode">>
                                     ELSE <<"mode", "count">>]

Widths ==
  [b \in Builds |-> [mode |-> 1, count |-> IF b = "widened" THEN 2 ELSE 1]]

Hashes == [b \in Builds |-> IF b = "swapped" THEN 2 ELSE 1]

Constants == [b \in Builds |-> IF b = "fixed" THEN {"mode"} ELSE {}]

\* The host of "swapped" cannot read one of its leaves.
Failing == [b \in Builds |-> IF b = "swapped" THEN {"mode"} ELSE {}]

Initials ==
  [b \in Builds |-> [l \in {"mode", "count"} |->
    [k \in 1 .. Widths[b][l] |-> IF l = "mode" THEN 1 ELSE 0]]]

RuntimeInit ==
  /\ suite \in Suites
  /\ TInit /\ RetainInit
  /\ suite # "retain" => build = "first"

InCyclic(A) == suite = "cyclic" /\ A /\ UNCHANGED <<suite, storeVars>>
InRetain(A) == suite = "retain" /\ A /\ UNCHANGED <<suite, timedVars>>

RuntimeNext == InCyclic(TNext) \/ InRetain(RetainNext)

\* The fairness of the cyclic runner, in its suite.
RuntimeSpec ==
  /\ RuntimeInit /\ [][RuntimeNext]_runtimeVars
  /\ WF_runtimeVars(InCyclic(TNext /\ Loop))
  /\ WF_runtimeVars(InCyclic(TNext /\ Pass))
=============================================================================
