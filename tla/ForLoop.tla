------------------------------- MODULE ForLoop -------------------------------
(***************************************************************************)
(* The C++ loop that code generation makes of a FOR statement              *)
(* (generateForStatement).  The bound and the step that are not constants  *)
(* are captured at entry, since the body may assign to what they were read *)
(* from; the control variable is an IECVar of a narrow type, and may be    *)
(* under an operator's force while the loop runs.                          *)
(***************************************************************************)
EXTENDS Integers

CONSTANTS
  MinControl, MaxControl,   \* the range of the control variable's type
  Bounds,                   \* start and end values: also beyond that range
  Steps                     \* values of the BY expression

ASSUME LoopAssumption ==
  /\ MinControl \in Int /\ MaxControl \in Int /\ MinControl <= 0 /\ MaxControl > 0
  /\ Bounds \subseteq Int /\ Steps \subseteq Int

C == INSTANCE IECVar

Controls == MinControl..MaxControl

VARIABLES
  control,       \* the control variable
  limit, by,     \* what the TO and BY expressions read
  constants,     \* the expressions among them the compiler could evaluate
  endRef, stepRef,   \* the captured values
  loopAt,        \* "enter", "test", "body", "advance" or "left"
  passes,        \* runs of the body
  asked          \* the start, end and step when the loop was entered

loopVars == <<control, limit, by, constants, endRef, stepRef, loopAt, passes, asked>>

Wrapped(x) == MinControl + ((x - MinControl) % (MaxControl - MinControl + 1))

LoopInit ==
  /\ control \in {C!Fresh(0, 0)} \union {C!ForceTo(C!Fresh(0, 0), v) : v \in Controls}
  /\ asked \in [start : Bounds \cap Controls, end : Bounds, step : Steps]
  /\ limit = asked.end /\ by = asked.step
  /\ constants \in SUBSET {"end", "step"}
  /\ endRef = 0 /\ stepRef = 0
  /\ loopAt = "enter" /\ passes = 0

EnterLoop ==
  /\ loopAt = "enter"
  /\ control' = C!Set(control, asked.start)
  /\ endRef' = limit /\ stepRef' = by
  /\ loopAt' = "test"
  /\ UNCHANGED <<limit, by, constants, passes, asked>>

\* The sign of the step is tested in each pass unless it is a constant.
GoesOn ==
  IF stepRef >= 0 THEN C!Get(control) <= endRef ELSE C!Get(control) >= endRef

TestWith(goesOn) ==
  /\ loopAt = "test"
  /\ loopAt' = IF goesOn THEN "body" ELSE "left"
  /\ passes' = IF goesOn THEN passes + 1 ELSE passes
  /\ UNCHANGED <<control, limit, by, constants, endRef, stepRef, asked>>

TestUncaptured == TestWith(IF by >= 0 THEN C!Get(control) <= limit ELSE C!Get(control) >= limit)
TestBound == TestWith(GoesOn)

\* The body may assign to a variable that TO or BY was read from.
RunBody ==
  /\ loopAt = "body"
  /\ limit' \in IF "end" \in constants THEN {limit} ELSE Bounds
  /\ by' \in IF "step" \in constants THEN {by} ELSE Steps
  /\ loopAt' = "advance"
  /\ UNCHANGED <<control, constants, endRef, stepRef, passes, asked>>

\* `control++` or `control += step`, in the width of the control variable.
AdvanceUncaptured ==
  /\ loopAt = "advance"
  /\ control' = C!Set(control, Wrapped(C!Get(control) + by))
  /\ loopAt' = "test"
  /\ UNCHANGED <<limit, by, constants, endRef, stepRef, passes, asked>>

AdvanceControl ==
  /\ loopAt = "advance"
  /\ control' = C!Set(control, Wrapped(C!Get(control) + stepRef))
  /\ loopAt' = "test"
  /\ UNCHANGED <<limit, by, constants, endRef, stepRef, passes, asked>>

MaxPasses == MaxControl - MinControl + 2

LoopNext == passes < MaxPasses /\ (EnterLoop \/ TestBound \/ RunBody \/ AdvanceControl)

LoopSpec == LoopInit /\ [][LoopNext]_loopVars /\ WF_loopVars(LoopNext)

(***************************************************************************)
(* Properties.                                                             *)
(***************************************************************************)

\* The loops for which the control variable can pass the bound.  The others
\* wrap around and do not end, as do a step of zero and a forced control
\* variable that is inside the bounds.
CanPassBound ==
  /\ ~control.forced /\ asked.step # 0
  /\ asked.end + asked.step \in Controls

Beyond(v) == IF asked.step > 0 THEN v > asked.end ELSE v < asked.end

\* Pass k has the control variable at start + (k - 1) * step and inside the
\* bound, and the loop is left at the first value that is not: the end and the
\* step count as they were at entry, whatever the body has assigned since
\* ("evaluates the start, end and step expressions once", codegen.ts:4236).
PassesAsAsked ==
  CanPassBound =>
    /\ loopAt \in {"body", "advance"} =>
         /\ C!Get(control) = asked.start + (passes - 1) * asked.step
         /\ ~Beyond(C!Get(control))
    /\ loopAt = "left" => Beyond(asked.start + passes * asked.step)

\* Such a loop ends, in whichever of the generated forms.
LoopEnds == CanPassBound ~> loopAt = "left"
=============================================================================
