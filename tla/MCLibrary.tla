----------------------------- MODULE MCLibrary -----------------------------
(***************************************************************************)
(* The bundled libraries, one suite per behaviour: the timers, the         *)
(* counters, or one axis of the motion library.  The other suites stay as  *)
(* they were constructed.                                                  *)
(***************************************************************************)
EXTENDS StdTimers, StdCounters, MotionAxis

CONSTANT Suites  \* a subset of {"timers", "counters", "motion"}

VARIABLE suite

libraryVars == <<suite, timerVars, counterVars, motionVars>>

\* No wait, and one that needs two ticks: a change between them falls before,
\* at and after what has elapsed.
WaitPresets == {0, 2}

\* A narrow integer type, with presets at both ends of its range.
CountPresets == {-2, 0, 1, 2}
Lowest == -2

\* MC_Power first and last, a profile block before and after it.
CallOrders == {<<"power", "position", "home">>, <<"reset", "velocity", "power">>}

LibraryInit ==
  /\ suite \in Suites
  /\ TimersInit /\ CountersInit /\ MotionInit
  /\ suite # "motion" => order = CHOOSE o \in Orders : TRUE

InMotion(A) ==
  suite = "motion" /\ A /\ UNCHANGED <<suite, timerVars, counterVars>>

LibraryNext ==
  \/ /\ suite = "timers" /\ TimersNext
     /\ UNCHANGED <<suite, counterVars, motionVars>>
  \/ /\ suite = "counters" /\ CountersNext
     /\ UNCHANGED <<suite, timerVars, motionVars>>
  \/ InMotion(MotionNext)

\* MotionFairness, in its suite.
LibrarySpec ==
  /\ LibraryInit /\ [][LibraryNext]_libraryVars
  /\ WF_libraryVars(InMotion(Scan))
  /\ SF_libraryVars(InMotion(DriveClimbs))
  /\ SF_libraryVars(InMotion(DriveArrives))
=============================================================================
