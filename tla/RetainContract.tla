--------------------------- MODULE RetainContract ---------------------------
(***************************************************************************)
(* What RETAIN promises across power cycles, without saying how: a program *)
(* that boots finds its retained variables either all at their declared    *)
(* values or all as one earlier save of the same variables left them,      *)
(* never a mixture and never another program's bytes.  After a save that   *)
(* was not interrupted it finds that save.                                 *)
(***************************************************************************)
EXTENDS Naturals, Sequences

CONSTANTS
  Build,       \* programs that may be downloaded one after another
  Layout,      \* Layout[b], retain_vars[]: the retained leaves in walk order
  Width,       \* Width[b][l], the bytes leaf l occupies on the transport
  ReadOnly,    \* ReadOnly[b], retained leaves that are CONSTANT in b
  Declared,    \* Declared[b][l], the initial value of leaf l, a row of bytes
  Unreadable,  \* Unreadable[b], leaves a host fails to read when it saves
  Reliable     \* programs whose uninterrupted saves must come back

Leaves(b) == {Layout[b][i] : i \in DOMAIN Layout[b]}

Byte == 0 .. 1

LeafValue(b, l) == [1 .. Width[b][l] -> Byte]

VARIABLES
  build,       \* the program in the target
  on,          \* whether it is running
  value,       \* value[l], the retained leaves in RAM
  candidates,  \* saves the next boot may find: the last complete one and
               \* the interrupted ones since
  intact       \* whether no save was interrupted since the last complete one

vars == <<build, on, value, candidates, intact>>

Zero(b, l) == [k \in 1 .. Width[b][l] |-> 0]

\* What a save keeps: an unreadable leaf costs its own value only.
Seen(l) == IF l \in Unreadable[build] THEN Zero(build, l) ELSE value[l]

Snapshot ==
  [layout |-> Layout[build],
   width  |-> Width[build],
   value  |-> [l \in Leaves(build) |-> Seen(l)]]

Fits(s, b) == s.layout = Layout[b] /\ s.width = Width[b]

Cold(b) == [l \in Leaves(b) |-> Declared[b][l]]

\* Constants come from the declaration, never from storage.
Restored(s, b) ==
  [l \in Leaves(b) |->
     IF l \in ReadOnly[b] THEN Declared[b][l] ELSE s.value[l]]

Init ==
  /\ build \in Build
  /\ on = TRUE
  /\ value = Cold(build)
  /\ candidates = {}
  /\ intact = TRUE

Write ==
  /\ on
  /\ \E l \in Leaves(build) \ ReadOnly[build] :
       \E v \in LeafValue(build, l) : value' = [value EXCEPT ![l] = v]
  /\ UNCHANGED <<build, on, candidates, intact>>

Save ==
  /\ on
  /\ candidates' = {Snapshot}
  /\ intact' = TRUE
  /\ UNCHANGED <<build, on, value>>

Interrupted ==
  /\ on
  /\ on' = FALSE
  /\ candidates' = candidates \cup {Snapshot}
  /\ intact' = FALSE
  /\ UNCHANGED <<build, value>>

PowerOff ==
  /\ on
  /\ on' = FALSE
  /\ UNCHANGED <<build, value, candidates, intact>>

Clear ==
  /\ candidates' = {}
  /\ intact' = TRUE
  /\ UNCHANGED <<build, on, value>>

MayColdStart(b) ==
  ~ (intact /\ b \in Reliable /\ \E s \in candidates : Fits(s, b))

Boot(b) ==
  /\ ~on
  /\ on' = TRUE
  /\ build' = b
  /\ \/ MayColdStart(b) /\ value' = Cold(b)
     \/ \E s \in candidates : Fits(s, b) /\ value' = Restored(s, b)
  /\ UNCHANGED <<candidates, intact>>

Next ==
  Write \/ Save \/ Interrupted \/ PowerOff \/ Clear \/ \E b \in Build : Boot(b)

Spec == Init /\ [][Next]_vars
=============================================================================
