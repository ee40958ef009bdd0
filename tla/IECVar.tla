------------------------------- MODULE IECVar -------------------------------
(***************************************************************************)
(* IECVar<T>, the wrapper generated code puts around every elementary      *)
(* variable (src/runtime/include/iec_var.hpp).  A cell keeps the value the *)
(* program drives, whether an operator has forced the variable, and the    *)
(* value it was forced to.  Programs, the debugger and OPC-UA clients go   *)
(* through Get and Set; the I/O image is bound to the raw value, past the  *)
(* force.                                                                  *)
(***************************************************************************)

CellType(Values) ==
  [value : Values, forced : BOOLEAN, forcedValue : Values]

\* A constructed variable is never forced; forced_value_ is zero.
Fresh(v, zero) == [value |-> v, forced |-> FALSE, forcedValue |-> zero]

\* What a reader sees.
Get(cell) == IF cell.forced THEN cell.forcedValue ELSE cell.value

\* A write through the wrapper; a force makes it a no-op.
SetIgnoringForce(cell, v) == [cell EXCEPT !.value = v]
Set(cell, v) == IF cell.forced THEN cell ELSE [cell EXCEPT !.value = v]

\* `dst := src` between two variables: the force state of dst is kept.
MemberwiseCopy(cell, other) == other
Assign(cell, other) == Set(cell, Get(other))

\* Force writes through to the raw value as well.
ForceFlagOnly(cell, v) ==
  [cell EXCEPT !.forced = TRUE, !.forcedValue = v]
ForceTo(cell, v) == [value |-> v, forced |-> TRUE, forcedValue |-> v]

Unforce(cell) == [cell EXCEPT !.forced = FALSE]

\* A write through raw_ptr(), which the force does not see.
Poke(cell, v) == [cell EXCEPT !.value = v]

\* The field read_ptr() points at, and the field raw_ptr() points at.
RawField(cell) == "value"
ReadField(cell) == IF cell.forced THEN "forcedValue" ELSE "value"
=============================================================================
