--------------------------- MODULE DefinitionOrder ---------------------------
(***************************************************************************)
(* What the compiler promises of the order of C++ definitions: each is     *)
(* written once, and after the definitions it needs, unless a cycle of     *)
(* needs lets no order do that.                                            *)
(***************************************************************************)
EXTENDS Naturals, Sequences

CONSTANT Definitions

VARIABLES
  needs,     \* definition -> the definitions it needs before it
  written    \* the definitions written so far, in order

WrittenBefore(i) == {written[k] : k \in 1..(i - 1)}
Written == WrittenBefore(Len(written) + 1)

\* On a cycle of needs, or behind one.
Stuck(d) ==
  \E C \in SUBSET Definitions : d \in C /\ \A c \in C : needs[c] \cap C # {}

Init == written = <<>>

\* Some definitions are written after those already there.
Write ==
  /\ needs' = needs
  /\ Len(written') >= Len(written)
  /\ \A i \in 1..Len(written) : written'[i] = written[i]
  /\ \A i \in (Len(written) + 1)..Len(written') :
       /\ written'[i] \in Definitions \ WrittenBefore(i)'
       /\ needs[written'[i]] \subseteq WrittenBefore(i)' \/ Stuck(written'[i])

Ordered == Init /\ [][Write]_<<needs, written>>

\* Once begun, the writing is finished.
Complete == written # <<>> ~> Written = Definitions

Spec == Ordered /\ Complete
=============================================================================
