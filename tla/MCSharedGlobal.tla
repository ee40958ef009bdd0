--------------------------- MODULE MCSharedGlobal ---------------------------
(***************************************************************************)
(* The task bodies SharedGlobal is checked with.                           *)
(***************************************************************************)
EXTENDS SharedGlobal

Stmt(kind, to, from, i, j) ==
  [kind |-> kind, to |-> to, from |-> from, at |-> i, ix |-> j]

(* Two tasks own a bit each of the control word of one axis structure,     *)
(* copy elements between two arrays in opposite directions, and share a    *)
(* pose one sets and one reads; a third runs off the end of an array while *)
(* it holds its lock.                                                      *)
FlatBodies ==
  [bus     |-> <<Stmt("setbit", <<"control">>, <<>>, 0, 0),
                 Stmt("assign", <<"table">>, <<"axis">>, 0, 1),
                 Stmt("getall", <<"pose">>, <<>>, 0, 0)>>,
   drive   |-> <<Stmt("setbit", <<"control">>, <<>>, 1, 0),
                 Stmt("assign", <<"axis">>, <<"table">>, 1, 0),
                 Stmt("putall", <<"pose">>, <<>>, 0, 0)>>,
   logger  |-> <<Stmt("assign", <<"table">>, <<>>, 2, 0)>>]

(* local := table[axis[0]]  beside  local := axis[table[0]]. *)
NestedBodies ==
  [bus   |-> <<Stmt("fetch", <<>>, <<"table", "axis">>, 0, 0)>>,
   drive |-> <<Stmt("fetch", <<>>, <<"axis", "table">>, 0, 0)>>]

(* mover(a := axis), which changes one field, beside  axis.other := 1. *)
InOutBodies ==
  [bus   |-> <<Stmt("inout", <<"axis">>, <<>>, 0, 0)>>,
   drive |-> <<Stmt("assign", <<"axis">>, <<>>, 1, 1)>>]
=============================================================================
