----------------------------- MODULE BlockOrder -----------------------------
(***************************************************************************)
(* The order in which the code generator defines the function blocks of a  *)
(* program (topologicalSortFBs): a block that holds an instance of another *)
(* or extends it needs the other's definition first.  Kahn's algorithm,    *)
(* one step per block taken from the queue; what a cycle keeps back is     *)
(* appended at the end.                                                    *)
(*                                                                         *)
(* A variable that is an inline ARRAY OF a block names a type made for     *)
(* that array: the sort does not follow it, and such blocks are not among  *)
(* `members`, although C++ needs their definitions first as well.          *)
(***************************************************************************)
EXTENDS Naturals, Sequences, FiniteSets

CONSTANTS
  Blocks,      \* function block names, upper case
  Position     \* block -> place of its declaration

ASSUME BlockAssumption ==
  /\ IsFiniteSet(Blocks)
  /\ Position \in [Blocks -> Nat]
  /\ \A a, b \in Blocks : Position[a] = Position[b] => a = b

VARIABLES
  members,    \* block -> the blocks its variables name as their type
  parent,     \* block -> the set of the block it extends, if any
  deps,       \* block -> what it still waits for
  inDegree,   \* block -> how many it still waits for
  queue,      \* blocks that wait for nothing
  sorted      \* the order so far

blockGraph == <<members, parent>>
blockVars == <<blockGraph, deps, inDegree, queue, sorted>>

\* What the sort reads off a declaration: the name of a variable's type, which
\* for an inline array is a synthetic one and no block's, and EXTENDS.
DependsOnMembers == [b \in Blocks |-> members[b] \ {b}]
DependsOn == [b \in Blocks |-> (members[b] \ {b}) \union parent[b]]

\* A set of blocks as a sequence in declaration order.
InDeclarationOrder(S) ==
  {s \in [1..Cardinality(S) -> S] :
     /\ \A b \in S : \E i \in 1..Cardinality(S) : s[i] = b
     /\ \A i, j \in 1..Cardinality(S) : i < j => Position[s[i]] < Position[s[j]]}

BlocksInit ==
  /\ members \in [Blocks -> SUBSET Blocks]
  /\ parent \in [Blocks -> {P \in SUBSET Blocks : Cardinality(P) <= 1}]
  /\ deps = DependsOn
  /\ inDegree = [b \in Blocks |-> Cardinality(deps[b])]
  /\ queue \in InDeclarationOrder({b \in Blocks : inDegree[b] = 0})
  /\ sorted = <<>>

\* Only the blocks that waited for the one taken count down.
TakeBlock ==
  /\ queue # <<>>
  /\ LET taken == Head(queue)
         waiting == {b \in Blocks : taken \in deps[b]}
     IN /\ sorted' = Append(sorted, taken)
        /\ deps' = [b \in Blocks |-> deps[b] \ {taken}]
        /\ inDegree' = [b \in Blocks |->
                          IF b \in waiting THEN inDegree[b] - 1 ELSE inDegree[b]]
        /\ \E ready \in InDeclarationOrder({b \in waiting : inDegree'[b] = 0}) :
             queue' = Tail(queue) \o ready
  /\ UNCHANGED blockGraph

Sorted == {sorted[i] : i \in 1..Len(sorted)}

AppendWhenNoneSorted ==
  /\ queue = <<>> /\ sorted = <<>>
  /\ \E rest \in InDeclarationOrder(Blocks) : sorted' = rest
  /\ UNCHANGED <<blockGraph, deps, inDegree, queue>>

\* "If cycle detected, append remaining in original order."
AppendRest ==
  /\ queue = <<>> /\ Sorted # Blocks
  /\ \E rest \in InDeclarationOrder(Blocks \ Sorted) : sorted' = sorted \o rest
  /\ UNCHANGED <<blockGraph, deps, inDegree, queue>>

BlocksNext == TakeBlock \/ AppendRest

BlocksSpec == BlocksInit /\ [][BlocksNext]_blockVars /\ WF_blockVars(BlocksNext)

\* What a block names as the type of a variable or extends, and so needs before
\* it.  The blocks its inline arrays hold, which C++ needs too, are not here.
NamesOrExtends ==
  [b \in Blocks |-> {c \in Blocks : c \in parent[b] \/ (c # b /\ c \in members[b])}]

BlockDefinitions == INSTANCE DefinitionOrder
  WITH Definitions <- Blocks, needs <- NamesOrExtends, written <- sorted

\* Every function block is defined once, after the blocks it names as the type
\* of a variable and the one it extends, unless a cycle allows no such order
\* (topologicalSortFBs).
BlocksInOrder == BlockDefinitions!Ordered

\* The sort reaches every function block, those on a cycle included.
EveryBlockDefined == BlockDefinitions!Complete
=============================================================================
