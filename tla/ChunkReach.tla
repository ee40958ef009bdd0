------------------------------ MODULE ChunkReach ------------------------------
(***************************************************************************)
(* Which chunks of the loaded libraries go into a program                  *)
(* (collectUsedSymbols): those the program names, and those that chunks    *)
(* depend on.  A library resolved the names its chunks refer to when it    *)
(* was compiled, against itself and the libraries it was compiled with     *)
(* (computeChunkDeps).  No two libraries own a name.                       *)
(***************************************************************************)
EXTENDS FiniteSets

CONSTANTS
  Archives,    \* the libraries
  Compiled,    \* library -> the libraries it was compiled with
  Names

ASSUME ChunkAssumption == Compiled \in [Archives -> SUBSET Archives]

VARIABLES
  chunks,      \* library -> the names of its chunks
  refers,      \* name -> the names its chunk's source refers to
  loaded,      \* the libraries found for this program
  referenced,  \* the names the program refers to
  everything,  \* a test build, which takes every chunk
  reachable,   \* the chunks known to be needed
  pending        \* those of them whose dependencies are still to be followed

reachInputs == <<chunks, refers, loaded, referenced, everything>>
reachVars == <<reachInputs, reachable, pending>>

\* buildSymbolOwnership: the names a library's own chunks can depend on.
Owned(a) == chunks[a] \union UNION {chunks[b] : b \in Compiled[a]}

\* A name without an owner is a built-in; a chunk never depends on itself.
DepsOnOwn(n) ==
  UNION {(refers[n] \ {n}) \cap chunks[a] : a \in {b \in Archives : n \in chunks[b]}}
Deps(n) ==
  UNION {(refers[n] \ {n}) \cap Owned(a) : a \in {b \in Archives : n \in chunks[b]}}

\* symbolIndex, chunkByKey and chunkLookup: the chunks that can be taken.
Available == UNION {chunks[a] : a \in loaded}

ReachInit ==
  /\ chunks \in [Archives -> SUBSET Names]
  /\ \A a, b \in Archives : a # b => chunks[a] \cap chunks[b] = {}
  /\ refers \in [Names -> SUBSET Names]
  /\ loaded \in SUBSET Archives
  /\ referenced \in SUBSET Names
  /\ everything \in BOOLEAN
  /\ reachable = IF everything THEN Available ELSE Available \cap referenced
  /\ pending = IF everything THEN {} ELSE reachable

\* The order in which the queue is served makes no difference to the set.
Follow ==
  \E n \in pending :
    LET found == (Deps(n) \cap Available) \ reachable
    IN /\ reachable' = reachable \union found
       /\ pending' = (pending \ {n}) \union found
       /\ UNCHANGED reachInputs

ReachSpec == ReachInit /\ [][Follow]_reachVars

(***************************************************************************)
(* Properties.                                                             *)
(***************************************************************************)

\* What is in S can be compiled from S, as far as the loaded libraries go.
SelfContained(S) ==
  \A a \in Archives : \A b \in ({a} \union Compiled[a]) \cap loaded :
    \A n \in chunks[a] \cap S : refers[n] \cap chunks[b] \subseteq S

\* A program gets the chunks it names and everything these refer to, across
\* libraries; and nothing that a smaller self-contained choice would leave
\* out, unless it is a test build, which gets all (collectUsedSymbols).
ReachIsExact ==
  /\ pending = {} => SelfContained(reachable) /\ Available \cap referenced \subseteq reachable
  /\ everything => reachable = Available
  /\ ~everything =>
       \A S \in SUBSET Available :
         SelfContained(S) /\ Available \cap referenced \subseteq S => reachable \subseteq S
=============================================================================
