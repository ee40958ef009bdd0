------------------------------ MODULE TypeOrder ------------------------------
(***************************************************************************)
(* The order in which the user-defined types of a program are written      *)
(* (TypeRegistry.getTypesInDependencyOrder): a depth-first search from     *)
(* each type in turn, a type written when all it refers to has been        *)
(* visited.  A type that is being visited is not entered again.            *)
(*                                                                         *)
(* The search goes by the names that the declarations of a type mention.   *)
(* A field ARRAY[..] OF T mentions a name made for that array, which is no *)
(* registered type, so T is not followed from there, though the structure  *)
(* that is written has a member Array1D<T, ..>.                            *)
(***************************************************************************)
EXTENDS Naturals, Sequences, FiniteSets

CONSTANTS
  Types,         \* the registered types
  Others,        \* names of no registered type: elementary ones, libraries'
  ElementTypes,  \* element types of the fields that are inline arrays
  InlineArray,   \* the name such a field mentions, __INLINE_ARRAY_<T>
  MaxUses        \* references of a type

ASSUME TypesAssumption ==
  /\ IsFiniteSet(Types) /\ Types \cap Others = {} /\ MaxUses \in Nat
  /\ InlineArray \notin Types

VARIABLES
  fields,    \* type -> its references, in the order they are declared
  roots,     \* the types the search has not started from yet
  path,      \* the types being visited, each with what it has yet to look at
  visited,
  result

typeVars == <<fields, roots, path, visited, result>>

\* A base, an alias, or the type of a field; a field that is an inline array
\* refers to its element type.
Reference ==
  [to : Types \union Others, inline : {FALSE}]
    \union [to : ElementTypes, inline : {TRUE}]

\* A second reference like one before it changes nothing.
References ==
  {s \in UNION {[1..n -> Reference] : n \in 0..MaxUses} :
     \A i, j \in DOMAIN s : s[i] = s[j] => i = j}

\* getTypeDependencies: the names mentioned.
NameOf(reference) == IF reference.inline THEN InlineArray ELSE reference.to

uses == [t \in Types |-> [i \in DOMAIN fields[t] |-> NameOf(fields[t][i])]]

Listings ==
  {s \in [1..Cardinality(Types) -> Types] : \A i, j \in DOMAIN s : s[i] = s[j] => i = j}

Visiting == {path[i].type : i \in DOMAIN path}
Top == path[Len(path)]
Below == SubSeq(path, 1, Len(path) - 1)

TypesInit ==
  /\ fields \in [Types -> References]
  /\ roots \in Listings
  /\ path = <<>> /\ visited = {} /\ result = <<>>

\* visit(name): not again, and not one that is being visited.
Entered(p, name) ==
  IF name \in Types \ (visited \union Visiting)
    THEN Append(p, [type |-> name, left |-> uses[name]]) ELSE p

FromRoot ==
  /\ path = <<>> /\ roots # <<>>
  /\ path' = Entered(path, Head(roots))
  /\ roots' = Tail(roots)
  /\ UNCHANGED <<fields, visited, result>>

LookAt ==
  /\ path # <<>> /\ Top.left # <<>>
  /\ path' = Entered(Append(Below, [Top EXCEPT !.left = Tail(@)]), Head(Top.left))
  /\ UNCHANGED <<fields, roots, visited, result>>

LeaveUnmarked ==
  /\ path # <<>> /\ Top.left = <<>>
  /\ path' = Below
  /\ result' = Append(result, Top.type)
  /\ UNCHANGED <<fields, roots, visited>>

Leave ==
  /\ path # <<>> /\ Top.left = <<>>
  /\ path' = Below
  /\ visited' = visited \union {Top.type}
  /\ result' = Append(result, Top.type)
  /\ UNCHANGED <<fields, roots>>

TypesNext == FromRoot \/ LookAt \/ Leave

TypesSpec == TypesInit /\ [][TypesNext]_typeVars /\ WF_typeVars(TypesNext)

\* The types whose definitions that of t needs in C++, the element types of
\* its inline arrays with them.
RefersTo == [t \in Types |-> {fields[t][i].to : i \in DOMAIN fields[t]} \cap Types]

TypeDefinitions == INSTANCE DefinitionOrder
  WITH Definitions <- Types, needs <- RefersTo, written <- result

\* Every type is written once, after the types it refers to, unless a cycle of
\* references allows no such order (getTypesInDependencyOrder); the search
\* ends with all of them written.  It is so of programs whose inline arrays
\* have no user-defined element type: ElementTypes \cap Types = {}.
TypesInOrder == TypeDefinitions!Spec
=============================================================================
