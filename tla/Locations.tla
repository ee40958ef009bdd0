----------------------------- MODULE Locations -----------------------------
(***************************************************************************)
(* Located declarations (AT %MW60 : ARRAY [0..66] OF WORD): the check that *)
(* gives every slot of a bank one owner (validateLocatedVariables), then   *)
(* the rows of locatedVars[] code generation makes of what was accepted    *)
(* (pushLocatedDescriptors).  The check works on ranges of slots claimed   *)
(* one declaration after the other; the rows are what the runtime sees.    *)
(***************************************************************************)
EXTENDS LocatedAddress, Sequences, FiniteSets, SequencesExt

CONSTANTS
  Programs,          \* the PROGRAMs of a project
  Declarations,      \* the located declarations a project may have
  MaxDeclarations,   \* bound: declarations in a project
  MaxInstances       \* bound: instances of a PROGRAM

\* "scope" is a POU of that kind or a CONFIGURATION's VAR_GLOBAL, "of" the
\* name of a PROGRAM;
\* "slots" is 1 for a scalar, the length of a one-dimensional array, and 0
\* for a type that has no linear run of addresses; "open" is AT %I*.
ASSUME LocationAssumption ==
  Declarations \subseteq
    [name : STRING,
     scope : {"program", "function", "functionBlock", "configuration"},
     of : Programs, at : Descriptor, open : BOOLEAN, constant : BOOLEAN,
     slots : Nat, fits : BOOLEAN]

VARIABLES
  project,    \* the declarations, those of POUs before those of configurations
  instances,  \* how often each PROGRAM is instantiated
  checked,    \* how many declarations the check has seen
  claims,     \* claimedSlots
  errors,     \* the declarations an error was reported for
  table       \* locatedVars[], each row with the declaration it is for

locationVars == <<project, instances, checked, claims, errors, table>>

Global(d) == d.scope = "configuration"
InProgram(d) == d.scope = "program"

\* Globals of one name in several configurations are one variable.
Again(i, among) ==
  Global(project[i]) /\ \E j \in 1 .. i - 1 :
    Global(project[j]) /\ project[j].name = project[i].name /\ project[j] \in among

\* What the check looks at: buildVarBlockSymbols records no constant.
Recorded(d) == ~d.open /\ (Global(d) \/ ~d.constant)
Collected(i) ==
  Recorded(project[i]) /\ ~Again(i, {d \in Declarations : Recorded(d)})

LocationsInit ==
  /\ project \in BoundedSeq(Declarations, MaxDeclarations)
  /\ \A i \in 1 .. Len(project) - 1 : Global(project[i]) => Global(project[i + 1])
  /\ instances \in [Programs -> 0..MaxInstances]
  /\ checked = 0 /\ claims = {} /\ errors = {} /\ table = <<>>

\* A declaration that has no place at all claims nothing.
Misplaced(d) ==
  \/ d.scope = "functionBlock"
  \/ InProgram(d) /\ instances[d.of] > 1
  \/ d.slots = 0

\* Reported, but the slots are claimed.
IllTyped(d) == ~d.fits \/ (d.at.size = "Bit" /\ d.at.bitIndex >= ByteBits)

Claim(d) ==
  [bank |-> Bank(d.at), start |-> FirstSlot(d.at),
   end |-> FirstSlot(d.at) + (d.slots - 1)]

\* Comparing addresses, as when every declaration took one slot.
ClashesIfEqual(c) == \E e \in claims : e.bank = c.bank /\ c.start = e.start
Clashes(c) ==
  \E e \in claims : e.bank = c.bank /\ c.start <= e.end /\ e.start <= c.end

CheckDeclaration ==
  /\ checked < Len(project)
  /\ checked' = checked + 1
  /\ LET i == checked'
         d == project[i]
     IN CASE ~Collected(i) -> UNCHANGED <<claims, errors>>
          [] Collected(i) /\ Misplaced(d) ->
               errors' = errors \union {i} /\ UNCHANGED claims
          [] OTHER ->
               /\ claims' = IF Clashes(Claim(d)) THEN claims
                            ELSE claims \union {Claim(d)}
               /\ errors' = IF IllTyped(d) \/ Clashes(Claim(d))
                            THEN errors \union {i} ELSE errors
  /\ UNCHANGED <<project, instances, table>>

\* The row of an element, or of a scalar.  Only PROGRAMs and globals have rows:
\* a FUNCTION's located variable passes the check and gets none.
Row(d, slot) ==
  IF d.at.size = "Bit"
  THEN [d.at EXCEPT !.byteIndex = slot \div ByteBits, !.bitIndex = slot % ByteBits]
  ELSE [d.at EXCEPT !.byteIndex = slot, !.bitIndex = 0]

RowsOf(i) ==
  LET d == project[i]
  IN IF ~(InProgram(d) \/ Global(d)) \/ Again(i, Declarations) THEN <<>>
     ELSE [k \in 1 .. d.slots |->
             [owner |-> i, at |-> Row(d, FirstSlot(d.at) + (k - 1))]]

EmitRows ==
  /\ checked = Len(project) /\ errors = {} /\ table = <<>>
  /\ table' = FlattenSeq([i \in 1 .. Len(project) |-> RowsOf(i)])
  /\ UNCHANGED <<project, instances, checked, claims, errors>>

LocationsNext == CheckDeclaration \/ EmitRows

LocationsSpec == LocationsInit /\ [][LocationsNext]_locationVars

(***************************************************************************)
(* Properties.                                                             *)
(***************************************************************************)

\* The slots a declaration names, whatever else is wrong with it.
Slots(i) ==
  LET d == project[i] IN {<<Bank(d.at), FirstSlot(d.at) + k>> : k \in 0 .. d.slots - 1}

\* A project is refused exactly when a declaration cannot be where it is or
\* two of those the check records name a common slot; and in what is accepted
\* no two rows of the table name one slot, and none is bound by two instances
\* (validateLocatedVariables against pushLocatedDescriptors, "No duplicate
\* addresses").
SlotsHaveOneOwner ==
  checked = Len(project) =>
    /\ errors = {} <=> \A i \in 1 .. Len(project) : Collected(i) =>
         /\ ~Misplaced(project[i]) /\ ~IllTyped(project[i])
         /\ \A j \in 1 .. i - 1 : Collected(j) => Slots(i) \cap Slots(j) = {}
    /\ \A r, s \in 1 .. Len(table) :
         Collected(table[r].owner) /\ Collected(table[s].owner) =>
           /\ r # s => \/ Bank(table[r].at) # Bank(table[s].at)
                       \/ FirstSlot(table[r].at) # FirstSlot(table[s].at)
           /\ InProgram(project[table[r].owner]) =>
                instances[project[table[r].owner].of] <= 1
=============================================================================
