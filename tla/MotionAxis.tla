----------------------------- MODULE MotionAxis -----------------------------
(***************************************************************************)
(* One CiA 402 axis of the PLCopen motion library: the drive bridge, then  *)
(* MC_Power, MC_MoveAbsolute, MC_MoveVelocity, MC_Home and MC_Reset, each  *)
(* called once per scan in the order the program gives, all writing bits   *)
(* of one control word.  The bridge hands the drive the word of the scan   *)
(* before and shows the blocks a status that may be older still.           *)
(***************************************************************************)
EXTENDS Integers, Sequences

CONSTANTS
  Orders,        \* the orders a program may call its blocks in
  PowerTimeout,  \* scans in T#500MS
  HomeTimeout,   \* scans in T#10S
  MaxFaults      \* bound: faults of the drive

ASSUME MotionAssumption ==
  /\ PowerTimeout \in Nat /\ HomeTimeout \in Nat /\ MaxFaults \in Nat
  /\ Orders \subseteq Seq({"power", "position", "velocity", "home", "reset"})
  /\ \A o \in Orders : \A i, j \in 1 .. Len(o) : o[i] = o[j] => i = j

Mode == [position |-> 1, velocity |-> 3, home |-> 6]
Moves == {"position", "velocity"}

VARIABLES
  order,  \* the program's call order
  pc,     \* blocks of this scan already called; past the last, between scans
  cmd,    \* Enable of MC_Power and Execute of the others
  axis,   \* Axis.Drive, what the blocks write: control bits and mode
  seen,   \* Axis.Drive, what the bridge read: the status
  pwr,    \* MC_Power and its OpenSML_Power
  mv,     \* the OpenSML profile block of each move
  hm,     \* MC_Home and its OpenSML_Home
  word,   \* what the drive was last sent
  drv,    \* the drive
  faults  \* faults so far

blocks == <<pwr, mv, hm>>
motionVars == <<order, pc, cmd, axis, seen, pwr, mv, hm, word, drv, faults>>

Commands == [power : BOOLEAN, position : BOOLEAN, velocity : BOOLEAN,
             home : BOOLEAN, reset : BOOLEAN]

\* Bit 4 is the new set-point of one mode and the start of another: the block
\* that set it is kept with it.
Idle == [so |-> FALSE, ev |-> FALSE, eo |-> FALSE, fr |-> FALSE,
         strobe |-> "no", mode |-> 0]

MotionInit ==
  /\ order \in Orders
  /\ pc = Len(order) + 1
  /\ cmd = [b \in {"power", "position", "velocity", "home", "reset"} |-> FALSE]
  /\ axis = Idle
  /\ word = Idle
  /\ drv = [level |-> 0, fault |-> FALSE, mode |-> 0, strobe |-> FALSE,
            moves |-> "no", homed |-> FALSE, bit13 |-> FALSE]
  /\ seen = drv
  /\ pwr = [i |-> 0, t |-> 0, done |-> FALSE, error |-> FALSE]
  /\ mv = [b \in Moves |-> [i |-> 0, error |-> FALSE]]
  /\ hm = [i |-> 0, t |-> 0, done |-> FALSE, error |-> FALSE]
  /\ faults = 0
-----------------------------------------------------------------------------
(* The scan. *)

\* The program decides its inputs; the bridge reads the drive, and sends it
\* the word the last scan left.
Bridge(c) ==
  /\ pc = Len(order) + 1
  /\ pc' = 0
  /\ cmd' = c
  /\ seen' = drv
  /\ word' = axis
  /\ UNCHANGED <<order, axis, pwr, mv, hm, drv, faults>>

Turn(b) ==
  /\ pc < Len(order)
  /\ order[pc + 1] = b
  /\ pc' = pc + 1
  /\ UNCHANGED <<order, cmd, seen, word, drv, faults>>

\* A TON called every scan: the scans IN has been TRUE, and Q.
Ticks(t, in, limit) ==
  IF ~in THEN 0 ELSE IF t > limit THEN t ELSE t + 1
Expired(t, limit) == t > limit
-----------------------------------------------------------------------------
(* OpenSML_Power, one disjunct per state. *)

PowerStart ==
  /\ pwr.i = 0
  /\ axis' = [axis EXCEPT !.so = FALSE, !.ev = FALSE, !.eo = FALSE,
                          !.fr = FALSE]
  /\ pwr' = [pwr EXCEPT !.done = FALSE, !.error = FALSE,
               !.i = IF ~cmd.power THEN 0 ELSE IF seen.fault THEN 10 ELSE 20]

PowerResetWaits ==
  LET t == Ticks(pwr.t, TRUE, PowerTimeout)
      q == Expired(t, PowerTimeout)
  IN  /\ pwr.i = 10
      /\ axis' = [axis EXCEPT !.fr = seen.fault \/ ~q]
      /\ pwr' = IF q /\ ~seen.fault THEN [pwr EXCEPT !.i = 20, !.t = 0]
                ELSE [pwr EXCEPT !.t = t]
PowerReset ==
  LET t == Ticks(pwr.t, TRUE, PowerTimeout)
      q == Expired(t, PowerTimeout)
  IN  /\ pwr.i = 10
      /\ axis' = [axis EXCEPT !.fr = seen.fault \/ ~q]
      /\ pwr' = IF q /\ ~seen.fault THEN [pwr EXCEPT !.i = 20, !.t = 0]
                ELSE [pwr EXCEPT !.t = t, !.i = IF q THEN 999 ELSE 10]

\* Raises one more bit, and waits for the drive to acknowledge it.
Await(acknowledged, next) ==
  LET t == Ticks(pwr.t, TRUE, PowerTimeout)
  IN  pwr' = IF acknowledged THEN [pwr EXCEPT !.i = next, !.t = 0]
             ELSE IF Expired(t, PowerTimeout)
               THEN [pwr EXCEPT !.t = t, !.i = 999]
             ELSE [pwr EXCEPT !.t = t]

PowerVoltage ==
  /\ pwr.i = 20
  /\ axis' = [axis EXCEPT !.ev = TRUE]
  /\ Await(seen.level >= 1, 30)

PowerSwitchOn ==
  /\ pwr.i = 30
  /\ axis' = [axis EXCEPT !.so = TRUE]
  /\ Await(seen.level >= 2, 40)

PowerOperation ==
  /\ pwr.i = 40
  /\ axis' = [axis EXCEPT !.eo = TRUE]
  /\ Await(seen.level >= 3, 50)

PowerRun ==
  /\ pwr.i = 50
  /\ axis' = [axis EXCEPT !.eo = @ /\ cmd.power]
  /\ pwr' = [pwr EXCEPT !.done = TRUE,
               !.i = IF seen.fault THEN 999
                     ELSE IF cmd.power THEN 50 ELSE 0]

PowerFailedLatches ==
  /\ pwr.i = 999
  /\ pwr' = [pwr EXCEPT !.t = 0, !.error = TRUE]
  /\ UNCHANGED axis
PowerFailed ==
  /\ pwr.i = 999
  /\ pwr' = [pwr EXCEPT !.t = 0, !.error = TRUE,
               !.i = IF cmd.power THEN 999 ELSE 0]
  /\ UNCHANGED axis

CallPower ==
  /\ Turn("power")
  /\ \/ PowerStart \/ PowerReset \/ PowerVoltage \/ PowerSwitchOn
     \/ PowerOperation \/ PowerRun \/ PowerFailed
  /\ UNCHANGED <<mv, hm>>

PowerBusy == cmd.power /\ ~pwr.done /\ ~pwr.error
-----------------------------------------------------------------------------
(* The profile blocks and homing share how they take the axis over. *)

\* What a block in state 0 does when it is executed: 10 to go on, dropping
\* operation-enabled first when the drive is in another mode; or 999.
TakesOver(b) ==
  IF seen.level = 3 /\ seen.mode = Mode[b] /\ ~seen.fault THEN "ready"
  ELSE IF seen.level >= 2 /\ seen.mode # Mode[b] THEN "switch"
  ELSE "refused"

Entered(b) == IF TakesOver(b) = "refused" THEN 999 ELSE 10

\* Only the position block writes bit 4, in every call.
Strobed(b, executed) ==
  IF b # "position" THEN axis.strobe
  ELSE IF executed /\ mv[b].i = 20 THEN b ELSE "no"

MoveStart(b) ==
  /\ mv[b].i = 0
  /\ axis' = [axis EXCEPT !.strobe = Strobed(b, cmd[b]),
                !.eo = @ /\ ~(cmd[b] /\ TakesOver(b) = "switch")]
  /\ mv' = [mv EXCEPT ![b] = [i |-> IF cmd[b] THEN Entered(b) ELSE 0,
                              error |-> FALSE]]

MoveSetModeEnabled(b) ==
  /\ mv[b].i = 10
  /\ axis' = [axis EXCEPT !.strobe = Strobed(b, cmd[b]), !.mode = Mode[b],
                          !.eo = TRUE]
  /\ mv' = [mv EXCEPT ![b].i =
              IF seen.level = 3 /\ seen.mode = Mode[b] THEN 20 ELSE 10]
MoveSetMode(b) ==
  /\ mv[b].i = 10
  /\ axis' = [axis EXCEPT !.strobe = Strobed(b, cmd[b]),
                          !.mode = Mode[b],
                          !.eo = seen.mode = Mode[b]]
  /\ mv' = [mv EXCEPT ![b].i =
              IF seen.level = 3 /\ seen.mode = Mode[b] THEN 20 ELSE 10]

\* The velocity block does not look at the following error.
MoveStops(b) == seen.fault \/ (b = "position" /\ seen.bit13)

MoveRun(b) ==
  /\ mv[b].i = 20
  /\ axis' = [axis EXCEPT !.strobe = Strobed(b, cmd[b])]
  /\ mv' = [mv EXCEPT ![b].i =
              IF MoveStops(b) THEN 999 ELSE IF cmd[b] THEN 20 ELSE 0]

MoveFailed(b) ==
  /\ mv[b].i = 999
  /\ axis' = [axis EXCEPT !.strobe = Strobed(b, cmd[b])]
  /\ mv' = [mv EXCEPT ![b] = [i |-> IF cmd[b] THEN 999 ELSE 0,
                              error |-> TRUE]]

CallMove(b) ==
  /\ Turn(b)
  /\ MoveStart(b) \/ MoveSetMode(b) \/ MoveRun(b) \/ MoveFailed(b)
  /\ UNCHANGED <<pwr, hm>>
-----------------------------------------------------------------------------
HomeStart ==
  /\ hm.i = 0
  /\ axis' = [axis EXCEPT
                !.eo = @ /\ ~(cmd.home /\ TakesOver("home") = "switch")]
  /\ hm' = [hm EXCEPT !.done = FALSE, !.error = FALSE,
              !.i = IF cmd.home THEN Entered("home") ELSE 0]

HomeSetMode ==
  /\ hm.i = 10
  /\ axis' = [axis EXCEPT !.strobe = "no", !.mode = Mode.home,
                          !.eo = seen.mode = Mode.home]
  /\ hm' = [hm EXCEPT !.i = IF seen.level = 3 THEN 20 ELSE 10]

HomeRunUntimed ==
  /\ hm.i = 20
  /\ axis' = [axis EXCEPT !.strobe = IF seen.homed THEN "no" ELSE "home"]
  /\ hm' = IF seen.homed THEN [hm EXCEPT !.t = 0, !.i = 30]
           ELSE [hm EXCEPT !.i = IF ~cmd.home \/ seen.fault \/ seen.bit13
                                 THEN 999 ELSE 20]
HomeRun ==
  LET t == Ticks(hm.t, seen.moves = "no", HomeTimeout)
  IN  /\ hm.i = 20
      /\ axis' = [axis EXCEPT !.strobe = IF seen.homed THEN "no" ELSE "home"]
      /\ hm' = IF seen.homed THEN [hm EXCEPT !.t = 0, !.i = 30]
               ELSE [hm EXCEPT !.t = t,
                       !.i = IF \/ Expired(t, HomeTimeout) \/ ~cmd.home
                                \/ seen.fault \/ seen.bit13
                             THEN 999 ELSE 20]

HomeDone ==
  /\ hm.i = 30
  /\ hm' = [hm EXCEPT !.done = TRUE, !.i = IF cmd.home THEN 30 ELSE 0]
  /\ UNCHANGED axis

HomeFailed ==
  /\ hm.i = 999
  /\ axis' = [axis EXCEPT !.strobe = "no"]
  /\ hm' = [hm EXCEPT !.t = 0, !.error = TRUE,
              !.i = IF cmd.home THEN 999 ELSE 0]

CallHome ==
  /\ Turn("home")
  /\ HomeStart \/ HomeSetMode \/ HomeRun \/ HomeDone \/ HomeFailed
  /\ UNCHANGED <<pwr, mv>>

HomeBusy == cmd.home /\ ~hm.done /\ ~hm.error

CallReset ==
  /\ Turn("reset")
  /\ axis' = [axis EXCEPT !.fr = cmd.reset]
  /\ UNCHANGED blocks
-----------------------------------------------------------------------------
(* The drive, as the library test simulates it from the word it is sent,   *)
(* except that it takes its time.  It is not in the repository.            *)

Commanded ==
  IF ~word.ev THEN 0 ELSE IF ~word.so THEN 1 ELSE IF ~word.eo THEN 2 ELSE 3

\* It takes each word once and whole.  Bit 4 rising starts what the mode says;
\* a change of mode ends what was going on; below 3 nothing moves.  Either
\* takes bit 13, its following or homing error, back.
Takes(level, recovers) ==
  LET rises == ~drv.strobe /\ word.strobe # "no" /\ level = 3
      same  == drv.mode = word.mode
  IN  /\ pc = Len(order)
      /\ pc' = pc + 1
      /\ drv' = [drv EXCEPT !.level = level, !.mode = word.mode,
                   !.strobe = word.strobe # "no",
                   !.homed = @ /\ ~rises /\ same,
                   !.bit13 = @ /\ ~rises /\ same,
                   !.moves = IF level < 3 THEN "no"
                             ELSE IF rises /\ word.mode = Mode.position
                               THEN "position"
                             ELSE IF rises /\ word.mode = Mode.home THEN "home"
                             ELSE IF same THEN @ ELSE "no",
                   !.fault = @ /\ ~(word.fr /\ recovers)]
      /\ UNCHANGED <<order, cmd, axis, seen, pwr, mv, hm, word, faults>>

\* It falls at once, and climbs a level at a time, in its own time.
DriveClimbs ==
  /\ ~drv.fault /\ drv.level < Commanded
  /\ Takes(drv.level + 1, FALSE)

\* A fault reset helps, or the cause persists.
DriveTakes ==
  \E recovers \in BOOLEAN :
    Takes(IF drv.fault THEN 0
          ELSE IF drv.level < Commanded THEN drv.level ELSE Commanded,
          recovers)

BetweenScans ==
  /\ pc = Len(order) + 1
  /\ UNCHANGED <<order, pc, cmd, axis, seen, pwr, mv, hm, word>>

\* A motion ends where it should, or with bit 13.
DriveArrives ==
  /\ BetweenScans
  /\ drv.moves # "no"
  /\ \E lost \in BOOLEAN :
       drv' = [drv EXCEPT !.moves = "no", !.bit13 = lost,
                          !.homed = drv.moves = "home" /\ ~lost]
  /\ UNCHANGED faults

DriveFaults ==
  /\ BetweenScans
  /\ faults < MaxFaults /\ ~drv.fault
  /\ drv' = [drv EXCEPT !.fault = TRUE, !.level = 0, !.moves = "no"]
  /\ faults' = faults + 1

Calls ==
  CallPower \/ CallHome \/ CallReset \/ \E b \in Moves : CallMove(b)

Drive == DriveTakes \/ DriveClimbs \/ DriveArrives
-----------------------------------------------------------------------------
(* The program. *)

Motions == Moves \cup {"home"}

Answered(b) ==
  IF b = "home" THEN hm.done \/ hm.error ELSE mv[b].error \/ mv[b].i = 20

\* It executes the blocks it has, one motion at a time ("single active move"),
\* starts it when MC_Power shows Status, and holds Execute until the block
\* answers.  Enable and a reset come and go freely.
Disciplined(c) ==
  /\ \A b \in DOMAIN c : c[b] => \E k \in 1 .. Len(order) : order[k] = b
  /\ \A a, b \in Motions : (cmd[a] \/ c[a]) /\ c[b] => a = b
  /\ \A a \in Motions : cmd[a] /\ ~c[a] => Answered(a)
  /\ \A a \in Motions : c[a] /\ ~cmd[a] => pwr.done /\ ~pwr.error

StartScan == \E c \in Commands : Disciplined(c) /\ Bridge(c)

Scan == StartScan \/ Calls \/ DriveTakes \/ DriveClimbs

MotionNext == StartScan \/ Calls \/ Drive \/ DriveFaults

\* Scans go on, and the drive takes a word in each.  A drive that is let climb
\* climbs in the end, and a motion that goes on arrives.
MotionFairness ==
  /\ WF_motionVars(Scan)
  /\ SF_motionVars(DriveClimbs)
  /\ SF_motionVars(DriveArrives)

MotionSpec == MotionInit /\ [][MotionNext]_motionVars /\ MotionFairness
-----------------------------------------------------------------------------
(* MC_Power does not stay busy: whatever the drive does and whenever        *)
(* Enable moves, it reports Status or Error, or is no longer enabled; its   *)
(* timer bounds every stage (opensml_power.st, states 10 to 40).            *)
PowerAnswers == PowerBusy ~> ~PowerBusy

(* A program that stops enabling the axis gets it out of voltage, whatever  *)
(* stage of powering or fault it withdrew Enable in, and although the       *)
(* motion blocks go on writing the same word (opensml_power.st, state 0     *)
(* reached from 50 and 999).                                                *)
PowersDown == <>[]~cmd.power => <>[](~word.so /\ ~word.ev /\ drv.level = 0)

(* A homing answers: as long as the axis stays powered and without a fault, *)
(* it comes to Done or Error, though state 10 waits for the drive without   *)
(* a limit (opensml_home.st).                                               *)
HomingEnds ==
  HomeBusy ~> ~HomeBusy \/ ~cmd.power \/ pwr.i # 50 \/ drv.fault

(* No block changes the mode of a drive that is enabled: operation is       *)
(* dropped first and enabled again when the drive shows the new mode, in    *)
(* every call order, although the word is a scan late, the status another,  *)
(* and MC_Power enables too (opensml_profile_position.st and its kin,       *)
(* states 0 and 10).  A program that lets go of a block before it answers   *)
(* breaks it: state 10 goes on without Execute.                             *)
ModeChangesDisabled == [][drv'.mode # drv.mode => drv'.level < 3]_motionVars
=============================================================================
