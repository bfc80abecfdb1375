---------------------------- MODULE ReconnectPacing ----------------------------
(***************************************************************************)
(* GuestConnection with two history variables, for what the runtime        *)
(* promises about one connection attempt and the next: requests never      *)
(* shorten the retry interval, an attempt's own duration is not counted in *)
(* it, and an attempt overtaken by a clear or a stop is not published.     *)
(***************************************************************************)
EXTENDS GuestConnection

VARIABLES
  owed,      \* ticks that must pass before the next attempt may start
  overtaken  \* the runtime was cleared or stopped during this attempt

pacingVars == <<vars, owed, overtaken>>

PacingInit == Init /\ owed = 0 /\ overtaken = FALSE

Published    == bridge' \notin {bridge, NoBridge}
AttemptEnds  == connecting /\ ~connecting'
Overtaking   == ClearBridge \/ \E s \in Stoppers : RequestStop(s)

\* The clock of the debt is the clock of the runtime.
PacedTick ==
  /\ Tick
  /\ owed' = IF owed = 0 THEN 0 ELSE owed - 1
  /\ UNCHANGED overtaken

\* The interval in force when an attempt ends without a publication is owed.
PacedStep ==
  /\ Step
  /\ owed' = IF Published THEN 0
             ELSE IF AttemptEnds THEN reconnectInterval ELSE owed
  /\ overtaken' = (connecting /\ (overtaken \/ Overtaking))

PacingNext == PacedTick \/ PacedStep

\* The fairness of GuestConnection: the history variables wait for nobody.
PacingSpec == PacingInit /\ [][PacingNext]_pacingVars /\ Fairness

-----------------------------------------------------------------------------

\* "Requests coalesce; they cannot bypass the retry deadline", and "a failed
\* attempt's duration must not consume the retry interval": an attempt starts
\* only when the whole interval has passed since the last fruitless one ended.
AttemptsPaced == [][connecting' /\ ~connecting => owed = 0]_pacingVars

\* An attempt during which the runtime was cleared or stopped publishes
\* nothing, whenever its answer arrives.
OvertakenAttemptDiscarded ==
  [][overtaken => bridge' \in {bridge, NoBridge}]_pacingVars
================================================================================
