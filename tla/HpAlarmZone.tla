---------------------------- MODULE HpAlarmZone ----------------------------
(***************************************************************************)
(* What a user may rely on in the alarm zones of hp_go, each on its own:   *)
(* no list of running countdowns, no loop and no database.  HpSecurity     *)
(* implements it.                                                          *)
(*                                                                         *)
(*   phase   "off", "arming" while the users leave the house, "armed",     *)
(*           "entry" while they may still disarm it, "alarm"               *)
(*   wish    the users want the zone armed                                 *)
(*   seen    motions in the zone since it was disarmed (0, 1, or more)     *)
(***************************************************************************)
EXTENDS Naturals

CONSTANT Zones
VARIABLES phase, wish, seen

zones == <<phase, wish, seen>>

Phases == {"off", "arming", "armed", "entry", "alarm"}
Watchful == {z \in Zones : phase[z] \in {"armed", "entry", "alarm"}}

Init ==
  /\ phase = [z \in Zones |-> "off"]
  /\ wish = [z \in Zones |-> FALSE] /\ seen = [z \in Zones |-> 0]

Goes(z, from, to) == phase[z] = from /\ phase' = [phase EXCEPT ![z] = to]

(* The users arm a zone: what is not off stays what it is. *)
Arm(z) ==
  /\ wish' = [wish EXCEPT ![z] = TRUE]
  /\ Goes(z, "off", "arming") \/ (phase[z] # "off" /\ UNCHANGED phase)
  /\ UNCHANGED seen

Disarm(z) ==
  /\ phase' = [phase EXCEPT ![z] = "off"]
  /\ wish' = [wish EXCEPT ![z] = FALSE] /\ seen' = [seen EXCEPT ![z] = 0]

(* A motion in the zones of S; the second one starts the time to disarm,   *)
(* in one zone at most.                                                    *)
Notice(S) ==
  /\ S \subseteq Watchful
  /\ seen' = [z \in Zones |-> IF z \in S /\ seen[z] < 2 THEN seen[z] + 1 ELSE seen[z]]
  /\ \/ UNCHANGED phase
     \/ \E z \in S : seen'[z] = 2 /\ Goes(z, "armed", "entry")
  /\ UNCHANGED wish

(* A time has run out. *)
Elapse(z) ==
  /\ Goes(z, "arming", "armed") \/ Goes(z, "entry", "alarm")
  /\ UNCHANGED <<wish, seen>>

(* After a restart a zone is what the database says, and no time runs.     *)
Restore ==
  /\ phase' \in [Zones -> {"off", "armed", "alarm"}]
  /\ wish' = [z \in Zones |-> phase'[z] # "off"] /\ seen' = [z \in Zones |-> 0]

Next ==
  \/ \E z \in Zones : Arm(z) \/ Disarm(z) \/ Elapse(z)
  \/ (\E S \in SUBSET Zones : Notice(S)) \/ Restore

Spec == Init /\ [][Next]_zones
=============================================================================
