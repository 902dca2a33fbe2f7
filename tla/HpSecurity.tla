----------------------------- MODULE HpSecurity -----------------------------
(***************************************************************************)
(* The alarm system of hp_go: zones that users arm and disarm, sensors     *)
(* that report motion, the countdowns between, the siren and the light     *)
(* that shows an armed zone, and the row of each zone in the database.     *)
(*                                                                         *)
(*   sec_status    my_sec_status: 0 disarmed, 1 armed, 2 alarm             *)
(*   countdown     my_countdown_counter, -1 when nothing is counted        *)
(*   recent        zones whose my_last_check_time is at most 60 s ago      *)
(*   muted         zones whose my_next_repeat is still to come             *)
(*   repeated      my_repeated_counter                                     *)
(*   running       hp_go::my_running_zone, a vector of pointers to zones   *)
(*   pc, it, check the loop of process_running_zone and check_all_ident    *)
(*   left, wanted  zones a panel message still arms (1) or disarms (0)     *)
(*   pin, way      the known status of an output (hp_pin::get_status) and  *)
(*                 the values on their way to it, in order                 *)
(*   dbq, db       status updates that wait for the database thread, and   *)
(*                 the column STATUS of SECURITY_ZONES                     *)
(*   budget        how many more external events may happen                *)
(*   asked, motions  history: what the users asked for last, and how many  *)
(*                 motions an active zone saw since then (0, 1, or more)   *)
(***************************************************************************)
EXTENDS Integers, Sequences, FiniteSets, SequencesExt

CONSTANTS
  NumZones,          \* zones are numbered in the order of the configuration
  Sensors, SensorsOf, \* the sensors of a zone
  HbxOf,             \* position in my_hbxs of the controller of a sensor
  Actors, ActorsOf,  \* the outputs a zone switches on when it is in alarm
  Timed,             \* actors with an internal timer
  Light,             \* the output that signals an armed zone
  WaitTime,          \* my_wait_time
  Repeating, MaxTriggers, \* zones with my_repeated_action; my_repeat_triggers
  Prompt,            \* outputs have followed before the next event is handled
  Budget

Zones == 1..NumZones
Outputs == Actors \cup {Light}
Events == {"request", "motion", "restart", "dbfail"}

ASSUME SizeAssumption == NumZones \in Nat /\ WaitTime \in Nat /\ MaxTriggers \in Nat
ASSUME ConfigAssumption ==
  /\ SensorsOf \in [Zones -> SUBSET Sensors] /\ HbxOf \in [Sensors -> Nat]
  /\ ActorsOf \in [Zones -> SUBSET Actors] /\ Timed \subseteq Actors
  /\ Light \notin Actors /\ Repeating \subseteq Zones
ASSUME EnvironmentAssumption == Prompt \in BOOLEAN /\ Budget \in [Events -> Nat]

VARIABLES sec_status, countdown, recent, muted, repeated, running, pc, it, check,
          left, wanted, pin, way, dbq, db, budget, asked, motions

zoneVars == <<sec_status, countdown, recent, muted, repeated>>
outVars  == <<pin, way>>
dbVars   == <<dbq, db>>
ghosts   == <<asked, motions>>
vars     == <<zoneVars, running, pc, it, check, left, wanted, outVars, dbVars, budget,
              ghosts>>

----------------------------------------------------------------------------
Init ==
  /\ sec_status = [z \in Zones |-> 0] /\ countdown = [z \in Zones |-> -1]
  /\ recent = {} /\ muted = {} /\ repeated = [z \in Zones |-> 0]
  /\ running = <<>> /\ pc = "incoming" /\ it = 1 /\ check = FALSE
  /\ left = {} /\ wanted = 0
  /\ pin = [o \in Outputs |-> "0"] /\ way = [o \in Outputs |-> <<>>]
  /\ dbq = <<>> /\ db = sec_status
  /\ budget = Budget
  /\ asked = [z \in Zones |-> FALSE] /\ motions = [z \in Zones |-> 0]

Spend(what) == budget[what] > 0 /\ budget' = [budget EXCEPT ![what] = @ - 1]

(* hp_go::add_message for a pin sends only what differs from the status    *)
(* that is known of it.                                                    *)
Order(outs, v) ==
  [o \in Outputs |-> IF o \in outs /\ pin[o] # v THEN Append(way[o], v) ELSE way[o]]

(* hp_security::check_signalization and hp_go::check_sec_singnalization    *)
ArmedNow == IF \E z \in Zones : sec_status[z] = 1 THEN "1" ELSE "0"
Signal == Order({Light}, ArmedNow)

(* Mutated form of the next: the update overtakes the others. *)
StoreInFront(z, status) == dbq' = <<<<z, status>>>> \o dbq

(* One status update is handed to the database thread. *)
Store(z, status) == dbq' = Append(dbq, <<z, status>>)

----------------------------------------------------------------------------
(* Incoming: messages of the panel and of the sensors.                     *)

AtIncoming == pc = "incoming" /\ (Prompt => \A o \in Outputs : way[o] = <<>>)

(* process_gui_secur_mess: one zone, or all of them, are armed or disarmed *)
(* in the order of the configuration.                                      *)
Request(zs, value) ==
  /\ AtIncoming /\ Spend("request")
  /\ pc' = "gui" /\ left' = zs /\ wanted' = value
  /\ UNCHANGED <<zoneVars, running, it, check, outVars, dbVars, ghosts>>

AtZone(z, value) ==
  /\ pc = "gui" /\ wanted = value /\ z \in left /\ \A y \in left : z <= y
  /\ left' = left \ {z}

(* A zone that already counts down is entered once more.                   *)
Arm(z) ==
  /\ AtZone(z, 1)
  /\ IF sec_status[z] = 0
     THEN running' = Append(running, z) /\ countdown' = [countdown EXCEPT ![z] = WaitTime]
     ELSE UNCHANGED <<running, countdown>>
  /\ asked' = [asked EXCEPT ![z] = TRUE]
  /\ UNCHANGED <<sec_status, recent, muted, repeated, pc, it, check, wanted,
                 outVars, dbVars, budget, motions>>

(* Mutated forms of the next: the countdown is kept; the status is set     *)
(* before it is asked whether the siren sounds.                            *)
DisarmKeepsCountdown(z) ==
  /\ AtZone(z, 0)
  /\ IF sec_status[z] = 2 THEN way' = Order(ActorsOf[z], "0") ELSE UNCHANGED way
  /\ sec_status' = [sec_status EXCEPT ![z] = 0]
  /\ repeated' = [repeated EXCEPT ![z] = 0] /\ recent' = recent \ {z}
  /\ running' = RemoveFirst(running, z)
  /\ Store(z, 0)
  /\ asked' = [asked EXCEPT ![z] = FALSE] /\ motions' = [motions EXCEPT ![z] = 0]
  /\ UNCHANGED <<countdown, muted, pc, it, check, wanted, pin, db, budget>>

DisarmForgetsSiren(z) ==
  /\ AtZone(z, 0)
  /\ sec_status' = [sec_status EXCEPT ![z] = 0]
  /\ countdown' = [countdown EXCEPT ![z] = -1]
  /\ repeated' = [repeated EXCEPT ![z] = 0] /\ recent' = recent \ {z}
  /\ running' = RemoveFirst(running, z)
  /\ Store(z, 0)
  /\ asked' = [asked EXCEPT ![z] = FALSE] /\ motions' = [motions EXCEPT ![z] = 0]
  /\ UNCHANGED <<muted, pc, it, check, wanted, outVars, db, budget>>

(* set_sec_status(0) forgets motions and repetitions as well; the first    *)
(* entry of the zone leaves my_running_zone (erase_running_secur).         *)
Disarm(z) ==
  /\ AtZone(z, 0)
  /\ IF sec_status[z] = 2 THEN way' = Order(ActorsOf[z], "0") ELSE UNCHANGED way
  /\ sec_status' = [sec_status EXCEPT ![z] = 0]
  /\ countdown' = [countdown EXCEPT ![z] = -1]
  /\ repeated' = [repeated EXCEPT ![z] = 0] /\ recent' = recent \ {z}
  /\ running' = RemoveFirst(running, z)
  /\ Store(z, 0)
  /\ asked' = [asked EXCEPT ![z] = FALSE] /\ motions' = [motions EXCEPT ![z] = 0]
  /\ UNCHANGED <<muted, pc, it, check, wanted, pin, db, budget>>

EndRequest ==
  /\ pc = "gui" /\ left = {} /\ pc' = "incoming"
  /\ way' = Signal
  /\ UNCHANGED <<zoneVars, running, it, check, left, wanted, pin, dbVars, budget, ghosts>>

(* hp_security::chech_pir: the first zone that is active, has the sensor   *)
(* and saw a motion less than a minute ago; the zones before it remember   *)
(* this motion.                                                            *)
Active == {z \in Zones : sec_status[z] \in {1, 2}}
Watching(s) == {z \in Active : s \in SensorsOf[z]}
HitAtOnce(s, z) == z \in Watching(s) /\ \A y \in Watching(s) : z <= y \* a mutated form
Hit(s, z) == z \in Watching(s) \cap recent /\ \A y \in Watching(s) \cap recent : z <= y
Seen(s) == {y \in Watching(s) : \A z \in Watching(s) \cap recent : y <= z}

(* hp_security_zone::repeat_action                                         *)
MayRepeat(z) ==
  z \in Repeating /\ z \notin muted /\ (MaxTriggers = 0 \/ repeated[z] <= MaxTriggers)

(* The alarm is repeated by the actors of the zone whose place in          *)
(* my_running_zone is the position of the sensor's controller; where there *)
(* is no such place, whatever zone the memory behind the vector names.     *)
Repeated(s) ==
  IF HbxOf[s] + 1 \in DOMAIN running THEN {running[HbxOf[s] + 1]} ELSE Zones

(* process_act_mess for a contact, and for a motion sensor ("pir"), which  *)
(* does not restart a countdown that runs.                                 *)
Motion(s, contact) ==
  /\ AtIncoming /\ Spend("motion")
  /\ recent' = recent \cup Seen(s)
  /\ motions' = [z \in Zones |-> IF z \in Seen(s) /\ motions[z] < 2 THEN motions[z] + 1
                                 ELSE motions[z]]
  /\ \/ /\ ~\E z \in Zones : Hit(s, z)
        /\ UNCHANGED <<running, countdown, muted, repeated, way>>
     \/ \E z \in Zones :
          /\ Hit(s, z) /\ sec_status[z] = 1
          /\ IF contact \/ countdown[z] \in {0, -1}
             THEN running' = Append(running, z) /\ countdown' = [countdown EXCEPT ![z] = WaitTime]
             ELSE UNCHANGED <<running, countdown>>
          /\ UNCHANGED <<muted, repeated, way>>
     \/ \E z \in Zones :
          /\ Hit(s, z) /\ sec_status[z] = 2 /\ ~MayRepeat(z)
          /\ UNCHANGED <<running, countdown, muted, repeated, way>>
     \/ \E z \in Zones, y \in Repeated(s) :
          /\ Hit(s, z) /\ sec_status[z] = 2 /\ MayRepeat(z)
          /\ repeated' = IF MaxTriggers = 0 THEN repeated ELSE [repeated EXCEPT ![z] = @ + 1]
          /\ way' = Order(ActorsOf[y], "1")
          /\ muted' = IF ActorsOf[y] \cap Timed # {} THEN muted \cup {z} ELSE muted
          /\ UNCHANGED <<running, countdown>>
  /\ UNCHANGED <<sec_status, pc, it, check, left, wanted, pin, dbVars, asked>>

(* The transport has carried out an order and its answer is handled, which *)
(* sets the known status of the pin.                                       *)
Deliver(o) ==
  /\ pc = "incoming" /\ way[o] # <<>>
  /\ pin' = [pin EXCEPT ![o] = Head(way[o])] /\ way' = [way EXCEPT ![o] = Tail(@)]
  /\ UNCHANGED <<zoneVars, running, pc, it, check, left, wanted, dbVars, budget, ghosts>>

----------------------------------------------------------------------------
(* A new second: process_running_zone.                                     *)

(* Time passes: some motions are a minute old, some actors have finished.  *)
Second(calm, loud) ==
  /\ AtIncoming /\ pc' = "zones" /\ it' = 1
  /\ recent' = recent \ calm /\ muted' = muted \ loud
  /\ UNCHANGED <<sec_status, countdown, repeated, running, check, left, wanted, outVars,
                 dbVars, budget, ghosts>>

(* Mutated forms of the next: without the test for zero, and off by one.   *)
DecreasedUnchecked(c) == c - 1
DecreasedToOne(c) == IF c > 1 THEN c - 1 ELSE c

(* decrease_counter *)
Decreased(c) == IF c > 0 THEN c - 1 ELSE c

AtRunning == pc = "zones" /\ it \in DOMAIN running
Current == running[it]

(* The loop goes on to the next place whether or not it has erased this    *)
(* one, and so passes over the zone that takes the erased place.           *)
Tick ==
  /\ AtRunning /\ (Decreased(countdown[Current]) # 0 \/ sec_status[Current] = 2)
  /\ countdown' = [countdown EXCEPT ![Current] = Decreased(@)]
  /\ check' = (check \/ Decreased(countdown[Current]) = 0)
  /\ it' = it + 1
  /\ UNCHANGED <<sec_status, recent, muted, repeated, running, pc, left, wanted, outVars,
                 dbVars, budget, ghosts>>

(* Mutated form of the next: the countdown is not set back.                *)
RaiseKeepsCountdown(z, status) ==
  /\ AtRunning /\ z = Current /\ Decreased(countdown[z]) = 0
  /\ sec_status' = [sec_status EXCEPT ![z] = status]
  /\ countdown' = [countdown EXCEPT ![z] = Decreased(@)]
  /\ running' = RemoveAt(running, it) /\ it' = it + 1 /\ check' = TRUE
  /\ Store(z, status)
  /\ UNCHANGED <<recent, muted, repeated, pc, left, wanted, pin, db, budget, ghosts>>

(* set_sec_status and the erasure when a countdown has reached zero. *)
Raise(z, status) ==
  /\ AtRunning /\ z = Current /\ Decreased(countdown[z]) = 0
  /\ sec_status' = [sec_status EXCEPT ![z] = status]
  /\ countdown' = [countdown EXCEPT ![z] = -1]
  /\ running' = RemoveAt(running, it) /\ it' = it + 1 /\ check' = TRUE
  /\ Store(z, status)
  /\ UNCHANGED <<recent, muted, repeated, pc, left, wanted, pin, db, budget, ghosts>>

Armed(z) == sec_status[z] = 0 /\ Raise(z, 1) /\ UNCHANGED way
Alarm(z) == sec_status[z] = 1 /\ Raise(z, 2) /\ way' = Order(ActorsOf[z], "1")

(* Mutated form of the next: the light is not looked after. *)
EndSecondSilently ==
  /\ pc = "zones" /\ it \notin DOMAIN running
  /\ pc' = "incoming" /\ check' = FALSE
  /\ UNCHANGED <<zoneVars, running, it, left, wanted, outVars, dbVars, budget, ghosts>>

EndSecond ==
  /\ pc = "zones" /\ it \notin DOMAIN running
  /\ pc' = "incoming" /\ check' = FALSE
  /\ IF check THEN way' = Signal ELSE UNCHANGED way
  /\ UNCHANGED <<zoneVars, running, it, left, wanted, pin, dbVars, budget, ghosts>>

----------------------------------------------------------------------------
(* The database thread, and a restart of hp_go.                            *)

(* hp_db_handler::operator() executes the first query; one that fails is   *)
(* erased all the same.                                                    *)
Execute ==
  /\ dbq # <<>> /\ dbq' = Tail(dbq)
  /\ \/ db' = [db EXCEPT ![Head(dbq)[1]] = Head(dbq)[2]] /\ UNCHANGED budget
     \/ UNCHANGED db /\ Spend("dbfail")
  /\ UNCHANGED <<zoneVars, running, pc, it, check, left, wanted, outVars, ghosts>>

(* The queue of queries is lost with the process; sync_with_db reads the   *)
(* status of each zone, and nothing else.                                  *)
Restart ==
  /\ Spend("restart")
  /\ sec_status' = db /\ countdown' = [z \in Zones |-> -1]
  /\ recent' = {} /\ muted' = {} /\ repeated' = [z \in Zones |-> 0]
  /\ running' = <<>> /\ pc' = "incoming" /\ it' = 1 /\ check' = FALSE
  /\ left' = {} /\ wanted' = 0
  /\ dbq' = <<>> /\ way' = [o \in Outputs |-> <<>>]
  /\ asked' = [z \in Zones |-> db[z] # 0] /\ motions' = [z \in Zones |-> 0]
  /\ UNCHANGED <<pin, db>>

----------------------------------------------------------------------------
Requests ==
  \/ \E z \in Zones, v \in {0, 1} : Request({z}, v)
  \/ \E v \in {0, 1} : Request(Zones, v)
Gui == EndRequest \/ \E z \in Zones : Arm(z) \/ Disarm(z)
Motions == \E s \in Sensors, contact \in BOOLEAN : Motion(s, contact)
Seconds == \E calm \in SUBSET recent, loud \in SUBSET muted : Second(calm, loud)
RunningZones == Tick \/ EndSecond \/ \E z \in Zones : Armed(z) \/ Alarm(z)
Delivery == \E o \in Outputs : Deliver(o)

Next ==
  \/ Requests \/ Gui \/ Motions \/ Delivery
  \/ Seconds \/ RunningZones \/ Execute \/ Restart

Spec == Init /\ [][Next]_vars

(* The handlers run to their end, the transport and the database thread    *)
(* do what they are given, and seconds follow one another.                 *)
Fairness ==
  /\ WF_vars(Gui) /\ WF_vars(RunningZones) /\ WF_vars(Seconds)
  /\ WF_vars(Delivery) /\ WF_vars(Execute)
FairSpec == Spec /\ Fairness

----------------------------------------------------------------------------
(* Properties *)

(* Every variable has its type. *)
TypeOK ==
  /\ sec_status \in [Zones -> {0, 1, 2}] /\ countdown \in [Zones -> Nat \cup {-1}]
  /\ recent \subseteq Zones /\ muted \subseteq Zones /\ repeated \in [Zones -> Nat]
  /\ running \in Seq(Zones) /\ pc \in {"incoming", "gui", "zones"} /\ it \in Nat \ {0}
  /\ check \in BOOLEAN /\ left \subseteq Zones /\ wanted \in {0, 1}
  /\ pin \in [Outputs -> {"0", "1"}] /\ way \in [Outputs -> Seq({"0", "1"})]
  /\ dbq \in Seq(Zones \X {0, 1, 2}) /\ db \in [Zones -> {0, 1, 2}]
  /\ budget \in [Events -> Nat]
  /\ asked \in [Zones -> BOOLEAN] /\ motions \in [Zones -> 0..2]

(* A zone that was disarmed stays so until it is armed again: whatever is  *)
(* left of it in my_running_zone neither arms it nor counts.               *)
DisarmSticks == \A z \in Zones : ~asked[z] => sec_status[z] = 0 /\ countdown[z] = -1

(* A countdown that has begun is in my_running_zone, where alone it can    *)
(* come to its end.                                                        *)
CountdownRuns ==
  \A z \in Zones : countdown[z] # -1 => \E i \in DOMAIN running : running[i] = z

(* An alarm is raised only for an armed zone that saw two motions since it *)
(* was armed: the countdown that arms a zone is never taken for the one    *)
(* that raises its alarm.                                                  *)
AlarmNeedsTwoMotions ==
  [][\A z \in Zones : sec_status[z] # 2 /\ sec_status'[z] = 2 /\ pc = "zones" /\ pc' = "zones"
                        => sec_status[z] = 1 /\ motions[z] = 2]_vars

(* As long as no query failed, the last update of a zone, in the queue or  *)
(* in the database, is the status the zone has.                            *)
Pending(z) == {i \in DOMAIN dbq : dbq[i][1] = z}
StoredStatus ==
  budget["dbfail"] = Budget["dbfail"] =>
    \A z \in Zones :
      IF Pending(z) = {} THEN db[z] = sec_status[z]
      ELSE \E i \in Pending(z) : (\A j \in Pending(z) : j <= i) /\ dbq[i][2] = sec_status[z]

(* The zones keep what HpAlarmZone promises, whatever lists, loops and     *)
(* database lie between: a zone is armed only after its time to leave,     *)
(* raises its alarm only after its time to disarm, which only a second     *)
(* motion starts, and a disarming ends each of these at once.              *)
Phase(z) ==
  CASE sec_status[z] = 0 /\ countdown[z] = -1 -> "off"
    [] sec_status[z] = 0 /\ countdown[z] # -1 -> "arming"
    [] sec_status[z] = 1 /\ countdown[z] = -1 -> "armed"
    [] sec_status[z] = 1 /\ countdown[z] # -1 -> "entry"
    [] sec_status[z] = 2 -> "alarm"
Promise == INSTANCE HpAlarmZone
  WITH phase <- [z \in Zones |-> Phase(z)], wish <- asked, seen <- motions
KeepsPromise == Promise!Spec

Settled == pc = "incoming" /\ \A o \in Outputs : way[o] = <<>>
NoRestart == budget["restart"] = Budget["restart"]

(* When outputs follow promptly, the light shows whether a zone is armed.  *)
LightFollows == Settled /\ NoRestart => pin[Light] = ArmedNow

(* When outputs follow promptly and no zone repeats its alarm, an actor is *)
(* on only while a zone it belongs to is in alarm.                         *)
SirenOnlyInAlarm ==
  Settled /\ NoRestart =>
    \A o \in Actors : pin[o] = "1" => \E z \in Zones : sec_status[z] = 2 /\ o \in ActorsOf[z]

(* Arming is completed or cancelled, and every countdown ends.             *)
Settles ==
  \A z \in Zones :
    /\ asked[z] ~> (sec_status[z] # 0 \/ ~asked[z])
    /\ countdown[z] # -1 ~> countdown[z] = -1
=============================================================================
