-------------------------- MODULE HpSecurityProofs --------------------------
(***************************************************************************)
(* Proofs about HpSecurity, for every number of zones, every assignment of *)
(* sensors and actors and every bound on the events.                       *)
(***************************************************************************)
EXTENDS HpSecurity, HpLemmas

LEMMA OrderType ==
  ASSUME TypeOK, NEW outs, NEW v \in {"0", "1"}
  PROVE  Order(outs, v) \in [Outputs -> Seq({"0", "1"})]
<1>1. \A o \in Outputs : way[o] \in Seq({"0", "1"})
  BY DEF TypeOK
<1>2. \A o \in Outputs : Append(way[o], v) \in Seq({"0", "1"})
  BY <1>1, AppendProperties
<1> QED BY <1>1, <1>2 DEF Order

LEMMA SignalType ==
  ASSUME TypeOK
  PROVE  Signal \in [Outputs -> Seq({"0", "1"})]
BY OrderType DEF Signal, ArmedNow

LEMMA StoreType ==
  ASSUME TypeOK, NEW z \in Zones, NEW status \in {0, 1, 2}, Store(z, status)
  PROVE  dbq' \in Seq(Zones \X {0, 1, 2})
BY AppendProperties DEF Store, TypeOK

LEMMA SpendType ==
  ASSUME TypeOK, NEW what \in Events, Spend(what)
  PROVE  budget' \in [Events -> Nat]
BY DEF TypeOK, Spend

(* The entry that process_running_zone looks at, and the vector without it. *)
LEMMA CurrentZone ==
  ASSUME TypeOK, AtRunning
  PROVE  /\ Current \in Zones /\ it \in 1..Len(running)
         /\ RemoveAt(running, it) \in Seq(Zones)
<1>1. it \in 1..Len(running)
  BY LenProperties DEF AtRunning, TypeOK
<1>2. Current \in Zones
  BY <1>1, ElementOfSeq DEF Current, TypeOK
<1> QED BY <1>1, <1>2, Removed DEF TypeOK

----------------------------------------------------------------------------
(* Types *)

LEMMA InitType == Init => TypeOK
<1> SUFFICES ASSUME Init PROVE TypeOK
  OBVIOUS
<1>1. <<>> \in Seq(Zones) /\ <<>> \in Seq({"0", "1"}) /\ <<>> \in Seq(Zones \X {0, 1, 2})
  BY EmptySeq
<1>2. way \in [Outputs -> Seq({"0", "1"})] /\ pin \in [Outputs -> {"0", "1"}]
  BY <1>1 DEF Init
<1>3. motions \in [Zones -> 0..2] /\ asked \in [Zones -> BOOLEAN]
      /\ repeated \in [Zones -> Nat] /\ countdown \in [Zones -> Nat \cup {-1}]
      /\ sec_status \in [Zones -> {0, 1, 2}] /\ db \in [Zones -> {0, 1, 2}]
  BY DEF Init
<1>4. /\ recent \subseteq Zones /\ muted \subseteq Zones /\ left \subseteq Zones
      /\ pc \in {"incoming", "gui", "zones"} /\ it \in Nat \ {0} /\ wanted \in {0, 1}
  BY DEF Init
<1>6. check \in BOOLEAN
  BY ZenonT(20) DEF Init
<1>5. /\ running \in Seq(Zones) /\ dbq \in Seq(Zones \X {0, 1, 2})
      /\ budget \in [Events -> Nat]
  BY <1>1, EnvironmentAssumption DEF Init
<1> QED BY <1>2, <1>3, <1>4, <1>5, <1>6 DEF TypeOK

LEMMA GuiType ==
  ASSUME TypeOK, Requests \/ Gui
  PROVE  TypeOK'
<1> USE DEF zoneVars, outVars, dbVars, ghosts
<1>1. ASSUME NEW zs \in SUBSET Zones, NEW v \in {0, 1}, Request(zs, v) PROVE TypeOK'
  BY <1>1, SpendType DEF Request, TypeOK, Events
<1>2. ASSUME NEW z \in Zones, Arm(z) PROVE TypeOK'
  <2>1. running' \in Seq(Zones) /\ countdown' \in [Zones -> Nat \cup {-1}]
    <3>1. Append(running, z) \in Seq(Zones)
      BY AppendProperties DEF TypeOK
    <3>2. [countdown EXCEPT ![z] = WaitTime] \in [Zones -> Nat \cup {-1}]
      BY SizeAssumption DEF TypeOK
    <3> QED BY <1>2, <3>1, <3>2 DEF Arm, TypeOK
  <2>2. left' \subseteq Zones /\ asked' \in [Zones -> BOOLEAN]
    BY <1>2 DEF Arm, AtZone, TypeOK
  <2> QED BY <1>2, <2>1, <2>2 DEF Arm, TypeOK
<1>3. ASSUME NEW z \in Zones, Disarm(z) PROVE TypeOK'
  <2>1. running' \in Seq(Zones)
    BY <1>3, FirstRemoved DEF Disarm, TypeOK
  <2>2. dbq' \in Seq(Zones \X {0, 1, 2})
    BY <1>3, StoreType DEF Disarm
  <2>3. way' \in [Outputs -> Seq({"0", "1"})]
    BY <1>3, OrderType DEF Disarm, TypeOK
  <2>4. /\ sec_status' \in [Zones -> {0, 1, 2}] /\ countdown' \in [Zones -> Nat \cup {-1}]
        /\ repeated' \in [Zones -> Nat] /\ recent' \subseteq Zones
        /\ asked' \in [Zones -> BOOLEAN] /\ motions' \in [Zones -> 0..2]
        /\ left' \subseteq Zones
    BY <1>3 DEF Disarm, AtZone, TypeOK
  <2> QED BY <1>3, <2>1, <2>2, <2>3, <2>4 DEF Disarm, TypeOK
<1>4. ASSUME EndRequest PROVE TypeOK'
  BY <1>4, SignalType DEF EndRequest, TypeOK
<1> QED BY <1>1, <1>2, <1>3, <1>4 DEF Requests, Gui

LEMMA MotionType ==
  ASSUME TypeOK, NEW s \in Sensors, NEW contact \in BOOLEAN, Motion(s, contact)
  PROVE  TypeOK'
<1>1. recent' \subseteq Zones /\ motions' \in [Zones -> 0..2]
  <2>1. Seen(s) \subseteq Zones
    BY DEF Seen, Watching, Active
  <2> QED BY <2>1 DEF Motion, TypeOK
<1>2. budget' \in [Events -> Nat]
  BY SpendType DEF Motion, Events
<1>3. running' \in Seq(Zones) /\ countdown' \in [Zones -> Nat \cup {-1}]
  <2>1. \A z \in Zones : Append(running, z) \in Seq(Zones)
    BY AppendProperties DEF TypeOK
  <2>2. \A z \in Zones : [countdown EXCEPT ![z] = WaitTime] \in [Zones -> Nat \cup {-1}]
    BY SizeAssumption DEF TypeOK
  <2> QED BY <2>1, <2>2 DEF Motion, TypeOK
<1>4. repeated' \in [Zones -> Nat] /\ muted' \subseteq Zones
  <2>1. \A z \in Zones : [repeated EXCEPT ![z] = @ + 1] \in [Zones -> Nat]
    BY DEF TypeOK
  <2> QED BY <2>1 DEF Motion, TypeOK
<1>5. way' \in [Outputs -> Seq({"0", "1"})]
  BY OrderType DEF Motion, TypeOK
<1> QED BY <1>1, <1>2, <1>3, <1>4, <1>5 DEF Motion, TypeOK, dbVars

LEMMA SecondType ==
  ASSUME TypeOK, Seconds \/ RunningZones
  PROVE  TypeOK'
<1> USE DEF zoneVars, outVars, dbVars, ghosts
<1>1. ASSUME NEW calm, NEW loud, Second(calm, loud) PROVE TypeOK'
  BY <1>1 DEF Second, TypeOK
<1>2. ASSUME Tick PROVE TypeOK'
  <2>1. \A c \in Nat \cup {-1} : Decreased(c) \in Nat \cup {-1}
    BY DEF Decreased
  <2>2. countdown' \in [Zones -> Nat \cup {-1}]
    BY <1>2, <2>1, CurrentZone DEF Tick, TypeOK
  <2>3. check' \in BOOLEAN /\ it' \in Nat \ {0}
    BY <1>2 DEF Tick, TypeOK
  <2> QED BY <1>2, <2>2, <2>3 DEF Tick, TypeOK
<1>3. ASSUME NEW z \in Zones, NEW status \in {1, 2}, Raise(z, status),
             way' \in [Outputs -> Seq({"0", "1"})]
      PROVE  TypeOK'
  <2>1. running' \in Seq(Zones) /\ it' \in Nat \ {0}
    BY <1>3, CurrentZone DEF Raise, TypeOK
  <2>2. dbq' \in Seq(Zones \X {0, 1, 2})
    BY <1>3, StoreType DEF Raise
  <2> QED BY <1>3, <2>1, <2>2 DEF Raise, TypeOK
<1>4. ASSUME NEW z \in Zones, Armed(z) \/ Alarm(z) PROVE TypeOK'
  <2>1. Armed(z) => way' \in [Outputs -> Seq({"0", "1"})]
    BY DEF Armed, TypeOK
  <2>2. Alarm(z) => way' \in [Outputs -> Seq({"0", "1"})]
    BY OrderType DEF Alarm
  <2> QED BY <1>3, <1>4, <2>1, <2>2 DEF Armed, Alarm
<1>5. ASSUME EndSecond PROVE TypeOK'
  BY <1>5, SignalType DEF EndSecond, TypeOK
<1> QED BY <1>1, <1>2, <1>4, <1>5 DEF Seconds, RunningZones

LEMMA OtherType ==
  ASSUME TypeOK, Delivery \/ Execute \/ Restart
  PROVE  TypeOK'
<1> USE DEF zoneVars, outVars, dbVars, ghosts
<1>1. ASSUME NEW o \in Outputs, Deliver(o) PROVE TypeOK'
  <2>1. Head(way[o]) \in {"0", "1"} /\ Tail(way[o]) \in Seq({"0", "1"})
    BY <1>1, HeadTailProperties DEF Deliver, TypeOK
  <2> QED BY <1>1, <2>1 DEF Deliver, TypeOK
<1>2. ASSUME Execute PROVE TypeOK'
  <2>1. Head(dbq) \in Zones \X {0, 1, 2} /\ Tail(dbq) \in Seq(Zones \X {0, 1, 2})
    BY <1>2, HeadTailProperties DEF Execute, TypeOK
  <2>2. db' \in [Zones -> {0, 1, 2}]
    BY <1>2, <2>1 DEF Execute, TypeOK
  <2>3. budget' \in [Events -> Nat]
    BY <1>2, SpendType DEF Execute, TypeOK, Events
  <2> QED BY <1>2, <2>1, <2>2, <2>3 DEF Execute, TypeOK
<1>3. ASSUME Restart PROVE TypeOK'
  <2>1. <<>> \in Seq(Zones) /\ <<>> \in Seq({"0", "1"}) /\ <<>> \in Seq(Zones \X {0, 1, 2})
    BY EmptySeq
  <2>2. budget' \in [Events -> Nat]
    BY <1>3, SpendType DEF Restart, Events
  <2>3. /\ way' \in [Outputs -> Seq({"0", "1"})] /\ countdown' \in [Zones -> Nat \cup {-1}]
        /\ repeated' \in [Zones -> Nat]
        /\ asked' \in [Zones -> BOOLEAN] /\ motions' \in [Zones -> 0..2]
    BY <1>3, <2>1 DEF Restart
  <2>4. /\ recent' \subseteq Zones /\ muted' \subseteq Zones /\ left' \subseteq Zones
        /\ pc' \in {"incoming", "gui", "zones"} /\ it' \in Nat \ {0} /\ wanted' \in {0, 1}
    BY <1>3 DEF Restart
  <2>6. check' \in BOOLEAN
    BY <1>3, ZenonT(20) DEF Restart
  <2>5. /\ running' \in Seq(Zones) /\ dbq' \in Seq(Zones \X {0, 1, 2})
        /\ sec_status' \in [Zones -> {0, 1, 2}] /\ db' \in [Zones -> {0, 1, 2}]
        /\ pin' \in [Outputs -> {"0", "1"}]
    BY <1>3, <2>1 DEF Restart, TypeOK
  <2> QED BY <2>2, <2>3, <2>4, <2>5, <2>6 DEF TypeOK
<1> QED BY <1>1, <1>2, <1>3 DEF Delivery

LEMMA NextType == TypeOK /\ [Next]_vars => TypeOK'
<1> SUFFICES ASSUME TypeOK, [Next]_vars PROVE TypeOK'
  OBVIOUS
<1>1. CASE UNCHANGED vars
  BY <1>1 DEF vars, zoneVars, outVars, dbVars, ghosts, TypeOK
<1>2. CASE Motions
  BY <1>2, MotionType DEF Motions
<1> QED BY <1>1, <1>2, GuiType, SecondType, OtherType DEF Next

(* Every variable keeps its type: statuses and countdowns stay in their    *)
(* ranges and the vectors hold zones and orders only.                      *)
THEOREM TypeCorrect == Spec => []TypeOK
BY InitType, NextType, PTL DEF Spec

----------------------------------------------------------------------------
(* The steps that touch the zones, the vector or the history.              *)

Quiet ==
  UNCHANGED <<sec_status, countdown, running, asked, motions>> /\ recent' \subseteq recent
Stirs ==
  \/ \E z \in Zones : Arm(z) \/ Disarm(z)
  \/ \E s \in Sensors, contact \in BOOLEAN : Motion(s, contact)
  \/ Tick
  \/ \E z \in Zones, status \in {1, 2} : Raise(z, status)
  \/ Restart

LEMMA Steps == [Next]_vars => Quiet \/ Stirs
<1> SUFFICES ASSUME [Next]_vars, ~Stirs PROVE Quiet
  OBVIOUS
<1> USE DEF zoneVars, outVars, dbVars, ghosts
<1>1. CASE UNCHANGED vars
  BY <1>1 DEF vars, Quiet
<1>2. CASE Requests
  BY <1>2 DEF Requests, Request, Quiet
<1>3. CASE Gui
  BY <1>3 DEF Gui, EndRequest, Stirs, Quiet
<1>4. CASE Motions
  BY <1>4 DEF Motions, Stirs
<1>5. CASE Delivery
  BY <1>5 DEF Delivery, Deliver, Quiet
<1>6. CASE Seconds
  BY <1>6 DEF Seconds, Second, Quiet
<1>7. CASE RunningZones
  <2>1. CASE EndSecond
    BY <2>1 DEF EndSecond, Quiet
  <2>2. CASE \E z \in Zones : Armed(z) \/ Alarm(z)
    BY <2>2 DEF Armed, Alarm, Stirs
  <2> QED BY <1>7, <2>1, <2>2 DEF RunningZones, Stirs
<1>8. CASE Execute
  BY <1>8 DEF Execute, Quiet
<1>9. CASE Restart
  BY <1>9 DEF Stirs
<1> QED BY <1>1, <1>2, <1>3, <1>4, <1>5, <1>6, <1>7, <1>8, <1>9 DEF Next

----------------------------------------------------------------------------
(* A disarmed zone stays disarmed.                                         *)

(* A countdown that reaches zero had begun. *)
LEMMA CountingDown ==
  ASSUME NEW c \in Nat \cup {-1}
  PROVE  (Decreased(c) = -1 <=> c = -1) /\ (Decreased(c) = 0 => c # -1)
BY DEF Decreased

LEMMA NextDisarmed == TypeOK /\ DisarmSticks /\ [Next]_vars => DisarmSticks'
<1> SUFFICES ASSUME TypeOK, DisarmSticks, [Next]_vars,
                    NEW z \in Zones, ~asked'[z]
             PROVE  sec_status'[z] = 0 /\ countdown'[z] = -1
  BY DEF DisarmSticks
<1> USE DEF zoneVars, outVars, dbVars, ghosts
<1> DEFINE Same == UNCHANGED <<sec_status, countdown, asked>>
<1>1. CASE Same
  BY <1>1 DEF DisarmSticks
<1>2. ASSUME NEW y \in Zones, Arm(y) PROVE sec_status'[z] = 0 /\ countdown'[z] = -1
  <2>1. z # y /\ ~asked[z]
    BY <1>2 DEF Arm, TypeOK
  <2> QED BY <1>2, <2>1 DEF Arm, DisarmSticks, TypeOK
<1>3. ASSUME NEW y \in Zones, Disarm(y) PROVE sec_status'[z] = 0 /\ countdown'[z] = -1
  BY <1>3 DEF Disarm, DisarmSticks, TypeOK
<1>4. ASSUME NEW s \in Sensors, NEW contact \in BOOLEAN, Motion(s, contact)
      PROVE  sec_status'[z] = 0 /\ countdown'[z] = -1
  <2>1. asked' = asked /\ sec_status' = sec_status
    BY <1>4 DEF Motion
  <2>2. sec_status[z] = 0 /\ countdown[z] = -1
    BY <2>1 DEF DisarmSticks
  <2>3. \A y \in Zones : sec_status[y] = 1 => y # z
    BY <2>2
  <2> QED BY <1>4, <2>1, <2>2, <2>3 DEF Motion, TypeOK
<1>5. CASE Tick
  <2>1. asked' = asked /\ sec_status' = sec_status
    BY <1>5 DEF Tick
  <2>2. sec_status[z] = 0 /\ countdown[z] = -1
    BY <2>1 DEF DisarmSticks
  <2> QED BY <1>5, <2>1, <2>2, CurrentZone, CountingDown DEF Tick, TypeOK
<1>6. ASSUME NEW y \in Zones, NEW status \in {1, 2}, Raise(y, status)
      PROVE  sec_status'[z] = 0 /\ countdown'[z] = -1
  <2>1. asked' = asked
    BY <1>6 DEF Raise
  <2>2. sec_status[z] = 0 /\ countdown[z] = -1
    BY <2>1 DEF DisarmSticks
  <2>3. countdown[y] # -1
    BY <1>6, CountingDown DEF Raise, TypeOK
  <2> QED BY <1>6, <2>2, <2>3 DEF Raise, TypeOK
<1>7. CASE Restart
  BY <1>7 DEF Restart
<1>8. Same \/ Stirs
  BY Steps DEF Quiet
<1> QED BY <1>1, <1>2, <1>3, <1>4, <1>5, <1>6, <1>7, <1>8 DEF Stirs

(* Once disarmed, a zone is neither armed nor put into alarm before it is  *)
(* armed again, although entries of it may be left in my_running_zone.     *)
THEOREM DisarmCorrect == Spec => []DisarmSticks
<1>1. Init => DisarmSticks
  BY DEF Init, DisarmSticks
<1> QED BY <1>1, InitType, NextType, NextDisarmed, PTL DEF Spec

----------------------------------------------------------------------------
(* A countdown is in my_running_zone. *)

LEMMA NextCountdown == TypeOK /\ CountdownRuns /\ [Next]_vars => CountdownRuns'
<1> SUFFICES ASSUME TypeOK, CountdownRuns, [Next]_vars,
                    NEW z \in Zones, countdown'[z] # -1
             PROVE  \E k \in DOMAIN running' : running'[k] = z
  BY DEF CountdownRuns
<1> USE DEF zoneVars, outVars, dbVars, ghosts
<1> DEFINE Goal == \E k \in DOMAIN running' : running'[k] = z
           Same == UNCHANGED <<countdown, running>>
<1>1. CASE Same
  BY <1>1 DEF CountdownRuns
<1>2. ASSUME NEW y \in Zones, running' = Append(running, y),
             countdown' = [countdown EXCEPT ![y] = WaitTime]
      PROVE  Goal
  <2>1. /\ Append(running, y) \in Seq(Zones) /\ Len(Append(running, y)) = Len(running) + 1
        /\ \A i \in 1..Len(running) : Append(running, y)[i] = running[i]
        /\ Append(running, y)[Len(running) + 1] = y
    BY AppendProperties DEF TypeOK
  <2>2. Len(running) \in Nat /\ DOMAIN running = 1..Len(running)
        /\ DOMAIN running' = 1..(Len(running) + 1)
    BY <1>2, <2>1, LenProperties DEF TypeOK
  <2>3. CASE z = y
    <3>1. Len(running) + 1 \in DOMAIN running'
      BY <2>2
    <3> QED BY <3>1, <2>1, <2>3, <1>2
  <2>4. CASE z # y
    <3>1. countdown[z] # -1
      BY <1>2, <2>4 DEF TypeOK
    <3>2. PICK i \in DOMAIN running : running[i] = z
      BY <3>1 DEF CountdownRuns
    <3>3. i \in DOMAIN running' /\ running'[i] = z
      BY <3>2, <2>1, <2>2, <1>2
    <3> QED BY <3>3
  <2> QED BY <2>3, <2>4
<1>3. ASSUME NEW y \in Zones, Arm(y) PROVE Goal
  BY <1>1, <1>2, <1>3 DEF Arm
<1>4. ASSUME NEW y \in Zones, Disarm(y) PROVE Goal
  <2>1. z # y /\ countdown[z] # -1
    BY <1>4 DEF Disarm, TypeOK
  <2>2. PICK i \in DOMAIN running : running[i] = z
    BY <2>1 DEF CountdownRuns
  <2> QED BY <1>4, <2>1, <2>2, FirstRemoved DEF Disarm, TypeOK
<1>5. ASSUME NEW s \in Sensors, NEW contact \in BOOLEAN, Motion(s, contact)
      PROVE  Goal
  <2>1. Same \/ \E y \in Zones : /\ running' = Append(running, y)
                               /\ countdown' = [countdown EXCEPT ![y] = WaitTime]
    BY <1>5 DEF Motion
  <2> QED BY <2>1, <1>1, <1>2
<1>6. CASE Tick
  <2>1. countdown[z] # -1
    BY <1>6, CurrentZone, CountingDown DEF Tick, TypeOK
  <2> QED BY <1>6, <2>1 DEF Tick, CountdownRuns
<1>7. ASSUME NEW y \in Zones, NEW status \in {1, 2}, Raise(y, status) PROVE Goal
  <2>1. z # y /\ countdown[z] # -1
    BY <1>7 DEF Raise, TypeOK
  <2>2. PICK i \in DOMAIN running : running[i] = z
    BY <2>1 DEF CountdownRuns
  <2>3. i # it /\ it \in 1..Len(running)
    BY <1>7, <2>1, <2>2, CurrentZone DEF Raise, Current
  <2> QED BY <1>7, <2>2, <2>3, Removed DEF Raise, TypeOK
<1>8. CASE Restart
  BY <1>8 DEF Restart
<1>9. Same \/ Stirs
  BY Steps DEF Quiet
<1> HIDE DEF Goal, Same
<1> QED BY <1>1, <1>3, <1>4, <1>5, <1>6, <1>7, <1>8, <1>9 DEF Goal, Stirs

(* No countdown is ever left without an entry in my_running_zone, however  *)
(* zones are entered twice, skipped and erased.                            *)
THEOREM CountdownCorrect == Spec => []CountdownRuns
<1>1. Init => CountdownRuns
  BY DEF Init, CountdownRuns
<1> QED BY <1>1, InitType, NextType, NextCountdown, PTL DEF Spec

----------------------------------------------------------------------------
(* An alarm needs two motions. *)

(* What is counted for an armed zone was started by a second motion, and   *)
(* a motion that is remembered was seen.                                   *)
MotionInv ==
  /\ \A z \in Zones : sec_status[z] = 1 /\ countdown[z] # -1 => motions[z] = 2
  /\ \A z \in recent : motions[z] # 0

LEMMA MotionMotions ==
  ASSUME TypeOK, MotionInv, NEW s \in Sensors, NEW contact \in BOOLEAN, Motion(s, contact)
  PROVE  MotionInv'
<1>1. /\ recent' = recent \cup Seen(s) /\ sec_status' = sec_status
      /\ motions' = [z \in Zones |-> IF z \in Seen(s) /\ motions[z] < 2 THEN motions[z] + 1
                                     ELSE motions[z]]
  BY DEF Motion
<1>2. \A z \in Zones : motions[z] \in 0..2
  BY DEF TypeOK
<1>3. \A z \in Zones : motions[z] = 2 => motions'[z] = 2
  BY <1>1, <1>2
<1>4. \A z \in Zones : motions[z] # 0 => motions'[z] # 0
  BY <1>1, <1>2
<1>5. \A z \in Zones : z \in Seen(s) => motions'[z] # 0
  BY <1>1, <1>2
<1>6. \A z \in Zones : z \in Seen(s) /\ motions[z] # 0 => motions'[z] = 2
  BY <1>1, <1>2
<1>7. ASSUME NEW z \in Zones, Hit(s, z) PROVE motions'[z] = 2
  <2>1. z \in Seen(s) /\ z \in recent
    BY <1>7 DEF Hit, Seen
  <2> QED BY <2>1, <1>6 DEF MotionInv
<1>8. \A z \in recent' : motions'[z] # 0
  BY <1>1, <1>4, <1>5 DEF MotionInv, TypeOK, Seen, Watching, Active
<1>9. ASSUME NEW z \in Zones, sec_status'[z] = 1, countdown'[z] # -1 PROVE motions'[z] = 2
  <2>1. CASE countdown[z] # -1
    BY <2>1, <1>9, <1>1, <1>3 DEF MotionInv
  <2>2. CASE countdown[z] = -1
    <3>1. Hit(s, z)
      BY <2>2, <1>9 DEF Motion, TypeOK
    <3> QED BY <3>1, <1>7
  <2> QED BY <2>1, <2>2
<1> QED BY <1>8, <1>9 DEF MotionInv

LEMMA NextMotions == TypeOK /\ MotionInv /\ [Next]_vars => MotionInv'
<1> SUFFICES ASSUME TypeOK, MotionInv, [Next]_vars PROVE MotionInv'
  OBVIOUS
<1> USE DEF zoneVars, outVars, dbVars, ghosts
<1> DEFINE Same == UNCHANGED <<sec_status, countdown, motions>> /\ recent' \subseteq recent
<1>1. CASE Same
  BY <1>1 DEF MotionInv
<1>2. ASSUME NEW y \in Zones, Arm(y) PROVE MotionInv'
  BY <1>2 DEF Arm, MotionInv, TypeOK
<1>3. ASSUME NEW y \in Zones, Disarm(y) PROVE MotionInv'
  BY <1>3 DEF Disarm, MotionInv, TypeOK
<1>4. CASE Tick
  <2>1. \A z \in Zones : countdown'[z] # -1 => countdown[z] # -1
    BY <1>4, CurrentZone, CountingDown DEF Tick, TypeOK
  <2> QED BY <1>4, <2>1 DEF Tick, MotionInv
<1>5. ASSUME NEW y \in Zones, NEW status \in {1, 2}, Raise(y, status) PROVE MotionInv'
  BY <1>5 DEF Raise, MotionInv, TypeOK
<1>6. CASE Restart
  BY <1>6 DEF Restart, MotionInv
<1>7. Same \/ Stirs
  BY Steps DEF Quiet
<1> QED BY <1>1, <1>2, <1>3, <1>4, <1>5, <1>6, <1>7, MotionMotions DEF Stirs

(* process_running_zone puts a zone into alarm only if it was armed and    *)
(* two motions were seen since then.                                       *)
THEOREM AlarmCorrect == Spec => AlarmNeedsTwoMotions
<1> DEFINE Justified == \A z \in Zones :
      sec_status[z] # 2 /\ sec_status'[z] = 2 /\ pc = "zones" /\ pc' = "zones"
        => sec_status[z] = 1 /\ motions[z] = 2
<1>1. Init => MotionInv
  BY DEF Init, MotionInv
<1>2. TypeOK /\ MotionInv /\ [Next]_vars => [Justified]_vars
  <2> SUFFICES ASSUME TypeOK, MotionInv, Next, NEW z \in Zones,
                      sec_status[z] # 2, sec_status'[z] = 2, pc = "zones", pc' = "zones"
               PROVE  sec_status[z] = 1 /\ motions[z] = 2
    OBVIOUS
  <2> USE DEF zoneVars, outVars, dbVars, ghosts
  <2>1. PICK y \in Zones : Armed(y) \/ Alarm(y)
    BY DEF Next, Requests, Request, AtIncoming, Gui, Arm, Disarm, AtZone, EndRequest, Motions,
           Motion, Delivery, Deliver, Seconds, Second, RunningZones, Tick, EndSecond, Execute,
           Restart
  <2>2. y = z /\ Alarm(z)
    BY <2>1 DEF Armed, Alarm, Raise, TypeOK
  <2>3. countdown[z] # -1 /\ sec_status[z] = 1
    BY <2>2, CountingDown DEF Alarm, Raise, TypeOK
  <2> QED BY <2>3 DEF MotionInv
<1>3. Spec => [](TypeOK /\ MotionInv)
  BY <1>1, InitType, NextType, NextMotions, PTL DEF Spec
<1>4. Spec => [][Justified]_vars
  <2> HIDE DEF Justified
  <2> QED BY <1>2, <1>3, PTL DEF Spec
<1> QED BY <1>4 DEF AlarmNeedsTwoMotions

----------------------------------------------------------------------------
(* The database follows the zones.                                         *)

Queries == Zones \X {0, 1, 2}
Places(q, z) == {i \in DOMAIN q : q[i][1] = z}
(* The last update of z in q, or d when there is none, is status. *)
Ends(q, d, z, status) ==
  IF Places(q, z) = {} THEN d = status
  ELSE \E i \in Places(q, z) : (\A j \in Places(q, z) : j <= i) /\ q[i][2] = status

LEMMA Appended ==
  ASSUME NEW q \in Seq(Queries), NEW d, NEW z \in Zones, NEW status \in {0, 1, 2}
  PROVE  /\ Ends(Append(q, <<z, status>>), d, z, status)
         /\ \A t : \A y \in Zones : y # z /\ Ends(q, d, y, t) => Ends(Append(q, <<z, status>>), d, y, t)
<1> DEFINE r == Append(q, <<z, status>>)
<1>1. <<z, status>> \in Queries
  BY DEF Queries
<1>2. /\ r \in Seq(Queries) /\ Len(r) = Len(q) + 1 /\ Len(q) \in Nat
      /\ \A i \in 1..Len(q) : r[i] = q[i]
      /\ r[Len(q) + 1] = <<z, status>>
  BY <1>1, AppendProperties, LenProperties
<1> HIDE DEF r
<1>3. DOMAIN r = 1..(Len(q) + 1) /\ DOMAIN q = 1..Len(q)
  BY <1>2, LenProperties
<1>4. Ends(r, d, z, status)
  <2>1. Len(q) + 1 \in Places(r, z) /\ r[Len(q) + 1][2] = status
    BY <1>2, <1>3 DEF Places
  <2>2. \A j \in Places(r, z) : j <= Len(q) + 1
    BY <1>2, <1>3 DEF Places
  <2> QED BY <2>1, <2>2 DEF Ends
<1>5. ASSUME NEW y \in Zones, NEW t, y # z, Ends(q, d, y, t) PROVE Ends(r, d, y, t)
  <2>1. \A i : i \in Places(r, y) <=> i \in Places(q, y)
    <3>1. r[Len(q) + 1][1] = z
      BY <1>2
    <3>2. \A i \in DOMAIN r : i = Len(q) + 1 \/ (i \in DOMAIN q /\ r[i] = q[i])
      BY <1>2, <1>3
    <3>3. \A i \in DOMAIN q : i \in DOMAIN r /\ r[i] = q[i]
      BY <1>2, <1>3
    <3> QED BY <1>5, <3>1, <3>2, <3>3 DEF Places
  <2>2. Places(r, y) = Places(q, y)
    BY <2>1
  <2>3. \A i \in Places(q, y) : r[i] = q[i]
    BY <1>2, <1>3 DEF Places
  <2> QED BY <1>5, <2>2, <2>3 DEF Ends
<1> QED BY <1>4, <1>5 DEF r

LEMMA Executed ==
  ASSUME NEW q \in Seq(Queries), q # <<>>, NEW d \in [Zones -> {0, 1, 2}],
         NEW y \in Zones, NEW t, Ends(q, d[y], y, t)
  PROVE  Ends(Tail(q), [d EXCEPT ![Head(q)[1]] = Head(q)[2]][y], y, t)
<1> DEFINE r == Tail(q)
           c == [d EXCEPT ![Head(q)[1]] = Head(q)[2]]
<1>1. /\ r \in Seq(Queries) /\ Len(r) = Len(q) - 1 /\ Len(q) \in Nat \ {0}
      /\ \A i \in 1..Len(r) : r[i] = q[i + 1]
      /\ Head(q) = q[1] /\ q[1] \in Queries
  BY HeadTailProperties, LenProperties, EmptySeq, ElementOfSeq
<1> HIDE DEF r
<1>2. DOMAIN r = 1..(Len(q) - 1) /\ DOMAIN q = 1..Len(q)
  BY <1>1, LenProperties
<1>3. c[y] = IF q[1][1] = y THEN q[1][2] ELSE d[y]
  BY <1>1 DEF Queries
<1>4. \A i \in Places(r, y) : i + 1 \in Places(q, y) /\ r[i] = q[i + 1] /\ i \in Nat
  BY <1>1, <1>2 DEF Places
<1>5. \A i \in Places(q, y) : i # 1 => i - 1 \in Places(r, y) /\ r[i - 1] = q[i] /\ i \in Nat
  <2>1. ASSUME NEW i \in Places(q, y), i # 1
        PROVE  i - 1 \in Places(r, y) /\ r[i - 1] = q[i] /\ i \in Nat
    <3>1. i \in Nat /\ i - 1 \in 1..(Len(q) - 1) /\ (i - 1) + 1 = i
      BY <2>1, <1>1, <1>2 DEF Places
    <3>2. r[i - 1] = q[i]
      BY <3>1, <1>1
    <3> QED BY <3>1, <3>2, <1>2 DEF Places
  <2> QED BY <2>1
<1>6. 1 \in Places(q, y) <=> q[1][1] = y
  BY <1>1, <1>2 DEF Places
<1> HIDE DEF c
<1>7. CASE Places(r, y) = {}
  <2>1. \A i \in Places(q, y) : i = 1
    BY <1>5, <1>7
  <2>2. c[y] = t
    BY <2>1, <1>3, <1>6 DEF Ends
  <2> QED BY <1>7, <2>2 DEF Ends, r, c
<1>8. CASE Places(r, y) # {}
  <2>1. PICK k \in Places(r, y) : TRUE
    BY <1>8
  <2>2. k + 1 \in Places(q, y) /\ k \in Nat \ {0}
    BY <1>4, <1>2, <2>1 DEF Places
  <2>3. PICK i \in Places(q, y) : (\A j \in Places(q, y) : j <= i) /\ q[i][2] = t
    BY <2>2 DEF Ends
  <2>4. i \in Nat /\ i # 1 /\ i - 1 \in Places(r, y) /\ r[i - 1] = q[i]
    <3>1. i \in Nat
      BY <1>1, <1>2 DEF Places
    <3>2. k + 1 <= i
      BY <2>2, <2>3
    <3>3. i # 1
      BY <2>2, <3>1, <3>2
    <3> QED BY <3>1, <3>3, <1>5
  <2>5. \A j \in Places(r, y) : j <= i - 1
    BY <2>3, <2>4, <1>4
  <2> QED BY <1>8, <2>3, <2>4, <2>5 DEF Ends, r
<1> QED BY <1>7, <1>8

(* No more queries fail than may. *)
StoredInv ==
  /\ budget["dbfail"] <= Budget["dbfail"]
  /\ budget["dbfail"] = Budget["dbfail"] => \A z \in Zones : Ends(dbq, db[z], z, sec_status[z])

LEMMA StoredByLast == StoredInv => StoredStatus
BY DEF StoredInv, StoredStatus, Ends, Places, Pending

LEMMA NextStored == TypeOK /\ StoredInv /\ [Next]_vars => StoredInv'
<1> SUFFICES ASSUME TypeOK, StoredInv, [Next]_vars PROVE StoredInv'
  OBVIOUS
<1> USE DEF zoneVars, outVars, dbVars, ghosts
<1>1. budget["dbfail"] \in Nat /\ Budget["dbfail"] \in Nat
      /\ \A e \in Events : budget[e] \in Nat
  BY EnvironmentAssumption DEF TypeOK, Events
<1>2. \A e \in Events : e # "dbfail" /\ Spend(e) => budget'["dbfail"] = budget["dbfail"]
  BY DEF Spend, TypeOK, Events
<1> DEFINE Same == UNCHANGED <<sec_status, dbq, db>> /\ budget'["dbfail"] = budget["dbfail"]
<1>3. CASE Same
  BY <1>3 DEF StoredInv
<1>4. ASSUME NEW y \in Zones, NEW status \in {0, 1, 2}, Store(y, status),
             sec_status' = [sec_status EXCEPT ![y] = status], UNCHANGED <<db, budget>>
      PROVE  StoredInv'
  <2>1. dbq \in Seq(Queries)
    BY DEF TypeOK, Queries
  <2>2. \A d : Ends(dbq', d, y, status)
    BY <1>4, <2>1, Appended DEF Store
  <2>3. \A d, t : \A z \in Zones : z # y /\ Ends(dbq, d, z, t) => Ends(dbq', d, z, t)
    BY <1>4, <2>1, Appended DEF Store
  <2>4. \A z \in Zones : sec_status'[z] = IF z = y THEN status ELSE sec_status[z]
    BY <1>4 DEF TypeOK
  <2> QED BY <1>4, <2>2, <2>3, <2>4 DEF StoredInv
<1>5. CASE Execute
  <2>1. dbq \in Seq(Queries) /\ dbq # <<>> /\ db \in [Zones -> {0, 1, 2}]
    BY <1>5 DEF Execute, TypeOK, Queries
  <2>2. CASE Spend("dbfail")
    <3>1. budget'["dbfail"] = budget["dbfail"] - 1
      BY <2>2 DEF Spend, TypeOK, Events
    <3> QED BY <3>1, <1>1 DEF StoredInv
  <2>3. CASE UNCHANGED budget /\ db' = [db EXCEPT ![Head(dbq)[1]] = Head(dbq)[2]]
    <3>1. \A t : \A z \in Zones : Ends(dbq, db[z], z, t) => Ends(dbq', db'[z], z, t)
      BY <1>5, <2>1, <2>3, Executed DEF Execute
    <3>2. sec_status' = sec_status
      BY <1>5 DEF Execute
    <3> QED BY <2>3, <3>1, <3>2 DEF StoredInv
  <2> QED BY <1>5, <2>2, <2>3 DEF Execute
<1>6. CASE Restart
  <2>1. budget'["dbfail"] = budget["dbfail"]
    BY <1>6, <1>2 DEF Restart, Events
  <2>2. dbq' = <<>> /\ db' = db /\ sec_status' = db
    BY <1>6 DEF Restart
  <2>3. \A z \in Zones : Ends(<<>>, db[z], z, db[z])
    BY DEF Ends, Places
  <2> QED BY <2>1, <2>2, <2>3 DEF StoredInv
<1>7. CASE Requests \/ Motions
  BY <1>7, <1>2, <1>3 DEF Requests, Request, Motions, Motion, Events
<1>8. CASE Gui
  <2>1. ASSUME NEW z \in Zones, Disarm(z) PROVE StoredInv'
    BY <2>1, <1>4 DEF Disarm
  <2> QED BY <1>8, <2>1, <1>3 DEF Gui, EndRequest, Arm
<1>9. CASE Delivery \/ Seconds
  BY <1>9, <1>3 DEF Delivery, Deliver, Seconds, Second
<1>10. CASE RunningZones
  <2>1. ASSUME NEW z \in Zones, Armed(z) \/ Alarm(z) PROVE StoredInv'
    BY <2>1, <1>4 DEF Armed, Alarm, Raise
  <2> QED BY <1>10, <2>1, <1>3 DEF RunningZones, Tick, EndSecond
<1>11. CASE UNCHANGED vars
  BY <1>11, <1>3 DEF vars
<1> QED BY <1>5, <1>6, <1>7, <1>8, <1>9, <1>10, <1>11 DEF Next

(* As long as no query fails, the rows of the database and the queue of    *)
(* the database thread together hold the status of every zone: a restart   *)
(* loses at most what was still queued.                                    *)
THEOREM StatusStored == Spec => []StoredStatus
<1>1. Init => StoredInv
  <2> SUFFICES ASSUME Init PROVE StoredInv
    OBVIOUS
  <2>1. dbq = <<>> /\ db = sec_status /\ budget = Budget
    BY DEF Init
  <2>2. Budget["dbfail"] \in Nat
    BY EnvironmentAssumption DEF Events
  <2>3. \A z \in Zones : Ends(<<>>, db[z], z, db[z])
    BY DEF Ends, Places
  <2> QED BY <2>1, <2>2, <2>3 DEF StoredInv
<1> QED BY <1>1, InitType, NextType, NextStored, StoredByLast, PTL DEF Spec

----------------------------------------------------------------------------
(* HpSecurity implements HpAlarmZone.                                      *)

PhaseMap == [z \in Zones |-> Phase(z)]

(* The phase of a zone depends on its status and its countdown only. *)
LEMMA SamePhase ==
  ASSUME NEW z \in Zones, UNCHANGED <<sec_status[z], countdown[z]>>
  PROVE  Phase(z)' = Phase(z)
BY DEF Phase

LEMMA PhaseValues ==
  ASSUME TypeOK, NEW z \in Zones
  PROVE  /\ Phase(z) = "off" <=> sec_status[z] = 0 /\ countdown[z] = -1
         /\ Phase(z) = "arming" <=> sec_status[z] = 0 /\ countdown[z] # -1
         /\ Phase(z) = "armed" <=> sec_status[z] = 1 /\ countdown[z] = -1
         /\ Phase(z) = "entry" <=> sec_status[z] = 1 /\ countdown[z] # -1
         /\ Phase(z) = "alarm" <=> sec_status[z] = 2
BY DEF Phase, TypeOK

LEMMA PhaseValuesNext ==
  ASSUME TypeOK', NEW z \in Zones
  PROVE  /\ Phase(z)' = "off" <=> sec_status'[z] = 0 /\ countdown'[z] = -1
         /\ Phase(z)' = "arming" <=> sec_status'[z] = 0 /\ countdown'[z] # -1
         /\ Phase(z)' = "armed" <=> sec_status'[z] = 1 /\ countdown'[z] = -1
         /\ Phase(z)' = "entry" <=> sec_status'[z] = 1 /\ countdown'[z] # -1
         /\ Phase(z)' = "alarm" <=> sec_status'[z] = 2
BY DEF Phase, TypeOK

(* When only zone y changes, so does the map. *)
LEMMA OnePhase ==
  ASSUME NEW y \in Zones,
         \A z \in Zones : z # y => UNCHANGED <<sec_status[z], countdown[z]>>
  PROVE  PhaseMap' = [PhaseMap EXCEPT ![y] = Phase(y)']
BY SamePhase DEF PhaseMap

LEMMA InitPromise == Init => Promise!Init
<1> SUFFICES ASSUME Init PROVE Promise!Init
  OBVIOUS
<1>1. \A z \in Zones : Phase(z) = "off"
  BY DEF Init, Phase
<1> QED BY <1>1 DEF Init, Promise!Init

LEMMA ArmPromise ==
  ASSUME TypeOK, TypeOK', NEW y \in Zones, Arm(y)
  PROVE  Promise!Arm(y)
<1> USE DEF zoneVars, outVars, dbVars, ghosts
<1>1. asked' = [asked EXCEPT ![y] = TRUE] /\ UNCHANGED <<motions, sec_status>>
  BY DEF Arm
<1>2. CASE sec_status[y] # 0
  <2>1. UNCHANGED countdown /\ Phase(y) # "off"
    BY <1>2, PhaseValues DEF Arm
  <2>2. PhaseMap' = PhaseMap /\ PhaseMap[y] # "off"
    BY <1>1, <2>1, SamePhase DEF PhaseMap
  <2> QED BY <1>1, <2>2 DEF Promise!Arm, PhaseMap
<1>3. CASE sec_status[y] = 0
  <2>1. countdown' = [countdown EXCEPT ![y] = WaitTime] /\ countdown'[y] # -1
    BY <1>3, SizeAssumption DEF Arm, TypeOK
  <2>2. Phase(y)' = "arming" /\ Phase(y) \in {"off", "arming"}
    BY <1>1, <1>3, <2>1, PhaseValues, PhaseValuesNext
  <2>3. PhaseMap' = [PhaseMap EXCEPT ![y] = "arming"]
    BY <1>1, <2>1, <2>2, OnePhase DEF TypeOK
  <2>4. CASE Phase(y) = "off"
    <3>1. PhaseMap[y] = "off"
      BY <2>4 DEF PhaseMap
    <3> QED BY <1>1, <2>3, <3>1 DEF Promise!Arm, Promise!Goes, PhaseMap
  <2>5. CASE Phase(y) = "arming"
    <3>1. PhaseMap[y] = "arming" /\ PhaseMap' = PhaseMap
      BY <2>3, <2>5 DEF PhaseMap
    <3> QED BY <1>1, <3>1 DEF Promise!Arm, PhaseMap
  <2> QED BY <2>2, <2>4, <2>5
<1> QED BY <1>2, <1>3

LEMMA DisarmPromise ==
  ASSUME TypeOK, TypeOK', NEW y \in Zones, Disarm(y)
  PROVE  Promise!Disarm(y)
<1> USE DEF zoneVars, outVars, dbVars, ghosts
<1>1. /\ asked' = [asked EXCEPT ![y] = FALSE] /\ motions' = [motions EXCEPT ![y] = 0]
      /\ sec_status' = [sec_status EXCEPT ![y] = 0] /\ countdown' = [countdown EXCEPT ![y] = -1]
  BY DEF Disarm
<1>2. Phase(y)' = "off"
  BY <1>1, PhaseValuesNext DEF TypeOK
<1>3. PhaseMap' = [PhaseMap EXCEPT ![y] = "off"]
  BY <1>1, <1>2, OnePhase DEF TypeOK
<1> QED BY <1>1, <1>3 DEF Promise!Disarm, PhaseMap

LEMMA ElapsePromise ==
  ASSUME TypeOK, TypeOK', NEW y \in Zones, Armed(y) \/ Alarm(y)
  PROVE  Promise!Elapse(y)
<1> USE DEF zoneVars, outVars, dbVars, ghosts
<1>1. PICK status \in {1, 2} : Raise(y, status) /\ sec_status[y] = status - 1
  BY DEF Armed, Alarm
<1>2. /\ UNCHANGED <<asked, motions>> /\ countdown[y] # -1
      /\ sec_status' = [sec_status EXCEPT ![y] = status] /\ countdown' = [countdown EXCEPT ![y] = -1]
  BY <1>1, CountingDown DEF Raise, TypeOK
<1>3. \/ Phase(y) = "arming" /\ Phase(y)' = "armed"
      \/ Phase(y) = "entry" /\ Phase(y)' = "alarm"
  <2>1. sec_status'[y] = status /\ countdown'[y] = -1 /\ sec_status[y] \in {0, 1}
    BY <1>1, <1>2 DEF TypeOK
  <2> QED BY <1>1, <1>2, <2>1, PhaseValues, PhaseValuesNext
<1>4. PhaseMap' = [PhaseMap EXCEPT ![y] = Phase(y)'] /\ PhaseMap[y] = Phase(y)
  BY <1>2, OnePhase DEF PhaseMap, TypeOK
<1> QED BY <1>2, <1>3, <1>4 DEF Promise!Elapse, Promise!Goes, PhaseMap

LEMMA NoticePromise ==
  ASSUME TypeOK, TypeOK', MotionInv, NEW s \in Sensors, NEW contact \in BOOLEAN,
         Motion(s, contact)
  PROVE  Promise!Notice(Seen(s))
<1> USE DEF zoneVars, outVars, dbVars, ghosts
<1>1. /\ motions' = [z \in Zones |-> IF z \in Seen(s) /\ motions[z] < 2 THEN motions[z] + 1
                                     ELSE motions[z]]
      /\ UNCHANGED <<asked, sec_status>>
  BY DEF Motion
<1>2. Seen(s) \subseteq Promise!Watchful
  <2>1. \A z \in Seen(s) : z \in Zones /\ sec_status[z] \in {1, 2}
    BY DEF Seen, Watching, Active
  <2>2. \A z \in Seen(s) : Phase(z) \in {"armed", "entry", "alarm"}
    BY <2>1, PhaseValues DEF TypeOK
  <2> QED BY <2>1, <2>2 DEF Promise!Watchful
<1>3. CASE UNCHANGED countdown
  <2>1. PhaseMap' = PhaseMap
    BY <1>1, <1>3, SamePhase DEF PhaseMap
  <2> QED BY <1>1, <1>2, <2>1 DEF Promise!Notice, PhaseMap
<1>4. CASE countdown' # countdown
  <2>1. PICK z \in Zones : /\ Hit(s, z) /\ sec_status[z] = 1
                           /\ countdown' = [countdown EXCEPT ![z] = WaitTime]
    BY <1>4 DEF Motion
  <2>2. z \in Seen(s) /\ z \in recent
    BY <2>1 DEF Hit, Seen
  <2>3. motions'[z] = 2
    BY <1>1, <2>2 DEF MotionInv, TypeOK
  <2>4. Phase(z)' = "entry" /\ Phase(z) \in {"armed", "entry"}
    <3>1. countdown'[z] # -1
      BY <2>1, SizeAssumption DEF TypeOK
    <3> QED BY <3>1, <1>1, <2>1, PhaseValues, PhaseValuesNext DEF TypeOK
  <2>5. PhaseMap' = [PhaseMap EXCEPT ![z] = "entry"] /\ PhaseMap[z] = Phase(z)
    BY <1>1, <2>1, <2>4, OnePhase DEF PhaseMap, TypeOK
  <2>6. CASE Phase(z) = "armed"
    BY <1>1, <1>2, <2>2, <2>3, <2>5, <2>6 DEF Promise!Notice, Promise!Goes, PhaseMap
  <2>7. CASE Phase(z) = "entry"
    <3>1. PhaseMap' = PhaseMap
      BY <2>5, <2>7 DEF PhaseMap
    <3> QED BY <1>1, <1>2, <3>1 DEF Promise!Notice, PhaseMap
  <2> QED BY <2>4, <2>6, <2>7
<1> QED BY <1>3, <1>4

LEMMA RestorePromise ==
  ASSUME TypeOK, TypeOK', Restart
  PROVE  Promise!Restore
<1>1. /\ sec_status' = db /\ countdown' = [z \in Zones |-> -1]
      /\ asked' = [z \in Zones |-> db[z] # 0] /\ motions' = [z \in Zones |-> 0]
  BY DEF Restart
<1> DEFINE stored(z) == IF db[z] = 0 THEN "off" ELSE IF db[z] = 1 THEN "armed" ELSE "alarm"
           after == [z \in Zones |-> stored(z)]
<1>2. ASSUME NEW z \in Zones PROVE Phase(z)' = stored(z)
  BY <1>1, PhaseValuesNext DEF TypeOK
<1>3. after \in [Zones -> {"off", "armed", "alarm"}] /\ PhaseMap' = after
  BY <1>2 DEF PhaseMap
<1>4. asked' = [z \in Zones |-> after[z] # "off"]
  BY <1>1
<1> HIDE DEF after
<1> QED BY <1>1, <1>3, <1>4 DEF Promise!Restore, PhaseMap

(* Every other step leaves the abstract zones alone. *)
LEMMA StutterPromise ==
  ASSUME UNCHANGED <<sec_status, asked, motions>>,
         \A z \in Zones : Phase(z)' = Phase(z)
  PROVE  UNCHANGED Promise!zones
BY DEF Promise!zones

LEMMA NextPromise ==
  TypeOK /\ TypeOK' /\ MotionInv /\ [Next]_vars => [Promise!Next]_(Promise!zones)
<1> SUFFICES ASSUME TypeOK, TypeOK', MotionInv, [Next]_vars
             PROVE  Promise!Next \/ UNCHANGED Promise!zones
  OBVIOUS
<1> USE DEF zoneVars, outVars, dbVars, ghosts
<1>1. CASE UNCHANGED <<sec_status, countdown, asked, motions>>
  BY <1>1, SamePhase, StutterPromise
<1>2. CASE Tick
  <2>1. \A z \in Zones : countdown'[z] = -1 <=> countdown[z] = -1
    BY <1>2, CurrentZone, CountingDown DEF Tick, TypeOK
  <2>2. \A z \in Zones : Phase(z)' = Phase(z)
    BY <1>2, <2>1 DEF Tick, Phase
  <2> QED BY <1>2, <2>2, StutterPromise DEF Tick
<1>3. ASSUME NEW y \in Zones, Armed(y) \/ Alarm(y) PROVE Promise!Next
  BY <1>3, ElapsePromise DEF Promise!Next
<1>4. CASE Motions
  <2>1. \A s \in Sensors : Seen(s) \in SUBSET Zones
    BY DEF Seen, Watching, Active
  <2> QED BY <1>4, <2>1, NoticePromise DEF Motions, Promise!Next
<1>5. CASE Gui
  BY <1>1, <1>5, ArmPromise, DisarmPromise DEF Gui, EndRequest, Promise!Next
<1>6. CASE Restart
  BY <1>6, RestorePromise DEF Promise!Next
<1>7. CASE UNCHANGED vars \/ Requests \/ Delivery \/ Seconds \/ EndSecond \/ Execute
  BY <1>1, <1>7 DEF vars, Requests, Request, Delivery, Deliver, Seconds, Second, EndSecond, Execute
<1> QED BY <1>2, <1>3, <1>4, <1>5, <1>6, <1>7 DEF Next, RunningZones

(* The alarm system keeps the promise of each of its zones. *)
THEOREM PromiseKept == Spec => KeepsPromise
<1>1. Init => MotionInv
  BY DEF Init, MotionInv
<1> QED
  BY <1>1, InitPromise, InitType, NextType, NextMotions, NextPromise, PTL
     DEF Spec, KeepsPromise, Promise!Spec

----------------------------------------------------------------------------
(* The light and the siren follow the zones, if outputs follow promptly.   *)

(* A restart loses the orders that are on their way.  Until then an event  *)
(* that changes a zone finds no order under way; the light gets its order  *)
(* at the end of the request or of the second.                             *)
RestartCounted == budget \in [Events -> Nat] /\ budget["restart"] <= Budget["restart"]
LightInv ==
  NoRestart =>
    /\ pc = "incoming" => \/ way[Light] = <<>> /\ pin[Light] = ArmedNow
                          \/ way[Light] = <<ArmedNow>>
    /\ pc # "incoming" => way[Light] = <<>>
    /\ pc = "zones" /\ ~check => pin[Light] = ArmedNow

(* The last order for an output says what it will be; a request gives none *)
(* but those that switch off.                                              *)
On(o) == IF way[o] = <<>> THEN pin[o] = "1" ELSE way[o][Len(way[o])] = "1"
Sounding(o) == \E z \in Zones : sec_status[z] = 2 /\ o \in ActorsOf[z]
SirenInv ==
  NoRestart => \A o \in Actors : /\ pc = "gui" => way[o] \in Seq({"0"})
                                 /\ On(o) => Sounding(o)

LEMMA RestartBudget ==
  ASSUME RestartCounted, [Next]_vars
  PROVE  RestartCounted' /\ (NoRestart' => NoRestart /\ ~Restart)
<1>1. "restart" \in Events /\ {"request", "motion", "dbfail"} \subseteq Events
  BY DEF Events
<1>2. Budget["restart"] \in Nat
  BY <1>1, EnvironmentAssumption
<1>3. ASSUME NEW x \in Events, Spend(x)
      PROVE  /\ budget' \in [Events -> Nat]
             /\ x # "restart" => budget'["restart"] = budget["restart"]
             /\ x = "restart" => budget'["restart"] < budget["restart"]
  <2>1. budget[x] \in Nat /\ budget[x] > 0 /\ budget' = [budget EXCEPT ![x] = budget[x] - 1]
    BY <1>3 DEF Spend, RestartCounted
  <2>2. budget[x] - 1 \in Nat /\ budget[x] - 1 < budget[x]
    BY <2>1
  <2> QED BY <1>1, <2>1, <2>2 DEF RestartCounted
<1>4. \/ UNCHANGED budget
      \/ \E x \in {"request", "motion", "dbfail"} : Spend(x)
      \/ Spend("restart") /\ Restart
  BY DEF Next, Requests, Request, Gui, EndRequest, Arm, Disarm, Motions, Motion, Delivery, Deliver, Seconds,
         Second, RunningZones, Tick, EndSecond, Armed, Alarm, Raise, Execute, Restart, vars
<1>5. Restart => Spend("restart")
  BY DEF Restart
<1>6. CASE UNCHANGED budget /\ ~Restart
  BY <1>6 DEF RestartCounted, NoRestart
<1>7. CASE (\E x \in {"request", "motion", "dbfail"} : Spend(x)) /\ ~Restart
  BY <1>1, <1>3, <1>7 DEF RestartCounted, NoRestart
<1>8. CASE Restart
  <2>1. budget' \in [Events -> Nat] /\ budget'["restart"] < budget["restart"]
    BY <1>1, <1>3, <1>5, <1>8
  <2>2. budget'["restart"] \in Nat /\ budget["restart"] \in Nat /\ budget["restart"] <= Budget["restart"]
    BY <1>1, <2>1 DEF RestartCounted
  <2> QED BY <1>2, <2>1, <2>2 DEF RestartCounted, NoRestart
<1> QED BY <1>4, <1>6, <1>7, <1>8

LEMMA LightActor == Light \in Outputs /\ Light \notin Actors /\ \A z \in Zones : Light \notin ActorsOf[z]
BY ConfigAssumption DEF Outputs

(* The order for the light that ends a request or a second. *)
LEMMA Signalled ==
  ASSUME TypeOK, way[Light] = <<>>, way' = Signal
  PROVE  \/ way'[Light] = <<>> /\ pin[Light] = ArmedNow
         \/ way'[Light] = <<ArmedNow>>
<1>1. Append(<<>>, ArmedNow) = <<ArmedNow>>
  OBVIOUS
<1> QED BY <1>1, LightActor DEF Signal, Order

LEMMA NextLight ==
  ASSUME TypeOK, RestartCounted, LightInv, Prompt, [Next]_vars
  PROVE  LightInv'
<1> SUFFICES ASSUME NoRestart'
             PROVE  /\ pc' = "incoming" => \/ way'[Light] = <<>> /\ pin'[Light] = ArmedNow'
                                           \/ way'[Light] = <<ArmedNow'>>
                    /\ pc' # "incoming" => way'[Light] = <<>>
                    /\ pc' = "zones" /\ ~check' => pin'[Light] = ArmedNow'
  BY DEF LightInv
<1> DEFINE Goal == /\ pc' = "incoming" => \/ way'[Light] = <<>> /\ pin'[Light] = ArmedNow'
                                          \/ way'[Light] = <<ArmedNow'>>
                   /\ pc' # "incoming" => way'[Light] = <<>>
                   /\ pc' = "zones" /\ ~check' => pin'[Light] = ArmedNow'
<1>1. /\ ~Restart
      /\ pc = "incoming" => \/ way[Light] = <<>> /\ pin[Light] = ArmedNow
                            \/ way[Light] = <<ArmedNow>>
      /\ pc # "incoming" => way[Light] = <<>>
      /\ pc = "zones" /\ ~check => pin[Light] = ArmedNow
  BY RestartBudget DEF LightInv
<1> USE DEF zoneVars, outVars, dbVars, ghosts
<1>2. sec_status' = sec_status => ArmedNow' = ArmedNow
  BY DEF ArmedNow
<1>3. AtIncoming => way[Light] = <<>> /\ pin[Light] = ArmedNow
  <2>1. <<ArmedNow>> # <<>>
    OBVIOUS
  <2> QED BY <1>1, <2>1, LightActor DEF AtIncoming
<1>4. \A outs \in SUBSET Actors, v \in {"0", "1"} : Order(outs, v)[Light] = way[Light]
  BY LightActor DEF Order
<1>5. \A z \in Zones : ActorsOf[z] \in SUBSET Actors
  BY ConfigAssumption
<1>6. CASE Requests
  BY <1>2, <1>3, <1>6 DEF Requests, Request
<1>7. CASE Gui
  <2>1. ASSUME NEW z \in Zones, Arm(z) PROVE Goal
    BY <1>1, <1>2, <2>1 DEF Arm, AtZone
  <2>2. ASSUME NEW z \in Zones, Disarm(z) PROVE Goal
    BY <1>1, <1>4, <1>5, <2>2 DEF Disarm, AtZone
  <2>3. CASE EndRequest
    BY <1>1, <1>2, <2>3, Signalled DEF EndRequest
  <2> QED BY <1>7, <2>1, <2>2, <2>3 DEF Gui
<1>8. CASE Motions
  <2>1. PICK s \in Sensors, contact \in BOOLEAN : Motion(s, contact)
    BY <1>8 DEF Motions
  <2>2. /\ AtIncoming /\ pc' = "incoming" /\ UNCHANGED <<sec_status, pin>>
        /\ UNCHANGED way \/ \E y \in Repeated(s) : way' = Order(ActorsOf[y], "1")
    BY <2>1 DEF Motion, AtIncoming
  <2>3. Repeated(s) \subseteq Zones
    <3>1. \A i \in DOMAIN running : running[i] \in Zones
      BY LenProperties, ElementOfSeq DEF TypeOK
    <3> QED BY <3>1 DEF Repeated
  <2> QED BY <1>2, <1>3, <1>4, <1>5, <2>2, <2>3
<1>9. CASE Delivery
  <2>1. PICK o \in Outputs : Deliver(o)
    BY <1>9 DEF Delivery
  <2>2. CASE o = Light
    <3>1. way[Light] = <<ArmedNow>>
      BY <1>1, <2>1, <2>2 DEF Deliver
    <3>2. Head(<<ArmedNow>>) = ArmedNow /\ Tail(<<ArmedNow>>) = <<>>
      OBVIOUS
    <3> QED BY <1>2, <2>1, <2>2, <3>1, <3>2 DEF Deliver, TypeOK
  <2>3. CASE o # Light
    BY <1>1, <1>2, <2>1, <2>3, LightActor DEF Deliver, TypeOK
  <2> QED BY <2>2, <2>3
<1>10. CASE Seconds
  BY <1>2, <1>3, <1>10 DEF Seconds, Second
<1>11. CASE RunningZones
  <2>1. CASE Tick
    BY <1>1, <1>2, <2>1 DEF Tick, AtRunning
  <2>2. CASE EndSecond
    BY <1>1, <1>2, <2>2, Signalled DEF EndSecond
  <2>3. ASSUME NEW z \in Zones, Armed(z) \/ Alarm(z) PROVE Goal
    <3>1. /\ pc = "zones" /\ pc' = "zones" /\ check' = TRUE
          /\ UNCHANGED way \/ way' = Order(ActorsOf[z], "1")
      BY <2>3 DEF Armed, Alarm, Raise, AtRunning
    <3> QED BY <1>1, <1>4, <1>5, <3>1
  <2> QED BY <1>11, <2>1, <2>2, <2>3 DEF RunningZones
<1>12. CASE Execute
  BY <1>1, <1>2, <1>12 DEF Execute
<1>13. CASE UNCHANGED vars
  BY <1>1, <1>2, <1>13 DEF vars
<1> QED BY <1>1, <1>6, <1>7, <1>8, <1>9, <1>10, <1>11, <1>12, <1>13 DEF Next

(* If outputs follow promptly, then until a restart the light shows        *)
(* whether a zone is armed, whatever was armed, disarmed and raised.       *)
THEOREM LightCorrect == ASSUME Prompt PROVE Spec => []LightFollows
<1>1. Init => RestartCounted /\ LightInv
  <2> SUFFICES ASSUME Init PROVE RestartCounted /\ LightInv
    OBVIOUS
  <2>1. ArmedNow = "0" /\ way[Light] = <<>> /\ pin[Light] = "0" /\ pc = "incoming"
    BY LightActor DEF Init, ArmedNow
  <2>2. Budget["restart"] \in Nat /\ budget = Budget
    BY EnvironmentAssumption DEF Init, Events
  <2> QED BY <2>1, <2>2, EnvironmentAssumption DEF LightInv, RestartCounted
<1>2. TypeOK /\ RestartCounted /\ LightInv /\ [Next]_vars => RestartCounted' /\ LightInv'
  BY RestartBudget, NextLight
<1>3. LightInv => LightFollows
  <2>1. <<ArmedNow>> # <<>>
    OBVIOUS
  <2> QED BY <2>1, LightActor DEF LightInv, LightFollows, Settled
<1> QED BY <1>1, <1>2, <1>3, InitType, NextType, PTL DEF Spec

(* What an order, and its execution, do to the last order of an output. *)
LEMMA Ordered ==
  ASSUME TypeOK, NEW outs, NEW v \in {"0", "1"}, way' = Order(outs, v), pin' = pin, NEW o \in Outputs
  PROVE  /\ o \in outs => (On(o)' <=> v = "1") \/ (pin[o] = v /\ way'[o] = way[o])
         /\ o \notin outs => way'[o] = way[o]
         /\ way'[o] = way[o] => (On(o)' <=> On(o))
         /\ v = "0" /\ way[o] \in Seq({"0"}) => way'[o] \in Seq({"0"})
<1>1. way[o] \in Seq({"0", "1"}) /\ way'[o] = IF o \in outs /\ pin[o] # v THEN Append(way[o], v) ELSE way[o]
  BY DEF TypeOK, Order
<1>2. way'[o] = way[o] => (On(o)' <=> On(o))
  BY DEF On
<1>3. CASE o \in outs /\ pin[o] # v
  <2>1. /\ way'[o] # <<>> /\ Len(way'[o]) = Len(way[o]) + 1 /\ way'[o][Len(way[o]) + 1] = v
    BY <1>1, <1>3, AppendProperties
  <2>2. v = "0" /\ way[o] \in Seq({"0"}) => way'[o] \in Seq({"0"})
    BY <1>1, <1>3, AppendProperties
  <2> QED BY <1>2, <1>3, <2>1, <2>2 DEF On
<1>4. CASE ~(o \in outs /\ pin[o] # v)
  BY <1>1, <1>2, <1>4
<1> QED BY <1>3, <1>4

LEMMA OnlyOff ==
  ASSUME NEW o, way[o] \in Seq({"0"}), pin[o] = "0"
  PROVE  ~On(o)
<1>1. way[o] # <<>> => Len(way[o]) \in 1..Len(way[o])
  BY LenProperties, EmptySeq
<1>2. way[o] # <<>> => way[o][Len(way[o])] = "0"
  BY <1>1, ElementOfSeq
<1> QED BY <1>2 DEF On

LEMMA NextSiren ==
  ASSUME TypeOK, RestartCounted, SirenInv, Prompt, Repeating = {}, [Next]_vars
  PROVE  SirenInv'
<1> SUFFICES ASSUME NoRestart', NEW o \in Actors
             PROVE  (pc' = "gui" => way'[o] \in Seq({"0"})) /\ (On(o)' => Sounding(o)')
  BY DEF SirenInv
<1> DEFINE Goal == (pc' = "gui" => way'[o] \in Seq({"0"})) /\ (On(o)' => Sounding(o)')
           Same == way'[o] = way[o] /\ pin'[o] = pin[o]
<1>1. /\ ~Restart /\ o \in Outputs
      /\ pc = "gui" => way[o] \in Seq({"0"})
      /\ On(o) => Sounding(o)
  BY RestartBudget DEF SirenInv, Outputs
<1> USE DEF zoneVars, outVars, dbVars, ghosts
<1>2. Same => (On(o)' <=> On(o))
  BY DEF On
<1>3. (\A z \in Zones : sec_status[z] = 2 => sec_status'[z] = 2) /\ Sounding(o) => Sounding(o)'
  BY DEF Sounding
<1>4. way' = Signal /\ pin' = pin => Same
  BY <1>1, LightActor DEF Signal, Order
<1>5. CASE Requests
  <2>1. /\ AtIncoming /\ UNCHANGED <<sec_status, way, pin>>
    BY <1>5 DEF Requests, Request
  <2>2. way'[o] \in Seq({"0"})
    BY <1>1, <2>1, EmptySeq DEF AtIncoming
  <2> QED BY <1>1, <1>2, <1>3, <2>1, <2>2
<1>6. CASE Gui
  <2>1. ASSUME NEW z \in Zones, Arm(z) PROVE Goal
    BY <1>1, <1>2, <1>3, <2>1 DEF Arm, AtZone
  <2>2. CASE EndRequest
    BY <1>1, <1>2, <1>3, <1>4, <2>2 DEF EndRequest
  <2>3. ASSUME NEW z \in Zones, Disarm(z) PROVE Goal
    <3>1. /\ pc = "gui" /\ pin' = pin /\ sec_status' = [sec_status EXCEPT ![z] = 0]
          /\ IF sec_status[z] = 2 THEN way' = Order(ActorsOf[z], "0") ELSE way' = way
      BY <2>3 DEF Disarm, AtZone
    <3>2. ASSUME Sounding(o), sec_status[z] # 2 \/ o \notin ActorsOf[z] PROVE Sounding(o)'
      BY <3>1, <3>2 DEF Sounding, TypeOK
    <3>3. CASE sec_status[z] # 2
      BY <1>1, <1>2, <3>1, <3>2, <3>3
    <3>4. CASE sec_status[z] = 2
      <4>1. way' = Order(ActorsOf[z], "0") /\ "0" \in {"0", "1"} /\ way[o] \in Seq({"0"})
        BY <1>1, <3>1, <3>4
      <4>2. /\ o \in ActorsOf[z] => ~On(o)' \/ (pin[o] = "0" /\ way'[o] = way[o])
            /\ o \notin ActorsOf[z] => way'[o] = way[o]
            /\ way'[o] = way[o] => (On(o)' <=> On(o))
            /\ way'[o] \in Seq({"0"})
        BY <1>1, <3>1, <4>1, Ordered
      <4>3. pin[o] = "0" => ~On(o)
        BY <4>1, OnlyOff
      <4> QED BY <1>1, <3>2, <4>2, <4>3
    <3> QED BY <3>3, <3>4
  <2> QED BY <1>6, <2>1, <2>2, <2>3 DEF Gui
<1>7. CASE Motions
  <2>1. PICK s \in Sensors, contact \in BOOLEAN : Motion(s, contact)
    BY <1>7 DEF Motions
  <2>2. pc' = "incoming" /\ UNCHANGED <<sec_status, pin, way>>
    BY <2>1 DEF Motion, AtIncoming, MayRepeat
  <2> QED BY <1>1, <1>2, <1>3, <2>2
<1>8. CASE Delivery
  <2>1. PICK d \in Outputs : Deliver(d)
    BY <1>8 DEF Delivery
  <2>2. pc' = "incoming" /\ sec_status' = sec_status /\ way[d] # <<>>
    BY <2>1 DEF Deliver
  <2>3. CASE d = o
    <3>1. PICK w \in Seq({"0", "1"}) : w = way[o]
      BY <1>1 DEF TypeOK
    <3>2. pin'[o] = Head(w) /\ way'[o] = Tail(w) /\ w # <<>>
      BY <1>1, <2>1, <2>3, <3>1 DEF Deliver, TypeOK
    <3>3. /\ Len(w) \in Nat \ {0} /\ Head(w) = w[1] /\ Len(Tail(w)) = Len(w) - 1
          /\ \A i \in 1..(Len(w) - 1) : Tail(w)[i] = w[i + 1]
      BY <3>2, HeadTailProperties, EmptySeq
    <3>4. On(o)' <=> On(o)
      <4>1. CASE Tail(w) = <<>>
        <5>1. Len(w) = 1
          <6>1. Len(Tail(w)) = 0
            BY <4>1, EmptySeq
          <6>2. Len(w) - 1 = 0
            BY <3>3, <6>1, Zenon
          <6>3. \A n \in Nat \ {0} : n - 1 = 0 => n = 1
            OBVIOUS
          <6> QED BY <3>3, <6>2, <6>3
        <5> QED BY <3>1, <3>2, <3>3, <4>1, <5>1 DEF On
      <4>2. CASE Tail(w) # <<>>
        <5>1. Len(w) - 1 \in 1..(Len(w) - 1)
          <6>1. Tail(w) \in Seq({"0", "1"})
            BY <3>2, HeadTailProperties
          <6>2. Len(Tail(w)) # 0
            BY <4>2, <6>1, EmptySeq
          <6> QED BY <3>3, <6>2
        <5>2. Tail(w)[Len(Tail(w))] = w[Len(w)]
          BY <3>3, <5>1
        <5> QED BY <3>1, <3>2, <4>2, <5>2 DEF On
      <4> QED BY <4>1, <4>2
    <3> QED BY <1>1, <1>3, <2>2, <3>4
  <2>4. CASE d # o
    BY <1>1, <1>2, <1>3, <2>1, <2>2, <2>4 DEF Deliver, TypeOK
  <2> QED BY <2>3, <2>4
<1>9. CASE Seconds
  BY <1>1, <1>2, <1>3, <1>9 DEF Seconds, Second
<1>10. CASE RunningZones
  <2>1. CASE Tick
    BY <1>1, <1>2, <1>3, <2>1 DEF Tick, AtRunning
  <2>2. CASE EndSecond
    BY <1>1, <1>2, <1>3, <1>4, <2>2 DEF EndSecond
  <2>3. ASSUME NEW z \in Zones, Armed(z) PROVE Goal
    <3>1. /\ pc' = "zones" /\ UNCHANGED <<way, pin>> /\ sec_status[z] = 0
          /\ sec_status' = [sec_status EXCEPT ![z] = 1]
      BY <2>3 DEF Armed, Raise, AtRunning
    <3>2. \A y \in Zones : sec_status[y] = 2 => sec_status'[y] = 2
      BY <3>1 DEF TypeOK
    <3> QED BY <1>1, <1>2, <1>3, <3>1, <3>2
  <2>4. ASSUME NEW z \in Zones, Alarm(z) PROVE Goal
    <3>1. /\ pc' = "zones" /\ way' = Order(ActorsOf[z], "1") /\ pin' = pin /\ "1" \in {"0", "1"}
          /\ sec_status' = [sec_status EXCEPT ![z] = 2]
      BY <2>4 DEF Alarm, Raise, AtRunning
    <3>2. (\A y \in Zones : sec_status[y] = 2 => sec_status'[y] = 2) /\ sec_status'[z] = 2
      BY <3>1 DEF TypeOK
    <3>3. CASE o \in ActorsOf[z]
      BY <3>1, <3>2, <3>3 DEF Sounding
    <3>4. CASE o \notin ActorsOf[z]
      BY <1>1, <1>3, <3>1, <3>2, <3>4, Ordered
    <3> QED BY <3>3, <3>4
  <2> QED BY <1>10, <2>1, <2>2, <2>3, <2>4 DEF RunningZones
<1>11. CASE Execute
  BY <1>1, <1>2, <1>3, <1>11 DEF Execute
<1>12. CASE UNCHANGED vars
  BY <1>1, <1>2, <1>3, <1>12 DEF vars
<1> QED BY <1>1, <1>5, <1>6, <1>7, <1>8, <1>9, <1>10, <1>11, <1>12 DEF Next

(* If outputs follow promptly and no zone repeats its alarm, then until a  *)
(* restart a siren is on only while a zone it belongs to is in alarm, also *)
(* when zones share it.                                                    *)
THEOREM SirenCorrect == ASSUME Prompt, Repeating = {} PROVE Spec => []SirenOnlyInAlarm
<1>1. Init => RestartCounted /\ SirenInv
  <2> SUFFICES ASSUME Init PROVE RestartCounted /\ SirenInv
    OBVIOUS
  <2>1. \A o \in Actors : way[o] = <<>> /\ pin[o] = "0" /\ pc = "incoming"
    BY DEF Init, Outputs
  <2>2. Budget["restart"] \in Nat /\ budget = Budget
    BY EnvironmentAssumption DEF Init, Events
  <2> QED BY <2>1, <2>2, EnvironmentAssumption DEF SirenInv, RestartCounted, On
<1>2. TypeOK /\ RestartCounted /\ SirenInv /\ [Next]_vars => RestartCounted' /\ SirenInv'
  BY RestartBudget, NextSiren
<1>3. SirenInv => SirenOnlyInAlarm
  BY DEF SirenInv, SirenOnlyInAlarm, Settled, On, Sounding, Outputs
<1> QED BY <1>1, <1>2, <1>3, InitType, NextType, PTL DEF Spec
=============================================================================
