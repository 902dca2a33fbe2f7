----------------------------- MODULE HpHeating -----------------------------
(***************************************************************************)
(* The heating of hp_go.  A section of the house has a wanted temperature  *)
(* and zones, each with a sensor, heaters (valves of hot water) and        *)
(* coolers; a boiler (the master switch) and a master cooler serve them    *)
(* all.  While a section does not heat, tempering opens its heaters for    *)
(* some minutes of every period, and its sensors are not listened to.      *)
(*                                                                         *)
(*   mode      hp2heating::my_heating_mode                                 *)
(*   query     hp_heating_section::my_query_temp, the wanted temperature   *)
(*   auto      my_auto_query_temp, the one of the thermostat's plan        *)
(*   eco       hp2heating::my_eco_temp                                     *)
(*   ref       my_ref_temp_value; temper, my_tempering_actived             *)
(*   zone      hp2heating_zone: my_actual_temp, my_direction and states    *)
(*   pin       my_status of the output pins, as the controllers report it  *)
(*   queued    the order for a pin that waits in hp_sender::my_messages    *)
(*   events    hp_go::my_delayed_events (HpDelayedEvents)                  *)
(*   clock     seconds of the period; pc, it: place in the main loop       *)
(*   plan      the table termostat: what it says for this time of day      *)
(*   measured  ghost: the last reading of a sensor                         *)
(*   unheard   ghost: zones whose last reading came while it was tempered  *)
(*   reheated  ghost: tempered sections that were told to heat             *)
(*   crossed   ghost: pins whose last order met another that was waiting,  *)
(*             or whose tempering ended while another zone heated          *)
(*   dry       ghost: minutes that found the boiler on, no valve open since *)
(*   budget    how many more external events the environment may cause     *)
(*                                                                         *)
(* Temperatures are in parts of a degree, DEGREE of them.  Orders are sent *)
(* and answered before the next request, reading or second (HpTransport    *)
(* is about the mesh); the messages have room for all pins, and no pin has *)
(* a timer of its own.  Sections heated through Modbus are left out.       *)
(***************************************************************************)
EXTENDS HpDelayedEvents, FiniteSets

CONSTANTS
  NumSections, NumZones, \* numbered in XML order; SectionOf[zone]
  SectionOf, SensorOf,   \* the section and the sensor of a zone
  Sensors, RefOf,        \* section -> its reference sensor
  HeaterList, CoolerList, \* pairs of a pin and its zone, in XML order
  Vents,                 \* section -> its main vents, a sequence of pins
  Pins, MASTER, COOLER,  \* all pins; the boiler and the master cooler
  Minutes,               \* section -> my_tempering_time, 0 if not enabled
  DIFF,                  \* my_heating_treshold
  TEMPERING,             \* HEATING_THRESH_TEMPERING
  DEGREE, MINUTE,        \* parts of a degree, seconds of a minute
  OSC,                   \* HEATING_OSC_PERIOD, in minutes
  Readings, Wanted,      \* temperatures that are read, and asked for
  DEFAULT,               \* the temperature at the start
  Budget                 \* bound: how often each external event may happen

Sections == 1..NumSections
Zones == 1..NumZones
Modes == {"off", "manual", "eco", "auto", "cooling"}
Inputs == {"any", "reading", "request", "mode", "plan"}
Temps == Readings \cup Wanted \cup {DEFAULT}
NONE == -1

ASSUME HeatingAssumption ==
  /\ NumSections \in Nat \ {0} /\ NumZones \in Nat
  /\ SectionOf \in [Zones -> Sections] /\ SensorOf \in [Zones -> Sensors]
  /\ RefOf \in [Sections -> Sensors] /\ Minutes \in [Sections -> Nat]
  /\ Pins \subseteq Nat \ {0} /\ {MASTER, COOLER} \subseteq Pins
  /\ HeaterList \in Seq(Pins \X Zones) /\ CoolerList \in Seq(Pins \X Zones)
  /\ Vents \in [Sections -> Seq(Pins)]
  /\ DIFF \in Nat /\ TEMPERING \in Nat
  /\ Readings \subseteq Nat /\ Wanted \subseteq Nat /\ DEFAULT \in Nat
  /\ DEGREE \in Nat \ {0} /\ MINUTE \in Nat \ {0} /\ OSC \in Nat \ {0}
  /\ Budget \in [Inputs -> Nat]

Heaters(z) == {x[1] : x \in {y \in ToSet(HeaterList) : y[2] = z}}
Coolers(z) == {x[1] : x \in {y \in ToSet(CoolerList) : y[2] = z}}
VentPins == {Vents[s][s] : s \in {x \in Sections : Vents[x] # <<>>}}

(* Zones follow one another as their sections do; check_heating finds a    *)
(* main vent at the place of its section; a tempered section has a heater, *)
(* and no pin has two uses.                                                *)
ASSUME LayoutAssumption ==
  /\ \A y, z \in Zones : y < z => SectionOf[y] <= SectionOf[z]
  /\ \A s \in Sections : Vents[s] = <<>> \/ s \in DOMAIN Vents[s]
  /\ \A s \in Sections : Minutes[s] # 0 => \E z \in Zones : SectionOf[z] = s /\ Heaters(z) # {}
  /\ \A z \in Zones : Heaters(z) \cap (VentPins \cup {MASTER, COOLER}) = {}
  /\ \A z \in Zones : Coolers(z) \cap (VentPins \cup {MASTER, COOLER}) = {}
  /\ \A y, z \in Zones : Heaters(y) \cap Coolers(z) = {}

VARIABLES mode, query, auto, eco, ref, temper, zone, pin, queued, events, clock, pc, it,
          plan, measured, unheard, reheated, crossed, dry, budget

wishes == <<mode, query, auto, eco>>
ghosts == <<unheard, reheated, crossed, dry>>
vars   == <<wishes, ref, temper, zone, pin, queued, events, clock, pc, it, plan, measured,
            ghosts, budget>>

----------------------------------------------------------------------------
(* hp_heating_section::process_section: what a zone does in mode m when    *)
(* temperature q is wanted.  Before it a mutated form: the threshold is    *)
(* added on the wrong side.                                                *)
HeatsLate(zn, q) == IF zn.dir = "up" THEN zn.actual < q ELSE zn.actual < q + DIFF
Heats(zn, q) == IF zn.dir = "up" THEN zn.actual < q ELSE zn.actual + DIFF < q
Cools(zn, q) == IF zn.dir = "down" THEN zn.actual > q ELSE zn.actual - DIFF > q
On(b) == IF b THEN 1 ELSE 0

Decided(zn, m, q) ==
  CASE m = "off" -> [zn EXCEPT !.heater = 0, !.cooler = 0]
    [] m = "eco" -> [zn EXCEPT !.heater = On(zn.actual < q), !.cooler = 0]
    [] m = "cooling" -> [zn EXCEPT !.heater = 0, !.cooler = On(Cools(zn, q)),
                                   !.dir = IF Cools(zn, q) THEN "down" ELSE "up"]
    [] OTHER -> [zn EXCEPT !.heater = On(Heats(zn, q)), !.cooler = 0,
                           !.dir = IF Heats(zn, q) THEN "up" ELSE "down"]

(* ... and the orders for its pins: of the side that does not work only    *)
(* when it has worked.  Before it a mutated form: the coolers are          *)
(* forgotten when the heaters take over.                                   *)
OrdersCoolersStay(z, zn, new, m) ==
  {<<h, new.heater>> : h \in {x \in Heaters(z) : m # "cooling" \/ zn.heater = 1}}
    \cup {<<c, new.cooler>> : c \in {x \in Coolers(z) : m \in {"off", "cooling"}}}
Orders(z, zn, new, m) ==
  {<<h, new.heater>> : h \in {x \in Heaters(z) : m # "cooling" \/ zn.heater = 1}}
    \cup {<<c, new.cooler>> : c \in {x \in Coolers(z) : m \in {"off", "cooling"} \/ zn.cooler = 1}}

(* The temperature a section aims at: the parameter for eco is an int.     *)
Whole(t) == t - (t % DEGREE)
Aims(m, qs, a, e) ==
  [s \in Sections |-> CASE m = "auto" -> a [] m = "eco" -> Whole(e) [] OTHER -> qs[s]]
Processed(zs, S, m, aims) ==
  [z \in Zones |-> IF z \in S THEN Decided(zs[z], m, aims[SectionOf[z]]) ELSE zs[z]]
OrdersOf(zs, S, m, aims) ==
  UNION {Orders(z, zs[z], Processed(zs, S, m, aims)[z], m) : z \in S}

Inside(s) == {z \in Zones : SectionOf[z] = s}
Heating(zs, s) == \E z \in Inside(s) : zs[z].heater = 1
Working(zs) == \E z \in Zones : zs[z].heater = 1 \/ zs[z].cooler = 1

----------------------------------------------------------------------------
(* hp_go::add_message: an order for the known status is dropped, and so is *)
(* one for a pin that waits already.                                       *)
Obey(orders) ==
  /\ queued' = [p \in Pins |-> IF queued[p] = NONE /\ <<p, 1 - pin[p]>> \in orders
                               THEN 1 - pin[p] ELSE queued[p]]
  /\ crossed' = {p \in Pins : \/ queued'[p] # NONE /\ <<p, pin[p]>> \in orders
                              \/ p \in crossed /\ {<<p, 0>>, <<p, 1>>} \cap orders = {}}

(* The delayed events: a section and a heater never read like one another  *)
(* nor like a temperature.                                                 *)
HeatEvent(s) == [type |-> "heat", var |-> -s, left |-> 1]
CheckEvent(t) == [type |-> "check", var |-> t, left |-> 1]
TemperEvent(p, s) == [type |-> "temper", var |-> -(NumSections + p), left |-> Minutes[s] * MINUTE]
HeaterOf(e) == -e.var - NumSections

(* hp_heating_section::check_tempering_start at minute min of the period.  *)
Start(s) == ((s - 1) * OSC) \div NumSections
Starts(zs, aims, min) ==
  {s \in Sections : /\ Minutes[s] # 0 /\ min = Start(s) /\ mode \in {"manual", "auto"}
                    /\ ref[s] <= aims[s] + TEMPERING /\ ~Heating(zs, s)}

(* get_tempering_data: an order and an event for each heater.              *)
Tempered(S) == Without(HeaterList, {x \in ToSet(HeaterList) : SectionOf[x[2]] \notin S})
TemperEvents(S) ==
  LET list == Tempered(S)
  IN [i \in DOMAIN list |-> TemperEvent(list[i][1], SectionOf[list[i][2]])]
TemperOrders(S) == {<<x[1], 1>> : x \in ToSet(Tempered(S))}

(* check_heating: the main vents (all orders of a section go to the vent   *)
(* at the place of the section), the boiler and the master cooler.  Before *)
(* the last a mutated form: they are switched on only.                     *)
VentOrders(zs) == {<<Vents[s][s], On(Heating(zs, s))>> : s \in {x \in Sections : Vents[x] # <<>>}}
MasterOrdersStay(zs) == IF Working(zs) THEN {<<IF mode = "cooling" THEN COOLER ELSE MASTER, 1>>} ELSE {}
MasterOrders(zs) == IF mode = "cooling" THEN {<<COOLER, On(Working(zs))>>, <<MASTER, 0>>}
                    ELSE {<<MASTER, On(Working(zs))>>, <<COOLER, 0>>}

Remembered(starts) ==
  reheated' = {s \in Sections : temper'[s] /\ (Heating(zone', s) \/ (s \in reheated /\ s \notin starts))}

(* hp_go::check_heating after the zones have become zs by these orders:    *)
(* set_auto_temp, tempering, vents and boiler; min is NONE when it is not  *)
(* a new minute, es the events that are left.                              *)
CheckHeating(zs, orders, es, min) ==
  LET all == IF mode = "auto" /\ auto # plan THEN Zones ELSE {}
      a == IF all = {} THEN auto ELSE plan
      aims == Aims(mode, query', a, eco)
      new == Processed(zs, all, mode, aims)
      starts == Starts(new, aims, min)
  IN /\ auto' = (IF mode = "auto" THEN plan ELSE auto)
     /\ zone' = new
     /\ temper' = [s \in Sections |-> temper[s] \/ s \in starts]
     /\ events' = es \o TemperEvents(starts)
     /\ Obey(orders \cup OrdersOf(zs, all, mode, aims)
               \cup TemperOrders(starts) \cup VentOrders(new) \cup MasterOrders(new))
     /\ Remembered(starts)

----------------------------------------------------------------------------
Init ==
  /\ mode = "off" /\ query = [s \in Sections |-> DEFAULT] /\ auto = DEFAULT /\ eco = DEFAULT
  /\ ref = [s \in Sections |-> DEFAULT] /\ temper = [s \in Sections |-> FALSE]
  /\ zone = [z \in Zones |-> [actual |-> DEFAULT, dir |-> "up", heater |-> 0, cooler |-> 0]]
  /\ pin = [p \in Pins |-> 0] /\ queued = [p \in Pins |-> NONE]
  /\ events = <<>> /\ clock = 0 /\ pc = "incoming" /\ it = 1
  /\ plan = DEFAULT /\ measured = [x \in Sensors |-> DEFAULT]
  /\ unheard = {} /\ reheated = {} /\ crossed = {} /\ dry = 0
  /\ budget = Budget

Aim == Aims(mode, query, auto, eco)
Spend(what) ==
  /\ budget[what] > 0 /\ budget["any"] > 0
  /\ budget' = [budget EXCEPT ![what] = @ - 1, !["any"] = @ - 1]
Settled == \A p \in Pins : queued[p] = NONE
Incoming == pc = "incoming" /\ Settled

(* A reading: hp2heating::process_section_temp.  A section that is being   *)
(* tempered only takes it for the reference.                               *)
Read(x, t) ==
  LET hears == {z \in Zones : SensorOf[z] = x /\ ~temper[SectionOf[z]]}
      zs == [z \in Zones |-> IF z \in hears THEN [zone[z] EXCEPT !.actual = t] ELSE zone[z]]
  IN /\ Incoming /\ Spend("reading")
     /\ measured' = [measured EXCEPT ![x] = t]
     /\ ref' = [s \in Sections |-> IF RefOf[s] = x THEN t ELSE ref[s]]
     /\ zone' = Processed(zs, hears, mode, Aim)
     /\ Obey(OrdersOf(zs, hears, mode, Aim))
     /\ unheard' = (unheard \cup {z \in Zones : SensorOf[z] = x}) \ hears
     /\ UNCHANGED <<wishes, temper, pin, events, clock, pc, it, plan, reheated, dry>>

(* check_heating_zones: all zones are processed.                           *)
ProcessAll ==
  /\ zone' = Processed(zone, Zones, mode', Aim')
  /\ Obey(OrdersOf(zone, Zones, mode', Aim'))
  /\ temper' = temper /\ Remembered({})

(* process_gui_temp_mess: the mode, ...                                    *)
PanelMode(m) ==
  /\ Incoming /\ Spend("mode")
  /\ mode' = m /\ UNCHANGED <<query, auto, eco>> /\ ProcessAll
  /\ UNCHANGED <<ref, pin, events, clock, pc, it, plan, measured, unheard, dry>>

(* ... the temperature of the mode eco, ...                                *)
PanelEco(t) ==
  /\ Incoming /\ Spend("request")
  /\ eco' = t /\ UNCHANGED <<mode, query, auto>> /\ ProcessAll
  /\ UNCHANGED <<ref, pin, events, clock, pc, it, plan, measured, unheard, dry>>

(* ... the wanted temperature of a section, ...                            *)
PanelSection(s, t) ==
  /\ Incoming /\ Spend("request")
  /\ query' = [query EXCEPT ![s] = t] /\ events' = Push(events, HeatEvent(s))
  /\ UNCHANGED <<mode, auto, eco, ref, temper, zone, pin, queued, clock, pc, it, plan, measured, ghosts>>

(* ... of all sections, ...                                                *)
PanelAll(t) ==
  /\ Incoming /\ Spend("request")
  /\ events' = Push(events, CheckEvent(t))
  /\ UNCHANGED <<wishes, ref, temper, zone, pin, queued, clock, pc, it, plan, measured, ghosts>>

(* ... the plan of the thermostat (process_thermostat_mess): the panel     *)
(* changes it, or a time of day begins that wants another temperature.     *)
Schedule(t) ==
  /\ Incoming /\ Spend("plan") /\ t # plan /\ plan' = t
  /\ UNCHANGED <<wishes, ref, temper, zone, pin, queued, events, clock, pc, it, measured, ghosts>>

----------------------------------------------------------------------------
(* The sender and the controllers. *)
Valves == UNION {Heaters(z) \cup Coolers(z) : z \in Zones}
Closed(pins) == \A v \in Valves : pins[v] = 0
Deliver ==
  /\ pc = "incoming" /\ ~Settled
  /\ pin' = [p \in Pins |-> IF queued[p] = NONE THEN pin[p] ELSE queued[p]]
  /\ queued' = [p \in Pins |-> NONE]
  /\ dry' = (IF Closed(pin') THEN dry ELSE 0)
  /\ UNCHANGED <<wishes, ref, temper, zone, events, clock, pc, it, plan, measured,
                 unheard, reheated, crossed, budget>>

(* The second: first the delayed events, then a new minute's check.        *)
Second ==
  /\ Incoming
  /\ clock' = (clock + 1) % (MINUTE * OSC) /\ events' = Aged(events)
  /\ pc' = "events"
  /\ UNCHANGED <<wishes, ref, temper, zone, pin, queued, it, plan, measured, ghosts, budget>>

AtEvent(type) ==
  /\ pc = "events" /\ it \in DOMAIN events /\ Due(events[it]) /\ events[it].type = type
  /\ it' = it + 1
Pass ==
  /\ pc = "events" /\ it \in DOMAIN events /\ ~Due(events[it]) /\ it' = it + 1
  /\ UNCHANGED <<wishes, ref, temper, zone, pin, queued, events, clock, pc, plan, measured, ghosts, budget>>

(* EVENT_MESS_HEATING: send2temp_messages, which processes the section     *)
(* though it be tempered, and check_heating.                               *)
RunHeat ==
  LET S == Inside(-events[it].var)
  IN /\ AtEvent("heat") /\ query' = query
     /\ CheckHeating(Processed(zone, S, mode, Aim), OrdersOf(zone, S, mode, Aim),
                     RemoveAt(events, it), NONE)
     /\ UNCHANGED <<mode, eco, ref, pin, clock, pc, plan, measured, unheard, dry, budget>>

(* EVENT_HEATING_CHECK *)
RunCheck ==
  LET all == [s \in Sections |-> events[it].var]
      aims == Aims(mode, all, auto, eco)
  IN
  /\ AtEvent("check") /\ query' = all
  /\ CheckHeating(Processed(zone, Zones, mode, aims), OrdersOf(zone, Zones, mode, aims),
                  RemoveAt(events, it), NONE)
  /\ UNCHANGED <<mode, eco, ref, pin, clock, pc, plan, measured, unheard, dry, budget>>

(* EVENT_HEATING_TEMPERING: deactivate_tempering finds the first section   *)
(* with the heater that does not heat; for another one nothing is done.    *)
(* Before it a mutated form: the section is not told.                      *)
Idle(h) == {s \in Sections : ~Heating(zone, s) /\ \E z \in Inside(s) : h \in Heaters(z)}
Wants(p) == \E z \in Zones : zone[z].heater = 1 /\ p \in Heaters(z)
RunTemperUntold ==
  LET h == HeaterOf(events[it])
  IN /\ AtEvent("temper") /\ events' = RemoveAt(events, it) /\ temper' = temper
     /\ IF Idle(h) = {} THEN UNCHANGED <<queued, crossed>> ELSE Obey({<<h, 0>>})
     /\ UNCHANGED <<wishes, ref, zone, pin, clock, pc, plan, measured, unheard, reheated, dry, budget>>
RunTemper ==
  LET h == HeaterOf(events[it])
  IN /\ AtEvent("temper") /\ events' = RemoveAt(events, it)
     /\ IF Idle(h) = {}
        THEN /\ crossed' = crossed \cup {p \in {h} : ~Wants(p)}
             /\ UNCHANGED <<temper, reheated, queued>>
        ELSE /\ temper' = [temper EXCEPT ![FirstOf(Idle(h))] = FALSE]
             /\ reheated' = reheated \ {FirstOf(Idle(h))}
             /\ Obey({<<h, 0>>})
     /\ UNCHANGED <<wishes, ref, zone, pin, clock, pc, plan, measured, unheard, dry, budget>>

EndEvents ==
  /\ pc = "events" /\ it \notin DOMAIN events /\ pc' = "minute" /\ it' = 1
  /\ UNCHANGED <<wishes, ref, temper, zone, pin, queued, events, clock, plan, measured, ghosts, budget>>

(* A new minute of the clock: check_heating with it.                       *)
Minute ==
  /\ pc = "minute" /\ clock % MINUTE = 0
  /\ query' = query /\ CheckHeating(zone, {}, events, clock \div MINUTE)
  /\ dry' = (IF pin[MASTER] = 0 \/ ~Closed(pin) \/ crossed # {} THEN 0 ELSE IF dry = 0 THEN 1 ELSE 2)
  /\ pc' = "incoming"
  /\ UNCHANGED <<mode, eco, ref, pin, clock, it, plan, measured, unheard, budget>>
NoMinute ==
  /\ pc = "minute" /\ clock % MINUTE # 0 /\ pc' = "incoming"
  /\ UNCHANGED <<wishes, ref, temper, zone, pin, queued, events, clock, it, plan, measured, ghosts, budget>>

----------------------------------------------------------------------------
Sensed == \E x \in Sensors, t \in Readings : Read(x, t)
Panel ==
  \/ \E m \in Modes : PanelMode(m)
  \/ \E s \in Sections, t \in Wanted : PanelSection(s, t)
  \/ \E t \in Wanted : PanelAll(t) \/ PanelEco(t) \/ Schedule(t)
Program == Deliver \/ Second \/ Pass \/ RunHeat \/ RunCheck \/ RunTemper \/ EndEvents
           \/ Minute \/ NoMinute
Next == Sensed \/ Panel \/ Program

Spec == Init /\ [][Next]_vars

(* The loop goes on for ever: Program can always take a step, so this is   *)
(* its weak fairness.  Nothing is assumed of sensors and of the panel.     *)
FairSpec == Spec /\ []<><<Program>>_vars

----------------------------------------------------------------------------
(* Properties *)

EventType ==
  [type : {"heat"}, var : {-s : s \in Sections}, left : Nat \cup {-1}]
    \cup [type : {"check"}, var : Temps, left : Nat \cup {-1}]
    \cup [type : {"temper"}, var : {-(NumSections + p) : p \in Pins}, left : Nat \cup {-1}]
Once(places) == \A i, j \in places : i = j
EventsOf(type, var) == {i \in DOMAIN events : events[i].type = type /\ events[i].var = var}

(* Every variable has its type: of the requests for a section, or for all, *)
(* that wait there is one.                                                 *)
TypeOK ==
  /\ mode \in Modes /\ query \in [Sections -> Temps] /\ auto \in Temps /\ eco \in Temps
  /\ ref \in [Sections -> Temps] /\ temper \in [Sections -> BOOLEAN]
  /\ zone \in [Zones -> [actual : Temps, dir : {"up", "down"}, heater : {0, 1}, cooler : {0, 1}]]
  /\ pin \in [Pins -> {0, 1}] /\ queued \in [Pins -> {NONE, 0, 1}]
  /\ events \in Seq(EventType)
  /\ \A s \in Sections : Once(EventsOf("heat", -s))
  /\ Once(UNION {EventsOf("check", t) : t \in Temps})
  /\ clock \in 0..(MINUTE * OSC - 1) /\ pc \in {"incoming", "events", "minute"} /\ it \in Nat \ {0}
  /\ plan \in Temps /\ measured \in [Sensors -> Temps]
  /\ unheard \subseteq Zones /\ reheated \subseteq Sections
  /\ crossed \subseteq Pins /\ dry \in 0..2 /\ budget \in [Inputs -> Nat]

(* No valve of a heater or cooler stands open without a reason: a zone     *)
(* that works with it, or a tempering that will end.  Left out are pins    *)
(* whose closing came to nothing and that got no order since: the sender   *)
(* dropped it, or the tempering ended while another zone of the section    *)
(* heated.                                                                 *)
ActorHasReason ==
  Settled =>
    \A z \in Zones :
      /\ \A h \in Heaters(z) \ crossed : pin[h] = 1 =>
           \/ Wants(h)
           \/ EventsOf("temper", -(NumSections + h)) # {}
      /\ \A c \in Coolers(z) \ crossed : pin[c] = 1 =>
           \E y \in Zones : zone[y].cooler = 1 /\ c \in Coolers(y)

(* No zone heats above the temperature its section aims at: its sensor     *)
(* said less, or the request has not been handled yet, or the reading came *)
(* while the section was tempered.                                         *)
NoOverheat ==
  \A z \in Zones : zone[z].heater = 1 =>
    \/ measured[SensorOf[z]] < Aim[SectionOf[z]]
    \/ EventsOf("heat", -SectionOf[z]) # {}
    \/ z \in unheard

(* The boiler never runs for two minutes against closed valves, unless the *)
(* sender dropped an order.                                                *)
BoilerHasOutlet == dry < 2

(* A tempering ends, unless the section was told to heat meanwhile.        *)
TemperingEnds == \A s \in Sections : []<>(~temper[s] \/ s \in reheated)
=============================================================================
