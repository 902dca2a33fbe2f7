----------------------------- MODULE HpWatering -----------------------------
(***************************************************************************)
(* The watering of the garden and the delayed events of hp_go that drive   *)
(* it.  A zone is a vector of valves; my_delayed_events holds what is to   *)
(* happen later: the closing of a valve and the next zone of the program   *)
(* that waters all zones one after the other.                              *)
(*                                                                         *)
(*   events        hp_go::my_delayed_events         (hp2go.cpp)            *)
(*   timer         hp_watering_zone::my_timer       (hp_watering_zone.h)   *)
(*   running       hp_watering_zone::my_running                            *)
(*   enabled       hp_watering::my_watering_enabled (hp_watering.cpp)      *)
(*   pin           my_status of the pins of the valves, as last reported   *)
(*   queued        a message for the pin waits in hp_sender::my_messages   *)
(*   unanswered    the controller has obeyed and its answer is not handled *)
(*   valve         the valves themselves: the world outside hp_go          *)
(*   todo          add_message calls a loop over valves still makes        *)
(*   pc, it        place in the main loop of hp_go::run                    *)
(*   programmed    ghost: a program was started and not stopped since      *)
(*   budget        how many more external events the environment may cause *)
(*                                                                         *)
(* One lap is "incoming" and, when a second has passed, "events"           *)
(* (process_delayed_events; "chain" while it opens the valves of a zone)   *)
(* and "minute" (check_watering).  "erase" is the loop of                  *)
(* erase_delayed_event that ends a program from the panel.                 *)
(*                                                                         *)
(* An event is due when its run_time is smaller than time(NULL); left is   *)
(* the difference of the two and -1 stands for every time in the past.     *)
(* The mesh is prompt and loses nothing: a message that waits at one       *)
(* second is obeyed and answered before the next one (what a late or lost  *)
(* answer does is the matter of HpTransport).  The pins of the valves have *)
(* no timer of their own and no rule hangs on them.                        *)
(***************************************************************************)
EXTENDS HpDelayedEvents, FiniteSets

CONSTANTS
  NumZones,          \* single zones are numbered 1..NumZones in XML order
  Valves,            \* positions of the valves' pins in hp_go::my_pins
  ValvesOf,          \* the actors of a zone, a sequence of valves
  FlagOf,            \* valve -> the zone whose ident is the valve's, or NoZone
  MINUTE,            \* seconds of a minute (60 in the code)
  GAP,               \* seconds between two zones of a program (5 in the code)
  Timers,            \* minutes the panel can set, 0 among them
  Temperatures,      \* temperatures the panel can ask for (whole degrees)
  Budget             \* bound: how often each external event may happen

Zones == 1..NumZones
NoZone == 0
ALL == 0             \* the zone of type ZONE_ALL, the last of my_wat_zones
NONE == -1
Inputs == {"program", "zone", "stop", "hold", "rain", "check"}

ASSUME WateringAssumption ==
  /\ NumZones \in Nat
  /\ Valves \subseteq Nat
  /\ ValvesOf \in [Zones -> Seq(Valves)]
  /\ FlagOf \in [Valves -> Zones \cup {NoZone}]
  /\ MINUTE \in Nat \ {0} /\ GAP \in Nat
  /\ Timers \subseteq Nat /\ Temperatures \subseteq Nat
  /\ Budget \in [Inputs -> Nat]

VARIABLES events, timer, running, enabled, pin, queued, unanswered, valve,
          todo, pc, it, programmed, budget

zoneVars == <<timer, running, enabled>>
outVars  == <<pin, queued, unanswered, valve>>
vars     == <<events, zoneVars, outVars, todo, pc, it, programmed, budget>>

----------------------------------------------------------------------------
(* Delayed events.  The types are EVENT_TIMER_CLOCK_MESS ("off", var is    *)
(* the position of a pin), EVENT_WAT_ALL_ZONE ("chain", var stands for the *)
(* list of the zones z..NumZones that are still to be watered and is -z:   *)
(* the list of idents never reads like a number) and EVENT_HEATING_CHECK   *)
(* ("check", var is a temperature), which reads like a position.           *)

OffEvent(p, d)   == [type |-> "off", var |-> p, left |-> d]
ChainEvent(z, d) == [type |-> "chain", var |-> -z, left |-> d]
CheckEvent(t, d) == [type |-> "check", var |-> t, left |-> d]

Delays == Nat \cup {-1}
DelayedEvent ==
  [type : {"off"}, var : Valves, left : Delays]
    \cup [type : {"chain"}, var : {-z : z \in Zones}, left : Delays]
    \cup [type : {"check"}, var : Temperatures, left : Delays]

----------------------------------------------------------------------------
(* Commands to valves *)

(* The calls of add_message that a loop over the actors of a zone makes.   *)
(* send stands for force_add: a message is sent always or only when it     *)
(* changes the known status.  off is create_off_mess, the seconds after    *)
(* which the valve closes.                                                 *)
Call == [zone : Zones \cup {NoZone}, place : Nat, valve : Valves, value : {0, 1},
         send : {"always", "changed"}, off : Nat]
Calls(z, value, send, off) ==
  {[zone |-> z, place |-> i, valve |-> ValvesOf[z][i], value |-> value,
    send |-> send, off |-> off] : i \in DOMAIN ValvesOf[z]}
CloseCall(p) ==
  [zone |-> NoZone, place |-> 0, valve |-> p, value |-> 0, send |-> "changed", off |-> 0]

Before(c, d) == c.zone < d.zone \/ (c.zone = d.zone /\ c.place <= d.place)

Idle(c) == pc = c /\ todo = {}

Spend(what) ==
  /\ budget[what] > 0
  /\ budget' = [budget EXCEPT ![what] = @ - 1]

(* hp_go::add_message for the next of the calls.  A value the pin already  *)
(* has is sent only when send is "always"; hp_sender drops a message for a *)
(* pin that one waits for (the messages have room for all the valves).     *)
AddMessage ==
  \E c \in todo :
    /\ \A d \in todo : Before(c, d)
    /\ queued' = IF (c.send = "always" \/ c.value # pin[c.valve]) /\ queued[c.valve] = NONE
                 THEN [queued EXCEPT ![c.valve] = c.value] ELSE queued
    /\ events' = IF c.off # 0 THEN Push(events, OffEvent(c.valve, c.off)) ELSE events
    /\ todo' = todo \ {c}
    /\ UNCHANGED <<zoneVars, pin, unanswered, valve, pc, it, programmed, budget>>

(* The mesh: the message leaves the sender and the controller switches.    *)
Follow(p) ==
  /\ Idle("incoming")
  /\ queued[p] # NONE /\ unanswered[p] = NONE
  /\ valve' = [valve EXCEPT ![p] = queued[p]]
  /\ unanswered' = [unanswered EXCEPT ![p] = queued[p]]
  /\ queued' = [queued EXCEPT ![p] = NONE]
  /\ UNCHANGED <<events, zoneVars, pin, todo, pc, it, programmed, budget>>

(* hp_go::process_act_mess for the answer of the controller. *)
Answer(p) ==
  /\ Idle("incoming")
  /\ unanswered[p] # NONE
  /\ pin' = [pin EXCEPT ![p] = unanswered[p]]
  /\ running' = [z \in Zones |-> IF FlagOf[p] = z THEN unanswered[p] ELSE running[z]]
  /\ unanswered' = [unanswered EXCEPT ![p] = NONE]
  /\ UNCHANGED <<events, timer, enabled, queued, valve, todo, pc, it, programmed, budget>>

----------------------------------------------------------------------------
(* Requests of the panel: hp_go::process_gui_wat_mess *)

(* "1" or "0" for a single zone; with a timer of 0 nothing happens. *)
PanelZone(z, value) ==
  /\ Idle("incoming")
  /\ timer[z] # 0
  /\ Spend("zone")
  /\ todo' = Calls(z, value, "always", IF value = 1 THEN timer[z] * MINUTE ELSE 0)
  /\ UNCHANGED <<events, zoneVars, outVars, pc, it, programmed>>

(* "1" for all zones *)
PanelProgram ==
  /\ Idle("incoming")
  /\ Spend("program")
  /\ events' = IF NumZones > 0 THEN Push(events, ChainEvent(1, 0)) ELSE events
  /\ programmed' = TRUE
  /\ UNCHANGED <<zoneVars, outVars, todo, pc, it>>

(* "0" for all zones: turn_off_wat_zone for each of them, then the program *)
(* is erased.                                                              *)
PanelStop ==
  /\ Idle("incoming")
  /\ Spend("stop")
  /\ todo' = UNION {Calls(z, 0, "changed", 0) : z \in {y \in Zones : running[y] # 0}}
  /\ pc' = "erase"
  /\ it' = 1
  /\ programmed' = FALSE
  /\ UNCHANGED <<events, zoneVars, outVars>>

(* hp_go::erase_delayed_event(EVENT_WAT_ALL_ZONE), one lap of its loop.    *)
(* The index is taken back after an erasure.  Before it three mutated      *)
(* forms: the index moves on, it is taken back one too many, and every     *)
(* type is erased.                                                         *)
EraseSkipping ==
  /\ Idle("erase")
  /\ it <= Len(events)
  /\ events' = IF events[it].type = "chain" THEN RemoveAt(events, it) ELSE events
  /\ it' = it + 1
  /\ UNCHANGED <<zoneVars, outVars, todo, pc, programmed, budget>>
EraseSteppingBack ==
  /\ Idle("erase")
  /\ it <= Len(events)
  /\ IF events[it].type = "chain"
     THEN events' = RemoveAt(events, it) /\ it' = it - 1
     ELSE it' = it + 1 /\ events' = events
  /\ UNCHANGED <<zoneVars, outVars, todo, pc, programmed, budget>>
EraseAny ==
  /\ Idle("erase")
  /\ it <= Len(events)
  /\ events' = RemoveAt(events, it)
  /\ UNCHANGED <<it, zoneVars, outVars, todo, pc, programmed, budget>>
Erase ==
  /\ Idle("erase")
  /\ it <= Len(events)
  /\ IF events[it].type = "chain"
     THEN events' = RemoveAt(events, it) /\ it' = it
     ELSE it' = it + 1 /\ events' = events
  /\ UNCHANGED <<zoneVars, outVars, todo, pc, programmed, budget>>

EraseEnd ==
  /\ Idle("erase")
  /\ it > Len(events)
  /\ pc' = "incoming"
  /\ UNCHANGED <<events, zoneVars, outVars, todo, it, programmed, budget>>

(* "hold": the minutes a zone is watered *)
PanelHold(z, t) ==
  /\ Idle("incoming")
  /\ Spend("hold")
  /\ timer' = [timer EXCEPT ![z] = t]
  /\ UNCHANGED <<events, running, enabled, outVars, todo, pc, it, programmed>>

(* hp_go::process_gui_temp_mess, a temperature for all zones of the        *)
(* heating: the event that checks the heating a second later.              *)
PanelTemperature(t) ==
  /\ Idle("incoming")
  /\ Spend("check")
  /\ events' = Push(events, CheckEvent(t, 1))
  /\ UNCHANGED <<zoneVars, outVars, todo, pc, it, programmed>>

(* A report of the rain sensor: hp_watering::setup_wat_enabled and the     *)
(* loop over its outputs.  The program is not erased.                      *)
Rain ==
  /\ Idle("incoming")
  /\ Spend("rain")
  /\ enabled' = FALSE
  /\ todo' = UNION {Calls(z, 0, "changed", 0) : z \in {y \in Zones : running[y] # 0}}
  /\ running' = [z \in Zones |-> 0]
  /\ UNCHANGED <<events, timer, outVars, pc, it, programmed>>
Dry ==
  /\ Idle("incoming")
  /\ ~enabled
  /\ enabled' = TRUE
  /\ UNCHANGED <<events, timer, running, outVars, todo, pc, it, programmed, budget>>

----------------------------------------------------------------------------
(* The second: hp_go::process_delayed_events.  An event that is handled is *)
(* erased at its place and the loop goes on behind it, so that the event   *)
(* that takes the place waits for the next second.                         *)

Settled == \A p \in Valves : queued[p] = NONE /\ unanswered[p] = NONE

Second ==
  /\ Idle("incoming")
  /\ Settled
  /\ events' = Aged(events)
  /\ pc' = "events"
  /\ it' = 1
  /\ UNCHANGED <<zoneVars, outVars, todo, programmed, budget>>

AtEvent(type) == /\ Idle("events") /\ it <= Len(events)
                 /\ Due(events[it]) /\ events[it].type = type

Pass ==
  /\ Idle("events")
  /\ it <= Len(events) /\ ~Due(events[it])
  /\ it' = it + 1
  /\ UNCHANGED <<events, zoneVars, outVars, todo, pc, programmed, budget>>

(* EVENT_TIMER_CLOCK_MESS: add_message(pin, "0").  Before it a mutated     *)
(* form: the position is read after the erasure, from the next event.      *)
RunOffLate ==
  /\ AtEvent("off")
  /\ todo' = IF it < Len(events) /\ events[it + 1].type = "off"
             THEN {CloseCall(events[it + 1].var)} ELSE {}
  /\ events' = RemoveAt(events, it)
  /\ it' = it + 1
  /\ UNCHANGED <<zoneVars, outVars, pc, programmed, budget>>
RunOff ==
  /\ AtEvent("off")
  /\ todo' = {CloseCall(events[it].var)}
  /\ events' = RemoveAt(events, it)
  /\ it' = it + 1
  /\ UNCHANGED <<zoneVars, outVars, pc, programmed, budget>>

(* EVENT_HEATING_CHECK: the heating is set anew; no valve is touched.      *)
RunCheck ==
  /\ AtEvent("check")
  /\ events' = RemoveAt(events, it)
  /\ it' = it + 1
  /\ UNCHANGED <<zoneVars, outVars, todo, pc, programmed, budget>>

(* EVENT_WAT_ALL_ZONE: the valves of the first zone of the list are opened *)
(* for the time of the zone ...  Before it a mutated form: create_off_mess *)
(* is left at its default.                                                 *)
RunChainUntimed ==
  /\ AtEvent("chain")
  /\ LET z == -events[it].var
     IN todo' = IF timer[z] = 0 THEN {} ELSE Calls(z, 1, "changed", 0)
  /\ pc' = "chain"
  /\ UNCHANGED <<events, zoneVars, outVars, it, programmed, budget>>
RunChain ==
  /\ AtEvent("chain")
  /\ LET z == -events[it].var
     IN todo' = IF timer[z] = 0 THEN {} ELSE Calls(z, 1, "changed", timer[z] * MINUTE)
  /\ pc' = "chain"
  /\ UNCHANGED <<events, zoneVars, outVars, it, programmed, budget>>

(* ... and the rest of the list is to follow when they have closed.        *)
(* Before it a mutated form: the pause between the zones is forgotten.     *)
RestOfChain(es, z, pause) ==
  IF z < NumZones THEN Push(es, ChainEvent(z + 1, timer[z] * MINUTE + pause)) ELSE es
ChainEndAtOnce ==
  /\ Idle("chain")
  /\ events' = RemoveAt(RestOfChain(events, -events[it].var, 0), it)
  /\ pc' = "events"
  /\ it' = it + 1
  /\ UNCHANGED <<zoneVars, outVars, todo, programmed, budget>>
ChainEnd ==
  /\ Idle("chain")
  /\ events' = RemoveAt(RestOfChain(events, -events[it].var, GAP), it)
  /\ pc' = "events"
  /\ it' = it + 1
  /\ UNCHANGED <<zoneVars, outVars, todo, programmed, budget>>

EndEvents ==
  /\ Idle("events")
  /\ it > Len(events)
  /\ pc' = "minute"
  /\ UNCHANGED <<events, zoneVars, outVars, todo, it, programmed, budget>>

(* hp_go::check_watering with hp_watering::check_start.  due are the zones *)
(* whose start time it is; a single zone starts when it has a time, but    *)
(* when the program is due as well its flag is all that is left of that.   *)
Started(due) == {z \in due \cap Zones : timer[z] > 0}

CalendarZones(due) ==
  /\ Idle("minute")
  /\ enabled /\ due # {} /\ ALL \notin due
  /\ Spend("zone")
  /\ running' = [z \in Zones |-> IF z \in Started(due) THEN 1 ELSE running[z]]
  /\ todo' = UNION {Calls(z, 1, "changed", timer[z] * MINUTE) : z \in Started(due)}
  /\ pc' = "incoming"
  /\ UNCHANGED <<events, timer, enabled, outVars, it, programmed>>

CalendarProgram(due) ==
  /\ Idle("minute")
  /\ enabled /\ ALL \in due
  /\ Spend("program")
  /\ running' = [z \in Zones |-> IF z \in Started(due) THEN 1 ELSE running[z]]
  /\ events' = IF NumZones > 0 THEN Push(events, ChainEvent(1, 0)) ELSE events
  /\ programmed' = TRUE
  /\ pc' = "incoming"
  /\ UNCHANGED <<timer, enabled, outVars, todo, it>>

NothingDue ==
  /\ Idle("minute")
  /\ pc' = "incoming"
  /\ UNCHANGED <<events, zoneVars, outVars, todo, it, programmed, budget>>

----------------------------------------------------------------------------
Init ==
  /\ events = <<>>
  /\ timer \in [Zones -> Timers]
  /\ running = [z \in Zones |-> 0]
  /\ enabled = TRUE
  /\ pin = [p \in Valves |-> 0]
  /\ queued = [p \in Valves |-> NONE]
  /\ unanswered = [p \in Valves |-> NONE]
  /\ valve = [p \in Valves |-> 0]
  /\ todo = {}
  /\ pc = "incoming"
  /\ it = 1
  /\ programmed = FALSE
  /\ budget = Budget

Panel ==
  \/ \E z \in Zones, value \in {0, 1} : PanelZone(z, value)
  \/ PanelProgram
  \/ PanelStop
  \/ \E z \in Zones, t \in Timers : PanelHold(z, t)
  \/ \E t \in Temperatures : PanelTemperature(t)

Mesh == \E p \in Valves : Follow(p) \/ Answer(p)
Sensor == Rain \/ Dry
Erasing == Erase \/ EraseEnd
DelayedEvents == Pass \/ RunOff \/ RunCheck \/ RunChain \/ ChainEnd \/ EndEvents
Calendar ==
  \/ \E due \in SUBSET Zones : CalendarZones(due) \/ CalendarProgram(due \cup {ALL})
  \/ NothingDue

Program == AddMessage \/ Erasing \/ Second \/ DelayedEvents \/ Calendar
Next == Program \/ Mesh \/ Panel \/ Sensor

Spec == Init /\ [][Next]_vars

(* The main loop goes on, seconds come, and the mesh delivers. *)
FairSpec == Spec /\ WF_vars(Program) /\ WF_vars(Mesh)

----------------------------------------------------------------------------
(* Properties *)

(* Every variable holds a value of its type in the code. *)
TypeOK ==
  /\ events \in Seq(DelayedEvent)
  /\ timer \in [Zones -> Timers]
  /\ running \in [Zones -> {0, 1}]
  /\ enabled \in BOOLEAN
  /\ pin \in [Valves -> {0, 1}]
  /\ queued \in [Valves -> {NONE, 0, 1}]
  /\ unanswered \in [Valves -> {NONE, 0, 1}]
  /\ valve \in [Valves -> {0, 1}]
  /\ todo \subseteq Call
  /\ pc \in {"incoming", "erase", "events", "chain", "minute"}
  /\ it \in Nat \ {0}
  /\ programmed \in BOOLEAN
  /\ budget \in [Inputs -> Nat]

(* A valve has one pending closing at most, however often it is opened     *)
(* again by zones, program and calendar: an older one left behind would    *)
(* cut the next watering short (push_delayed_event).                       *)
TimersUnique ==
  \A i, j \in DOMAIN events :
    events[i].type = "off" /\ events[j].type = "off" /\ events[i].var = events[j].var
      => i = j

Chains == {i \in DOMAIN events : events[i].type = "chain"}

(* After the program was stopped no rest of it is left, however many       *)
(* programs ran at once (erase_delayed_event called by                     *)
(* process_gui_wat_mess).                                                  *)
StopSticks == ~programmed /\ pc # "erase" => Chains = {}

HasTimer(p) == \E i \in DOMAIN events : events[i].type = "off" /\ events[i].var = p
Closing(p) == queued[p] = 0 \/ \E c \in todo : c.valve = p /\ c.value = 0

(* An open valve, or one about to open, has its closing scheduled or under *)
(* way, whatever is stopped, rained on or started again meanwhile.  The    *)
(* positions that are also a temperature are left out: their closing can   *)
(* be taken for the heating's event (push_delayed_event compares var).     *)
OpenIsTimed ==
  \A p \in Valves \ Temperatures :
    valve[p] = 1 \/ queued[p] = 1 => HasTimer(p) \/ Closing(p)

(* While one program runs and nobody starts a single zone, water runs in   *)
(* one zone at a time: the zone's valves have closed, the loop's skipped   *)
(* events included, before the next zone opens (EVENT_WAT_ALL_ZONE).       *)
Spent(what) == Budget[what] - budget[what]
OneZoneAtATime ==
  Spent("program") <= 1 /\ Spent("zone") = 0 =>
    \E z \in Zones \cup {NoZone} : \A p \in Valves \ Temperatures :
      valve[p] = 1 => z # NoZone /\ \E i \in DOMAIN ValvesOf[z] : ValvesOf[z][i] = p

(* Water that runs stops: an open valve closes, though the calls to open   *)
(* it again move its closing (process_delayed_events).                     *)
WateringEnds ==
  \A p \in Valves \ Temperatures : valve[p] = 1 ~> valve[p] = 0

=============================================================================
