-------------------------- MODULE HpWateringProofs --------------------------
(***************************************************************************)
(* Proofs about HpWatering, for every number of zones, every assignment of *)
(* valves to zones and every bound on the events.                          *)
(***************************************************************************)
EXTENDS HpWatering, HpLemmas, FiniteSetTheorems

(* What push_delayed_event makes of the vector. *)
LEMMA PushCases ==
  ASSUME NEW es \in Seq(DelayedEvent), NEW x \in DelayedEvent
  PROVE  \/ AlreadyThere(es, x) = {} /\ Push(es, x) = Append(es, x)
         \/ \E i \in AlreadyThere(es, x) :
              x.type = "off" /\ Push(es, x) = [es EXCEPT ![i] = [es[i] EXCEPT !.left = x.left]]
         \/ \E i \in AlreadyThere(es, x) :
              x.type = "check" /\ Push(es, x) = [es EXCEPT ![i] = [es[i] EXCEPT !.var = x.var]]
<1> DEFINE places == AlreadyThere(es, x)
<1>1. CASE places = {}
  BY <1>1 DEF Push
<1>2. CASE places # {}
  <2>1. places \subseteq Nat
    BY LenProperties DEF AlreadyThere
  <2>2. \E i \in places : \A j \in places : i <= j
    BY <1>2, <2>1, LeastExists
  <2>3. FirstOf(places) \in places
    BY <2>2 DEF FirstOf
  <2>4. x.type = "off" \/ x.type = "check"
    BY <1>2 DEF AlreadyThere, DelayedEvent
  <2> QED BY <1>2, <2>3, <2>4 DEF Push
<1> QED BY <1>1, <1>2

(* The kinds of delayed events, each with the type of its var. *)
LEMMA EventKinds ==
  ASSUME NEW e \in DelayedEvent
  PROVE  /\ e = [type |-> e.type, var |-> e.var, left |-> e.left]
         /\ e.left \in Delays /\ e.var \in Int
         /\ \/ e.type = "off" /\ e.var \in Valves
            \/ e.type = "chain" /\ -e.var \in Zones /\ e.var < 0
            \/ e.type = "check" /\ e.var \in Temperatures
         /\ \A d \in Delays : [e EXCEPT !.left = d] \in DelayedEvent
<1>1. Valves \subseteq Int /\ Temperatures \subseteq Int /\ \A z \in Zones : -z \in Int /\ -(-z) = z /\ -z < 0
  BY WateringAssumption DEF Zones
<1>2. CASE e \in [type : {"off"}, var : Valves, left : Delays]
  BY <1>1, <1>2 DEF DelayedEvent
<1>3. CASE e \in [type : {"chain"}, var : {-z : z \in Zones}, left : Delays]
  BY <1>1, <1>3 DEF DelayedEvent
<1>4. CASE e \in [type : {"check"}, var : Temperatures, left : Delays]
  BY <1>1, <1>4 DEF DelayedEvent
<1> QED BY <1>2, <1>3, <1>4 DEF DelayedEvent

LEMMA NewEvents ==
  /\ \A p \in Valves, d \in Nat : OffEvent(p, d) \in DelayedEvent
  /\ \A z \in Zones, d \in Nat : ChainEvent(z, d) \in DelayedEvent
  /\ \A t \in Temperatures, d \in Nat : CheckEvent(t, d) \in DelayedEvent
BY DEF OffEvent, ChainEvent, CheckEvent, DelayedEvent, Delays

(* A push keeps every event at its place and of its type, and its var is   *)
(* kept but for the temperature of a check.                                *)
LEMMA PushKeeps ==
  ASSUME NEW es \in Seq(DelayedEvent), NEW x \in DelayedEvent
  PROVE  /\ Push(es, x) \in Seq(DelayedEvent)
         /\ \A i \in DOMAIN es :
              /\ i \in DOMAIN Push(es, x)
              /\ Push(es, x)[i].type = es[i].type
              /\ es[i].type # "check" => Push(es, x)[i].var = es[i].var
<1>1. Len(es) \in Nat /\ DOMAIN es = 1..Len(es) /\ \A i \in DOMAIN es : es[i] \in DelayedEvent
  BY LenProperties, ElementOfSeq
<1>2. CASE AlreadyThere(es, x) = {} /\ Push(es, x) = Append(es, x)
  <2>1. /\ Append(es, x) \in Seq(DelayedEvent) /\ DOMAIN Append(es, x) = 1..(Len(es) + 1)
        /\ \A i \in 1..Len(es) : Append(es, x)[i] = es[i]
    BY <1>1, AppendProperties, LenProperties
  <2> QED BY <1>1, <1>2, <2>1
<1>3. ASSUME NEW i \in AlreadyThere(es, x), x.type = "off",
             Push(es, x) = [es EXCEPT ![i] = [es[i] EXCEPT !.left = x.left]]
      PROVE  /\ Push(es, x) \in Seq(DelayedEvent) /\ DOMAIN Push(es, x) = DOMAIN es
             /\ \A j \in DOMAIN es : Push(es, x)[j].type = es[j].type /\ Push(es, x)[j].var = es[j].var
  <2>1. i \in DOMAIN es /\ [es[i] EXCEPT !.left = x.left] \in DelayedEvent
        /\ [es[i] EXCEPT !.left = x.left] = [type |-> es[i].type, var |-> es[i].var, left |-> x.left]
    BY <1>1, EventKinds DEF AlreadyThere
  <2>2. [es EXCEPT ![i] = [es[i] EXCEPT !.left = x.left]] \in Seq(DelayedEvent)
    BY <2>1, ReplaceType
  <2> QED BY <1>3, <2>1, <2>2
<1>4. ASSUME NEW i \in AlreadyThere(es, x), x.type = "check",
             Push(es, x) = [es EXCEPT ![i] = [es[i] EXCEPT !.var = x.var]]
      PROVE  /\ Push(es, x) \in Seq(DelayedEvent) /\ DOMAIN Push(es, x) = DOMAIN es
             /\ \A j \in DOMAIN es :
                  /\ Push(es, x)[j].type = es[j].type
                  /\ es[j].type # "check" => Push(es, x)[j].var = es[j].var
  <2>1. i \in DOMAIN es /\ es[i].type = "check" /\ x.var \in Temperatures
    BY <1>1, <1>4, EventKinds DEF AlreadyThere
  <2>2. [es[i] EXCEPT !.var = x.var] = [type |-> "check", var |-> x.var, left |-> es[i].left]
        /\ es[i].left \in Delays
    BY <1>1, <2>1, EventKinds
  <2>3. [es[i] EXCEPT !.var = x.var] \in DelayedEvent
    BY <2>1, <2>2 DEF DelayedEvent
  <2>4. [es EXCEPT ![i] = [es[i] EXCEPT !.var = x.var]] \in Seq(DelayedEvent)
    BY <2>1, <2>3, ReplaceType
  <2> QED BY <1>4, <2>1, <2>2, <2>4
<1> QED BY <1>2, <1>3, <1>4, PushCases

(* A chain event is always added at the end. *)
LEMMA PushChain ==
  ASSUME NEW es \in Seq(DelayedEvent), NEW z \in Zones, NEW d \in Nat
  PROVE  Push(es, ChainEvent(z, d)) = Append(es, ChainEvent(z, d))
BY DEF Push, AlreadyThere, ChainEvent

LEMMA AgedKeeps ==
  ASSUME NEW es \in Seq(DelayedEvent)
  PROVE  /\ Aged(es) \in Seq(DelayedEvent) /\ DOMAIN Aged(es) = DOMAIN es
         /\ \A i \in DOMAIN es : Aged(es)[i].type = es[i].type /\ Aged(es)[i].var = es[i].var
<1> DEFINE older(i) == IF es[i].left < 0 THEN -1 ELSE es[i].left - 1
<1>1. Len(es) \in Nat /\ DOMAIN es = 1..Len(es) /\ \A i \in DOMAIN es : es[i] \in DelayedEvent
  BY LenProperties, ElementOfSeq
<1>2. \A i \in DOMAIN es : older(i) \in Delays
  BY <1>1, EventKinds DEF Delays
<1>3. \A i \in DOMAIN es : Aged(es)[i] = [es[i] EXCEPT !.left = older(i)]
  BY DEF Aged
<1>4. DOMAIN Aged(es) = 1..Len(es)
  BY <1>1 DEF Aged
<1> HIDE DEF older
<1>5. ASSUME NEW i \in DOMAIN es
      PROVE  /\ Aged(es)[i] \in DelayedEvent
             /\ Aged(es)[i].type = es[i].type /\ Aged(es)[i].var = es[i].var
  <2>1. es[i] \in DelayedEvent /\ older(i) \in Delays
    BY <1>1, <1>2
  <2>2. Aged(es)[i] = [es[i] EXCEPT !.left = older(i)]
    BY <1>3
  <2>3. es[i] = [type |-> es[i].type, var |-> es[i].var, left |-> es[i].left]
    BY <2>1, EventKinds
  <2>4. [es[i] EXCEPT !.left = older(i)] \in DelayedEvent
    BY <2>1, EventKinds
  <2>5. [es[i] EXCEPT !.left = older(i)] = [type |-> es[i].type, var |-> es[i].var, left |-> older(i)]
    BY <2>3
  <2> QED BY <2>2, <2>4, <2>5
<1>6. Aged(es) = [i \in 1..Len(es) |-> Aged(es)[i]]
  BY <1>1 DEF Aged
<1>7. Aged(es) \in [1..Len(es) -> DelayedEvent]
  BY <1>1, <1>5, <1>6
<1> QED BY <1>1, <1>4, <1>5, <1>7, FunctionIsSeq
----------------------------------------------------------------------------
(* Types *)

LEMMA Minutes ==
  /\ MINUTE \in Nat /\ MINUTE > 0
  /\ \A t \in Nat : t * MINUTE \in Nat /\ (t # 0 => t * MINUTE # 0)
<1>1. MINUTE \in Nat /\ MINUTE > 0
  BY WateringAssumption
<1>2. ASSUME NEW t \in Nat PROVE t * MINUTE \in Nat /\ (t # 0 => t * MINUTE # 0)
  BY <1>1, <1>2
<1> QED BY <1>1, <1>2

LEMMA CallsType ==
  ASSUME NEW z \in Zones, NEW value \in {0, 1}, NEW send \in {"always", "changed"}, NEW off \in Nat
  PROVE  /\ Calls(z, value, send, off) \subseteq Call
         /\ \A c \in Calls(z, value, send, off) :
              c.zone # NoZone /\ c.value = value /\ c.off = off
<1>1. ValvesOf[z] \in Seq(Valves)
  BY WateringAssumption
<1>2. \A i \in DOMAIN ValvesOf[z] : i \in Nat /\ ValvesOf[z][i] \in Valves
  BY <1>1, LenProperties, ElementOfSeq
<1> QED BY <1>2 DEF Calls, Call, Zones, NoZone

LEMMA CloseCallType == \A p \in Valves : CloseCall(p) \in Call
BY DEF CloseCall, Call, NoZone

(* With the place of the chain event that is being handled. *)
TypeInv ==
  /\ TypeOK
  /\ pc = "chain" => it \in DOMAIN events /\ events[it].type = "chain"

(* The event at place it, and the vector without it. *)
LEMMA CurrentEvent ==
  ASSUME TypeOK, it <= Len(events)
  PROVE  /\ it \in DOMAIN events /\ it \in 1..Len(events)
         /\ events[it] \in DelayedEvent
         /\ RemoveAt(events, it) \in Seq(DelayedEvent)
<1>1. it \in 1..Len(events) /\ DOMAIN events = 1..Len(events)
  BY LenProperties DEF TypeOK
<1> QED BY <1>1, ElementOfSeq, Removed DEF TypeOK

(* The vector when the chain event at place it has been handled. *)
LEMMA ChainHandled ==
  ASSUME TypeInv, pc = "chain", NEW rest, rest = RestOfChain(events, -events[it].var, GAP)
  PROVE  /\ -events[it].var \in Zones
         /\ rest \in Seq(DelayedEvent)
         /\ it \in 1..Len(rest)
         /\ \A i \in DOMAIN events : i \in DOMAIN rest /\ rest[i] = events[i]
         /\ \A i \in DOMAIN rest : rest[i].type = "off" => i \in DOMAIN events /\ rest[i] = events[i]
         /\ RemoveAt(rest, it) \in Seq(DelayedEvent)
<1> DEFINE z == -events[it].var
           d == timer[z] * MINUTE + GAP
<1>1. /\ events \in Seq(DelayedEvent) /\ it \in DOMAIN events
      /\ events[it] \in DelayedEvent /\ events[it].type = "chain"
  BY ElementOfSeq, LenProperties DEF TypeInv, TypeOK
<1>2. z \in Zones
  BY <1>1, EventKinds
<1>3. timer[z] \in Nat
  BY <1>2, WateringAssumption DEF TypeInv, TypeOK
<1>4. d \in Nat
  <2>1. timer[z] * MINUTE \in Nat /\ GAP \in Nat
    BY <1>3, Minutes, WateringAssumption
  <2>2. \A m, n \in Nat : m + n \in Nat
    OBVIOUS
  <2> QED BY <2>1, <2>2
<1> HIDE DEF d
<1>5. CASE z < NumZones
  <2>1. z + 1 \in Zones
    BY <1>2, <1>5, WateringAssumption DEF Zones
  <2>2. rest = Append(events, ChainEvent(z + 1, d))
    BY <1>1, <1>4, <1>5, <2>1, PushChain DEF RestOfChain, d
  <2>3. ChainEvent(z + 1, d) \in DelayedEvent /\ ChainEvent(z + 1, d).type = "chain"
    BY <1>4, <2>1, NewEvents DEF ChainEvent
  <2>4. /\ rest \in Seq(DelayedEvent) /\ DOMAIN rest = 1..(Len(events) + 1)
        /\ \A i \in 1..Len(events) : rest[i] = events[i]
        /\ rest[Len(events) + 1] = ChainEvent(z + 1, d)
    BY <1>1, <2>2, <2>3, AppendProperties, LenProperties
  <2>5. Len(events) \in Nat /\ DOMAIN events = 1..Len(events) /\ Len(rest) = Len(events) + 1
    BY <1>1, <2>2, <2>3, LenProperties, AppendProperties
  <2>6. it \in 1..Len(rest)
    BY <1>1, <2>5
  <2> QED BY <1>2, <2>3, <2>4, <2>5, <2>6, Removed
<1>6. CASE ~(z < NumZones)
  <2>1. rest = events
    BY <1>6 DEF RestOfChain
  <2> QED BY <1>1, <1>2, <2>1, LenProperties, Removed
<1> QED BY <1>5, <1>6

LEMMA SpendType ==
  ASSUME TypeOK, NEW what \in Inputs, Spend(what)
  PROVE  budget' \in [Inputs -> Nat]
BY DEF TypeOK, Spend

LEMMA InitType == Init => TypeInv
<1> SUFFICES ASSUME Init PROVE TypeInv
  OBVIOUS
<1>1. events \in Seq(DelayedEvent)
  BY EmptySeq DEF Init
<1>2. /\ timer \in [Zones -> Timers] /\ running \in [Zones -> {0, 1}]
      /\ pin \in [Valves -> {0, 1}] /\ valve \in [Valves -> {0, 1}]
      /\ queued \in [Valves -> {NONE, 0, 1}] /\ unanswered \in [Valves -> {NONE, 0, 1}]
  BY DEF Init
<1>3. /\ todo \subseteq Call /\ pc = "incoming" /\ it \in Nat \ {0}
      /\ budget \in [Inputs -> Nat]
  BY WateringAssumption DEF Init
<1>4. enabled \in BOOLEAN /\ programmed \in BOOLEAN
  BY Zenon DEF Init
<1> QED BY <1>1, <1>2, <1>3, <1>4 DEF TypeInv, TypeOK

LEMMA AddMessageType ==
  ASSUME TypeInv, AddMessage
  PROVE  TypeInv'
<1>1. PICK c \in todo :
        /\ queued' = IF (c.send = "always" \/ c.value # pin[c.valve]) /\ queued[c.valve] = NONE
                     THEN [queued EXCEPT ![c.valve] = c.value] ELSE queued
        /\ events' = IF c.off # 0 THEN Push(events, OffEvent(c.valve, c.off)) ELSE events
        /\ todo' = todo \ {c}
  BY DEF AddMessage
<1>2. c.valve \in Valves /\ c.off \in Nat /\ c.value \in {0, 1}
  BY <1>1 DEF TypeInv, TypeOK, Call
<1>3. /\ events' \in Seq(DelayedEvent)
      /\ \A i \in DOMAIN events : i \in DOMAIN events' /\ events'[i].type = events[i].type
  <2>1. OffEvent(c.valve, c.off) \in DelayedEvent
    BY <1>2, NewEvents
  <2> QED BY <1>1, <2>1, PushKeeps DEF TypeInv, TypeOK
<1>4. queued' \in [Valves -> {NONE, 0, 1}]
  BY <1>1, <1>2 DEF TypeInv, TypeOK
<1>5. UNCHANGED <<timer, running, enabled, pin, unanswered, valve, pc, it, programmed, budget>>
  BY DEF AddMessage, zoneVars
<1>6. todo' \subseteq Call
  BY <1>1 DEF TypeInv, TypeOK
<1>7. TypeOK'
  BY <1>3, <1>4, <1>5, <1>6 DEF TypeInv, TypeOK
<1>8. pc' = "chain" => it' \in DOMAIN events' /\ events'[it'].type = "chain"
  BY <1>3, <1>5 DEF TypeInv
<1> QED BY <1>7, <1>8 DEF TypeInv

LEMMA MeshType ==
  ASSUME TypeInv, Mesh
  PROVE  TypeInv'
<1> USE DEF zoneVars, outVars, Idle
<1>1. ASSUME NEW p \in Valves, Follow(p) PROVE TypeInv'
  BY <1>1 DEF Follow, TypeInv, TypeOK
<1>2. ASSUME NEW p \in Valves, Answer(p) PROVE TypeInv'
  <2>1. running' \in [Zones -> {0, 1}]
    BY <1>2 DEF Answer, TypeInv, TypeOK
  <2> QED BY <1>2, <2>1 DEF Answer, TypeInv, TypeOK
<1> QED BY <1>1, <1>2 DEF Mesh

LEMMA ZoneCalls ==
  ASSUME NEW z \in Zones
  PROVE  /\ \A c \in Calls(z, 0, "changed", 0) :
              c \in Call /\ c.zone # NoZone /\ c.value = 0 /\ c.off = 0
         /\ \A off \in Nat \ {0} : \A c \in Calls(z, 1, "changed", off) :
              c \in Call /\ c.zone # NoZone /\ c.value = 1 /\ c.off # 0
<1>1. ValvesOf[z] \in Seq(Valves)
  BY WateringAssumption
<1>2. \A i \in DOMAIN ValvesOf[z] : i \in Nat /\ ValvesOf[z][i] \in Valves
  BY <1>1, LenProperties, ElementOfSeq
<1>3. z # 0 /\ z \in Zones \cup {NoZone}
  BY DEF Zones
<1>4. \A c \in Calls(z, 0, "changed", 0) :
        c \in Call /\ c.zone # NoZone /\ c.value = 0 /\ c.off = 0
  BY <1>2, <1>3 DEF Calls, Call, NoZone
<1>5. ASSUME NEW off \in Nat, off # 0
      PROVE  \A c \in Calls(z, 1, "changed", off) :
               c \in Call /\ c.zone # NoZone /\ c.value = 1 /\ c.off # 0
  BY <1>2, <1>3, <1>5 DEF Calls, Call, NoZone
<1> QED BY <1>4, <1>5

(* The calls that close the zones whose flag is set. *)
LEMMA ClosingCalls ==
  ASSUME NEW c \in UNION {Calls(z, 0, "changed", 0) : z \in {y \in Zones : running[y] # 0}}
  PROVE  c \in Call /\ c.zone # NoZone /\ c.value = 0 /\ c.off = 0
<1>1. \E z \in Zones : c \in Calls(z, 0, "changed", 0)
  OBVIOUS
<1> QED BY <1>1, ZoneCalls, Zenon

LEMMA StartedTimes ==
  ASSUME TypeOK, NEW due, NEW z \in Started(due)
  PROVE  z \in Zones /\ timer[z] * MINUTE \in Nat \ {0}
<1>1. z \in Zones /\ timer[z] > 0
  BY DEF Started
<1>2. timer[z] \in Nat
  BY <1>1, WateringAssumption DEF TypeOK
<1>3. timer[z] # 0
  BY <1>1, <1>2
<1> QED BY <1>1, <1>2, <1>3, Minutes

(* The calls that open the zones that are due. *)
LEMMA OpeningCalls ==
  ASSUME TypeOK, NEW due,
         NEW c \in UNION {Calls(z, 1, "changed", timer[z] * MINUTE) : z \in Started(due)}
  PROVE  c \in Call /\ c.zone # NoZone /\ c.value = 1 /\ c.off # 0
<1>1. \E z \in Started(due) : c \in Calls(z, 1, "changed", timer[z] * MINUTE)
  BY Zenon
<1>2. \A z \in Started(due) : z \in Zones /\ timer[z] * MINUTE \in Nat \ {0}
  BY StartedTimes
<1> QED BY <1>1, <1>2, ZoneCalls, Zenon

LEMMA FirstChain ==
  ASSUME TypeOK, NEW es, es = IF NumZones > 0 THEN Push(events, ChainEvent(1, 0)) ELSE events
  PROVE  /\ es \in Seq(DelayedEvent)
         /\ \A i \in DOMAIN events : i \in DOMAIN es /\ es[i] = events[i]
         /\ \A i \in DOMAIN es : es[i].type = "off" => i \in DOMAIN events /\ es[i] = events[i]
<1>1. CASE NumZones > 0
  <2>1. 1 \in Zones
    BY <1>1, WateringAssumption DEF Zones
  <2> DEFINE x == ChainEvent(1, 0)
  <2>2. es = Append(events, x) /\ x \in DelayedEvent
    BY <1>1, <2>1, PushChain, NewEvents DEF TypeOK
  <2>3. x.type = "chain"
    BY DEF ChainEvent
  <2> HIDE DEF x
  <2>4. /\ Append(events, x) \in Seq(DelayedEvent)
        /\ DOMAIN Append(events, x) = 1..(Len(events) + 1)
        /\ \A i \in 1..Len(events) : Append(events, x)[i] = events[i]
        /\ Append(events, x)[Len(events) + 1] = x
        /\ Len(events) \in Nat /\ DOMAIN events = 1..Len(events)
    BY <2>2, Longer DEF TypeOK
  <2> QED BY <2>2, <2>3, <2>4
<1>2. CASE ~(NumZones > 0)
  BY <1>2 DEF TypeOK
<1> QED BY <1>1, <1>2

LEMMA PanelType ==
  ASSUME TypeInv, Panel
  PROVE  TypeInv'
<1> USE DEF zoneVars, outVars, Idle
<1>1. ASSUME NEW z \in Zones, NEW value \in {0, 1}, PanelZone(z, value) PROVE TypeInv'
  <2>1. timer[z] * MINUTE \in Nat
    BY Minutes, WateringAssumption DEF TypeInv, TypeOK
  <2>2. todo' \subseteq Call
    BY <1>1, <2>1, CallsType DEF PanelZone
  <2>3. budget' \in [Inputs -> Nat]
    BY <1>1, SpendType DEF PanelZone, Inputs, TypeInv
  <2> QED BY <1>1, <2>2, <2>3 DEF PanelZone, TypeInv, TypeOK
<1>2. ASSUME PanelProgram PROVE TypeInv'
  <2>1. budget' \in [Inputs -> Nat]
    BY <1>2, SpendType DEF PanelProgram, Inputs, TypeInv
  <2>2. events' \in Seq(DelayedEvent)
    BY <1>2, FirstChain DEF PanelProgram, TypeInv
  <2> QED BY <1>2, <2>1, <2>2 DEF PanelProgram, TypeInv, TypeOK
<1>3. ASSUME PanelStop PROVE TypeInv'
  <2>1. budget' \in [Inputs -> Nat]
    BY <1>3, SpendType DEF PanelStop, Inputs, TypeInv
  <2>2. todo' \subseteq Call
    BY <1>3, ClosingCalls DEF PanelStop
  <2>3. /\ programmed' \in BOOLEAN /\ pc' = "erase" /\ it' = 1
        /\ UNCHANGED <<events, timer, running, enabled, pin, queued, unanswered, valve>>
    BY <1>3, Zenon DEF PanelStop
  <2> QED BY <2>1, <2>2, <2>3 DEF TypeInv, TypeOK
<1>4. ASSUME NEW z \in Zones, NEW t \in Timers, PanelHold(z, t) PROVE TypeInv'
  <2>1. budget' \in [Inputs -> Nat]
    BY <1>4, SpendType DEF PanelHold, Inputs, TypeInv
  <2> QED BY <1>4, <2>1 DEF PanelHold, TypeInv, TypeOK
<1>5. ASSUME NEW t \in Temperatures, PanelTemperature(t) PROVE TypeInv'
  <2>1. budget' \in [Inputs -> Nat]
    BY <1>5, SpendType DEF PanelTemperature, Inputs, TypeInv
  <2>2. events' \in Seq(DelayedEvent)
    BY <1>5, NewEvents, PushKeeps DEF PanelTemperature, TypeInv, TypeOK
  <2> QED BY <1>5, <2>1, <2>2 DEF PanelTemperature, TypeInv, TypeOK
<1> QED BY <1>1, <1>2, <1>3, <1>4, <1>5 DEF Panel

LEMMA SensorType ==
  ASSUME TypeInv, Sensor
  PROVE  TypeInv'
<1> USE DEF zoneVars, outVars, Idle
<1>1. ASSUME Rain PROVE TypeInv'
  <2>1. budget' \in [Inputs -> Nat]
    BY <1>1, SpendType DEF Rain, Inputs, TypeInv
  <2>2. todo' \subseteq Call
    BY <1>1, ClosingCalls DEF Rain
  <2>3. running' \in [Zones -> {0, 1}] /\ enabled' \in BOOLEAN
    BY <1>1 DEF Rain
  <2> QED BY <1>1, <2>1, <2>2, <2>3 DEF Rain, TypeInv, TypeOK
<1>2. ASSUME Dry PROVE TypeInv'
  BY <1>2 DEF Dry, TypeInv, TypeOK
<1> QED BY <1>1, <1>2 DEF Sensor

LEMMA ErasingType ==
  ASSUME TypeInv, Erasing
  PROVE  TypeInv'
<1> USE DEF zoneVars, outVars, Idle
<1>1. CASE Erase
  <2>1. events' \in Seq(DelayedEvent) /\ it' \in Nat \ {0}
    BY <1>1, CurrentEvent DEF Erase, TypeInv, TypeOK
  <2> QED BY <1>1, <2>1 DEF Erase, TypeInv, TypeOK
<1>2. CASE EraseEnd
  BY <1>2 DEF EraseEnd, TypeInv, TypeOK
<1> QED BY <1>1, <1>2 DEF Erasing

LEMMA SecondType ==
  ASSUME TypeInv, Second
  PROVE  TypeInv'
<1>1. events' \in Seq(DelayedEvent)
  BY AgedKeeps DEF Second, TypeInv, TypeOK
<1> QED BY <1>1 DEF Second, TypeInv, TypeOK, zoneVars, outVars

LEMMA DelayedEventsType ==
  ASSUME TypeInv, DelayedEvents
  PROVE  TypeInv'
<1> USE DEF zoneVars, outVars, Idle
<1>1. CASE Pass
  BY <1>1 DEF Pass, TypeInv, TypeOK
<1>2. CASE RunOff
  <2>1. events[it].var \in Valves /\ events' \in Seq(DelayedEvent)
    BY <1>2, CurrentEvent, EventKinds DEF RunOff, AtEvent, TypeInv
  <2>2. todo' \subseteq Call
    BY <1>2, <2>1, CloseCallType DEF RunOff
  <2> QED BY <1>2, <2>1, <2>2 DEF RunOff, AtEvent, TypeInv, TypeOK
<1>3. CASE RunCheck
  <2>1. events' \in Seq(DelayedEvent)
    BY <1>3, CurrentEvent DEF RunCheck, AtEvent, TypeInv
  <2> QED BY <1>3, <2>1 DEF RunCheck, AtEvent, TypeInv, TypeOK
<1>4. CASE RunChain
  <2> DEFINE z == -events[it].var
  <2>1. /\ it \in DOMAIN events /\ events[it].type = "chain" /\ z \in Zones
    BY <1>4, CurrentEvent, EventKinds DEF RunChain, AtEvent, TypeInv
  <2>2. timer[z] * MINUTE \in Nat
    BY <2>1, Minutes, WateringAssumption DEF TypeInv, TypeOK
  <2>3. todo' = IF timer[z] = 0 THEN {} ELSE Calls(z, 1, "changed", timer[z] * MINUTE)
    BY <1>4 DEF RunChain
  <2>4. todo' \subseteq Call
    <3> HIDE DEF z
    <3> QED BY <2>1, <2>2, <2>3, CallsType
  <2> QED BY <1>4, <2>1, <2>4 DEF RunChain, AtEvent, TypeInv, TypeOK
<1>5. CASE ChainEnd
  <2>1. events' \in Seq(DelayedEvent)
    BY <1>5, ChainHandled DEF ChainEnd
  <2> QED BY <1>5, <2>1 DEF ChainEnd, TypeInv, TypeOK
<1>6. CASE EndEvents
  BY <1>6 DEF EndEvents, TypeInv, TypeOK
<1> QED BY <1>1, <1>2, <1>3, <1>4, <1>5, <1>6 DEF DelayedEvents

LEMMA CalendarType ==
  ASSUME TypeInv, Calendar
  PROVE  TypeInv'
<1> USE DEF zoneVars, outVars, Idle
<1>1. ASSUME NEW due, CalendarZones(due) PROVE TypeInv'
  <2>1. todo' \subseteq Call
    BY <1>1, OpeningCalls DEF CalendarZones, TypeInv
  <2>2. budget' \in [Inputs -> Nat]
    BY <1>1, SpendType DEF CalendarZones, Inputs, TypeInv
  <2>3. running' \in [Zones -> {0, 1}]
    BY <1>1 DEF CalendarZones, TypeInv, TypeOK
  <2> QED BY <1>1, <2>1, <2>2, <2>3 DEF CalendarZones, TypeInv, TypeOK
<1>2. ASSUME NEW due, CalendarProgram(due) PROVE TypeInv'
  <2>1. events' \in Seq(DelayedEvent)
    BY <1>2, FirstChain DEF CalendarProgram, TypeInv
  <2>2. budget' \in [Inputs -> Nat]
    BY <1>2, SpendType DEF CalendarProgram, Inputs, TypeInv
  <2>3. running' \in [Zones -> {0, 1}]
    BY <1>2 DEF CalendarProgram, TypeInv, TypeOK
  <2> QED BY <1>2, <2>1, <2>2, <2>3 DEF CalendarProgram, TypeInv, TypeOK
<1>3. CASE NothingDue
  BY <1>3 DEF NothingDue, TypeInv, TypeOK
<1> QED BY <1>1, <1>2, <1>3 DEF Calendar

LEMMA NextType == TypeInv /\ [Next]_vars => TypeInv'
<1> SUFFICES ASSUME TypeInv, [Next]_vars PROVE TypeInv'
  OBVIOUS
<1>1. CASE UNCHANGED vars
  BY <1>1 DEF vars, zoneVars, outVars, TypeInv, TypeOK
<1> QED BY <1>1, AddMessageType, MeshType, PanelType, SensorType, ErasingType, SecondType,
           DelayedEventsType, CalendarType DEF Next, Program

(* Every variable keeps a value of its type, so that no index of           *)
(* process_delayed_events or erase_delayed_event leaves the vector.        *)
THEOREM TypeCorrect == Spec => []TypeOK
<1>1. TypeInv => TypeOK
  BY DEF TypeInv
<1> QED BY <1>1, InitType, NextType, PTL DEF Spec

----------------------------------------------------------------------------
(* One closing for each valve.                                             *)

Unique(es) ==
  \A i, j \in DOMAIN es :
    es[i].type = "off" /\ es[j].type = "off" /\ es[i].var = es[j].var => i = j

LEMMA UniqueSame ==
  ASSUME NEW es, NEW fs, Unique(es),
         \A i \in DOMAIN fs : fs[i].type = "off" =>
           i \in DOMAIN es /\ es[i].type = "off" /\ es[i].var = fs[i].var
  PROVE  Unique(fs)
BY DEF Unique

LEMMA UniqueRemoved ==
  ASSUME NEW es \in Seq(DelayedEvent), NEW i \in 1..Len(es), Unique(es)
  PROVE  Unique(RemoveAt(es, i))
<1> DEFINE f(k) == IF k < i THEN k ELSE k + 1
<1>1. Len(es) \in Nat /\ DOMAIN es = 1..Len(es)
  BY LenProperties
<1>2. /\ DOMAIN RemoveAt(es, i) = 1..(Len(es) - 1)
      /\ \A k \in 1..(Len(es) - 1) : RemoveAt(es, i)[k] = es[f(k)]
  BY RemovedPlaces
<1>3. \A k \in 1..(Len(es) - 1) : f(k) \in DOMAIN es
  BY <1>1
<1>4. \A j, k \in 1..(Len(es) - 1) : f(j) = f(k) => j = k
  BY <1>1
<1> HIDE DEF f
<1> QED BY <1>2, <1>3, <1>4 DEF Unique

(* A closing is appended only when no event has its var. *)
LEMMA UniquePushed ==
  ASSUME NEW es \in Seq(DelayedEvent), NEW x \in DelayedEvent, Unique(es)
  PROVE  Unique(Push(es, x))
<1>1. CASE AlreadyThere(es, x) = {} /\ Push(es, x) = Append(es, x)
  <2>1. /\ DOMAIN es = 1..Len(es) /\ Len(es) \in Nat
        /\ DOMAIN Append(es, x) = 1..(Len(es) + 1)
        /\ \A i \in 1..Len(es) : Append(es, x)[i] = es[i]
        /\ Append(es, x)[Len(es) + 1] = x
    BY Longer
  <2>2. x.type = "off" => \A i \in DOMAIN es : es[i].var # x.var
    BY <1>1 DEF AlreadyThere
  <2>3. \A i \in 1..(Len(es) + 1) : i \in 1..Len(es) \/ i = Len(es) + 1
    BY <2>1
  <2> QED BY <1>1, <2>1, <2>2, <2>3 DEF Unique
<1>2. CASE ~(AlreadyThere(es, x) = {} /\ Push(es, x) = Append(es, x))
  <2>1. PICK i \in AlreadyThere(es, x) :
          \/ x.type = "off" /\ Push(es, x) = [es EXCEPT ![i] = [es[i] EXCEPT !.left = x.left]]
          \/ x.type = "check" /\ Push(es, x) = [es EXCEPT ![i] = [es[i] EXCEPT !.var = x.var]]
    BY <1>2, PushCases
  <2>2. i \in DOMAIN es /\ es[i] \in DelayedEvent
    BY ElementOfSeq, LenProperties DEF AlreadyThere
  <2>3. DOMAIN Push(es, x) = DOMAIN es
    BY <2>1
  <2>4. ASSUME NEW j \in DOMAIN Push(es, x), Push(es, x)[j].type = "off"
        PROVE  j \in DOMAIN es /\ es[j].type = "off" /\ es[j].var = Push(es, x)[j].var
    <3>1. j \in DOMAIN es
      BY <2>3
    <3> QED BY <3>1, <2>4, PushKeeps
  <2> QED BY <2>4, UniqueSame
<1> QED BY <1>1, <1>2

(* What a step does to the vector of delayed events. *)
LEMMA EventSteps ==
  ASSUME TypeInv, Next
  PROVE  \/ events' = events
         \/ \E x \in DelayedEvent : events' = Push(events, x)
         \/ \E i \in 1..Len(events) : events' = RemoveAt(events, i)
         \/ events' = Aged(events)
         \/ events' = RemoveAt(RestOfChain(events, -events[it].var, GAP), it) /\ pc = "chain"
<1> USE DEF zoneVars, outVars
<1>1. CASE AddMessage
  <2>1. PICK c \in todo :
          events' = IF c.off # 0 THEN Push(events, OffEvent(c.valve, c.off)) ELSE events
    BY <1>1 DEF AddMessage
  <2>2. OffEvent(c.valve, c.off) \in DelayedEvent
    BY NewEvents DEF TypeInv, TypeOK, Call
  <2> QED BY <2>1, <2>2
<1>2. CASE Erasing
  BY <1>2, CurrentEvent DEF Erasing, Erase, EraseEnd, TypeInv
<1>3. CASE Second
  BY <1>3 DEF Second
<1>4. CASE DelayedEvents
  BY <1>4, CurrentEvent
  DEF DelayedEvents, Pass, RunOff, RunCheck, RunChain, ChainEnd, EndEvents, AtEvent, Idle, TypeInv
<1>5. ASSUME events' = IF NumZones > 0 THEN Push(events, ChainEvent(1, 0)) ELSE events
      PROVE  events' = events \/ \E x \in DelayedEvent : events' = Push(events, x)
  <2>1. CASE NumZones > 0
    <3>1. 1 \in Zones
      BY <2>1, WateringAssumption DEF Zones
    <3>2. ChainEvent(1, 0) \in DelayedEvent
      BY <3>1, NewEvents
    <3> QED BY <1>5, <2>1, <3>2
  <2>2. CASE ~(NumZones > 0)
    BY <1>5, <2>2
  <2> QED BY <2>1, <2>2
<1>6. CASE Calendar
  BY <1>6, <1>5 DEF Calendar, CalendarZones, CalendarProgram, NothingDue
<1>7. CASE Panel
  <2>1. \A t \in Temperatures : CheckEvent(t, 1) \in DelayedEvent
    BY NewEvents
  <2> QED BY <1>7, <1>5, <2>1 DEF Panel, PanelZone, PanelProgram, PanelStop, PanelHold, PanelTemperature
<1>8. CASE Mesh \/ Sensor
  BY <1>8 DEF Mesh, Sensor, Follow, Answer, Rain, Dry
<1> QED BY <1>1, <1>2, <1>3, <1>4, <1>6, <1>7, <1>8 DEF Next, Program

LEMMA NextUnique == TypeInv /\ TimersUnique /\ [Next]_vars => TimersUnique'
<1> SUFFICES ASSUME TypeInv, Unique(events), [Next]_vars PROVE Unique(events')
  BY DEF TimersUnique, Unique
<1>1. CASE UNCHANGED vars
  BY <1>1 DEF vars
<1>2. CASE Next
  <2>0. events \in Seq(DelayedEvent)
    BY DEF TypeInv, TypeOK
  <2>1. ASSUME NEW x \in DelayedEvent, events' = Push(events, x) PROVE Unique(events')
    BY <2>0, <2>1, UniquePushed
  <2>2. ASSUME NEW i \in 1..Len(events), events' = RemoveAt(events, i) PROVE Unique(events')
    BY <2>0, <2>2, UniqueRemoved
  <2>3. CASE events' = Aged(events)
    BY <2>0, <2>3, AgedKeeps, UniqueSame
  <2>4. ASSUME events' = RemoveAt(RestOfChain(events, -events[it].var, GAP), it), pc = "chain"
        PROVE  Unique(events')
    <3> DEFINE rest == RestOfChain(events, -events[it].var, GAP)
    <3>1. /\ rest \in Seq(DelayedEvent) /\ it \in 1..Len(rest)
          /\ \A i \in DOMAIN rest : rest[i].type = "off" => i \in DOMAIN events /\ rest[i] = events[i]
      BY <2>4, ChainHandled
    <3> HIDE DEF rest
    <3>2. Unique(rest)
      BY <3>1, UniqueSame
    <3>3. Unique(RemoveAt(rest, it))
      BY <3>1, <3>2, UniqueRemoved
    <3> QED BY <2>4, <3>3 DEF rest
  <2> QED BY <1>2, <2>1, <2>2, <2>3, <2>4, EventSteps
<1> QED BY <1>1, <1>2

(* However often the panel, the program and the calendar open a valve, one *)
(* closing of it is pending at most.                                       *)
THEOREM TimersCorrect == Spec => []TimersUnique
<1>1. Init => TimersUnique
  BY DEF Init, TimersUnique
<1> QED BY <1>1, InitType, NextType, NextUnique, PTL DEF Spec

----------------------------------------------------------------------------
(* Nothing of a program is left when it was stopped.                       *)

(* While the vector is searched the rest is at place it or behind it. *)
StopInv ==
  ~programmed => \A i \in DOMAIN events : events[i].type = "chain" => pc = "erase" /\ it <= i

NoChain(es) == \A i \in DOMAIN es : es[i].type # "chain"

LEMMA PushedChains ==
  ASSUME NEW es \in Seq(DelayedEvent), NEW x \in DelayedEvent, x.type # "chain",
         NEW i \in DOMAIN Push(es, x), Push(es, x)[i].type = "chain"
  PROVE  i \in DOMAIN es /\ es[i].type = "chain"
<1>1. CASE AlreadyThere(es, x) = {} /\ Push(es, x) = Append(es, x)
  <2>1. /\ DOMAIN es = 1..Len(es) /\ Len(es) \in Nat
        /\ DOMAIN Append(es, x) = 1..(Len(es) + 1)
        /\ \A j \in 1..Len(es) : Append(es, x)[j] = es[j]
        /\ Append(es, x)[Len(es) + 1] = x
    BY Longer
  <2>2. i # Len(es) + 1
    BY <1>1, <2>1
  <2> QED BY <1>1, <2>1, <2>2
<1>2. CASE ~(AlreadyThere(es, x) = {} /\ Push(es, x) = Append(es, x))
  <2>1. DOMAIN Push(es, x) = DOMAIN es
    BY <1>2, PushCases
  <2> QED BY <2>1, PushKeeps
<1> QED BY <1>1, <1>2

LEMMA NoChainRemoved ==
  ASSUME NEW es \in Seq(DelayedEvent), NEW i \in 1..Len(es), NoChain(es)
  PROVE  NoChain(RemoveAt(es, i))
<1>1. Len(es) \in Nat /\ DOMAIN es = 1..Len(es)
  BY LenProperties
<1>2. \A k \in 1..(Len(es) - 1) : (IF k < i THEN k ELSE k + 1) \in DOMAIN es
  BY <1>1
<1>3. /\ DOMAIN RemoveAt(es, i) = 1..(Len(es) - 1)
      /\ \A k \in 1..(Len(es) - 1) : RemoveAt(es, i)[k] = es[IF k < i THEN k ELSE k + 1]
  BY RemovedPlaces
<1> QED BY <1>2, <1>3 DEF NoChain

LEMMA NextStopped == TypeInv /\ StopInv /\ [Next]_vars => StopInv'
<1> SUFFICES ASSUME TypeInv, StopInv, [Next]_vars, ~programmed'
             PROVE  \A i \in DOMAIN events' : events'[i].type = "chain" => pc' = "erase" /\ it' <= i
  BY DEF StopInv
<1> USE DEF zoneVars, outVars, Idle
<1>0. events \in Seq(DelayedEvent) /\ Len(events) \in Nat /\ DOMAIN events = 1..Len(events)
  BY LenProperties DEF TypeInv, TypeOK
<1>1. CASE UNCHANGED vars
  BY <1>1 DEF vars, StopInv
<1>2. CASE AddMessage
  <2>1. PICK c \in todo :
          events' = IF c.off # 0 THEN Push(events, OffEvent(c.valve, c.off)) ELSE events
    BY <1>2 DEF AddMessage
  <2>2. OffEvent(c.valve, c.off) \in DelayedEvent /\ OffEvent(c.valve, c.off).type # "chain"
    BY NewEvents DEF TypeInv, TypeOK, Call, OffEvent
  <2>3. \A i \in DOMAIN events' :
          events'[i].type = "chain" => i \in DOMAIN events /\ events[i].type = "chain"
    BY <1>0, <2>1, <2>2, PushedChains
  <2>4. UNCHANGED <<pc, it, programmed>>
    BY <1>2 DEF AddMessage
  <2> QED BY <2>3, <2>4 DEF StopInv
<1>3. CASE Erase
  <2>1. it \in 1..Len(events) /\ pc = "erase" /\ pc' = "erase" /\ ~programmed
    BY <1>3, CurrentEvent DEF Erase, TypeInv
  <2>2. CASE events[it].type = "chain"
    <3>1. /\ DOMAIN events' = 1..(Len(events) - 1) /\ it' = it
          /\ \A k \in 1..(Len(events) - 1) : events'[k] = events[IF k < it THEN k ELSE k + 1]
      BY <1>0, <1>3, <2>1, <2>2, RemovedPlaces DEF Erase
    <3>2. ASSUME NEW k \in DOMAIN events', events'[k].type = "chain" PROVE it <= k
      <4>1. CASE k < it
        <5>1. k \in DOMAIN events /\ events[k].type = "chain"
          BY <1>0, <2>1, <3>1, <3>2, <4>1
        <5> QED BY <2>1, <5>1 DEF StopInv
      <4> QED BY <1>0, <2>1, <3>1, <4>1
    <3> QED BY <2>1, <3>1, <3>2
  <2>3. CASE events[it].type # "chain"
    <3>1. events' = events /\ it' = it + 1
      BY <1>3, <2>3 DEF Erase
    <3>2. ASSUME NEW i \in DOMAIN events, events[i].type = "chain" PROVE it + 1 <= i
      BY <1>0, <2>1, <2>3, <3>2 DEF StopInv
    <3> QED BY <2>1, <3>1, <3>2
  <2> QED BY <2>2, <2>3
<1>4. CASE EraseEnd
  <2>1. pc = "erase" /\ it > Len(events) /\ events' = events /\ ~programmed
    BY <1>4 DEF EraseEnd
  <2>2. it \in Nat
    BY DEF TypeInv, TypeOK
  <2>3. \A i \in DOMAIN events : events[i].type # "chain"
    BY <1>0, <2>1, <2>2 DEF StopInv
  <2> QED BY <2>1, <2>3
<1>5. CASE Second
  <2>1. NoChain(events)
    BY <1>5 DEF Second, StopInv, NoChain
  <2> QED BY <1>0, <1>5, <2>1, AgedKeeps DEF Second, NoChain
<1>6. CASE DelayedEvents
  <2>1. (pc = "events" \/ pc = "chain") /\ ~programmed
    BY <1>6 DEF DelayedEvents, Pass, RunOff, RunCheck, RunChain, ChainEnd, EndEvents, AtEvent
  <2>2. NoChain(events)
    BY <2>1 DEF StopInv, NoChain
  <2>3. ~ChainEnd /\ ~RunChain
    BY <2>2, CurrentEvent DEF ChainEnd, RunChain, AtEvent, NoChain, TypeInv
  <2>4. events' = events \/ \E i \in 1..Len(events) : events' = RemoveAt(events, i)
    BY <1>6, <2>3, CurrentEvent
    DEF DelayedEvents, Pass, RunOff, RunCheck, EndEvents, AtEvent, TypeInv
  <2>5. NoChain(events')
    BY <1>0, <2>2, <2>4, NoChainRemoved
  <2> QED BY <2>5 DEF NoChain
<1>7. CASE Calendar
  BY <1>7 DEF Calendar, CalendarZones, CalendarProgram, NothingDue, StopInv
<1>8. CASE PanelStop
  <2>1. pc' = "erase" /\ it' = 1 /\ events' = events
    BY <1>8 DEF PanelStop
  <2> QED BY <1>0, <2>1
<1>9. ASSUME NEW t \in Temperatures, PanelTemperature(t)
      PROVE  \A i \in DOMAIN events' : events'[i].type = "chain" => pc' = "erase" /\ it' <= i
  <2>1. CheckEvent(t, 1) \in DelayedEvent /\ CheckEvent(t, 1).type # "chain"
    BY NewEvents DEF CheckEvent
  <2>2. events' = Push(events, CheckEvent(t, 1)) /\ pc = "incoming" /\ ~programmed
    BY <1>9 DEF PanelTemperature
  <2> QED BY <1>0, <2>1, <2>2, PushedChains DEF StopInv
<1>10. CASE PanelProgram
  BY <1>10 DEF PanelProgram
<1>11. CASE Mesh \/ Sensor \/ (\E z \in Zones, v \in {0, 1} : PanelZone(z, v))
            \/ (\E z \in Zones, t \in Timers : PanelHold(z, t))
  BY <1>11 DEF Mesh, Sensor, Follow, Answer, Rain, Dry, PanelZone, PanelHold, StopInv
<1> QED BY <1>1, <1>2, <1>3, <1>4, <1>5, <1>6, <1>7, <1>8, <1>9, <1>10, <1>11
        DEF Next, Program, Panel, Erasing

(* A program that was stopped does not water another zone, however many    *)
(* programs were under way at once.                                        *)
THEOREM StopCorrect == Spec => []StopSticks
<1>1. Init => StopInv
  BY DEF Init, StopInv
<1>2. StopInv => StopSticks
  BY DEF StopInv, StopSticks, Chains
<1> QED BY <1>1, <1>2, InitType, NextType, NextStopped, PTL DEF Spec

----------------------------------------------------------------------------
(* An open valve closes by a delayed event.                                *)

IsOff(e, p) == e.type = "off" /\ e.var = p
Timed(es, p) == \E i \in DOMAIN es : IsOff(es[i], p)
(* The closing that process_delayed_events is about to order. *)
Ordered(p) == \E c \in todo : c.zone = NoZone /\ c.valve = p
Safe == Valves \ Temperatures

(* What is known of a valve is right once its answer has been handled.     *)
KnownInv ==
  /\ \A p \in Valves : unanswered[p] = NONE => pin[p] = valve[p]
  /\ \A p \in Valves : unanswered[p] # NONE => unanswered[p] = valve[p]
  /\ pc \in {"events", "chain"} => \A p \in Valves : unanswered[p] = NONE

(* The calls of a zone open for a time; the call of an event closes.       *)
CallInv ==
  \A c \in todo :
    /\ c.value = 1 => c.off # 0
    /\ c.zone = NoZone => /\ c.value = 0 /\ pc = "events" /\ todo = {c}
                          /\ c.valve \in Safe => queued[c.valve] # 1

(* A valve that has just been told to open has a closing that is not due.  *)
FreshInv ==
  \A p \in Safe :
    pc \in {"events", "chain"} /\ queued[p] = 1 =>
      \A i \in DOMAIN events : IsOff(events[i], p) => ~Due(events[i])

TimedInv ==
  \A p \in Safe :
    valve[p] = 1 \/ queued[p] = 1 => Timed(events, p) \/ queued[p] = 0 \/ Ordered(p)

OpenInv == KnownInv /\ CallInv /\ FreshInv /\ TimedInv

(* A push keeps every closing; that of a closing gives its pin one, and    *)
(* the only one, with the new time.                                        *)
LEMMA PushKeepsTimers ==
  ASSUME NEW es \in Seq(DelayedEvent), NEW x \in DelayedEvent, NEW p, Timed(es, p)
  PROVE  Timed(Push(es, x), p)
<1>1. PICK i \in DOMAIN es : IsOff(es[i], p)
  BY DEF Timed
<1>2. i \in DOMAIN Push(es, x) /\ IsOff(Push(es, x)[i], p)
  BY <1>1, PushKeeps DEF IsOff
<1> QED BY <1>2 DEF Timed

LEMMA PushedTimer ==
  ASSUME NEW es \in Seq(DelayedEvent), NEW q \in Valves, NEW d \in Nat, Unique(es)
  PROVE  LET fs == Push(es, OffEvent(q, d))
         IN /\ q \in Safe => Timed(fs, q)
            /\ q \in Safe => \A i \in DOMAIN fs : IsOff(fs[i], q) => fs[i].left = d
            /\ \A i \in DOMAIN fs, p \in Valves : p # q /\ IsOff(fs[i], p) =>
                 i \in DOMAIN es /\ fs[i] = es[i]
<1> DEFINE x == OffEvent(q, d)
           fs == Push(es, x)
<1>1. /\ x \in DelayedEvent /\ x.type = "off" /\ x.var = q /\ x.left = d
  BY NewEvents DEF OffEvent
<1> HIDE DEF x
<1>2. CASE AlreadyThere(es, x) = {} /\ fs = Append(es, x)
  <2>1. /\ DOMAIN es = 1..Len(es) /\ Len(es) \in Nat
        /\ DOMAIN Append(es, x) = 1..(Len(es) + 1)
        /\ \A j \in 1..Len(es) : Append(es, x)[j] = es[j]
        /\ Append(es, x)[Len(es) + 1] = x
    BY <1>1, Longer
  <2>2. \A i \in DOMAIN es : es[i].var # q
    BY <1>1, <1>2 DEF AlreadyThere
  <2>3. \A i \in 1..(Len(es) + 1) : i \in DOMAIN es \/ i = Len(es) + 1
    BY <2>1
  <2>4. Len(es) + 1 \in DOMAIN fs /\ fs[Len(es) + 1] = x
    BY <1>2, <2>1
  <2>5. \A i \in DOMAIN fs : (i \in DOMAIN es /\ fs[i] = es[i]) \/ fs[i] = x
    BY <1>2, <2>1, <2>3
  <2> HIDE DEF fs
  <2> QED BY <1>1, <2>2, <2>4, <2>5 DEF IsOff, Timed, x, fs
<1>3. CASE ~(AlreadyThere(es, x) = {} /\ fs = Append(es, x))
  <2>1. PICK i \in AlreadyThere(es, x) : fs = [es EXCEPT ![i] = [es[i] EXCEPT !.left = d]]
    BY <1>1, <1>3, PushCases
  <2>2. i \in DOMAIN es /\ es[i] \in DelayedEvent /\ es[i].var = q
    BY <1>1, ElementOfSeq, LenProperties DEF AlreadyThere
  <2>3. [es[i] EXCEPT !.left = d] = [type |-> es[i].type, var |-> q, left |-> d]
    BY <2>2, EventKinds
  <2>4. /\ DOMAIN fs = DOMAIN es /\ fs[i] = [type |-> es[i].type, var |-> q, left |-> d]
        /\ \A j \in DOMAIN es : j # i => fs[j] = es[j]
    BY <2>1, <2>2, <2>3
  <2> HIDE DEF fs
  <2>5. q \in Safe => es[i].type = "off"
    <3>1. q \in Nat
      BY WateringAssumption
    <3> QED BY <2>2, <3>1, EventKinds DEF Safe
  <2>6. \A j \in DOMAIN es : q \in Safe /\ IsOff(es[j], q) => j = i
    BY <2>2, <2>5 DEF Unique, IsOff
  <2>7. q \in Safe => Timed(fs, q)
    BY <2>2, <2>4, <2>5 DEF IsOff, Timed
  <2>8. q \in Safe => \A j \in DOMAIN fs : IsOff(fs[j], q) => fs[j].left = d
    BY <2>4, <2>6 DEF IsOff
  <2>9. \A j \in DOMAIN fs, p \in Valves : p # q /\ IsOff(fs[j], p) => j \in DOMAIN es /\ fs[j] = es[j]
    BY <2>4 DEF IsOff
  <2> QED BY <2>7, <2>8, <2>9 DEF x, fs
<1> QED BY <1>2, <1>3

LEMMA RemovedTimers ==
  ASSUME NEW es \in Seq(DelayedEvent), NEW i \in 1..Len(es)
  PROVE  /\ \A p : Timed(es, p) /\ ~IsOff(es[i], p) => Timed(RemoveAt(es, i), p)
         /\ \A k \in DOMAIN RemoveAt(es, i) : \E j \in DOMAIN es : RemoveAt(es, i)[k] = es[j]
<1>1. ASSUME NEW p, Timed(es, p), ~IsOff(es[i], p) PROVE Timed(RemoveAt(es, i), p)
  <2>1. PICK j \in DOMAIN es : IsOff(es[j], p)
    BY <1>1 DEF Timed
  <2>2. PICK k \in DOMAIN RemoveAt(es, i) : RemoveAt(es, i)[k] = es[j]
    BY <1>1, <2>1, Removed
  <2> QED BY <2>1, <2>2 DEF Timed
<1>2. ASSUME NEW k \in DOMAIN RemoveAt(es, i)
      PROVE  \E j \in DOMAIN es : RemoveAt(es, i)[k] = es[j]
  <2>1. Len(es) \in Nat /\ DOMAIN es = 1..Len(es)
    BY LenProperties
  <2>2. DOMAIN RemoveAt(es, i) = 1..(Len(es) - 1)
        /\ RemoveAt(es, i)[k] = es[IF k < i THEN k ELSE k + 1]
    BY RemovedPlaces
  <2>3. (IF k < i THEN k ELSE k + 1) \in DOMAIN es
    BY <2>1, <2>2
  <2> QED BY <2>2, <2>3
<1> QED BY <1>1, <1>2

LEMMA AddMessageOpen ==
  ASSUME TypeInv, Unique(events), OpenInv, AddMessage
  PROVE  OpenInv'
<1>1. PICK c \in todo :
        /\ queued' = IF (c.send = "always" \/ c.value # pin[c.valve]) /\ queued[c.valve] = NONE
                     THEN [queued EXCEPT ![c.valve] = c.value] ELSE queued
        /\ events' = IF c.off # 0 THEN Push(events, OffEvent(c.valve, c.off)) ELSE events
        /\ todo' = todo \ {c}
  BY DEF AddMessage
<1>2. /\ UNCHANGED <<pin, unanswered, valve, pc, it>>
      /\ events \in Seq(DelayedEvent)
      /\ queued \in [Valves -> {NONE, 0, 1}] /\ pin \in [Valves -> {0, 1}]
      /\ valve \in [Valves -> {0, 1}]
      /\ c.valve \in Valves /\ c.off \in Nat /\ c.value \in {0, 1}
  BY DEF AddMessage, TypeInv, TypeOK, Call
<1> DEFINE q == c.valve
<1>3. KnownInv'
  BY <1>2 DEF OpenInv, KnownInv
<1>4. \A p \in Valves : p # q => queued'[p] = queued[p]
  BY <1>1, <1>2
<1>5. queued'[q] \in {queued[q], c.value} /\ (queued'[q] = 1 => queued[q] = 1 \/ c.value = 1)
  BY <1>1, <1>2
<1>6. CallInv'
  BY <1>1, <1>2 DEF OpenInv, CallInv
<1>7. /\ \A p \in Valves : Timed(events, p) => Timed(events', p)
      /\ \A i \in DOMAIN events', p \in Valves : p # q /\ IsOff(events'[i], p) =>
           i \in DOMAIN events /\ events'[i] = events[i]
      /\ c.off = 0 => events' = events
      /\ c.off # 0 /\ q \in Safe => Timed(events', q)
           /\ \A i \in DOMAIN events' : IsOff(events'[i], q) => events'[i].left = c.off
  <2>1. CASE c.off = 0
    BY <1>1, <2>1
  <2>2. CASE c.off # 0
    <3>1. events' = Push(events, OffEvent(c.valve, c.off)) /\ OffEvent(c.valve, c.off) \in DelayedEvent
      BY <1>1, <1>2, <2>2, NewEvents
    <3>2. \A p \in Valves : Timed(events, p) => Timed(events', p)
      BY <1>2, <3>1, PushKeepsTimers
    <3>3. /\ q \in Safe => Timed(events', q)
          /\ q \in Safe => \A i \in DOMAIN events' : IsOff(events'[i], q) => events'[i].left = c.off
          /\ \A i \in DOMAIN events', p \in Valves : p # q /\ IsOff(events'[i], p) =>
               i \in DOMAIN events /\ events'[i] = events[i]
      BY <1>2, <3>1, PushedTimer
    <3> QED BY <2>2, <3>2, <3>3
  <2> QED BY <2>1, <2>2
<1> HIDE DEF q
<1>8. Safe \subseteq Valves /\ q \in Valves
  BY <1>2 DEF Safe, q
<1>9. FreshInv'
  <2> SUFFICES ASSUME NEW p \in Safe, pc \in {"events", "chain"}, queued'[p] = 1,
                      NEW i \in DOMAIN events', IsOff(events'[i], p)
               PROVE  ~Due(events'[i])
    BY <1>2 DEF FreshInv
  <2>1. CASE p # q
    <3>1. queued[p] = 1 /\ i \in DOMAIN events /\ events'[i] = events[i]
      BY <1>4, <1>7, <1>8, <2>1
    <3> QED BY <3>1 DEF OpenInv, FreshInv
  <2>2. CASE p = q /\ c.off # 0
    BY <1>2, <1>7, <2>2 DEF Due
  <2>3. CASE p = q /\ c.off = 0
    <3>1. c.value # 1
      BY <1>1, <2>3 DEF OpenInv, CallInv
    <3>2. queued[p] = 1 /\ events' = events
      BY <1>5, <1>7, <2>3, <3>1
    <3> QED BY <3>2 DEF OpenInv, FreshInv
  <2> QED BY <2>1, <2>2, <2>3
<1>10. TimedInv'
  <2> SUFFICES ASSUME NEW p \in Safe, valve[p] = 1 \/ queued'[p] = 1
               PROVE  Timed(events', p) \/ queued'[p] = 0
    BY <1>2 DEF TimedInv
  <2>1. CASE p # q
    <3>1. queued'[p] = queued[p]
      BY <1>4, <1>8, <2>1
    <3>2. ~Ordered(p)
      <4> SUFFICES ASSUME NEW d \in todo, d.zone = NoZone, d.valve = p PROVE FALSE
        BY DEF Ordered
      <4>1. d = c
        BY <1>1 DEF OpenInv, CallInv
      <4> QED BY <2>1, <4>1 DEF q
    <3> QED BY <1>7, <1>8, <3>1, <3>2 DEF OpenInv, TimedInv
  <2>2. CASE p = q /\ c.zone = NoZone
    <3>1. c.value = 0 /\ pc = "events" /\ queued[p] # 1
      BY <1>1, <2>2 DEF OpenInv, CallInv, q
    <3>2. pin[p] = valve[p]
      BY <1>8, <3>1 DEF OpenInv, KnownInv
    <3>3. queued[p] \in {NONE, 0} /\ pin[p] \in {0, 1} /\ valve[p] \in {0, 1}
      BY <1>2, <1>8, <3>1
    <3> QED BY <1>1, <1>2, <2>2, <3>1, <3>2, <3>3 DEF q, NONE
  <2>3. CASE p = q /\ c.zone # NoZone /\ c.value = 1
    <3>1. c.off # 0
      BY <1>1, <2>3 DEF OpenInv, CallInv
    <3> QED BY <1>7, <2>3, <3>1
  <2>4. CASE p = q /\ c.zone # NoZone /\ c.value = 0
    <3>1. queued'[p] = queued[p] \/ queued'[p] = 0
      BY <1>5, <2>4
    <3>2. ~Ordered(p)
      <4> SUFFICES ASSUME NEW d \in todo, d.zone = NoZone, d.valve = p PROVE FALSE
        BY DEF Ordered
      <4>1. d = c
        BY <1>1 DEF OpenInv, CallInv
      <4> QED BY <2>4, <4>1
    <3> QED BY <1>7, <1>8, <3>1, <3>2 DEF OpenInv, TimedInv
  <2> QED BY <1>2, <2>1, <2>2, <2>3, <2>4
<1> QED BY <1>3, <1>6, <1>9, <1>10 DEF OpenInv

(* A step that touches no valve, keeps the closings and is not on its way  *)
(* to the events leaves the rest of the invariant as it is.                *)
LEMMA QuietOpen ==
  ASSUME OpenInv, UNCHANGED <<pin, queued, unanswered, valve>>, todo = {},
         \A p \in Safe : Timed(events, p) => Timed(events', p),
         pc' \notin {"events", "chain"},
         \A c \in todo' : c.zone # NoZone /\ (c.value = 1 => c.off # 0)
  PROVE  OpenInv'
<1>1. KnownInv' /\ CallInv' /\ FreshInv'
  BY DEF OpenInv, KnownInv, CallInv, FreshInv
<1>2. TimedInv'
  BY DEF OpenInv, TimedInv, Ordered
<1> QED BY <1>1, <1>2 DEF OpenInv

LEMMA MeshOpen ==
  ASSUME TypeInv, OpenInv, Mesh
  PROVE  OpenInv'
<1> USE DEF zoneVars, Idle, NONE
<1>1. ASSUME NEW p \in Valves, Follow(p) PROVE OpenInv'
  <2>1. /\ queued \in [Valves -> {NONE, 0, 1}] /\ valve \in [Valves -> {0, 1}]
        /\ unanswered \in [Valves -> {NONE, 0, 1}]
    BY DEF TypeInv, TypeOK
  <2>2. /\ queued[p] # NONE /\ valve' = [valve EXCEPT ![p] = queued[p]]
        /\ unanswered' = [unanswered EXCEPT ![p] = queued[p]]
        /\ queued' = [queued EXCEPT ![p] = NONE]
        /\ pc = "incoming" /\ pc' = "incoming" /\ todo = {} /\ todo' = {}
        /\ events' = events /\ pin' = pin
    BY <1>1 DEF Follow
  <2>3. KnownInv' /\ CallInv' /\ FreshInv'
    BY <2>1, <2>2 DEF OpenInv, KnownInv, CallInv, FreshInv
  <2>4. ASSUME NEW q \in Safe, valve'[q] = 1 \/ queued'[q] = 1
        PROVE  Timed(events', q) \/ queued'[q] = 0 \/ Ordered(q)'
    <3>1. q \in Valves /\ ~Ordered(q)
      BY <2>2 DEF Safe, Ordered
    <3>2. CASE q = p
      BY <2>1, <2>2, <2>4, <3>1, <3>2 DEF OpenInv, TimedInv
    <3>3. CASE q # p
      BY <2>1, <2>2, <2>4, <3>1, <3>3 DEF OpenInv, TimedInv
    <3> QED BY <3>2, <3>3
  <2> QED BY <2>3, <2>4 DEF OpenInv, TimedInv
<1>2. ASSUME NEW p \in Valves, Answer(p) PROVE OpenInv'
  <2>1. /\ pin' = [pin EXCEPT ![p] = unanswered[p]] /\ unanswered[p] # NONE
        /\ unanswered' = [unanswered EXCEPT ![p] = NONE]
        /\ UNCHANGED <<events, queued, valve, todo, pc>> /\ pc = "incoming" /\ todo = {}
    BY <1>2 DEF Answer
  <2>2. pin \in [Valves -> {0, 1}] /\ unanswered \in [Valves -> {NONE, 0, 1}]
    BY DEF TypeInv, TypeOK
  <2>3. KnownInv'
    BY <2>1, <2>2 DEF OpenInv, KnownInv
  <2>4. CallInv' /\ FreshInv' /\ TimedInv'
    BY <2>1 DEF OpenInv, CallInv, FreshInv, TimedInv, Ordered
  <2> QED BY <2>3, <2>4 DEF OpenInv
<1> QED BY <1>1, <1>2 DEF Mesh

(* The vector with the first event of a program behind it. *)
LEMMA FirstChainTimers ==
  ASSUME TypeOK, events' = IF NumZones > 0 THEN Push(events, ChainEvent(1, 0)) ELSE events
  PROVE  \A p \in Safe : Timed(events, p) => Timed(events', p)
BY FirstChain DEF Timed

LEMMA PanelOpen ==
  ASSUME TypeInv, OpenInv, Panel
  PROVE  OpenInv'
<1> USE DEF zoneVars, outVars, Idle
<1>1. ASSUME NEW z \in Zones, NEW value \in {0, 1}, PanelZone(z, value) PROVE OpenInv'
  <2>1. timer[z] * MINUTE \in Nat /\ timer[z] * MINUTE # 0
    BY <1>1, Minutes, WateringAssumption DEF PanelZone, TypeInv, TypeOK
  <2>2. \A c \in todo' : c.zone # NoZone /\ (c.value = 1 => c.off # 0)
    BY <1>1, <2>1, CallsType DEF PanelZone
  <2>3. /\ UNCHANGED <<events, pin, queued, unanswered, valve>>
        /\ todo = {} /\ pc' = "incoming"
    BY <1>1 DEF PanelZone
  <2> QED BY <2>2, <2>3, QuietOpen
<1>2. ASSUME PanelProgram PROVE OpenInv'
  <2>1. \A p \in Safe : Timed(events, p) => Timed(events', p)
    BY <1>2, FirstChainTimers DEF PanelProgram, TypeInv
  <2>2. /\ UNCHANGED <<pin, queued, unanswered, valve>>
        /\ todo = {} /\ todo' = {} /\ pc' = "incoming"
    BY <1>2 DEF PanelProgram
  <2> QED BY <2>1, <2>2, QuietOpen
<1>3. ASSUME PanelStop PROVE OpenInv'
  <2>1. \A c \in todo' : c.zone # NoZone /\ (c.value = 1 => c.off # 0)
    BY <1>3, ClosingCalls DEF PanelStop
  <2>2. /\ UNCHANGED <<events, pin, queued, unanswered, valve>>
        /\ todo = {} /\ pc' = "erase"
    BY <1>3 DEF PanelStop
  <2> QED BY <2>1, <2>2, QuietOpen
<1>4. ASSUME NEW z \in Zones, NEW t \in Timers, PanelHold(z, t) PROVE OpenInv'
  BY <1>4, QuietOpen DEF PanelHold
<1>5. ASSUME NEW t \in Temperatures, PanelTemperature(t) PROVE OpenInv'
  <2>1. \A p \in Safe : Timed(events, p) => Timed(events', p)
    BY <1>5, NewEvents, PushKeepsTimers DEF PanelTemperature, TypeInv, TypeOK
  <2>2. /\ UNCHANGED <<pin, queued, unanswered, valve>>
        /\ todo = {} /\ todo' = {} /\ pc' = "incoming"
    BY <1>5 DEF PanelTemperature
  <2> QED BY <2>1, <2>2, QuietOpen
<1> QED BY <1>1, <1>2, <1>3, <1>4, <1>5 DEF Panel

LEMMA SensorOpen ==
  ASSUME TypeInv, OpenInv, Sensor
  PROVE  OpenInv'
<1> USE DEF zoneVars, outVars, Idle
<1>1. CASE Rain
  <2>1. \A c \in todo' : c.zone # NoZone /\ (c.value = 1 => c.off # 0)
    BY <1>1, ClosingCalls DEF Rain
  <2>2. /\ UNCHANGED <<events, pin, queued, unanswered, valve>>
        /\ todo = {} /\ pc' = "incoming"
    BY <1>1 DEF Rain
  <2> QED BY <2>1, <2>2, QuietOpen
<1>2. CASE Dry
  BY <1>2, QuietOpen DEF Dry
<1> QED BY <1>1, <1>2 DEF Sensor

LEMMA ErasingOpen ==
  ASSUME TypeInv, OpenInv, Erasing
  PROVE  OpenInv'
<1> USE DEF zoneVars, outVars, Idle
<1>1. CASE Erase
  <2>1. \A p \in Safe : Timed(events, p) => Timed(events', p)
    <3>1. it \in 1..Len(events) /\ events \in Seq(DelayedEvent)
      BY <1>1, CurrentEvent DEF Erase, TypeInv, TypeOK
    <3>2. CASE events[it].type = "chain"
      <4>1. events' = RemoveAt(events, it) /\ \A p \in Safe : ~IsOff(events[it], p)
        BY <1>1, <3>2 DEF Erase, IsOff
      <4> QED BY <3>1, <4>1, RemovedTimers
    <3>3. CASE events[it].type # "chain"
      BY <1>1, <3>3 DEF Erase
    <3> QED BY <3>2, <3>3
  <2>2. /\ UNCHANGED <<pin, queued, unanswered, valve>>
        /\ todo = {} /\ todo' = {} /\ pc' = "erase"
    BY <1>1 DEF Erase
  <2> QED BY <2>1, <2>2, QuietOpen
<1>2. CASE EraseEnd
  BY <1>2, QuietOpen DEF EraseEnd
<1> QED BY <1>1, <1>2 DEF Erasing

LEMMA CalendarOpen ==
  ASSUME TypeInv, OpenInv, Calendar
  PROVE  OpenInv'
<1> USE DEF zoneVars, outVars, Idle
<1>1. ASSUME NEW due, CalendarZones(due) PROVE OpenInv'
  <2>1. \A c \in todo' : c.zone # NoZone /\ (c.value = 1 => c.off # 0)
    BY <1>1, OpeningCalls DEF CalendarZones, TypeInv
  <2>2. /\ UNCHANGED <<events, pin, queued, unanswered, valve>>
        /\ todo = {} /\ pc' = "incoming"
    BY <1>1 DEF CalendarZones
  <2> QED BY <2>1, <2>2, QuietOpen
<1>2. ASSUME NEW due, CalendarProgram(due) PROVE OpenInv'
  <2>1. \A p \in Safe : Timed(events, p) => Timed(events', p)
    BY <1>2, FirstChainTimers DEF CalendarProgram, TypeInv
  <2>2. /\ UNCHANGED <<pin, queued, unanswered, valve>>
        /\ todo = {} /\ todo' = {} /\ pc' = "incoming"
    BY <1>2 DEF CalendarProgram
  <2> QED BY <2>1, <2>2, QuietOpen
<1>3. CASE NothingDue
  BY <1>3, QuietOpen DEF NothingDue
<1> QED BY <1>1, <1>2, <1>3 DEF Calendar

(* At a second no message is on its way. *)
LEMMA SecondOpen ==
  ASSUME TypeInv, OpenInv, Second
  PROVE  OpenInv'
<1>1. /\ events' = Aged(events) /\ pc' = "events" /\ todo = {} /\ todo' = {}
      /\ UNCHANGED <<pin, queued, unanswered, valve>>
      /\ \A p \in Valves : queued[p] = NONE /\ unanswered[p] = NONE
  BY DEF Second, Settled, Idle, outVars
<1>2. \A p : Timed(events, p) => Timed(events', p)
  BY <1>1, AgedKeeps DEF TypeInv, TypeOK, Timed, IsOff
<1>3. KnownInv' /\ CallInv'
  BY <1>1 DEF OpenInv, KnownInv, CallInv
<1>4. FreshInv'
  BY <1>1 DEF FreshInv, Safe, NONE
<1>5. TimedInv'
  BY <1>1, <1>2 DEF OpenInv, TimedInv, Ordered
<1> QED BY <1>3, <1>4, <1>5 DEF OpenInv

(* A step of the loop that orders no closing. *)
LEMMA LoopOpen ==
  ASSUME OpenInv, UNCHANGED <<pin, queued, unanswered, valve>>, todo = {},
         pc \in {"events", "chain"},
         \A p \in Safe : Timed(events, p) => Timed(events', p),
         \A i \in DOMAIN events' : events'[i].type = "off" =>
           \E j \in DOMAIN events : events'[i] = events[j],
         \A c \in todo' : c.zone # NoZone /\ (c.value = 1 => c.off # 0)
  PROVE  OpenInv'
<1>1. KnownInv' /\ CallInv'
  BY DEF OpenInv, KnownInv, CallInv
<1>2. FreshInv'
  BY DEF OpenInv, FreshInv, IsOff
<1>3. TimedInv'
  BY DEF OpenInv, TimedInv, Ordered
<1> QED BY <1>1, <1>2, <1>3 DEF OpenInv

LEMMA DelayedEventsOpen ==
  ASSUME TypeInv, OpenInv, DelayedEvents
  PROVE  OpenInv'
<1> USE DEF zoneVars, outVars, Idle
<1>0. events \in Seq(DelayedEvent)
  BY DEF TypeInv, TypeOK
<1>1. CASE Pass
  BY <1>1, LoopOpen DEF Pass
<1>2. CASE RunOff
  <2> DEFINE q == events[it].var
  <2>1. /\ it \in 1..Len(events) /\ it \in DOMAIN events /\ events[it] \in DelayedEvent
        /\ events[it].type = "off" /\ Due(events[it])
        /\ todo = {} /\ pc = "events" /\ pc' = "events"
        /\ todo' = {CloseCall(q)} /\ events' = RemoveAt(events, it)
        /\ UNCHANGED <<pin, queued, unanswered, valve>>
    BY <1>2, CurrentEvent DEF RunOff, AtEvent, TypeInv
  <2>2. CloseCall(q).zone = NoZone /\ CloseCall(q).valve = q /\ CloseCall(q).value = 0
    BY DEF CloseCall
  <2>3. KnownInv'
    BY <2>1 DEF OpenInv, KnownInv
  <2>4. q \in Safe => queued[q] # 1
    BY <2>1 DEF OpenInv, FreshInv, IsOff
  <2> HIDE DEF q
  <2>5. CallInv'
    BY <2>1, <2>2, <2>4 DEF CallInv
  <2>6. \A i \in DOMAIN events' : \E j \in DOMAIN events : events'[i] = events[j]
    BY <1>0, <2>1, RemovedTimers
  <2>7. FreshInv'
    BY <2>1, <2>6 DEF OpenInv, FreshInv, IsOff
  <2>8. TimedInv'
    <3> SUFFICES ASSUME NEW p \in Safe, valve[p] = 1 \/ queued[p] = 1
                 PROVE  Timed(events', p) \/ queued[p] = 0 \/ Ordered(p)'
      BY <2>1 DEF TimedInv
    <3>1. ~Ordered(p)
      BY <2>1 DEF Ordered
    <3>2. CASE p = q
      BY <2>1, <2>2, <3>2 DEF Ordered
    <3>3. CASE p # q
      <4>1. ~IsOff(events[it], p)
        BY <3>3 DEF IsOff, q
      <4>2. Timed(events, p) => Timed(events', p)
        BY <1>0, <2>1, <4>1, RemovedTimers
      <4> QED BY <3>1, <4>2 DEF OpenInv, TimedInv
    <3> QED BY <3>2, <3>3
  <2> QED BY <2>3, <2>5, <2>7, <2>8 DEF OpenInv
<1>3. CASE RunCheck
  <2>1. /\ it \in 1..Len(events) /\ events[it].type = "check"
        /\ todo = {} /\ todo' = {} /\ pc = "events" /\ pc' = "events"
        /\ events' = RemoveAt(events, it)
        /\ UNCHANGED <<pin, queued, unanswered, valve>>
    BY <1>3, CurrentEvent DEF RunCheck, AtEvent, TypeInv
  <2>2. \A p \in Safe : Timed(events, p) => Timed(events', p)
    <3>1. \A p : ~IsOff(events[it], p)
      BY <2>1 DEF IsOff
    <3> QED BY <1>0, <2>1, <3>1, RemovedTimers
  <2>3. \A i \in DOMAIN events' : \E j \in DOMAIN events : events'[i] = events[j]
    BY <1>0, <2>1, RemovedTimers
  <2> QED BY <2>1, <2>2, <2>3, LoopOpen
<1>4. CASE RunChain
  <2> DEFINE z == -events[it].var
             off == timer[z] * MINUTE
  <2>1. /\ events[it].type = "chain" /\ events[it] \in DelayedEvent
        /\ todo = {} /\ pc = "events"
        /\ todo' = IF timer[z] = 0 THEN {} ELSE Calls(z, 1, "changed", off)
        /\ UNCHANGED <<events, pin, queued, unanswered, valve>>
    BY <1>4, CurrentEvent DEF RunChain, AtEvent, TypeInv
  <2>2. z \in Zones
    BY <2>1, EventKinds
  <2> HIDE DEF z
  <2>3. timer[z] \in Nat
    BY <2>2, WateringAssumption DEF TypeInv, TypeOK
  <2>4. off \in Nat /\ (timer[z] # 0 => off # 0)
    BY <2>3, Minutes
  <2> HIDE DEF off
  <2>5. \A c \in todo' : c.zone # NoZone /\ (c.value = 1 => c.off # 0)
    BY <2>1, <2>2, <2>4, CallsType
  <2> QED BY <2>1, <2>5, LoopOpen
<1>5. CASE ChainEnd
  <2> DEFINE rest == RestOfChain(events, -events[it].var, GAP)
  <2>1. /\ pc = "chain" /\ todo = {} /\ todo' = {} /\ events' = RemoveAt(rest, it)
        /\ UNCHANGED <<pin, queued, unanswered, valve>>
    BY <1>5 DEF ChainEnd
  <2>2. /\ rest \in Seq(DelayedEvent) /\ it \in 1..Len(rest)
        /\ \A i \in DOMAIN events : i \in DOMAIN rest /\ rest[i] = events[i]
        /\ \A i \in DOMAIN rest : rest[i].type = "off" => i \in DOMAIN events /\ rest[i] = events[i]
    BY <2>1, ChainHandled
  <2> HIDE DEF rest
  <2>3. rest[it].type = "chain"
    BY <2>1, <2>2 DEF TypeInv
  <2>4. ASSUME NEW p \in Safe, Timed(events, p) PROVE Timed(events', p)
    <3>1. Timed(rest, p) /\ ~IsOff(rest[it], p)
      BY <2>2, <2>3, <2>4 DEF Timed, IsOff
    <3> QED BY <2>1, <2>2, <3>1, RemovedTimers
  <2>5. \A i \in DOMAIN events' : events'[i].type = "off" =>
          \E j \in DOMAIN events : events'[i] = events[j]
    <3>1. \A i \in DOMAIN events' : \E j \in DOMAIN rest : events'[i] = rest[j]
      BY <2>1, <2>2, RemovedTimers
    <3> QED BY <2>2, <3>1
  <2> QED BY <2>1, <2>4, <2>5, LoopOpen
<1>6. CASE EndEvents
  BY <1>6, QuietOpen DEF EndEvents
<1> QED BY <1>1, <1>2, <1>3, <1>4, <1>5, <1>6 DEF DelayedEvents

LEMMA NextOpen == TypeInv /\ TimersUnique /\ OpenInv /\ [Next]_vars => OpenInv'
<1> SUFFICES ASSUME TypeInv, Unique(events), OpenInv, [Next]_vars PROVE OpenInv'
  BY DEF TimersUnique, Unique
<1>1. CASE UNCHANGED vars
  BY <1>1 DEF vars, outVars, OpenInv, KnownInv, CallInv, FreshInv, TimedInv, Ordered
<1> QED BY <1>1, AddMessageOpen, MeshOpen, PanelOpen, SensorOpen, ErasingOpen, SecondOpen,
           DelayedEventsOpen, CalendarOpen DEF Next, Program

LEMMA InitOpen == Init => TimersUnique /\ OpenInv
<1> SUFFICES ASSUME Init PROVE TimersUnique /\ OpenInv
  OBVIOUS
<1>1. /\ events = <<>> /\ todo = {} /\ pc = "incoming"
      /\ \A p \in Valves : pin[p] = 0 /\ valve[p] = 0 /\ queued[p] = NONE /\ unanswered[p] = NONE
  BY DEF Init
<1>2. TimersUnique
  BY <1>1 DEF TimersUnique
<1>3. KnownInv /\ CallInv /\ FreshInv
  BY <1>1 DEF KnownInv, CallInv, FreshInv
<1>4. TimedInv
  BY <1>1 DEF TimedInv, Safe, NONE
<1> QED BY <1>2, <1>3, <1>4 DEF OpenInv

(* No valve stays open for want of a closing: not when programs, calendar  *)
(* and panel overlap, nor when one of them is stopped or it rains.         *)
THEOREM OpenCorrect == Spec => []OpenIsTimed
<1>1. OpenInv => OpenIsTimed
  <2> SUFFICES ASSUME OpenInv, NEW p \in Safe, valve[p] = 1 \/ queued[p] = 1
               PROVE  HasTimer(p) \/ Closing(p)
    BY DEF OpenIsTimed, Safe
  <2>1. Timed(events, p) \/ queued[p] = 0 \/ Ordered(p)
    BY DEF OpenInv, TimedInv
  <2>2. Ordered(p) => \E c \in todo : c.valve = p /\ c.value = 0
    BY DEF Ordered, OpenInv, CallInv
  <2> QED BY <2>1, <2>2 DEF Timed, IsOff, HasTimer, Closing
<1> QED BY <1>1, InitOpen, InitType, NextType, NextUnique, NextOpen, PTL DEF Spec

----------------------------------------------------------------------------
(* One check of the heating.                                               *)

OneCheck(es) == \A i, j \in DOMAIN es : es[i].type = "check" /\ es[j].type = "check" => i = j

LEMMA CheckRemoved ==
  ASSUME NEW es \in Seq(DelayedEvent), NEW i \in 1..Len(es), OneCheck(es)
  PROVE  OneCheck(RemoveAt(es, i))
<1> DEFINE f(k) == IF k < i THEN k ELSE k + 1
<1>1. Len(es) \in Nat /\ DOMAIN es = 1..Len(es)
  BY LenProperties
<1>2. /\ DOMAIN RemoveAt(es, i) = 1..(Len(es) - 1)
      /\ \A k \in 1..(Len(es) - 1) : RemoveAt(es, i)[k] = es[f(k)]
  BY RemovedPlaces
<1>3. \A k \in 1..(Len(es) - 1) : f(k) \in DOMAIN es
  BY <1>1
<1>4. \A j, k \in 1..(Len(es) - 1) : f(j) = f(k) => j = k
  BY <1>1
<1> HIDE DEF f
<1> QED BY <1>2, <1>3, <1>4 DEF OneCheck

(* A check is appended only when there is none. *)
LEMMA CheckPushed ==
  ASSUME NEW es \in Seq(DelayedEvent), NEW x \in DelayedEvent, OneCheck(es)
  PROVE  OneCheck(Push(es, x))
<1>1. CASE AlreadyThere(es, x) = {} /\ Push(es, x) = Append(es, x)
  <2>1. /\ DOMAIN es = 1..Len(es) /\ Len(es) \in Nat
        /\ DOMAIN Append(es, x) = 1..(Len(es) + 1)
        /\ \A i \in 1..Len(es) : Append(es, x)[i] = es[i]
        /\ Append(es, x)[Len(es) + 1] = x
    BY Longer
  <2>2. x.type = "check" => \A i \in DOMAIN es : es[i].type # "check"
    BY <1>1 DEF AlreadyThere
  <2>3. \A i \in 1..(Len(es) + 1) : i \in 1..Len(es) \/ i = Len(es) + 1
    BY <2>1
  <2> QED BY <1>1, <2>1, <2>2, <2>3 DEF OneCheck
<1>2. CASE ~(AlreadyThere(es, x) = {} /\ Push(es, x) = Append(es, x))
  <2>1. DOMAIN Push(es, x) = DOMAIN es
    BY <1>2, PushCases
  <2>2. \A j \in DOMAIN es : Push(es, x)[j].type = es[j].type
    BY PushKeeps
  <2> QED BY <2>1, <2>2 DEF OneCheck
<1> QED BY <1>1, <1>2

CheckInv == OneCheck(events)

LEMMA NextCheck == TypeInv /\ CheckInv /\ [Next]_vars => CheckInv'
<1> SUFFICES ASSUME TypeInv, OneCheck(events), [Next]_vars PROVE OneCheck(events')
  BY DEF CheckInv
<1>1. CASE UNCHANGED vars
  BY <1>1 DEF vars
<1>2. CASE Next
  <2>0. events \in Seq(DelayedEvent)
    BY DEF TypeInv, TypeOK
  <2>1. ASSUME NEW x \in DelayedEvent, events' = Push(events, x) PROVE OneCheck(events')
    BY <2>0, <2>1, CheckPushed
  <2>2. ASSUME NEW i \in 1..Len(events), events' = RemoveAt(events, i) PROVE OneCheck(events')
    BY <2>0, <2>2, CheckRemoved
  <2>3. CASE events' = Aged(events)
    BY <2>0, <2>3, AgedKeeps DEF OneCheck
  <2>4. ASSUME events' = RemoveAt(RestOfChain(events, -events[it].var, GAP), it), pc = "chain"
        PROVE  OneCheck(events')
    <3>1. PICK z \in Zones : z = -events[it].var
      BY <2>4, ChainHandled
    <3>2. PICK rest : rest = RestOfChain(events, z, GAP)
      OBVIOUS
    <3>3. rest \in Seq(DelayedEvent) /\ it \in 1..Len(rest)
      BY <2>4, <3>1, <3>2, ChainHandled
    <3>4. OneCheck(rest)
      <4>1. CASE z < NumZones
        <5>1. z + 1 \in Zones
          BY <3>1, <4>1, WateringAssumption DEF Zones
        <5>2. PICK d : d = timer[z] * MINUTE + GAP
          OBVIOUS
        <5>3. d \in Nat
          <6>1. timer[z] * MINUTE \in Nat /\ GAP \in Nat
            BY <3>1, Minutes, WateringAssumption DEF TypeInv, TypeOK
          <6>2. \A m, n \in Nat : m + n \in Nat
            OBVIOUS
          <6> QED BY <5>2, <6>1, <6>2
        <5>4. ChainEvent(z + 1, d) \in DelayedEvent
          BY <5>1, <5>3, NewEvents
        <5> QED BY <2>0, <3>2, <4>1, <5>2, <5>4, CheckPushed DEF RestOfChain
      <4>2. CASE ~(z < NumZones)
        BY <3>2, <4>2 DEF RestOfChain
      <4> QED BY <4>1, <4>2
    <3>5. OneCheck(RemoveAt(rest, it))
      BY <3>3, <3>4, CheckRemoved
    <3> QED BY <2>4, <3>1, <3>2, <3>5
  <2> QED BY <1>2, <2>1, <2>2, <2>3, <2>4, EventSteps
<1> QED BY <1>1, <1>2

----------------------------------------------------------------------------
(* One zone at a time.                                                     *)

(* The valve is open, or about to open. *)
Wet(p) == valve[p] = 1 \/ queued[p] = 1 \/ \E c \in todo : c.valve = p /\ c.value = 1
AllDry == \A p \in Safe : ~Wet(p)
InZone(p, z) == z # NoZone /\ \E i \in DOMAIN ValvesOf[z] : ValvesOf[z][i] = p
WetIn(z) == \A p \in Safe : Wet(p) => InZone(p, z)

Unstarted(es) == \A i \in DOMAIN es : es[i].type = "check"
OneChain(es) == \A i, j \in DOMAIN es : es[i].type = "chain" /\ es[j].type = "chain" => i = j

(* An event that is due is passed over only when the one before it was     *)
(* erased, so that it has moved to the front: at place i it is handled     *)
(* within i seconds.  Before place n that of this second is over.          *)
Timely(es, n) ==
  \A k, i \in DOMAIN es : es[k].type = "chain" /\ es[i].type = "off" =>
    IF es[i].left >= 0 THEN es[i].left + i <= es[k].left
    ELSE i <= es[k].left + IF i < n THEN 0 ELSE 1
Turn == IF pc = "events" THEN it ELSE Len(events) + 1

(* While the loop opens the valves of a zone, no other valve has a closing. *)
Opening(z) ==
  /\ \A i \in DOMAIN events : events[i].type = "off" =>
       events[i].left = timer[z] * MINUTE /\ InZone(events[i].var, z)
  /\ \A c \in todo : c.value = 1 /\ c.off = timer[z] * MINUTE /\ InZone(c.valve, z)
  /\ WetIn(z)

(* Otherwise the next zone comes when all valves have closed. *)
Between ==
  /\ Timely(events, Turn)
  /\ \A c \in todo : c.value = 0 /\ c.off = 0
  /\ \A k \in DOMAIN events : events[k].type = "chain" /\ events[k].left < 0 => AllDry

ZoneInv ==
  /\ Spent("program") = 0 => Unstarted(events) /\ AllDry
  /\ OneChain(events)
  /\ pc # "chain" => Between
  /\ \A z \in Zones : pc = "chain" /\ z = -events[it].var => Opening(z)
  /\ \E z \in Zones \cup {NoZone} : WetIn(z)

(* One program was started, and no single zone. *)
Sole == Spent("program") <= 1 /\ Spent("zone") = 0
SoleInv == (\A x \in Inputs : Spent(x) \in Nat) /\ (Sole => ZoneInv)

(* What the theorem asks of the pause: a zone has fewer valves than the    *)
(* pause has seconds (in the code, no more than four).                     *)
ShortZones == \A z \in Zones : Len(ValvesOf[z]) < GAP

LEMMA SpendSole ==
  ASSUME TypeOK, \A x \in Inputs : Spent(x) \in Nat, NEW what \in Inputs, Spend(what)
  PROVE  /\ \A x \in Inputs : Spent(x)' \in Nat
         /\ \A x \in Inputs : x # what => Spent(x)' = Spent(x)
         /\ Spent(what)' = Spent(what) + 1
<1>1. \A x \in Inputs : budget[x] \in Nat /\ Budget[x] \in Nat
  BY WateringAssumption DEF TypeOK
<1>2. \A x \in Inputs : budget'[x] = IF x = what THEN budget[x] - 1 ELSE budget[x]
  BY DEF Spend, TypeOK
<1>3. \A x \in Inputs : Spent(x) = Budget[x] - budget[x] /\ Spent(x)' = Budget[x] - budget'[x]
  BY DEF Spent
<1> QED BY <1>1, <1>2, <1>3

(* The inputs that spend neither a program nor a zone change nothing.      *)
LEMMA SoleKept ==
  ASSUME TypeOK, SoleInv,
         UNCHANGED budget \/ \E x \in Inputs \ {"program", "zone"} : Spend(x)
  PROVE  /\ \A x \in Inputs : Spent(x)' \in Nat
         /\ Spent("program")' = Spent("program") /\ (Sole' <=> Sole)
<1>1. CASE UNCHANGED budget
  BY <1>1 DEF SoleInv, Sole, Spent
<1>2. ASSUME NEW x \in Inputs \ {"program", "zone"}, Spend(x)
      PROVE  /\ \A y \in Inputs : Spent(y)' \in Nat
             /\ Spent("program")' = Spent("program") /\ (Sole' <=> Sole)
  <2>1. "program" \in Inputs /\ "zone" \in Inputs
    BY DEF Inputs
  <2> QED BY <1>2, <2>1, SpendSole DEF SoleInv, Sole
<1> QED BY <1>1, <1>2

LEMMA EventLefts ==
  ASSUME NEW es \in Seq(DelayedEvent)
  PROVE  /\ Len(es) \in Nat /\ DOMAIN es = 1..Len(es)
         /\ \A i \in DOMAIN es : /\ es[i] \in DelayedEvent /\ es[i].left \in Int /\ es[i].left >= -1
                                 /\ es[i].type \in {"off", "chain", "check"}
<1>1. Len(es) \in Nat /\ DOMAIN es = 1..Len(es) /\ \A i \in DOMAIN es : es[i] \in DelayedEvent
  BY LenProperties, ElementOfSeq
<1>2. \A i \in DOMAIN es : es[i].left \in Delays /\ es[i].type \in {"off", "chain", "check"}
  BY <1>1, EventKinds
<1>3. \A d \in Delays : d \in Int /\ d >= -1
  BY DEF Delays
<1> QED BY <1>1, <1>2, <1>3

(* An erasure moves the events behind it to the front, and the loop passes *)
(* over the one that takes the place.                                      *)
LEMMA RemovedTimely ==
  ASSUME NEW es \in Seq(DelayedEvent), NEW n \in 1..Len(es), NEW fs, fs = RemoveAt(es, n)
  PROVE  /\ Unstarted(es) => Unstarted(fs)
         /\ OneChain(es) => OneChain(fs)
         /\ Timely(es, n) => Timely(fs, n + 1)
         /\ Timely(es, Len(es) + 1) => Timely(fs, Len(fs) + 1)
         /\ \A k \in DOMAIN fs : \E j \in DOMAIN es : fs[k] = es[j]
<1> DEFINE f(k) == IF k < n THEN k ELSE k + 1
<1>1. /\ Len(es) \in Nat /\ DOMAIN es = 1..Len(es)
      /\ \A i \in DOMAIN es : es[i].left \in Int /\ es[i].left >= -1
  BY EventLefts
<1>2. /\ fs \in Seq(DelayedEvent) /\ DOMAIN fs = 1..(Len(es) - 1)
      /\ \A k \in 1..(Len(es) - 1) : fs[k] = es[f(k)]
  BY RemovedPlaces
<1>3. \A k \in DOMAIN fs : f(k) \in DOMAIN es /\ k \in Nat /\ k <= f(k) /\ f(k) <= k + 1
  BY <1>1, <1>2
<1>4. \A j, k \in DOMAIN fs : f(j) = f(k) => j = k
  BY <1>1, <1>2
<1>5. /\ \A k \in DOMAIN fs : k < n => f(k) < n
      /\ \A k \in DOMAIN fs : k > n => f(k) = k + 1
      /\ \A k \in DOMAIN fs : k = n => f(k) = n + 1
      /\ \A k \in DOMAIN fs : k < n => f(k) = k
  BY <1>1, <1>2
<1> HIDE DEF f
<1>6. Len(fs) = Len(es) - 1
  <2>1. Len(fs) \in Nat /\ DOMAIN fs = 1..Len(fs) /\ Len(es) - 1 \in Nat
    <3>1. Len(fs) \in Nat /\ DOMAIN fs = 1..Len(fs)
      BY <1>2, LenProperties
    <3>2. \A l \in Nat : n \in 1..l => l - 1 \in Nat
      OBVIOUS
    <3> QED BY <1>1, <3>1, <3>2
  <2>2. \A a, b \in Nat : 1..a = 1..b => a = b
    <3> SUFFICES ASSUME NEW a \in Nat, NEW b \in Nat, 1..a = 1..b, a # b PROVE FALSE
      OBVIOUS
    <3>1. CASE a < b
      <4>1. b \in 1..b /\ b \notin 1..a
        BY <3>1
      <4> QED BY <4>1
    <3>2. CASE b < a
      <4>1. a \in 1..a /\ a \notin 1..b
        BY <3>2
      <4> QED BY <4>1
    <3> QED BY <3>1, <3>2
  <2> QED BY <1>2, <2>1, <2>2
<1>7. ASSUME Timely(es, n) PROVE Timely(fs, n + 1)
  <2> SUFFICES ASSUME NEW k \in DOMAIN fs, NEW i \in DOMAIN fs, fs[k].type = "chain", fs[i].type = "off"
               PROVE  IF fs[i].left >= 0 THEN fs[i].left + i <= fs[k].left
                      ELSE i <= fs[k].left + IF i < n + 1 THEN 0 ELSE 1
    BY DEF Timely
  <2>1. /\ f(k) \in DOMAIN es /\ f(i) \in DOMAIN es /\ fs[k] = es[f(k)] /\ fs[i] = es[f(i)]
    BY <1>2, <1>3
  <2>2. IF es[f(i)].left >= 0 THEN es[f(i)].left + f(i) <= es[f(k)].left
        ELSE f(i) <= es[f(k)].left + IF f(i) < n THEN 0 ELSE 1
    BY <1>7, <2>1 DEF Timely
  <2> DEFINE l == es[f(i)].left
             c == es[f(k)].left
             x == f(i)
  <2>3. l \in Int /\ c \in Int /\ x \in Nat /\ i \in Nat /\ n \in Nat /\ i <= x
    BY <1>1, <1>2, <1>3, <2>1
  <2>4. (i < n => x = i) /\ (i = n => x = n + 1) /\ (i > n => x = i + 1)
    BY <1>5
  <2>5. IF l >= 0 THEN l + x <= c ELSE x <= c + IF x < n THEN 0 ELSE 1
    BY <2>2
  <2> HIDE DEF l, c, x
  <2>6. IF l >= 0 THEN l + i <= c ELSE i <= c + IF i < n + 1 THEN 0 ELSE 1
    BY <2>3, <2>4, <2>5
  <2> QED BY <2>1, <2>6 DEF l, c
<1>8. ASSUME Timely(es, Len(es) + 1) PROVE Timely(fs, Len(fs) + 1)
  <2> SUFFICES ASSUME NEW k \in DOMAIN fs, NEW i \in DOMAIN fs, fs[k].type = "chain", fs[i].type = "off"
               PROVE  IF fs[i].left >= 0 THEN fs[i].left + i <= fs[k].left
                      ELSE i <= fs[k].left + IF i < Len(fs) + 1 THEN 0 ELSE 1
    BY DEF Timely
  <2>0. i < Len(fs) + 1
    BY <1>1, <1>2, <1>6
  <2>1. /\ f(k) \in DOMAIN es /\ f(i) \in DOMAIN es /\ fs[k] = es[f(k)] /\ fs[i] = es[f(i)]
    BY <1>2, <1>3
  <2>2. f(i) < Len(es) + 1
    BY <1>1, <2>1
  <2>3. IF es[f(i)].left >= 0 THEN es[f(i)].left + f(i) <= es[f(k)].left
        ELSE f(i) <= es[f(k)].left + 0
    BY <1>8, <2>1, <2>2 DEF Timely
  <2> DEFINE l == es[f(i)].left
             c == es[f(k)].left
             x == f(i)
  <2>4. l \in Int /\ c \in Int /\ x \in Nat /\ i \in Nat /\ i <= x
    BY <1>1, <1>2, <1>3, <2>1
  <2>5. IF l >= 0 THEN l + x <= c ELSE x <= c + 0
    BY <2>3
  <2> HIDE DEF l, c, x
  <2>6. IF l >= 0 THEN l + i <= c ELSE i <= c + 0
    BY <2>4, <2>5
  <2> QED BY <2>0, <2>1, <2>6 DEF l, c
<1>9. ASSUME OneChain(es) PROVE OneChain(fs)
  <2> SUFFICES ASSUME NEW i \in DOMAIN fs, NEW j \in DOMAIN fs, fs[i].type = "chain", fs[j].type = "chain"
               PROVE  i = j
    BY DEF OneChain
  <2>1. f(i) \in DOMAIN es /\ f(j) \in DOMAIN es /\ fs[i] = es[f(i)] /\ fs[j] = es[f(j)]
    BY <1>2, <1>3
  <2>2. f(i) = f(j)
    BY <1>9, <2>1 DEF OneChain
  <2> QED BY <1>4, <2>2
<1>10. Unstarted(es) => Unstarted(fs)
  BY <1>2, <1>3 DEF Unstarted
<1>11. \A k \in DOMAIN fs : \E j \in DOMAIN es : fs[k] = es[j]
  BY <1>2, <1>3
<1> QED BY <1>7, <1>8, <1>9, <1>10, <1>11

(* The check of the heating is added or changed, and nothing else.         *)
LEMMA PushedCheck ==
  ASSUME NEW es \in Seq(DelayedEvent), NEW x \in DelayedEvent, x.type = "check",
         NEW fs, fs = Push(es, x)
  PROVE  /\ fs \in Seq(DelayedEvent) /\ DOMAIN es \subseteq DOMAIN fs
         /\ \A i \in DOMAIN fs : fs[i].type # "check" => i \in DOMAIN es /\ fs[i] = es[i]
<1>1. Len(es) \in Nat /\ DOMAIN es = 1..Len(es)
  BY LenProperties
<1>2. fs \in Seq(DelayedEvent) /\ DOMAIN es \subseteq DOMAIN fs
  BY PushKeeps
<1>3. CASE AlreadyThere(es, x) = {} /\ fs = Append(es, x)
  <2>1. /\ DOMAIN Append(es, x) = 1..(Len(es) + 1)
        /\ \A i \in 1..Len(es) : Append(es, x)[i] = es[i]
        /\ Append(es, x)[Len(es) + 1] = x
    BY Longer
  <2> QED BY <1>1, <1>2, <1>3, <2>1
<1>4. ASSUME NEW i \in AlreadyThere(es, x), fs = [es EXCEPT ![i] = [es[i] EXCEPT !.var = x.var]]
      PROVE  \A j \in DOMAIN fs : fs[j].type # "check" => j \in DOMAIN es /\ fs[j] = es[j]
  <2>1. i \in DOMAIN es /\ es[i].type = "check" /\ es[i] \in DelayedEvent
    BY ElementOfSeq, LenProperties DEF AlreadyThere
  <2>2. [es[i] EXCEPT !.var = x.var].type = "check"
    BY <2>1, EventKinds
  <2>3. \A j \in DOMAIN fs : j \in DOMAIN es /\ fs[j] = IF j = i THEN [es[i] EXCEPT !.var = x.var] ELSE es[j]
    BY <1>4, <2>1
  <2> QED BY <2>2, <2>3
<1> QED BY <1>2, <1>3, <1>4, PushCases

LEMMA SubEvents ==
  ASSUME NEW es \in Seq(DelayedEvent), NEW fs \in Seq(DelayedEvent), DOMAIN es \subseteq DOMAIN fs,
         \A i \in DOMAIN fs : fs[i].type # "check" => i \in DOMAIN es /\ fs[i] = es[i]
  PROVE  /\ Unstarted(es) => Unstarted(fs)
         /\ OneChain(es) => OneChain(fs)
         /\ Timely(es, Len(es) + 1) => Timely(fs, Len(fs) + 1)
<1>1. /\ Len(es) \in Nat /\ DOMAIN es = 1..Len(es) /\ Len(fs) \in Nat /\ DOMAIN fs = 1..Len(fs)
  BY LenProperties
<1>2. ASSUME Timely(es, Len(es) + 1) PROVE Timely(fs, Len(fs) + 1)
  <2>1. \A i \in DOMAIN es : i < Len(es) + 1 /\ i < Len(fs) + 1
    BY <1>1
  <2> QED BY <1>2, <2>1 DEF Timely
<1> QED BY <1>2 DEF Unstarted, OneChain

(* A second brings both the closings and the next zone nearer.             *)
LEMMA AgedTimely ==
  ASSUME NEW es \in Seq(DelayedEvent), Timely(es, Len(es) + 1)
  PROVE  /\ Timely(Aged(es), 1)
         /\ Unstarted(es) => Unstarted(Aged(es))
         /\ OneChain(es) => OneChain(Aged(es))
         /\ \A k \in DOMAIN es : es[k].type = "chain" /\ Aged(es)[k].left < 0 => es[k].left <= 0
<1>1. /\ Len(es) \in Nat /\ DOMAIN es = 1..Len(es)
      /\ \A i \in DOMAIN es : es[i] \in DelayedEvent /\ es[i].left \in Int /\ es[i].left >= -1
  BY EventLefts
<1>2. DOMAIN Aged(es) = DOMAIN es /\ \A i \in DOMAIN es : Aged(es)[i].type = es[i].type
  BY AgedKeeps
<1>3. \A i \in DOMAIN es : Aged(es)[i].left = IF es[i].left < 0 THEN -1 ELSE es[i].left - 1
  <2> SUFFICES ASSUME NEW i \in DOMAIN es
               PROVE  Aged(es)[i].left = IF es[i].left < 0 THEN -1 ELSE es[i].left - 1
    OBVIOUS
  <2>1. Aged(es)[i] = [es[i] EXCEPT !.left = IF es[i].left < 0 THEN -1 ELSE es[i].left - 1]
    BY DEF Aged
  <2>2. es[i] = [type |-> es[i].type, var |-> es[i].var, left |-> es[i].left]
    BY <1>1, EventKinds
  <2> QED BY <2>1, <2>2
<1>4. Timely(Aged(es), 1)
  <2> SUFFICES ASSUME NEW k \in DOMAIN es, NEW i \in DOMAIN es, es[k].type = "chain", es[i].type = "off"
               PROVE  IF Aged(es)[i].left >= 0 THEN Aged(es)[i].left + i <= Aged(es)[k].left
                      ELSE i <= Aged(es)[k].left + IF i < 1 THEN 0 ELSE 1
    BY <1>2 DEF Timely
  <2> DEFINE l == es[i].left
             c == es[k].left
  <2>1. l \in Int /\ c \in Int /\ c >= -1 /\ i \in Nat /\ i >= 1 /\ i < Len(es) + 1
    BY <1>1
  <2>2. IF l >= 0 THEN l + i <= c ELSE i <= c + 0
    BY <2>1 DEF Timely
  <2>3. /\ Aged(es)[i].left = IF l < 0 THEN -1 ELSE l - 1
        /\ Aged(es)[k].left = IF c < 0 THEN -1 ELSE c - 1
    BY <1>3
  <2> HIDE DEF l, c
  <2> QED BY <2>1, <2>2, <2>3
<1>5. \A k \in DOMAIN es : Aged(es)[k].left < 0 => es[k].left <= 0
  BY <1>1, <1>3
<1> QED BY <1>2, <1>4, <1>5 DEF Unstarted, OneChain

(* Where the next zone is about to come, no closing is left.               *)
LEMMA NoClosingLeft ==
  ASSUME NEW es \in Seq(DelayedEvent), NEW n, Timely(es, n), NEW k \in DOMAIN es, es[k].type = "chain",
         es[k].left < 0 \/ (es[k].left <= 0 /\ n = Len(es) + 1)
  PROVE  \A i \in DOMAIN es : es[i].type # "off"
<1> SUFFICES ASSUME NEW i \in DOMAIN es, es[i].type = "off" PROVE FALSE
  OBVIOUS
<1>1. /\ es[i].left \in Int /\ es[k].left \in Int /\ es[k].left >= -1 /\ i \in Nat /\ i >= 1
      /\ i < Len(es) + 1
  BY EventLefts
<1>2. IF es[i].left >= 0 THEN es[i].left + i <= es[k].left
      ELSE i <= es[k].left + IF i < n THEN 0 ELSE 1
  BY DEF Timely
<1> QED BY <1>1, <1>2

(* Before a closing stand at most those of the zone's other valves and a   *)
(* check of the heating.                                                   *)
LEMMA PlaceBound ==
  ASSUME NEW es \in Seq(DelayedEvent), Unique(es), OneCheck(es), NEW z \in Zones, NEW k \in DOMAIN es,
         \A j \in 1..k : es[j].type # "chain",
         \A j \in DOMAIN es : es[j].type = "off" => InZone(es[j].var, z)
  PROVE  k \in Nat /\ Len(ValvesOf[z]) \in Nat /\ k <= Len(ValvesOf[z]) + 1
<1>1. PICK m : m = Len(ValvesOf[z])
  OBVIOUS
<1>2. m \in Nat /\ DOMAIN ValvesOf[z] = 1..m
  <2>1. ValvesOf[z] \in Seq(Valves)
    BY WateringAssumption
  <2> QED BY <1>1, <2>1, LenProperties
<1>3. k \in Nat /\ 1..k \subseteq DOMAIN es
  <2>1. Len(es) \in Nat /\ DOMAIN es = 1..Len(es)
    BY LenProperties
  <2> QED BY <2>1
<1> DEFINE at(j) == CHOOSE i \in DOMAIN ValvesOf[z] : ValvesOf[z][i] = es[j].var
           f == [j \in 1..k |-> IF es[j].type = "check" THEN 0 ELSE at(j)]
<1>4. \A j \in 1..k : es[j].type = "check" \/ es[j].type = "off"
  BY <1>3, EventLefts
<1>5. \A j \in 1..k : es[j].type = "off" => at(j) \in 1..m /\ ValvesOf[z][at(j)] = es[j].var
  BY <1>2, <1>3 DEF InZone
<1> HIDE DEF at
<1>6. f \in [1..k -> 0..m]
  <2>1. \A n \in 1..m : n \in 0..m /\ n # 0
    BY <1>2
  <2>2. 0 \in 0..m
    BY <1>2
  <2> QED BY <1>4, <1>5, <2>1, <2>2
<1>7. ASSUME NEW i \in 1..k, NEW j \in 1..k, f[i] = f[j] PROVE i = j
  <2>1. \A n \in 1..m : n # 0
    BY <1>2
  <2>2. i \in DOMAIN es /\ j \in DOMAIN es
    BY <1>3
  <2>3. CASE es[i].type = "check" /\ es[j].type = "check"
    BY <2>2, <2>3 DEF OneCheck
  <2>4. CASE es[i].type = "off" /\ es[j].type = "off"
    <3>1. at(i) = at(j)
      BY <1>7, <2>4
    <3>2. es[i].var = es[j].var
      BY <1>5, <2>4, <3>1
    <3> QED BY <2>2, <2>4, <3>2 DEF Unique
  <2>5. CASE es[i].type = "check" /\ es[j].type = "off"
    BY <1>5, <1>7, <2>1, <2>5
  <2>6. CASE es[i].type = "off" /\ es[j].type = "check"
    BY <1>5, <1>7, <2>1, <2>6
  <2> QED BY <1>4, <2>3, <2>4, <2>5, <2>6
<1> HIDE DEF f
<1>8. f \in Injection(1..k, 0..m)
  BY <1>6, <1>7 DEF Injection, IsInjective
<1>9. IsFiniteSet(0..m) /\ Cardinality(0..m) = m + 1
  BY <1>2, FS_Interval
<1>10. Cardinality(1..k) = k
  <2>1. \A n \in Nat : Cardinality(1..n) = n
    <3> SUFFICES ASSUME NEW n \in Nat PROVE Cardinality(1..n) = n
      OBVIOUS
    <3>1. 1 \in Int /\ n \in Int /\ (IF 1 > n THEN 0 ELSE n - 1 + 1) = n
      OBVIOUS
    <3>2. Cardinality(1..n) = IF 1 > n THEN 0 ELSE n - 1 + 1
      BY <3>1, FS_Interval, Zenon
    <3> QED BY <3>1, <3>2
  <2> QED BY <1>3, <2>1
<1>11. Cardinality(1..k) <= Cardinality(0..m)
  BY <1>8, <1>9, FS_Injection
<1> QED BY <1>1, <1>2, <1>3, <1>9, <1>10, <1>11

(* What the opening of a valve adds: its closing, after the time given.    *)
LEMMA PushedLeft ==
  ASSUME NEW es \in Seq(DelayedEvent), NEW p \in Valves, NEW d \in Nat, NEW fs, fs = Push(es, OffEvent(p, d))
  PROVE  /\ OneChain(es) => OneChain(fs)
         /\ \A i \in DOMAIN fs : fs[i].type = "off" =>
              (fs[i].left = d /\ fs[i].var = p) \/ (i \in DOMAIN es /\ fs[i] = es[i])
<1> DEFINE x == OffEvent(p, d)
<1>1. Len(es) \in Nat /\ DOMAIN es = 1..Len(es)
  BY LenProperties
<1>2. x \in DelayedEvent /\ x.type = "off" /\ x.left = d /\ x.var = p
  BY NewEvents DEF OffEvent
<1> HIDE DEF x
<1>3. CASE AlreadyThere(es, x) = {} /\ fs = Append(es, x)
  <2>1. /\ DOMAIN Append(es, x) = 1..(Len(es) + 1)
        /\ \A i \in 1..Len(es) : Append(es, x)[i] = es[i]
        /\ Append(es, x)[Len(es) + 1] = x
    BY <1>2, Longer
  <2>2. \A i \in DOMAIN fs : (i \in DOMAIN es /\ fs[i] = es[i]) \/ fs[i] = x
    BY <1>1, <1>3, <2>1
  <2>3. "off" # "chain"
    OBVIOUS
  <2> QED BY <1>2, <2>2, <2>3 DEF OneChain
<1>4. ASSUME NEW i \in AlreadyThere(es, x), fs = [es EXCEPT ![i] = [es[i] EXCEPT !.left = x.left]]
      PROVE  /\ OneChain(es) => OneChain(fs)
             /\ \A j \in DOMAIN fs : fs[j].type = "off" =>
                  (fs[j].left = d /\ fs[j].var = p) \/ (j \in DOMAIN es /\ fs[j] = es[j])
  <2>1. i \in DOMAIN es /\ es[i] \in DelayedEvent /\ es[i].var = p
    BY <1>2, ElementOfSeq, LenProperties DEF AlreadyThere
  <2>2. /\ [es[i] EXCEPT !.left = x.left].type = es[i].type
        /\ [es[i] EXCEPT !.left = x.left].left = d
        /\ [es[i] EXCEPT !.left = x.left].var = p
    BY <1>2, <2>1, EventKinds
  <2>3. \A j \in DOMAIN fs : j \in DOMAIN es /\ fs[j] = IF j = i THEN [es[i] EXCEPT !.left = x.left] ELSE es[j]
    BY <1>4, <2>1
  <2>4. DOMAIN fs = DOMAIN es /\ \A j \in DOMAIN fs : fs[j].type = es[j].type
    BY <1>4, <2>2, <2>3
  <2>5. OneChain(es) => OneChain(fs)
    BY <2>4 DEF OneChain
  <2>6. \A j \in DOMAIN fs : (fs[j].left = d /\ fs[j].var = p) \/ (j \in DOMAIN es /\ fs[j] = es[j])
    BY <2>2, <2>3
  <2> QED BY <2>5, <2>6
<1> QED BY <1>2, <1>3, <1>4, PushCases DEF x

(* A step outside the opening of a zone that wets no valve and brings no   *)
(* chain event nearer.                                                     *)
LEMMA QuietSole ==
  ASSUME SoleInv, Sole, Spent("program")' = Spent("program"), pc # "chain", pc' # "chain",
         Unstarted(events) => Unstarted(events'), OneChain(events) => OneChain(events'),
         Timely(events, Turn) => Timely(events', Turn'),
         \A c \in todo' : c.value = 0 /\ c.off = 0,
         \A p \in Safe : Wet(p)' => Wet(p),
         \A k \in DOMAIN events' : events'[k].type = "chain" /\ events'[k].left < 0 =>
           AllDry \/ \E j \in DOMAIN events : events[j].type = "chain" /\ events[j].left < 0
  PROVE  ZoneInv'
<1>1. ZoneInv
  BY DEF SoleInv
<1>2. AllDry => AllDry'
  BY DEF AllDry
<1>3. Between'
  BY <1>1, <1>2 DEF ZoneInv, Between
<1>4. PICK z \in Zones \cup {NoZone} : WetIn(z)
  BY <1>1 DEF ZoneInv
<1>5. WetIn(z)'
  BY <1>4 DEF WetIn, InZone
<1> QED BY <1>1, <1>2, <1>3, <1>5 DEF ZoneInv

LEMMA AddMessageSole ==
  ASSUME TypeInv, SoleInv, AddMessage
  PROVE  SoleInv'
<1>1. UNCHANGED <<timer, valve, pc, it, budget>>
  BY DEF AddMessage, zoneVars
<1>2. /\ \A x \in Inputs : Spent(x)' \in Nat
      /\ Spent("program")' = Spent("program") /\ (Sole' <=> Sole)
  BY <1>1, SoleKept DEF TypeInv
<1> SUFFICES ASSUME Sole PROVE ZoneInv'
  BY <1>2 DEF SoleInv
<1>3. PICK c \in todo :
        /\ queued' = IF (c.send = "always" \/ c.value # pin[c.valve]) /\ queued[c.valve] = NONE
                     THEN [queued EXCEPT ![c.valve] = c.value] ELSE queued
        /\ events' = IF c.off # 0 THEN Push(events, OffEvent(c.valve, c.off)) ELSE events
        /\ todo' = todo \ {c}
  BY DEF AddMessage
<1>4. c.valve \in Valves /\ c.off \in Nat /\ events \in Seq(DelayedEvent)
      /\ queued \in [Valves -> {NONE, 0, 1}]
  BY <1>3 DEF TypeInv, TypeOK, Call
<1>5. ZoneInv
  BY DEF SoleInv
<1>6. ASSUME NEW p \in Safe, Wet(p)' PROVE Wet(p)
  <2>1. p \in Valves
    BY DEF Safe
  <2>2. queued'[p] = 1 => queued[p] = 1 \/ (p = c.valve /\ c.value = 1)
    BY <1>3, <1>4, <2>1
  <2> QED BY <1>1, <1>3, <1>6, <2>2 DEF Wet
<1>7. CASE pc # "chain"
  <2>1. c.off = 0 /\ \A d \in todo : d.value = 0 /\ d.off = 0
    BY <1>3, <1>5, <1>7 DEF ZoneInv, Between
  <2>2. UNCHANGED events
    BY <1>3, <2>1
  <2>3. Turn' = Turn
    BY <1>1, <2>2 DEF Turn
  <2>4. \A d \in todo' : d.value = 0 /\ d.off = 0
    BY <1>3, <2>1
  <2> QED BY <1>1, <1>2, <1>6, <1>7, <2>2, <2>3, <2>4, QuietSole
<1>8. CASE pc = "chain"
  <2>0. it \in DOMAIN events /\ events[it].type = "chain" /\ events[it] \in DelayedEvent
    BY <1>4, <1>8, ElementOfSeq, LenProperties DEF TypeInv
  <2>1. -events[it].var \in Zones
    BY <2>0, EventKinds
  <2>2. PICK z \in Zones : z = -events[it].var
    BY <2>1
  <2>3. PICK d : d = timer[z] * MINUTE
    OBVIOUS
  <2>4. Opening(z) /\ OneChain(events) /\ ~Unstarted(events)
    BY <1>5, <1>8, <2>0, <2>2 DEF ZoneInv, Unstarted
  <2>5. /\ c.off = d /\ InZone(c.valve, z)
        /\ \A i \in DOMAIN events : events[i].type = "off" => events[i].left = d /\ InZone(events[i].var, z)
    BY <1>3, <2>3, <2>4 DEF Opening
  <2>6. /\ -events'[it].var = z /\ it \in DOMAIN events' /\ events'[it].type = "chain"
        /\ OneChain(events')
        /\ \A i \in DOMAIN events' : events'[i].type = "off" => events'[i].left = d /\ InZone(events'[i].var, z)
    <3>1. CASE c.off = 0
      BY <1>3, <2>0, <2>2, <2>4, <2>5, <3>1
    <3>2. CASE c.off # 0
      <4>1. events' = Push(events, OffEvent(c.valve, c.off)) /\ OffEvent(c.valve, c.off) \in DelayedEvent
        BY <1>3, <1>4, <3>2, NewEvents
      <4>2. it \in DOMAIN events' /\ events'[it].type = events[it].type /\ events'[it].var = events[it].var
        BY <1>4, <2>0, <4>1, PushKeeps
      <4>3. /\ OneChain(events')
            /\ \A i \in DOMAIN events' : events'[i].type = "off" =>
                 (events'[i].left = c.off /\ events'[i].var = c.valve) \/ (i \in DOMAIN events /\ events'[i] = events[i])
        BY <1>4, <2>4, <4>1, PushedLeft
      <4> QED BY <2>0, <2>2, <2>5, <4>2, <4>3
    <3> QED BY <3>1, <3>2
  <2>7. WetIn(z)'
    BY <1>6, <2>4 DEF WetIn, Opening, InZone
  <2>8. Opening(z)'
    <3>1. \A e \in todo' : e.value = 1 /\ e.off = timer[z] * MINUTE /\ InZone(e.valve, z)
      BY <1>3, <2>4 DEF Opening
    <3> QED BY <1>1, <2>3, <2>6, <2>7, <3>1 DEF Opening, InZone
  <2>9. \E y \in Zones \cup {NoZone} : WetIn(y)'
    BY <2>7
  <2>10. Spent("program")' # 0
    BY <1>2, <1>5, <2>4 DEF ZoneInv
  <2> QED BY <1>1, <1>8, <2>6, <2>8, <2>9, <2>10 DEF ZoneInv
<1> QED BY <1>7, <1>8

LEMMA MeshSole ==
  ASSUME TypeInv, SoleInv, Mesh
  PROVE  SoleInv'
<1> USE DEF zoneVars, Idle
<1>1. /\ UNCHANGED <<events, todo, pc, it, budget>> /\ pc = "incoming" /\ todo = {}
  BY DEF Mesh, Follow, Answer
<1>2. \A p \in Safe : Wet(p)' => Wet(p)
  <2>1. ASSUME NEW q \in Valves, Follow(q), NEW p \in Safe, Wet(p)' PROVE Wet(p)
    <3>1. /\ valve' = [valve EXCEPT ![q] = queued[q]]
          /\ queued' = [queued EXCEPT ![q] = NONE] /\ todo' = {}
      BY <2>1 DEF Follow
    <3>2. queued \in [Valves -> {NONE, 0, 1}] /\ valve \in [Valves -> {0, 1}] /\ p \in Valves /\ NONE # 1
      BY DEF TypeInv, TypeOK, Safe, NONE
    <3> QED BY <2>1, <3>1, <3>2 DEF Wet
  <2>2. ASSUME NEW q \in Valves, Answer(q) PROVE \A p \in Safe : Wet(p)' => Wet(p)
    BY <2>2 DEF Answer, Wet
  <2> QED BY <2>1, <2>2 DEF Mesh
<1>3. /\ \A x \in Inputs : Spent(x)' \in Nat
      /\ Spent("program")' = Spent("program") /\ (Sole' <=> Sole)
  BY <1>1, SoleKept DEF TypeInv
<1>4. Turn' = Turn
  BY <1>1 DEF Turn
<1>5. Sole => ZoneInv'
  BY <1>1, <1>2, <1>3, <1>4, QuietSole
<1> QED BY <1>3, <1>5 DEF SoleInv

(* The vector with the first event of a program behind checks only.        *)
LEMMA FirstProgram ==
  ASSUME TypeInv, SoleInv, Spend("program"), Sole', pc' = "incoming", todo' = {},
         UNCHANGED <<queued, valve>>,
         events' = IF NumZones > 0 THEN Push(events, ChainEvent(1, 0)) ELSE events
  PROVE  ZoneInv'
<1>1. "program" \in Inputs /\ "zone" \in Inputs
  BY DEF Inputs
<1>2. /\ Spent("program")' = Spent("program") + 1 /\ Spent("program") \in Nat
      /\ Spent("zone")' = Spent("zone")
  BY <1>1, SpendSole DEF TypeInv, SoleInv
<1>3. Spent("program") = 0 /\ Sole /\ Spent("program")' # 0
  BY <1>2 DEF Sole
<1>4. Unstarted(events) /\ AllDry
  BY <1>3 DEF SoleInv, ZoneInv
<1>5. AllDry'
  BY <1>4 DEF AllDry, Wet
<1>6. /\ \A i \in DOMAIN events' : events'[i].type # "off"
      /\ OneChain(events')
  <2>1. CASE NumZones > 0
    <3>1. 1 \in Zones
      BY <2>1, WateringAssumption DEF Zones
    <3>2. PICK x : x = ChainEvent(1, 0)
      OBVIOUS
    <3>3. events' = Append(events, x) /\ x \in DelayedEvent /\ x.type = "chain" /\ events \in Seq(DelayedEvent)
      BY <2>1, <3>1, <3>2, PushChain, NewEvents DEF TypeInv, TypeOK, ChainEvent
    <3>4. /\ DOMAIN events' = 1..(Len(events) + 1)
          /\ \A i \in 1..Len(events) : events'[i] = events[i]
          /\ events'[Len(events) + 1] = x
          /\ Len(events) \in Nat /\ DOMAIN events = 1..Len(events)
      BY <3>3, Longer
    <3>5. \A i \in DOMAIN events' : events'[i].type = "check" \/ (i = Len(events) + 1 /\ events'[i].type = "chain")
      BY <1>4, <3>3, <3>4 DEF Unstarted
    <3> QED BY <3>5 DEF OneChain
  <2>2. CASE ~(NumZones > 0)
    BY <1>4, <2>2 DEF Unstarted, OneChain
  <2> QED BY <2>1, <2>2
<1>7. Between'
  BY <1>5, <1>6 DEF Between, Timely
<1>8. WetIn(NoZone)'
  BY <1>5 DEF WetIn, AllDry
<1> QED BY <1>3, <1>6, <1>7, <1>8 DEF ZoneInv

(* A single zone that is started or stopped ends what the property is of.  *)
LEMMA ZoneSpent ==
  ASSUME TypeInv, SoleInv, Spend("zone")
  PROVE  SoleInv'
<1>1. "program" \in Inputs /\ "zone" \in Inputs
  BY DEF Inputs
<1>2. /\ \A x \in Inputs : Spent(x)' \in Nat
      /\ Spent("zone")' = Spent("zone") + 1 /\ Spent("zone") \in Nat
  BY <1>1, SpendSole DEF TypeInv, SoleInv
<1> QED BY <1>2 DEF SoleInv, Sole

LEMMA ProgramSpent ==
  ASSUME TypeInv, SoleInv, Spend("program"), Sole' => ZoneInv'
  PROVE  SoleInv'
<1>1. "program" \in Inputs
  BY DEF Inputs
<1>2. \A x \in Inputs : Spent(x)' \in Nat
  BY <1>1, SpendSole DEF TypeInv, SoleInv
<1> QED BY <1>2 DEF SoleInv

(* A step that spends none of the two. *)
LEMMA OtherSpent ==
  ASSUME TypeInv, SoleInv, UNCHANGED budget \/ \E x \in Inputs \ {"program", "zone"} : Spend(x),
         Sole /\ Spent("program")' = Spent("program") => ZoneInv'
  PROVE  SoleInv'
BY SoleKept DEF TypeInv, SoleInv

LEMMA StopSole ==
  ASSUME TypeInv, SoleInv, pc = "incoming", pc' \in {"incoming", "erase"},
         UNCHANGED <<events, queued, valve>>,
         \A c \in todo' : c.value = 0 /\ c.off = 0,
         UNCHANGED budget \/ \E x \in Inputs \ {"program", "zone"} : Spend(x)
  PROVE  SoleInv'
<1>1. \A p \in Safe : Wet(p)' => Wet(p)
  BY DEF Wet
<1>2. Turn' = Turn
  BY DEF Turn
<1> QED BY <1>1, <1>2, QuietSole, OtherSpent

LEMMA PanelSole ==
  ASSUME TypeInv, SoleInv, Panel
  PROVE  SoleInv'
<1> USE DEF zoneVars, outVars, Idle
<1>0. {"stop", "hold", "check", "rain"} \subseteq Inputs \ {"program", "zone"}
  BY DEF Inputs
<1>1. ASSUME NEW z \in Zones, NEW value \in {0, 1}, PanelZone(z, value) PROVE SoleInv'
  BY <1>1, ZoneSpent DEF PanelZone
<1>2. ASSUME PanelProgram PROVE SoleInv'
  BY <1>2, FirstProgram, ProgramSpent DEF PanelProgram
<1>3. ASSUME PanelStop PROVE SoleInv'
  <2>1. \A c \in todo' : c.value = 0 /\ c.off = 0
    BY <1>3, ClosingCalls DEF PanelStop
  <2> QED BY <1>0, <1>3, <2>1, StopSole DEF PanelStop
<1>4. ASSUME NEW z \in Zones, NEW t \in Timers, PanelHold(z, t) PROVE SoleInv'
  BY <1>0, <1>4, StopSole DEF PanelHold
<1>5. ASSUME NEW t \in Temperatures, PanelTemperature(t) PROVE SoleInv'
  <2> DEFINE x == CheckEvent(t, 1)
  <2>1. x \in DelayedEvent /\ x.type = "check" /\ events \in Seq(DelayedEvent)
    BY NewEvents DEF TypeInv, TypeOK, CheckEvent
  <2>2. events' = Push(events, x) /\ UNCHANGED <<queued, valve, todo, pc, it>> /\ pc = "incoming"
    BY <1>5 DEF PanelTemperature
  <2> HIDE DEF x
  <2>3. /\ events' \in Seq(DelayedEvent) /\ DOMAIN events \subseteq DOMAIN events'
        /\ \A i \in DOMAIN events' : events'[i].type # "check" => i \in DOMAIN events /\ events'[i] = events[i]
    BY <2>1, <2>2, PushedCheck
  <2>4. /\ Unstarted(events) => Unstarted(events')
        /\ OneChain(events) => OneChain(events')
        /\ Timely(events, Len(events) + 1) => Timely(events', Len(events') + 1)
    BY <2>1, <2>3, SubEvents
  <2>5. Turn = Len(events) + 1 /\ Turn' = Len(events') + 1
    BY <2>2 DEF Turn
  <2>6. \A p \in Safe : Wet(p)' => Wet(p)
    BY <2>2 DEF Wet
  <2>7. \A c \in todo' : c \in {}
    BY <1>5, <2>2 DEF PanelTemperature
  <2>8. Sole /\ Spent("program")' = Spent("program") => ZoneInv'
    BY <2>2, <2>3, <2>4, <2>5, <2>6, <2>7, QuietSole
  <2>9. UNCHANGED budget \/ \E y \in Inputs \ {"program", "zone"} : Spend(y)
    BY <1>0, <1>5 DEF PanelTemperature
  <2> QED BY <2>8, <2>9, OtherSpent
<1> QED BY <1>1, <1>2, <1>3, <1>4, <1>5 DEF Panel

LEMMA SensorSole ==
  ASSUME TypeInv, SoleInv, Sensor
  PROVE  SoleInv'
<1> USE DEF zoneVars, outVars, Idle
<1>1. CASE Rain
  <2>1. \A c \in todo' : c.value = 0 /\ c.off = 0
    BY <1>1, ClosingCalls DEF Rain
  <2>2. "rain" \in Inputs \ {"program", "zone"}
    BY DEF Inputs
  <2> QED BY <1>1, <2>1, <2>2, StopSole DEF Rain
<1>2. CASE Dry
  BY <1>2, StopSole DEF Dry
<1> QED BY <1>1, <1>2 DEF Sensor

LEMMA ErasingSole ==
  ASSUME TypeInv, SoleInv, Erasing
  PROVE  SoleInv'
<1> USE DEF zoneVars, outVars, Idle
<1>1. /\ UNCHANGED <<queued, valve, todo, budget>> /\ todo = {}
      /\ pc = "erase" /\ pc' \in {"erase", "incoming"}
  BY DEF Erasing, Erase, EraseEnd
<1>2. \A p \in Safe : Wet(p)' => Wet(p)
  BY <1>1 DEF Wet
<1>3. Turn = Len(events) + 1 /\ Turn' = Len(events') + 1
  BY <1>1 DEF Turn
<1>4. CASE UNCHANGED events
  <2>1. Sole /\ Spent("program")' = Spent("program") => ZoneInv'
    BY <1>1, <1>2, <1>3, <1>4, QuietSole
  <2> QED BY <1>1, <2>1, OtherSpent
<1>5. CASE it <= Len(events) /\ events' = RemoveAt(events, it)
  <2>1. it \in 1..Len(events) /\ events \in Seq(DelayedEvent)
    BY <1>5, CurrentEvent DEF TypeInv, TypeOK
  <2>2. /\ Unstarted(events) => Unstarted(events')
        /\ OneChain(events) => OneChain(events')
        /\ Timely(events, Len(events) + 1) => Timely(events', Len(events') + 1)
        /\ \A k \in DOMAIN events' : \E j \in DOMAIN events : events'[k] = events[j]
    BY <1>5, <2>1, RemovedTimely
  <2>3. \A k \in DOMAIN events' : events'[k].type = "chain" /\ events'[k].left < 0 =>
          \E j \in DOMAIN events : events[j].type = "chain" /\ events[j].left < 0
    BY <2>2
  <2>4. Sole /\ Spent("program")' = Spent("program") => ZoneInv'
    BY <1>1, <1>2, <1>3, <2>2, <2>3, QuietSole
  <2> QED BY <1>1, <2>4, OtherSpent
<1>6. UNCHANGED events \/ (it <= Len(events) /\ events' = RemoveAt(events, it))
  BY DEF Erasing, Erase, EraseEnd
<1> QED BY <1>4, <1>5, <1>6

(* When the next zone is due, its valves have a second ago been closed.    *)
LEMMA SecondSole ==
  ASSUME TypeInv, OpenInv, SoleInv, Second
  PROVE  SoleInv'
<1>1. /\ events' = Aged(events) /\ pc = "incoming" /\ pc' = "events" /\ it' = 1
      /\ todo = {} /\ todo' = {} /\ UNCHANGED <<queued, valve, budget>>
      /\ \A p \in Valves : queued[p] = NONE
  BY DEF Second, Settled, Idle, outVars
<1>2. events \in Seq(DelayedEvent)
  BY DEF TypeInv, TypeOK
<1>3. Turn = Len(events) + 1 /\ Turn' = 1
  BY <1>1 DEF Turn
<1>4. \A p \in Safe : Wet(p)' => Wet(p)
  BY <1>1 DEF Wet
<1> SUFFICES ASSUME Sole, Spent("program")' = Spent("program") PROVE ZoneInv'
  BY <1>1, OtherSpent
<1>5. Timely(events, Len(events) + 1)
  BY <1>1, <1>3 DEF SoleInv, ZoneInv, Between
<1>6. /\ Timely(events', 1)
      /\ Unstarted(events) => Unstarted(events')
      /\ OneChain(events) => OneChain(events')
      /\ \A k \in DOMAIN events : events[k].type = "chain" /\ events'[k].left < 0 => events[k].left <= 0
  BY <1>1, <1>2, <1>5, AgedTimely
<1>7. ASSUME NEW k \in DOMAIN events', events'[k].type = "chain", events'[k].left < 0
      PROVE  AllDry
  <2>1. k \in DOMAIN events /\ events[k].type = "chain"
    BY <1>1, <1>2, <1>7, AgedKeeps
  <2>2. \A i \in DOMAIN events : events[i].type # "off"
    BY <1>2, <1>5, <1>6, <1>7, <2>1, NoClosingLeft
  <2>3. ASSUME NEW p \in Safe PROVE ~Wet(p)
    <3>1. ~Timed(events, p) /\ ~Ordered(p) /\ queued[p] = NONE
      BY <1>1, <2>2 DEF Timed, IsOff, Ordered, Safe
    <3>2. valve[p] # 1
      BY <3>1 DEF OpenInv, TimedInv, NONE
    <3> QED BY <1>1, <3>1, <3>2 DEF Wet, NONE
  <2> QED BY <2>3 DEF AllDry
<1> QED BY <1>1, <1>3, <1>4, <1>6, <1>7, QuietSole

(* A step of the loop that keeps the events or erases that of this place.  *)
LEMMA LoopSole ==
  ASSUME TypeInv, SoleInv, pc = "events", pc' = "events", it' = it + 1, todo = {},
         UNCHANGED <<queued, valve, budget>>,
         \A c \in todo' : c.value = 0 /\ c.off = 0,
         Unstarted(events) => Unstarted(events'), OneChain(events) => OneChain(events'),
         Timely(events, it) => Timely(events', it + 1),
         \A k \in DOMAIN events' : \E j \in DOMAIN events : events'[k] = events[j]
  PROVE  SoleInv'
<1>1. \A p \in Safe : Wet(p)' => Wet(p)
  BY DEF Wet
<1>2. Turn = it /\ Turn' = it + 1
  BY DEF Turn
<1>3. \A k \in DOMAIN events' : events'[k].type = "chain" /\ events'[k].left < 0 =>
        \E j \in DOMAIN events : events[j].type = "chain" /\ events[j].left < 0
  OBVIOUS
<1> QED BY <1>1, <1>2, <1>3, QuietSole, OtherSpent

(* The valves of the next zone are opened: all others have closed.         *)
LEMMA RunChainSole ==
  ASSUME TypeInv, SoleInv, RunChain
  PROVE  SoleInv'
<1>1. /\ it \in 1..Len(events) /\ it \in DOMAIN events /\ events[it].type = "chain"
      /\ events[it] \in DelayedEvent /\ events[it].left < 0 /\ events \in Seq(DelayedEvent)
      /\ todo = {} /\ pc = "events" /\ pc' = "chain"
      /\ UNCHANGED <<events, timer, queued, valve, it, budget>>
  BY CurrentEvent DEF RunChain, AtEvent, Due, Idle, zoneVars, outVars, TypeInv, TypeOK
<1>2. -events[it].var \in Zones
  BY <1>1, EventKinds
<1>3. PICK z \in Zones : z = -events[it].var
  BY <1>2
<1>4. todo' = IF timer[z] = 0 THEN {} ELSE Calls(z, 1, "changed", timer[z] * MINUTE)
  BY <1>3 DEF RunChain
<1> SUFFICES ASSUME Sole, Spent("program")' = Spent("program") PROVE ZoneInv'
  BY <1>1, OtherSpent
<1>5. /\ Timely(events, it) /\ AllDry /\ OneChain(events) /\ ~Unstarted(events)
  BY <1>1 DEF SoleInv, ZoneInv, Between, Turn, Unstarted
<1>6. \A i \in DOMAIN events : events[i].type # "off"
  BY <1>1, <1>5, NoClosingLeft
<1>7. \A c \in todo' : c.value = 1 /\ c.off = timer[z] * MINUTE /\ InZone(c.valve, z)
  <2>1. PICK d : d = timer[z] * MINUTE
    OBVIOUS
  <2>2. \A c \in Calls(z, 1, "changed", d) :
          c.value = 1 /\ c.off = d /\ \E i \in DOMAIN ValvesOf[z] : ValvesOf[z][i] = c.valve
    BY DEF Calls
  <2>3. z # NoZone
    BY DEF Zones, NoZone
  <2> QED BY <1>4, <2>1, <2>2, <2>3 DEF InZone
<1>8. WetIn(z)'
  <2>1. ASSUME NEW p \in Safe, Wet(p)' PROVE InZone(p, z)
    <3>1. ~Wet(p)
      BY <1>5 DEF AllDry
    <3>2. \E c \in todo' : c.valve = p
      BY <1>1, <2>1, <3>1 DEF Wet
    <3> QED BY <1>7, <3>2
  <2> QED BY <2>1 DEF WetIn, InZone
<1>9. Opening(z)'
  BY <1>1, <1>6, <1>7, <1>8 DEF Opening, InZone
<1>10. \A y \in Zones : y = -events'[it'].var => y = z
  BY <1>1, <1>3
<1>11. Spent("program")' # 0
  BY <1>5 DEF SoleInv, ZoneInv
<1> QED BY <1>1, <1>5, <1>8, <1>9, <1>10, <1>11 DEF ZoneInv

(* The next zone is planned for when the closings of this one are over.    *)
LEMMA ChainEndSole ==
  ASSUME TypeInv, SoleInv, ShortZones, Unique(events'), OneCheck(events'), ChainEnd
  PROVE  SoleInv'
<1>1. /\ pc = "chain" /\ pc' = "events" /\ todo = {} /\ todo' = {}
      /\ UNCHANGED <<queued, valve, timer, budget>>
      /\ events' = RemoveAt(RestOfChain(events, -events[it].var, GAP), it)
  BY DEF ChainEnd, Idle, zoneVars, outVars
<1>2. /\ events \in Seq(DelayedEvent) /\ it \in DOMAIN events /\ events[it].type = "chain"
      /\ events[it] \in DelayedEvent
  BY <1>1, ElementOfSeq, LenProperties DEF TypeInv, TypeOK
<1>3. -events[it].var \in Zones
  BY <1>2, EventKinds
<1>4. PICK z \in Zones : z = -events[it].var
  BY <1>3
<1>5. PICK rest : rest = RestOfChain(events, z, GAP)
  OBVIOUS
<1>6. /\ rest \in Seq(DelayedEvent) /\ it \in 1..Len(rest) /\ events' = RemoveAt(rest, it)
  BY <1>1, <1>4, <1>5, ChainHandled
<1> SUFFICES ASSUME Sole, Spent("program")' = Spent("program") PROVE ZoneInv'
  BY <1>1, OtherSpent
<1>7. PICK d : d = timer[z] * MINUTE
  OBVIOUS
<1>8. d \in Nat /\ GAP \in Nat
  <2>1. timer[z] \in Nat
    BY WateringAssumption DEF TypeInv, TypeOK
  <2> QED BY <1>7, <2>1, Minutes, WateringAssumption
<1>9. Opening(z) /\ OneChain(events) /\ ~Unstarted(events)
  BY <1>1, <1>2, <1>4 DEF SoleInv, ZoneInv, Unstarted
<1>10. \A i \in DOMAIN rest :
         \/ i \in DOMAIN events /\ rest[i] = events[i]
         \/ i = Len(events) + 1 /\ rest[i].type = "chain" /\ rest[i].left = d + GAP
  <2>1. CASE z < NumZones
    <3>1. z + 1 \in Zones /\ d + GAP \in Nat
      BY <1>8, <2>1, WateringAssumption DEF Zones
    <3>2. PICK x : x = ChainEvent(z + 1, d + GAP)
      OBVIOUS
    <3>3. rest = Append(events, x) /\ x \in DelayedEvent /\ x.type = "chain" /\ x.left = d + GAP
      BY <1>2, <1>5, <1>7, <2>1, <3>1, <3>2, PushChain, NewEvents DEF RestOfChain, ChainEvent
    <3>4. /\ DOMAIN rest = 1..(Len(events) + 1)
          /\ \A i \in 1..Len(events) : rest[i] = events[i]
          /\ rest[Len(events) + 1] = x
          /\ Len(events) \in Nat /\ DOMAIN events = 1..Len(events)
      BY <1>2, <3>3, Longer
    <3> QED BY <3>3, <3>4
  <2>2. CASE ~(z < NumZones)
    BY <1>5, <2>2 DEF RestOfChain
  <2> QED BY <2>1, <2>2
<1>11. PICK n : n = it
  OBVIOUS
<1> DEFINE place(k) == IF k < n THEN k ELSE k + 1
<1>12. /\ events' \in Seq(DelayedEvent)
       /\ DOMAIN events' \subseteq Nat
       /\ \A k \in DOMAIN events' : events'[k] = rest[place(k)] /\ place(k) \in DOMAIN rest /\ place(k) # n
       /\ \A j, k \in DOMAIN events' :
            /\ place(j) = place(k) => j = k
            /\ j <= k => place(j) \in Nat /\ place(k) \in Nat /\ place(j) <= place(k)
       /\ \A k \in DOMAIN events' : 1..k \subseteq DOMAIN events'
  <2>1. Len(rest) \in Nat /\ DOMAIN rest = 1..Len(rest)
    BY <1>6, LenProperties
  <2>2. /\ events' \in Seq(DelayedEvent) /\ DOMAIN events' = 1..(Len(rest) - 1)
        /\ \A k \in 1..(Len(rest) - 1) : events'[k] = rest[place(k)]
    BY <1>6, <1>11, RemovedPlaces
  <2>3. n \in 1..Len(rest)
    BY <1>6, <1>11
  <2> QED BY <2>1, <2>2, <2>3
<1> HIDE DEF place
<1>13. ASSUME NEW k \in DOMAIN events', events'[k].type = "chain"
       PROVE  events'[k].left = d + GAP /\ place(k) = Len(events) + 1
  <2>1. ~(place(k) \in DOMAIN events /\ rest[place(k)] = events[place(k)])
    BY <1>2, <1>9, <1>11, <1>12, <1>13 DEF OneChain
  <2> QED BY <1>10, <1>12, <2>1
<1>14. ASSUME NEW k \in DOMAIN events', events'[k].type = "off"
       PROVE  events'[k].left = d /\ k \in Nat /\ k <= GAP
  <2>1. place(k) \in DOMAIN events /\ events'[k] = events[place(k)]
    BY <1>10, <1>12, <1>14
  <2>2. events[place(k)].left = d
    BY <1>7, <1>9, <1>14, <2>1 DEF Opening
  <2>3. \A j \in 1..k : events'[j].type # "chain"
    <3> SUFFICES ASSUME NEW j \in 1..k, events'[j].type = "chain" PROVE FALSE
      OBVIOUS
    <3>1. place(j) = Len(events) + 1 /\ place(j) <= place(k)
      BY <1>12, <1>13
    <3>2. place(k) <= Len(events) /\ Len(events) \in Nat /\ place(k) \in Nat
      BY <1>2, <2>1, LenProperties
    <3> QED BY <3>1, <3>2
  <2>4. \A j \in DOMAIN events' : events'[j].type = "off" => InZone(events'[j].var, z)
    BY <1>9, <1>10, <1>12 DEF Opening
  <2>5. k <= Len(ValvesOf[z]) + 1 /\ k \in Nat /\ Len(ValvesOf[z]) \in Nat
    BY <1>12, <2>3, <2>4, PlaceBound
  <2>6. Len(ValvesOf[z]) < GAP
    BY DEF ShortZones
  <2> QED BY <1>8, <2>1, <2>2, <2>5, <2>6
<1>15. OneChain(events')
  BY <1>12, <1>13 DEF OneChain
<1>16. Timely(events', Turn')
  <2>1. \A i \in Nat : i <= GAP => d >= 0 /\ d + i <= d + GAP
    BY <1>8
  <2> QED BY <1>13, <1>14, <2>1 DEF Timely
<1>17. Between'
  <2>1. \A k \in DOMAIN events' : events'[k].type = "chain" => ~(events'[k].left < 0)
    BY <1>8, <1>13
  <2> QED BY <1>1, <1>16, <2>1 DEF Between
<1>18. WetIn(z)'
  BY <1>1, <1>9 DEF Opening, WetIn, InZone, Wet
<1>19. Spent("program")' # 0
  BY <1>9 DEF SoleInv, ZoneInv
<1> QED BY <1>1, <1>15, <1>17, <1>18, <1>19 DEF ZoneInv

LEMMA DelayedEventsSole ==
  ASSUME TypeInv, SoleInv, ShortZones, Unique(events'), OneCheck(events'), DelayedEvents
  PROVE  SoleInv'
<1> USE DEF zoneVars, outVars, Idle
<1>0. events \in Seq(DelayedEvent) /\ it \in Nat
  BY DEF TypeInv, TypeOK
<1>1. CASE Pass
  <2>1. /\ it \in DOMAIN events /\ ~(events[it].left < 0) /\ UNCHANGED events
        /\ pc = "events" /\ pc' = "events" /\ it' = it + 1 /\ todo = {} /\ todo' = {}
        /\ UNCHANGED <<queued, valve, budget>>
    BY <1>1, CurrentEvent DEF Pass, Due, TypeInv
  <2>2. ASSUME Timely(events, it) PROVE Timely(events, it + 1)
    <3> SUFFICES ASSUME NEW k \in DOMAIN events, NEW i \in DOMAIN events,
                        events[k].type = "chain", events[i].type = "off"
                 PROVE  IF events[i].left >= 0 THEN events[i].left + i <= events[k].left
                        ELSE i <= events[k].left + IF i < it + 1 THEN 0 ELSE 1
      BY DEF Timely
    <3>1. /\ events[i].left \in Int /\ events[k].left \in Int /\ i \in Nat
      BY <1>0, EventLefts
    <3>2. IF events[i].left >= 0 THEN events[i].left + i <= events[k].left
          ELSE i <= events[k].left + IF i < it THEN 0 ELSE 1
      BY <2>2 DEF Timely
    <3>3. i = it => events[i].left >= 0
      BY <2>1, <3>1
    <3>4. i # it => (i < it + 1 <=> i < it)
      BY <1>0, <3>1
    <3> QED BY <3>1, <3>2, <3>3, <3>4
  <2> QED BY <2>1, <2>2, LoopSole
<1>2. CASE RunOff \/ RunCheck
  <2>1. /\ it \in 1..Len(events) /\ events' = RemoveAt(events, it)
        /\ pc = "events" /\ pc' = "events" /\ it' = it + 1 /\ todo = {}
        /\ UNCHANGED <<queued, valve, budget>>
    BY <1>2, CurrentEvent DEF RunOff, RunCheck, AtEvent, TypeInv
  <2>2. \A c \in todo' : c.value = 0 /\ c.off = 0
    BY <1>2 DEF RunOff, RunCheck, AtEvent, CloseCall
  <2>3. /\ Unstarted(events) => Unstarted(events')
        /\ OneChain(events) => OneChain(events')
        /\ Timely(events, it) => Timely(events', it + 1)
        /\ \A k \in DOMAIN events' : \E j \in DOMAIN events : events'[k] = events[j]
    BY <1>0, <2>1, RemovedTimely
  <2> QED BY <2>1, <2>2, <2>3, LoopSole
<1>3. CASE EndEvents
  <2>1. /\ UNCHANGED <<events, queued, valve, todo, budget>> /\ todo = {}
        /\ pc = "events" /\ pc' = "minute" /\ it > Len(events)
    BY <1>3 DEF EndEvents
  <2>2. Turn = it /\ Turn' = Len(events) + 1
    BY <2>1 DEF Turn
  <2>3. \A i \in DOMAIN events : i < it /\ i < Len(events) + 1
    BY <1>0, <2>1, LenProperties
  <2>4. Timely(events, it) => Timely(events, Len(events) + 1)
    BY <2>3 DEF Timely
  <2>5. \A p \in Safe : Wet(p)' => Wet(p)
    BY <2>1 DEF Wet
  <2>6. Sole /\ Spent("program")' = Spent("program") => ZoneInv'
    BY <2>1, <2>2, <2>4, <2>5, QuietSole
  <2> QED BY <2>1, <2>6, OtherSpent
<1> QED BY <1>1, <1>2, <1>3, RunChainSole, ChainEndSole DEF DelayedEvents

LEMMA CalendarSole ==
  ASSUME TypeInv, SoleInv, Calendar
  PROVE  SoleInv'
<1> USE DEF zoneVars, outVars, Idle
<1>1. ASSUME NEW due, CalendarZones(due) PROVE SoleInv'
  BY <1>1, ZoneSpent DEF CalendarZones
<1>2. ASSUME NEW due, CalendarProgram(due) PROVE SoleInv'
  BY <1>2, FirstProgram, ProgramSpent DEF CalendarProgram
<1>3. CASE NothingDue
  <2>1. /\ UNCHANGED <<events, queued, valve, todo, budget>> /\ todo = {}
        /\ pc = "minute" /\ pc' = "incoming"
    BY <1>3 DEF NothingDue
  <2>2. Turn' = Turn
    BY <2>1 DEF Turn
  <2>3. \A p \in Safe : Wet(p)' => Wet(p)
    BY <2>1 DEF Wet
  <2>4. Sole /\ Spent("program")' = Spent("program") => ZoneInv'
    BY <2>1, <2>2, <2>3, QuietSole
  <2> QED BY <2>1, <2>4, OtherSpent
<1> QED BY <1>1, <1>2, <1>3 DEF Calendar

LEMMA NextSole ==
  ASSUME ShortZones
  PROVE  TypeInv /\ OpenInv /\ SoleInv /\ TimersUnique' /\ CheckInv' /\ [Next]_vars => SoleInv'
<1> SUFFICES ASSUME TypeInv, OpenInv, SoleInv, TimersUnique', CheckInv', [Next]_vars PROVE SoleInv'
  OBVIOUS
<1>0. Unique(events') /\ OneCheck(events')
  BY DEF TimersUnique, Unique, CheckInv
<1>1. CASE UNCHANGED vars
  <2>1. UNCHANGED <<events, timer, queued, valve, todo, pc, it, budget>>
    BY <1>1 DEF vars, zoneVars, outVars
  <2> QED BY <2>1 DEF SoleInv, Sole, Spent, ZoneInv, Between, Opening, WetIn, AllDry, Wet, InZone, Turn
<1> QED BY <1>0, <1>1, AddMessageSole, MeshSole, PanelSole, SensorSole, ErasingSole, SecondSole,
           DelayedEventsSole, CalendarSole DEF Next, Program

LEMMA InitSole == Init => SoleInv
<1> SUFFICES ASSUME Init PROVE SoleInv
  OBVIOUS
<1>1. /\ events = <<>> /\ todo = {} /\ pc = "incoming" /\ budget = Budget
      /\ \A p \in Valves : valve[p] = 0 /\ queued[p] = NONE
  BY DEF Init
<1>2. \A x \in Inputs : Spent(x) = 0
  BY <1>1, WateringAssumption DEF Spent
<1>3. AllDry
  BY <1>1 DEF AllDry, Wet, Safe, NONE
<1>4. DOMAIN events = {}
  BY <1>1, EmptySeq
<1>5. Unstarted(events) /\ OneChain(events) /\ Between
  BY <1>1, <1>4 DEF Unstarted, OneChain, Between, Timely
<1>6. WetIn(NoZone)
  BY <1>3 DEF WetIn, AllDry
<1> QED BY <1>1, <1>2, <1>3, <1>5, <1>6 DEF SoleInv, ZoneInv

LEMMA SoleSuffices == SoleInv => OneZoneAtATime
<1> SUFFICES ASSUME SoleInv, Sole PROVE \E z \in Zones \cup {NoZone} : \A p \in Safe :
                  valve[p] = 1 => z # NoZone /\ \E i \in DOMAIN ValvesOf[z] : ValvesOf[z][i] = p
  BY DEF OneZoneAtATime, Sole, Safe
<1>1. PICK z \in Zones \cup {NoZone} : WetIn(z)
  BY DEF SoleInv, ZoneInv
<1> QED BY <1>1 DEF WetIn, Wet, InZone

(* While one program runs, the water of a zone has stopped before that of  *)
(* the next begins, for zones with fewer valves than the pause has         *)
(* seconds: what one second passes over, a later one of the pause closes.  *)
THEOREM OneZoneCorrect ==
  ASSUME ShortZones
  PROVE  Spec => []OneZoneAtATime
<1>1. Init => CheckInv
  BY EmptySeq DEF Init, CheckInv, OneCheck
<1>2. TypeInv /\ OpenInv /\ SoleInv /\ TimersUnique' /\ CheckInv' /\ [Next]_vars => SoleInv'
  BY NextSole
<1> QED BY <1>1, <1>2, InitType, InitOpen, InitSole, NextType, NextUnique, NextCheck, NextOpen,
           SoleSuffices, PTL DEF Spec
=============================================================================
