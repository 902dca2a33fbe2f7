-------------------------- MODULE HpHeatingProofs --------------------------
(***************************************************************************)
(* Proofs about HpHeating: its types, that no zone heats above the         *)
(* temperature wanted, that every open valve has a reason, and that the    *)
(* boiler has an outlet, for any number of sections, zones and pins.       *)
(***************************************************************************)
EXTENDS HpHeating, HpLemmas

ZoneType == [actual : Temps, dir : {"up", "down"}, heater : {0, 1}, cooler : {0, 1}]

(* What the types of the zones and of the pins do not say: an order that   *)
(* waits is for the other status.                                          *)
Differs == \A p \in Pins : queued[p] \in {NONE, 1 - pin[p]}

(* Of the events of a kind one waits. *)
Alone(es) ==
  \A i, j \in DOMAIN es :
    /\ es[i].type = es[j].type
    /\ es[i].type = "check" \/ (es[i].type = "heat" /\ es[i].var = es[j].var)
    => i = j
Good == {es \in Seq(EventType) : Alone(es)}
Asks(es, s) == \E i \in DOMAIN es : es[i].type = "heat" /\ es[i].var = -s
Tempers(es, p) == \E i \in DOMAIN es : es[i].type = "temper" /\ es[i].var = -(NumSections + p)

(* What es asks for is asked for by fs as well. *)
AsksKept(es, fs) == \A s \in Sections : Asks(es, s) => Asks(fs, s)
TempersKept(es, fs) == \A p \in Pins : Tempers(es, p) => Tempers(fs, p)

----------------------------------------------------------------------------
(* Constants.                                                              *)

LEMMA Parameters ==
  /\ NumSections \in Nat \ {0} /\ Sections = 1..NumSections
  /\ SectionOf \in [Zones -> Sections] /\ SensorOf \in [Zones -> Sensors]
  /\ RefOf \in [Sections -> Sensors] /\ Minutes \in [Sections -> Nat]
  /\ Pins \subseteq Nat \ {0} /\ Temps \subseteq Nat /\ DEFAULT \in Temps
  /\ Readings \subseteq Temps /\ Wanted \subseteq Temps
  /\ DIFF \in Nat /\ TEMPERING \in Nat /\ DEGREE \in Nat \ {0}
  /\ MINUTE \in Nat \ {0} /\ OSC \in Nat \ {0} /\ Budget \in [Inputs -> Nat]
BY HeatingAssumption DEF Sections, Temps

LEMMA PinsOfZones ==
  ASSUME NEW z \in Zones
  PROVE  Heaters(z) \subseteq Pins /\ Coolers(z) \subseteq Pins
<1>1. \A i \in DOMAIN HeaterList : HeaterList[i] \in Pins \X Zones
  BY HeatingAssumption, LenProperties, ElementOfSeq
<1>2. \A i \in DOMAIN CoolerList : CoolerList[i] \in Pins \X Zones
  BY HeatingAssumption, LenProperties, ElementOfSeq
<1> QED BY <1>1, <1>2 DEF Heaters, Coolers, ToSet

----------------------------------------------------------------------------
(* The events.                                                             *)

LEMMA Elements ==
  ASSUME NEW es \in Seq(EventType)
  PROVE  /\ Len(es) \in Nat /\ DOMAIN es = 1..Len(es)
         /\ es = [i \in DOMAIN es |-> es[i]]
         /\ \A i \in DOMAIN es : es[i] \in EventType
BY LenProperties, ElementOfSeq, SeqDef

LEMMA EventKinds ==
  ASSUME NEW e \in EventType
  PROVE  /\ e.left \in Nat \cup {-1} /\ e.type \in {"heat", "check", "temper"}
         /\ e.type = "heat" => \E s \in Sections : e.var = -s
         /\ e.type = "check" => e.var \in Temps
         /\ e.type = "temper" => \E p \in Pins : e.var = -(NumSections + p)
         /\ e.type = "check" => \A t \in Temps : [e EXCEPT !.var = t] \in EventType
         /\ \A d \in Nat \cup {-1} : [e EXCEPT !.left = d] \in EventType
<1>1. CASE e \in [type : {"heat"}, var : {-s : s \in Sections}, left : Nat \cup {-1}]
  BY <1>1 DEF EventType
<1>2. CASE e \in [type : {"check"}, var : Temps, left : Nat \cup {-1}]
  BY <1>2 DEF EventType
<1>3. CASE e \in [type : {"temper"}, var : {-(NumSections + p) : p \in Pins}, left : Nat \cup {-1}]
  BY <1>3 DEF EventType
<1> QED BY <1>1, <1>2, <1>3 DEF EventType

(* A heat event's var is no temperature and no heater's. *)
LEMMA HeatVars ==
  ASSUME NEW e \in EventType, NEW s \in Sections, e.var = -s
  PROVE  e.type = "heat"
<1>1. \A t \in Temps : t # -s
  BY Parameters
<1>2. \A p \in Pins : -(NumSections + p) # -s
  <2> TAKE p \in Pins
  <2>1. p \in Nat \ {0} /\ NumSections \in Nat /\ s \in Nat /\ s <= NumSections
    BY Parameters
  <2> QED BY <2>1
<1> QED BY <1>1, <1>2, EventKinds

(* One event is replaced by one of its kind. *)
LEMMA Replaced ==
  ASSUME NEW es \in Good, NEW k \in DOMAIN es, NEW e \in EventType,
         e.type = es[k].type, e.type # "check" => e.var = es[k].var
  PROVE  LET fs == [es EXCEPT ![k] = e]
         IN fs \in Good /\ AsksKept(es, fs) /\ TempersKept(es, fs)
<1> DEFINE fs == [es EXCEPT ![k] = e]
<1>1. es \in Seq(EventType) /\ Alone(es)
  BY DEF Good
<1>2. fs \in Seq(EventType)
  BY <1>1, ReplaceType
<1>3. DOMAIN fs = DOMAIN es /\ \A i \in DOMAIN es : fs[i] = IF i = k THEN e ELSE es[i]
  BY <1>1, Elements
<1> HIDE DEF fs
<1>4. Alone(fs)
  BY <1>1, <1>3 DEF Alone
<1>5. AsksKept(es, fs)
  BY <1>3 DEF AsksKept, Asks
<1>6. TempersKept(es, fs)
  BY <1>3 DEF TempersKept, Tempers
<1> QED BY <1>2, <1>4, <1>5, <1>6 DEF Good, fs

(* An event whose like does not wait is added. *)
LEMMA Added ==
  ASSUME NEW es \in Good, NEW e \in EventType,
         \A i \in DOMAIN es :
           ~(es[i].type = e.type /\ (e.type = "check" \/ (e.type = "heat" /\ es[i].var = e.var)))
  PROVE  LET fs == Append(es, e)
         IN /\ fs \in Good /\ AsksKept(es, fs) /\ TempersKept(es, fs)
            /\ \E i \in DOMAIN fs : fs[i] = e
<1> DEFINE fs == Append(es, e)
<1>1. es \in Seq(EventType) /\ Alone(es)
  BY DEF Good
<1>2. /\ fs \in Seq(EventType) /\ Len(es) \in Nat /\ DOMAIN es = 1..Len(es)
      /\ DOMAIN fs = 1..(Len(es) + 1)
      /\ \A i \in 1..Len(es) : fs[i] = es[i]
      /\ fs[Len(es) + 1] = e
  BY <1>1, Longer
<1> HIDE DEF fs
<1>3. \A i \in DOMAIN fs : (i \in DOMAIN es /\ fs[i] = es[i]) \/ (i = Len(es) + 1 /\ fs[i] = e)
  BY <1>2
<1>4. Alone(fs)
  BY <1>1, <1>3 DEF Alone
<1>5. \A i \in DOMAIN es : i \in DOMAIN fs /\ fs[i] = es[i]
  BY <1>2
<1>6. AsksKept(es, fs) /\ TempersKept(es, fs)
  BY <1>5 DEF AsksKept, Asks, TempersKept, Tempers
<1>7. Len(es) + 1 \in DOMAIN fs
  BY <1>2
<1> QED BY <1>2, <1>4, <1>6, <1>7 DEF Good, fs

LEMMA FoundPlace ==
  ASSUME NEW es \in Good, NEW x, AlreadyThere(es, x) # {}
  PROVE  FirstOf(AlreadyThere(es, x)) \in AlreadyThere(es, x) /\ AlreadyThere(es, x) \subseteq DOMAIN es
<1> DEFINE found == AlreadyThere(es, x)
<1>1. found \subseteq Nat /\ found \subseteq DOMAIN es
  BY Elements DEF AlreadyThere, Good
<1> HIDE DEF found
<1>2. found # {}
  BY DEF found
<1>3. \E k \in found : \A j \in found : k <= j
  BY <1>1, <1>2, LeastExists
<1>4. FirstOf(found) \in found
  BY <1>3 DEF FirstOf
<1> QED BY <1>1, <1>4 DEF found

LEMMA PushHeat ==
  ASSUME NEW es \in Good, NEW s \in Sections
  PROVE  LET fs == Push(es, HeatEvent(s))
         IN fs \in Good /\ AsksKept(es, fs) /\ TempersKept(es, fs) /\ Asks(fs, s)
<1> DEFINE x == HeatEvent(s)
           found == AlreadyThere(es, x)
           k == FirstOf(found)
<1>1. x \in EventType /\ x.type = "heat" /\ x.var = -s /\ x.left = 1
  BY DEF HeatEvent, EventType
<1> HIDE DEF x
<1>2. es \in Seq(EventType) /\ \A i \in DOMAIN es : es[i] \in EventType
  BY Elements DEF Good
<1>3. CASE found = {}
  <2>1. Push(es, x) = Append(es, x)
    BY <1>3 DEF Push
  <2>2. \A i \in DOMAIN es : es[i].var # x.var
    BY <1>1, <1>3 DEF AlreadyThere
  <2>3. Push(es, x) \in Good /\ AsksKept(es, Push(es, x)) /\ TempersKept(es, Push(es, x))
        /\ \E i \in DOMAIN Push(es, x) : Push(es, x)[i] = x
    BY <1>1, <2>1, <2>2, Added
  <2> QED BY <1>1, <2>3 DEF Asks, x
<1>4. CASE found # {}
  <2>1. k \in DOMAIN es /\ es[k].var = -s
    BY <1>1, <1>4, FoundPlace DEF AlreadyThere
  <2>2. es[k] \in EventType /\ es[k].type = "heat"
    BY <1>2, <2>1, HeatVars
  <2> DEFINE e == [es[k] EXCEPT !.left = x.left]
  <2>3. e \in EventType /\ e.type = "heat" /\ e.var = -s
    BY <1>1, <2>1, <2>2, EventKinds DEF EventType
  <2>4. Push(es, x) = [es EXCEPT ![k] = e]
    BY <1>1, <1>4 DEF Push
  <2> HIDE DEF e
  <2>5. Push(es, x) \in Good /\ AsksKept(es, Push(es, x)) /\ TempersKept(es, Push(es, x))
    BY <2>1, <2>2, <2>3, <2>4, Replaced
  <2>6. Asks(es, s)
    BY <2>1, <2>2 DEF Asks
  <2> QED BY <2>5, <2>6 DEF AsksKept, x
<1> QED BY <1>3, <1>4

LEMMA PushCheck ==
  ASSUME NEW es \in Good, NEW t \in Temps
  PROVE  LET fs == Push(es, CheckEvent(t))
         IN fs \in Good /\ AsksKept(es, fs) /\ TempersKept(es, fs)
<1> DEFINE x == CheckEvent(t)
           found == AlreadyThere(es, x)
           k == FirstOf(found)
<1>1. x \in EventType /\ x.type = "check" /\ x.var = t
  BY DEF CheckEvent, EventType
<1> HIDE DEF x
<1>2. es \in Seq(EventType) /\ \A i \in DOMAIN es : es[i] \in EventType
  BY Elements DEF Good
<1>3. CASE found = {}
  <2>1. Push(es, x) = Append(es, x)
    BY <1>3 DEF Push
  <2>2. \A i \in DOMAIN es : es[i].type # "check"
    BY <1>1, <1>3 DEF AlreadyThere
  <2> QED BY <1>1, <2>1, <2>2, Added DEF x
<1>4. CASE found # {}
  <2>1. k \in DOMAIN es /\ es[k].type = "check"
    BY <1>1, <1>4, FoundPlace DEF AlreadyThere
  <2> DEFINE e == [es[k] EXCEPT !.var = x.var]
  <2>2. e \in EventType
    BY <1>1, <1>2, <2>1, EventKinds
  <2>3. e.type = "check"
    BY <1>2, <2>1 DEF EventType
  <2>4. Push(es, x) = [es EXCEPT ![k] = e]
    BY <1>1, <1>4 DEF Push
  <2> HIDE DEF e
  <2> QED BY <2>1, <2>2, <2>3, <2>4, Replaced DEF x
<1> QED BY <1>3, <1>4

LEMMA AgedKeeps ==
  ASSUME NEW es \in Good
  PROVE  Aged(es) \in Good /\ AsksKept(es, Aged(es)) /\ TempersKept(es, Aged(es))
<1> DEFINE older(e) == [e EXCEPT !.left = IF e.left < 0 THEN -1 ELSE e.left - 1]
<1>1. /\ es \in Seq(EventType) /\ Alone(es) /\ Len(es) \in Nat /\ DOMAIN es = 1..Len(es)
      /\ \A i \in DOMAIN es : es[i] \in EventType
  BY Elements DEF Good
<1>2. \A i \in DOMAIN es : older(es[i]) \in EventType
  <2> TAKE i \in DOMAIN es
  <2>1. es[i].left \in Nat \cup {-1}
    BY <1>1, EventKinds
  <2>2. (IF es[i].left < 0 THEN -1 ELSE es[i].left - 1) \in Nat \cup {-1}
    BY <2>1
  <2> QED BY <1>1, <2>2, EventKinds
<1>3. \A i \in DOMAIN es : older(es[i]).type = es[i].type /\ older(es[i]).var = es[i].var
  BY <1>1 DEF EventType
<1>4. Aged(es) = [i \in DOMAIN es |-> older(es[i])]
  BY DEF Aged
<1> HIDE DEF older
<1>5. Aged(es) \in [1..Len(es) -> EventType]
  BY <1>1, <1>2, <1>4
<1>6. Aged(es) \in Seq(EventType)
  BY <1>1, <1>5, FunctionIsSeq
<1>7. DOMAIN Aged(es) = DOMAIN es
      /\ \A i \in DOMAIN es : Aged(es)[i].type = es[i].type /\ Aged(es)[i].var = es[i].var
  BY <1>3, <1>4
<1>8. Alone(Aged(es))
  BY <1>1, <1>7 DEF Alone
<1>9. AsksKept(es, Aged(es)) /\ TempersKept(es, Aged(es))
  BY <1>7 DEF AsksKept, Asks, TempersKept, Tempers
<1> QED BY <1>6, <1>8, <1>9 DEF Good

(* What is left when event k is erased. *)
LEMMA ErasedKeeps ==
  ASSUME NEW es \in Good, NEW k \in DOMAIN es
  PROVE  /\ RemoveAt(es, k) \in Good
         /\ \A s \in Sections : es[k].var # -s => (Asks(es, s) => Asks(RemoveAt(es, k), s))
         /\ es[k].type # "temper" => TempersKept(es, RemoveAt(es, k))
         /\ \A p \in Pins : es[k].var # -(NumSections + p) =>
              (Tempers(es, p) => Tempers(RemoveAt(es, k), p))
<1> DEFINE fs == RemoveAt(es, k)
           old(i) == IF i < k THEN i ELSE i + 1
<1>1. es \in Seq(EventType) /\ Alone(es) /\ Len(es) \in Nat /\ DOMAIN es = 1..Len(es) /\ k \in 1..Len(es)
  BY Elements DEF Good
<1>2. fs \in Seq(EventType) /\ DOMAIN fs = 1..(Len(es) - 1)
      /\ \A i \in 1..(Len(es) - 1) : fs[i] = es[old(i)]
  BY <1>1, RemovedPlaces
<1>3. \A j \in DOMAIN es : j # k => \E i \in DOMAIN fs : fs[i] = es[j]
  BY <1>1, Removed
<1> HIDE DEF fs
<1>4. \A i, j \in 1..(Len(es) - 1) :
        old(i) \in DOMAIN es /\ old(j) \in DOMAIN es /\ (old(i) = old(j) => i = j)
  BY <1>1
<1> HIDE DEF old
<1>5. Alone(fs)
  BY <1>1, <1>2, <1>4 DEF Alone
<1>6. ASSUME NEW s \in Sections, es[k].var # -s, Asks(es, s)
      PROVE  Asks(fs, s)
  BY <1>3, <1>6 DEF Asks
<1>7. ASSUME NEW p \in Pins, es[k].var # -(NumSections + p) \/ es[k].type # "temper", Tempers(es, p)
      PROVE  Tempers(fs, p)
  BY <1>3, <1>7 DEF Tempers
<1> QED BY <1>2, <1>5, <1>6, <1>7 DEF Good, TempersKept, fs

(* The events of a tempering. *)
LEMMA TemperedPairs ==
  ASSUME NEW S
  PROVE  /\ Tempered(S) \in Seq(Pins \X Zones)
         /\ \A i \in DOMAIN Tempered(S) : SectionOf[Tempered(S)[i][2]] \in S
         /\ \A i \in DOMAIN Tempered(S) : Tempered(S)[i] \in ToSet(HeaterList)
<1> DEFINE all == ToSet(HeaterList)
           gone == {x \in all : SectionOf[x[2]] \notin S}
           list == Tempered(S)
<1>1. /\ Len(HeaterList) \in Nat /\ DOMAIN HeaterList = 1..Len(HeaterList)
      /\ HeaterList = [i \in DOMAIN HeaterList |-> HeaterList[i]]
      /\ \A i \in DOMAIN HeaterList : HeaterList[i] \in Pins \X Zones
  BY HeatingAssumption, LenProperties, ElementOfSeq, SeqDef
<1>2. HeaterList \in [1..Len(HeaterList) -> all] /\ all \subseteq Pins \X Zones
  BY <1>1 DEF ToSet
<1>3. HeaterList \in Seq(all)
  BY <1>1, <1>2, FunctionIsSeq
<1>4. list = Without(HeaterList, gone)
  BY DEF Tempered
<1>5. list \in Seq(all \ gone)
  <2> HIDE DEF all, gone
  <2> QED BY <1>3, <1>4, WithoutKeeps
<1>6. \A x \in all \ gone : SectionOf[x[2]] \in S
  OBVIOUS
<1> HIDE DEF all, gone, list
<1>7. \A i \in DOMAIN list : list[i] \in all \ gone
  BY <1>5, LenProperties, ElementOfSeq
<1>8. list \in Seq(Pins \X Zones)
  BY <1>2, <1>5, SeqMonotonic
<1> QED BY <1>6, <1>7, <1>8 DEF list, all

LEMMA TimesNat ==
  ASSUME NEW a \in Nat, NEW b \in Nat
  PROVE  a * b \in Nat
OBVIOUS

LEMMA TemperedEvents ==
  ASSUME NEW S \in SUBSET Sections
  PROVE  /\ TemperEvents(S) \in Seq(EventType)
         /\ Len(TemperEvents(S)) = Len(Tempered(S))
         /\ \A i \in DOMAIN TemperEvents(S) :
              TemperEvents(S)[i].type = "temper" /\ TemperEvents(S)[i].var = -(NumSections + Tempered(S)[i][1])
<1> DEFINE list == Tempered(S)
<1>1. /\ list \in Seq(Pins \X Zones) /\ Len(list) \in Nat /\ DOMAIN list = 1..Len(list)
      /\ \A i \in DOMAIN list : list[i][1] \in Pins /\ SectionOf[list[i][2]] \in S
  BY TemperedPairs, LenProperties, ElementOfSeq
<1>2. TemperEvents(S) = [i \in DOMAIN list |-> TemperEvent(list[i][1], SectionOf[list[i][2]])]
  BY DEF TemperEvents
<1> HIDE DEF list
<1>3. ASSUME NEW p \in Pins, NEW s \in Sections
      PROVE  /\ TemperEvent(p, s) \in EventType
             /\ TemperEvent(p, s).type = "temper" /\ TemperEvent(p, s).var = -(NumSections + p)
  <2>1. Minutes[s] * MINUTE \in Nat
    BY Parameters, TimesNat
  <2> QED BY <2>1 DEF TemperEvent, EventType
<1>4. TemperEvents(S) \in [1..Len(list) -> EventType]
  BY <1>1, <1>2, <1>3
<1>5. TemperEvents(S) \in Seq(EventType) /\ Len(TemperEvents(S)) = Len(list)
  BY <1>1, <1>4, FunctionIsSeq
<1>6. DOMAIN TemperEvents(S) = DOMAIN list
  BY <1>2
<1> QED BY <1>1, <1>2, <1>3, <1>5, <1>6 DEF list

LEMMA TemperingAdded ==
  ASSUME NEW es \in Good, NEW S \in SUBSET Sections
  PROVE  LET fs == es \o TemperEvents(S)
         IN /\ fs \in Good /\ AsksKept(es, fs) /\ TempersKept(es, fs)
            /\ \A p, v : <<p, v>> \in TemperOrders(S) =>
                 v = 1 /\ Tempers(fs, p) /\ \E z \in Zones : p \in Heaters(z)
<1> DEFINE new == TemperEvents(S)
           list == Tempered(S)
           fs == es \o new
<1>1. /\ es \in Seq(EventType) /\ Alone(es) /\ Len(es) \in Nat /\ DOMAIN es = 1..Len(es)
  BY Elements DEF Good
<1>2. /\ new \in Seq(EventType) /\ Len(new) = Len(list) /\ DOMAIN new = 1..Len(new) /\ Len(new) \in Nat
      /\ \A i \in DOMAIN new : new[i].type = "temper" /\ new[i].var = -(NumSections + list[i][1])
  BY TemperedEvents, LenProperties
<1>3. DOMAIN list = 1..Len(list)
  BY TemperedPairs, LenProperties
<1> HIDE DEF new, list
<1>4. /\ fs \in Seq(EventType) /\ DOMAIN fs = 1..(Len(es) + Len(new))
      /\ \A i \in 1..(Len(es) + Len(new)) : fs[i] = IF i <= Len(es) THEN es[i] ELSE new[i - Len(es)]
  <2>0. es \in Seq(EventType) /\ new \in Seq(EventType)
    BY <1>1, <1>2
  <2>1. /\ fs \in Seq(EventType) /\ Len(fs) = Len(es) + Len(new)
        /\ \A i \in 1..(Len(es) + Len(new)) : fs[i] = IF i <= Len(es) THEN es[i] ELSE new[i - Len(es)]
    <3> HIDE DEF EventType
    <3> QED BY <2>0, ConcatProperties
  <2> HIDE DEF fs
  <2>2. DOMAIN fs = 1..Len(fs)
    BY <2>1, LenProperties
  <2> QED BY <2>1, <2>2
<1> HIDE DEF fs
<1>5. \A i \in DOMAIN fs : (i \in DOMAIN es /\ fs[i] = es[i]) \/ fs[i].type = "temper"
  BY <1>1, <1>2, <1>4
<1>6. Alone(fs)
  BY <1>1, <1>5 DEF Alone
<1>7. \A i \in DOMAIN es : i \in DOMAIN fs /\ fs[i] = es[i]
  BY <1>1, <1>2, <1>4
<1>8. AsksKept(es, fs) /\ TempersKept(es, fs)
  BY <1>7 DEF AsksKept, Asks, TempersKept, Tempers
<1>9. ASSUME NEW p, NEW v, <<p, v>> \in TemperOrders(S)
      PROVE  v = 1 /\ Tempers(fs, p) /\ \E z \in Zones : p \in Heaters(z)
  <2>1. PICK i \in DOMAIN list : <<p, v>> = <<list[i][1], 1>>
    BY <1>9 DEF TemperOrders, ToSet, list
  <2>2. v = 1 /\ p = list[i][1] /\ i \in DOMAIN new
    BY <1>2, <1>3, <2>1
  <2>4. list[i] \in ToSet(HeaterList) /\ list[i] \in Pins \X Zones
    BY <2>1, TemperedPairs, LenProperties, ElementOfSeq DEF list
  <2>5. list[i][2] \in Zones /\ p \in Heaters(list[i][2])
    BY <2>2, <2>4 DEF Heaters
  <2>3. Len(es) + i \in DOMAIN fs /\ fs[Len(es) + i] = new[i]
    BY <1>1, <1>2, <1>4, <2>2
  <2> QED BY <1>2, <2>2, <2>3, <2>5 DEF Tempers
<1> QED BY <1>4, <1>6, <1>8, <1>9 DEF Good, fs, new

----------------------------------------------------------------------------
(* Zones and orders.                                                       *)

LEMMA AimsType ==
  ASSUME NEW m, NEW qs \in [Sections -> Temps], NEW a \in Temps, NEW e \in Temps
  PROVE  Aims(m, qs, a, e) \in [Sections -> Int]
<1>0. Temps \subseteq Int
  BY Parameters
<1>1. a \in Int /\ \A s \in Sections : qs[s] \in Int
  BY <1>0
<1>2. Whole(e) \in Int
  <2>1. e \in Nat /\ DEGREE \in Nat \ {0}
    BY Parameters
  <2>2. e % DEGREE \in Int
    BY <2>1
  <2> QED BY <2>1, <2>2 DEF Whole
<1> HIDE DEF Whole
<1>3. \A s \in Sections : (CASE m = "auto" -> a [] m = "eco" -> Whole(e) [] OTHER -> qs[s]) \in Int
  BY <1>1, <1>2
<1> QED BY <1>3 DEF Aims

LEMMA DecidedType ==
  ASSUME NEW zn \in ZoneType, NEW m \in Modes, NEW q \in Int
  PROVE  /\ Decided(zn, m, q) \in ZoneType
         /\ Decided(zn, m, q).actual = zn.actual
         /\ Decided(zn, m, q).heater = 1 => zn.actual < q
         /\ Decided(zn, m, q).cooler = 1 => m = "cooling"
         /\ Decided(zn, m, q).heater = 1 => m # "cooling"
<1>1. zn.actual \in Nat /\ zn.dir \in {"up", "down"} /\ DIFF \in Nat
  BY Parameters DEF ZoneType
<1>2. Heats(zn, q) => zn.actual < q
  BY <1>1 DEF Heats
<1> HIDE DEF Heats, Cools
<1>3. On(Heats(zn, q)) \in {0, 1} /\ (On(Heats(zn, q)) = 1 => Heats(zn, q)) /\ On(Cools(zn, q)) \in {0, 1}
  BY DEF On
<1>4. On(zn.actual < q) \in {0, 1} /\ (On(zn.actual < q) = 1 => zn.actual < q)
  BY DEF On
<1> HIDE DEF On
<1>5. CASE m = "off"
  <2>1. Decided(zn, m, q) = [zn EXCEPT !.heater = 0, !.cooler = 0]
    BY <1>5 DEF Decided
  <2>2. Decided(zn, m, q) = [actual |-> zn.actual, dir |-> zn.dir, heater |-> 0, cooler |-> 0]
    BY <2>1 DEF ZoneType
  <2> QED BY <1>1, <2>2 DEF ZoneType
<1>6. CASE m = "eco"
  <2> DEFINE h == On(zn.actual < q)
  <2>1. h \in {0, 1} /\ (h = 1 => zn.actual < q)
    BY <1>4
  <2>2. Decided(zn, m, q) = [zn EXCEPT !.heater = h, !.cooler = 0]
    BY <1>6 DEF Decided
  <2> HIDE DEF h
  <2>3. Decided(zn, m, q) = [actual |-> zn.actual, dir |-> zn.dir, heater |-> h, cooler |-> 0]
    BY <2>2 DEF ZoneType
  <2> QED BY <1>1, <1>6, <2>1, <2>3 DEF ZoneType
<1>7. CASE m = "cooling"
  <2> DEFINE c == On(Cools(zn, q))
             d == IF Cools(zn, q) THEN "down" ELSE "up"
  <2>1. c \in {0, 1} /\ d \in {"up", "down"}
    BY <1>3
  <2>2. Decided(zn, m, q) = [zn EXCEPT !.heater = 0, !.cooler = c, !.dir = d]
    BY <1>7 DEF Decided
  <2> HIDE DEF c, d
  <2>3. Decided(zn, m, q) = [actual |-> zn.actual, dir |-> d, heater |-> 0, cooler |-> c]
    BY <2>2 DEF ZoneType
  <2> QED BY <1>7, <2>1, <2>3 DEF ZoneType
<1>8. CASE m \in {"manual", "auto"}
  <2> DEFINE h == On(Heats(zn, q))
             d == IF Heats(zn, q) THEN "up" ELSE "down"
  <2>1. h \in {0, 1} /\ d \in {"up", "down"} /\ (h = 1 => zn.actual < q)
    BY <1>2, <1>3
  <2>2. Decided(zn, m, q) = [zn EXCEPT !.heater = h, !.cooler = 0, !.dir = d]
    BY <1>8 DEF Decided
  <2> HIDE DEF h, d
  <2>3. Decided(zn, m, q) = [actual |-> zn.actual, dir |-> d, heater |-> h, cooler |-> 0]
    BY <2>2 DEF ZoneType
  <2> QED BY <1>8, <2>1, <2>3 DEF ZoneType
<1> QED BY <1>5, <1>6, <1>7, <1>8 DEF Modes

LEMMA ProcessedType ==
  ASSUME NEW zs \in [Zones -> ZoneType], NEW S \in SUBSET Zones, NEW m \in Modes,
         NEW aims \in [Sections -> Int]
  PROVE  LET new == Processed(zs, S, m, aims)
         IN /\ new \in [Zones -> ZoneType]
            /\ \A z \in Zones :
                 /\ new[z].actual = zs[z].actual
                 /\ z \notin S => new[z] = zs[z]
                 /\ z \in S /\ new[z].heater = 1 => new[z].actual < aims[SectionOf[z]]
                 /\ z \in S /\ new[z].cooler = 1 => m = "cooling"
                 /\ z \in S /\ new[z].heater = 1 => m # "cooling"
<1>1. \A z \in Zones : zs[z] \in ZoneType /\ aims[SectionOf[z]] \in Int
  BY Parameters
<1>2. \A z \in Zones :
        /\ Decided(zs[z], m, aims[SectionOf[z]]) \in ZoneType
        /\ Decided(zs[z], m, aims[SectionOf[z]]).actual = zs[z].actual
        /\ Decided(zs[z], m, aims[SectionOf[z]]).heater = 1 => zs[z].actual < aims[SectionOf[z]]
        /\ Decided(zs[z], m, aims[SectionOf[z]]).cooler = 1 => m = "cooling"
        /\ Decided(zs[z], m, aims[SectionOf[z]]).heater = 1 => m # "cooling"
  BY <1>1, DecidedType
<1> QED BY <1>1, <1>2 DEF Processed

LEMMA ProcessedZone ==
  ASSUME NEW zs \in [Zones -> ZoneType], NEW S \in SUBSET Zones, NEW m \in Modes,
         NEW aims \in [Sections -> Int], NEW z \in Zones
  PROVE  /\ z \notin S => Processed(zs, S, m, aims)[z] = zs[z]
         /\ Processed(zs, S, m, aims)[z].actual = zs[z].actual
         /\ z \in S /\ Processed(zs, S, m, aims)[z].heater = 1 =>
              Processed(zs, S, m, aims)[z].actual < aims[SectionOf[z]]
         /\ z \in S /\ Processed(zs, S, m, aims)[z].cooler = 1 => m = "cooling"
         /\ z \in S /\ Processed(zs, S, m, aims)[z].heater = 1 => m # "cooling"
BY ProcessedType

(* What the orders of the zones in S are. *)
LEMMA OrdersAre ==
  ASSUME NEW zs \in [Zones -> ZoneType], NEW S \in SUBSET Zones, NEW m, NEW aims
  PROVE  LET new == Processed(zs, S, m, aims)
         IN /\ \A p, v : <<p, v>> \in OrdersOf(zs, S, m, aims) =>
                 \E z \in S : \/ p \in Heaters(z) /\ v = new[z].heater
                              \/ p \in Coolers(z) /\ v = new[z].cooler
            /\ \A z \in S : \A p \in Heaters(z) :
                 m # "cooling" \/ zs[z].heater = 1 => <<p, new[z].heater>> \in OrdersOf(zs, S, m, aims)
            /\ \A z \in S : \A p \in Coolers(z) :
                 m = "cooling" \/ zs[z].cooler = 1 => <<p, new[z].cooler>> \in OrdersOf(zs, S, m, aims)
<1> DEFINE new == Processed(zs, S, m, aims)
<1>1. OrdersOf(zs, S, m, aims) = UNION {Orders(z, zs[z], new[z], m) : z \in S}
  BY DEF OrdersOf
<1> HIDE DEF new
<1>2. ASSUME NEW p, NEW v, <<p, v>> \in OrdersOf(zs, S, m, aims)
      PROVE  \E z \in S : \/ p \in Heaters(z) /\ v = new[z].heater
                          \/ p \in Coolers(z) /\ v = new[z].cooler
  <2>1. PICK z \in S : <<p, v>> \in Orders(z, zs[z], new[z], m)
    BY <1>1, <1>2
  <2> QED BY <2>1 DEF Orders
<1>3. ASSUME NEW z \in S, NEW p \in Heaters(z), m # "cooling" \/ zs[z].heater = 1
      PROVE  <<p, new[z].heater>> \in OrdersOf(zs, S, m, aims)
  <2>1. <<p, new[z].heater>> \in Orders(z, zs[z], new[z], m)
    BY <1>3 DEF Orders
  <2> QED BY <1>1, <2>1
<1>4. ASSUME NEW z \in S, NEW p \in Coolers(z), m = "cooling" \/ zs[z].cooler = 1
      PROVE  <<p, new[z].cooler>> \in OrdersOf(zs, S, m, aims)
  <2>1. <<p, new[z].cooler>> \in Orders(z, zs[z], new[z], m)
    BY <1>4 DEF Orders
  <2> QED BY <1>1, <2>1
<1> QED BY <1>2, <1>3, <1>4 DEF new

(* The status a pin has, or will have when its order has arrived. *)
Eff(p) == IF queued[p] = NONE THEN pin[p] ELSE queued[p]

LEMMA Obeyed ==
  ASSUME pin \in [Pins -> {0, 1}], queued \in [Pins -> {NONE, 0, 1}], Differs,
         pin' = pin, NEW orders, Obey(orders)
  PROVE  /\ queued' \in [Pins -> {NONE, 0, 1}] /\ crossed' \subseteq Pins /\ Differs'
         /\ \A p \in Pins \ crossed' :
              /\ \A v \in {0, 1} : <<p, v>> \in orders => Eff(p)' = v
              /\ (\A v \in {0, 1} : <<p, v>> \notin orders) => p \notin crossed /\ Eff(p)' = Eff(p)
<1>1. ASSUME NEW p \in Pins
      PROVE  /\ queued'[p] = IF queued[p] = NONE /\ <<p, 1 - pin[p]>> \in orders THEN 1 - pin[p] ELSE queued[p]
             /\ queued[p] \in {NONE, 1 - pin[p]} /\ pin[p] \in {0, 1} /\ pin'[p] = pin[p]
             /\ 1 - pin[p] \in {0, 1} /\ 1 - pin[p] # pin[p] /\ NONE \notin {0, 1}
             /\ \A v \in {0, 1} : v = pin[p] \/ v = 1 - pin[p]
  BY DEF Obey, Differs, NONE
<1>2. \A p \in Pins : queued'[p] \in {NONE, 1 - pin[p]} /\ queued'[p] \in {NONE, 0, 1}
  BY <1>1
<1>3. queued' \in [Pins -> {NONE, 0, 1}] /\ crossed' \subseteq Pins
  BY <1>2 DEF Obey
<1>4. Differs'
  BY <1>2, <1>1 DEF Differs
<1>5. ASSUME NEW p \in Pins, p \notin crossed'
      PROVE  /\ \A v \in {0, 1} : <<p, v>> \in orders => Eff(p)' = v
             /\ (\A v \in {0, 1} : <<p, v>> \notin orders) => p \notin crossed /\ Eff(p)' = Eff(p)
  <2>1. ~(queued'[p] # NONE /\ <<p, pin[p]>> \in orders)
    BY <1>5 DEF Obey
  <2>2. ~(p \in crossed /\ {<<p, 0>>, <<p, 1>>} \cap orders = {})
    BY <1>5 DEF Obey
  <2>3. Eff(p)' = IF queued'[p] = NONE THEN pin[p] ELSE queued'[p]
    BY <1>1 DEF Eff
  <2>4. ASSUME NEW v \in {0, 1}, <<p, v>> \in orders
        PROVE  Eff(p)' = v
    BY <1>1, <2>1, <2>3, <2>4
  <2>5. ASSUME \A v \in {0, 1} : <<p, v>> \notin orders
        PROVE  p \notin crossed /\ Eff(p)' = Eff(p)
    <3>1. queued'[p] = queued[p]
      BY <1>1, <2>5
    <3>2. {<<p, 0>>, <<p, 1>>} \cap orders = {}
      BY <2>5
    <3> QED BY <2>2, <2>3, <3>1, <3>2 DEF Eff
  <2> QED BY <2>4, <2>5
<1> QED BY <1>3, <1>4, <1>5

----------------------------------------------------------------------------
(* Reasons.  CoolsWith is for coolers what Wants is for heaters.           *)

CoolsWith(p) == \E z \in Zones : zone[z].cooler = 1 /\ p \in Coolers(z)
HeatReason(p) == Wants(p) \/ Tempers(events, p)
Reasoned ==
  \A p \in Pins \ crossed : Eff(p) = 1 =>
    \A z \in Zones : (p \in Heaters(z) => HeatReason(p)) /\ (p \in Coolers(z) => CoolsWith(p))

PinsTyped == pin \in [Pins -> {0, 1}] /\ queued \in [Pins -> {NONE, 0, 1}] /\ Differs

(* The orders beside those of the zones: tempering, vents and boiler. *)
Harmless(extra) ==
  \A p, v : <<p, v>> \in extra =>
    \A z \in Zones : p \notin Coolers(z) /\ (p \in Heaters(z) => v = 1 /\ Tempers(events, p)')

LEMMA ReasonKept ==
  ASSUME PinsTyped, Reasoned, zone \in [Zones -> ZoneType], NEW zs \in [Zones -> ZoneType],
         \A z \in Zones : zs[z].heater = zone[z].heater /\ zs[z].cooler = zone[z].cooler,
         NEW S \in SUBSET Zones, NEW m \in Modes,
         NEW aims \in [Sections -> Int], NEW aims2 \in [Sections -> Int],
         NEW all \in SUBSET Zones, all = {} \/ (all = Zones /\ m = "auto"),
         zone' = Processed(Processed(zs, S, m, aims), all, m, aims2),
         NEW extra, Harmless(extra), TempersKept(events, events'), pin' = pin,
         Obey(OrdersOf(zs, S, m, aims) \cup OrdersOf(Processed(zs, S, m, aims), all, m, aims2) \cup extra)
  PROVE  Reasoned'
<1> DEFINE mid == Processed(zs, S, m, aims)
           first == OrdersOf(zs, S, m, aims)
           second == OrdersOf(mid, all, m, aims2)
           orders == first \cup second \cup extra
<1>1. mid \in [Zones -> ZoneType]
      /\ \A z \in Zones : (z \notin S => mid[z] = zs[z]) /\ (z \in S /\ mid[z].cooler = 1 => m = "cooling")
  <2>1. mid \in [Zones -> ZoneType]
    BY ProcessedType
  <2>2. ASSUME NEW z \in Zones
        PROVE  (z \notin S => mid[z] = zs[z]) /\ (z \in S /\ mid[z].cooler = 1 => m = "cooling")
    BY ProcessedZone
  <2> QED BY <2>1, <2>2
<1>2. /\ \A p, v : <<p, v>> \in first =>
           \E z \in S : (p \in Heaters(z) /\ v = mid[z].heater) \/ (p \in Coolers(z) /\ v = mid[z].cooler)
      /\ \A z \in S : \A p \in Heaters(z) :
           m # "cooling" \/ zs[z].heater = 1 => <<p, mid[z].heater>> \in first
      /\ \A z \in S : \A p \in Coolers(z) :
           m = "cooling" \/ zs[z].cooler = 1 => <<p, mid[z].cooler>> \in first
  BY OrdersAre
<1> HIDE DEF mid
<1> DEFINE last == Processed(mid, all, m, aims2)
<1>3. last \in [Zones -> ZoneType]
      /\ \A z \in Zones : (z \notin all => last[z] = mid[z]) /\ (z \in all /\ last[z].cooler = 1 => m = "cooling")
  <2>1. last \in [Zones -> ZoneType]
    BY <1>1, ProcessedType
  <2>2. ASSUME NEW z \in Zones
        PROVE  (z \notin all => last[z] = mid[z]) /\ (z \in all /\ last[z].cooler = 1 => m = "cooling")
    BY <1>1, ProcessedZone
  <2> QED BY <2>1, <2>2
<1>3a. /\ \A p, v : <<p, v>> \in second =>
            \E z \in all : (p \in Heaters(z) /\ v = last[z].heater) \/ (p \in Coolers(z) /\ v = last[z].cooler)
       /\ \A z \in all : \A p \in Heaters(z) :
            m # "cooling" \/ mid[z].heater = 1 => <<p, last[z].heater>> \in second
       /\ \A z \in all : \A p \in Coolers(z) :
            m = "cooling" \/ mid[z].cooler = 1 => <<p, last[z].cooler>> \in second
  BY <1>1, OrdersAre
<1>3b. zone' = last
  BY DEF mid
<1> HIDE DEF last, second
<1>4. zone' \in [Zones -> ZoneType]
      /\ \A z \in Zones : (z \notin all => zone'[z] = mid[z]) /\ (z \in all /\ zone'[z].cooler = 1 => m = "cooling")
  BY <1>3, <1>3b
<1>5. /\ \A p, v : <<p, v>> \in second =>
           \E z \in all : (p \in Heaters(z) /\ v = zone'[z].heater) \/ (p \in Coolers(z) /\ v = zone'[z].cooler)
      /\ \A z \in all : \A p \in Heaters(z) :
           m # "cooling" \/ mid[z].heater = 1 => <<p, zone'[z].heater>> \in second
      /\ \A z \in all : \A p \in Coolers(z) :
           m = "cooling" \/ mid[z].cooler = 1 => <<p, zone'[z].cooler>> \in second
  BY <1>3a, <1>3b
<1> HIDE DEF first, second
<1>6. Obey(orders)
  BY DEF mid, first, second
<1> HIDE DEF orders
<1>7. \A p \in Pins \ crossed' :
        /\ \A v \in {0, 1} : <<p, v>> \in orders => Eff(p)' = v
        /\ (\A v \in {0, 1} : <<p, v>> \notin orders) => p \notin crossed /\ Eff(p)' = Eff(p)
  BY <1>6, Obeyed DEF PinsTyped
<1>8. \A z \in Zones : /\ mid[z].heater \in {0, 1} /\ mid[z].cooler \in {0, 1}
                       /\ zone'[z].heater \in {0, 1} /\ zone'[z].cooler \in {0, 1}
  BY <1>1, <1>4 DEF ZoneType
<1>9. \A y, z \in Zones : Heaters(y) \cap Coolers(z) = {}
  BY LayoutAssumption
<1>10. ASSUME NEW p \in Pins, p \notin crossed', Eff(p)' = 1, NEW z \in Zones, p \in Heaters(z)
       PROVE  HeatReason(p)'
  <2>1. \A y \in Zones : p \notin Coolers(y)
    BY <1>9, <1>10
  <2>2. CASE \E v \in {0, 1} : <<p, v>> \in extra
    <3>1. Tempers(events, p)'
      BY <1>10, <2>2 DEF Harmless
    <3> QED BY <3>1 DEF HeatReason
  <2>3. ASSUME NEW v \in {0, 1}, <<p, v>> \in second
        PROVE  HeatReason(p)'
    <3>1. v = 1
      BY <1>7, <1>10, <2>3 DEF orders
    <3>2. \E y \in all : p \in Heaters(y) /\ zone'[y].heater = 1
      BY <1>5, <2>1, <2>3, <3>1
    <3> QED BY <3>2 DEF HeatReason, Wants
  <2>4. ASSUME NEW v \in {0, 1}, <<p, v>> \in first
        PROVE  HeatReason(p)'
    <3>1. v = 1
      BY <1>7, <1>10, <2>4 DEF orders
    <3>2. PICK y \in S : p \in Heaters(y) /\ mid[y].heater = 1
      BY <1>2, <2>1, <2>4, <3>1
    <3>3. CASE all = {}
      BY <1>4, <3>2, <3>3 DEF HeatReason, Wants
    <3>4. CASE y \in all
      <4>1. <<p, zone'[y].heater>> \in second /\ zone'[y].heater \in {0, 1}
        BY <1>5, <1>8, <3>2, <3>4
      <4> QED BY <2>3, <4>1
    <3> QED BY <3>3, <3>4
  <2>5. CASE \A v \in {0, 1} : <<p, v>> \notin orders
    <3>1. p \notin crossed /\ Eff(p) = 1
      BY <1>7, <1>10, <2>5
    <3>2. HeatReason(p)
      BY <1>10, <3>1 DEF Reasoned
    <3>3. CASE Tempers(events, p)
      BY <3>3 DEF TempersKept, HeatReason
    <3>4. CASE Wants(p)
      <4>1. PICK y \in Zones : zone[y].heater = 1 /\ p \in Heaters(y)
        BY <3>4 DEF Wants
      <4>2. y \notin S
        BY <1>2, <1>8, <2>5, <4>1 DEF orders
      <4>3. mid[y].heater = 1
        BY <1>1, <4>1, <4>2
      <4>4. y \notin all
        BY <1>5, <1>8, <2>5, <4>1, <4>3 DEF orders
      <4> QED BY <1>4, <4>1, <4>3, <4>4 DEF HeatReason, Wants
    <3> QED BY <3>2, <3>3, <3>4 DEF HeatReason
  <2> QED BY <2>2, <2>3, <2>4, <2>5 DEF orders
<1>11. ASSUME NEW p \in Pins, p \notin crossed', Eff(p)' = 1, NEW z \in Zones, p \in Coolers(z)
       PROVE  CoolsWith(p)'
  <2>1. \A y \in Zones : p \notin Heaters(y)
    BY <1>9, <1>11
  <2>2. \A v \in {0, 1} : <<p, v>> \notin extra
    BY <1>11 DEF Harmless
  <2>3. ASSUME NEW v \in {0, 1}, <<p, v>> \in second
        PROVE  CoolsWith(p)'
    <3>1. v = 1
      BY <1>7, <1>11, <2>3 DEF orders
    <3>2. \E y \in all : p \in Coolers(y) /\ zone'[y].cooler = 1
      BY <1>5, <2>1, <2>3, <3>1
    <3> QED BY <3>2 DEF CoolsWith
  <2>4. ASSUME NEW v \in {0, 1}, <<p, v>> \in first
        PROVE  CoolsWith(p)'
    <3>1. v = 1
      BY <1>7, <1>11, <2>4 DEF orders
    <3>2. PICK y \in S : p \in Coolers(y) /\ mid[y].cooler = 1
      BY <1>2, <2>1, <2>4, <3>1
    <3>3. all = {}
      BY <1>1, <3>2
    <3> QED BY <1>4, <3>2, <3>3 DEF CoolsWith
  <2>5. CASE \A v \in {0, 1} : <<p, v>> \notin orders
    <3>1. p \notin crossed /\ Eff(p) = 1
      BY <1>7, <1>11, <2>5
    <3>2. PICK y \in Zones : zone[y].cooler = 1 /\ p \in Coolers(y)
      BY <1>11, <3>1 DEF Reasoned, CoolsWith
    <3>3. y \notin S
      BY <1>2, <1>8, <2>5, <3>2 DEF orders
    <3>4. mid[y].cooler = 1
      BY <1>1, <3>2, <3>3
    <3>5. y \notin all
      BY <1>5, <1>8, <2>5, <3>2, <3>4 DEF orders
    <3> QED BY <1>4, <3>2, <3>4, <3>5 DEF CoolsWith
  <2> QED BY <2>2, <2>3, <2>4, <2>5 DEF orders
<1> QED BY <1>10, <1>11 DEF Reasoned

(* When the zones of S are processed and nothing else happens. *)
LEMMA ReasonKeptOnce ==
  ASSUME PinsTyped, Reasoned, zone \in [Zones -> ZoneType], NEW zs \in [Zones -> ZoneType],
         \A z \in Zones : zs[z].heater = zone[z].heater /\ zs[z].cooler = zone[z].cooler,
         NEW S \in SUBSET Zones, NEW m \in Modes, NEW aims \in [Sections -> Int],
         zone' = Processed(zs, S, m, aims), TempersKept(events, events'), pin' = pin,
         Obey(OrdersOf(zs, S, m, aims))
  PROVE  Reasoned'
<1> DEFINE mid == Processed(zs, S, m, aims)
<1>1. mid \in [Zones -> ZoneType]
  BY ProcessedType
<1> HIDE DEF mid
<1>2. Processed(mid, {}, m, aims) = mid
  <2>1. Processed(mid, {}, m, aims) = [z \in Zones |-> mid[z]]
    BY DEF Processed
  <2> QED BY <1>1, <2>1
<1>3. OrdersOf(mid, {}, m, aims) = {}
  BY DEF OrdersOf
<1>4. OrdersOf(zs, S, m, aims) \cup OrdersOf(mid, {}, m, aims) \cup {} = OrdersOf(zs, S, m, aims)
  BY <1>3
<1>5. Obey(OrdersOf(zs, S, m, aims) \cup OrdersOf(mid, {}, m, aims) \cup {})
  BY <1>4
<1>6. Harmless({})
  BY DEF Harmless
<1>7. zone' = Processed(mid, {}, m, aims)
  BY <1>2 DEF mid
<1> QED BY <1>5, <1>6, <1>7, ReasonKept DEF mid

----------------------------------------------------------------------------
(* check_heating, and the inductive invariant.                             *)

Wishes == /\ mode \in Modes /\ query \in [Sections -> Temps]
          /\ auto \in Temps /\ eco \in Temps /\ plan \in Temps
House == /\ zone \in [Zones -> ZoneType] /\ temper \in [Sections -> BOOLEAN]
         /\ events \in Good /\ PinsTyped /\ crossed \subseteq Pins /\ reheated \subseteq Sections
Loop == /\ ref \in [Sections -> Temps] /\ measured \in [Sensors -> Temps] /\ unheard \subseteq Zones
        /\ clock \in 0..(MINUTE * OSC - 1) /\ pc \in {"incoming", "events", "minute"}
        /\ it \in Nat \ {0} /\ dry \in 0..2 /\ budget \in [Inputs -> Nat]

(* A zone holds the last reading of its sensor, unless it came while the   *)
(* section was tempered; it heats below what its section aims at, until    *)
(* the next request for it is handled.                                     *)
Heard == \A z \in Zones \ unheard : zone[z].actual = measured[SensorOf[z]]
Within ==
  \A z \in Zones : zone[z].heater = 1 =>
    zone[z].actual < Aim[SectionOf[z]] \/ Asks(events, SectionOf[z])

IInv == Wishes /\ House /\ Loop /\ Reasoned /\ Heard /\ Within

LEMMA CheckDoes ==
  ASSUME Wishes, House, query' \in [Sections -> Temps],
         NEW zs \in [Zones -> ZoneType], NEW orders, NEW es \in Good, NEW min,
         CheckHeating(zs, orders, es, min)
  PROVE  \E all \in SUBSET Zones, aims \in [Sections -> Int] : \E extra :
           /\ all = {} \/ (all = Zones /\ mode = "auto" /\ aims = Aims(mode, query', auto', eco))
           /\ all = {} => (auto' = auto \/ Zones = {})
           /\ zone' = Processed(zs, all, mode, aims)
           /\ Obey(orders \cup OrdersOf(zs, all, mode, aims) \cup extra) /\ Harmless(extra)
           /\ events' \in Good /\ AsksKept(es, events') /\ TempersKept(es, events')
           /\ auto' \in Temps /\ temper' \in [Sections -> BOOLEAN] /\ reheated' \subseteq Sections
<1> DEFINE all == IF mode = "auto" /\ auto # plan THEN Zones ELSE {}
           a == IF all = {} THEN auto ELSE plan
           aims == Aims(mode, query', a, eco)
           new == Processed(zs, all, mode, aims)
           starts == Starts(new, aims, min)
           extra == TemperOrders(starts) \cup VentOrders(new) \cup MasterOrders(new)
<1>1. /\ auto' = (IF mode = "auto" THEN plan ELSE auto) /\ zone' = new
      /\ temper' = [s \in Sections |-> temper[s] \/ s \in starts]
      /\ events' = es \o TemperEvents(starts) /\ Remembered(starts)
  BY DEF CheckHeating
<1>2. Obey(orders \cup OrdersOf(zs, all, mode, aims) \cup TemperOrders(starts) \cup VentOrders(new) \cup MasterOrders(new))
  BY DEF CheckHeating
<1>3. /\ all \in SUBSET Zones
      /\ all = {} \/ (all = Zones /\ mode = "auto" /\ a = auto')
      /\ all = {} => (auto' = auto \/ Zones = {})
      /\ a \in Temps /\ auto' \in Temps
  BY <1>1 DEF Wishes
<1> HIDE DEF all, a
<1>4. aims \in [Sections -> Int]
  BY <1>3, AimsType DEF Wishes
<1>5. all = {} \/ (all = Zones /\ mode = "auto" /\ aims = Aims(mode, query', auto', eco))
  BY <1>3
<1> HIDE DEF aims
<1>6. starts \in SUBSET Sections
  BY DEF Starts
<1> HIDE DEF starts
<1>7. /\ events' \in Good /\ AsksKept(es, events') /\ TempersKept(es, events')
      /\ \A p, v : <<p, v>> \in TemperOrders(starts) =>
           v = 1 /\ Tempers(events', p) /\ \E z \in Zones : p \in Heaters(z)
  BY <1>1, <1>6, TemperingAdded
<1> HIDE DEF new
<1>8. Harmless(extra)
  <2> SUFFICES ASSUME NEW p, NEW v, <<p, v>> \in extra, NEW z \in Zones
               PROVE  p \notin Coolers(z) /\ (p \in Heaters(z) => v = 1 /\ Tempers(events, p)')
    BY DEF Harmless
  <2>1. CASE <<p, v>> \in TemperOrders(starts)
    <3>1. Tempers(events, p)' /\ v = 1 /\ \E y \in Zones : p \in Heaters(y)
      BY <1>7, <2>1 DEF Tempers
    <3> QED BY <3>1, LayoutAssumption
  <2>2. CASE <<p, v>> \in VentOrders(new)
    <3>1. p \in VentPins
      BY <2>2 DEF VentOrders, VentPins
    <3> QED BY <3>1, LayoutAssumption
  <2>3. CASE <<p, v>> \in MasterOrders(new)
    <3>1. p \in {MASTER, COOLER}
      BY <2>3 DEF MasterOrders
    <3> QED BY <3>1, LayoutAssumption
  <2> QED BY <2>1, <2>2, <2>3
<1>9. Obey(orders \cup OrdersOf(zs, all, mode, aims) \cup extra)
  <2>1. orders \cup OrdersOf(zs, all, mode, aims) \cup TemperOrders(starts) \cup VentOrders(new) \cup MasterOrders(new)
        = orders \cup OrdersOf(zs, all, mode, aims) \cup extra
    OBVIOUS
  <2> HIDE DEF extra
  <2> QED BY <1>2, <2>1
<1> HIDE DEF extra
<1>10. temper' \in [Sections -> BOOLEAN] /\ reheated' \subseteq Sections
  BY <1>1 DEF Remembered
<1>11. zone' = Processed(zs, all, mode, aims)
  BY <1>1 DEF new
<1> QED BY <1>3, <1>4, <1>5, <1>7, <1>8, <1>9, <1>10, <1>11

(* A check_heating after the zones of S were processed: es is what is left *)
(* of the events, and asks for what was asked for, but for zones of S.     *)
LEMMA CheckKeeps ==
  ASSUME Wishes, House, Reasoned, Heard, Within,
         mode' = mode, eco' = eco, plan' = plan, pin' = pin,
         measured' = measured, unheard' = unheard, query' \in [Sections -> Temps],
         NEW S \in SUBSET Zones, query' = query \/ S = Zones,
         NEW es \in Good, TempersKept(events, es),
         \A s \in Sections : Asks(events, s) => Asks(es, s) \/ Inside(s) \subseteq S,
         NEW aims, aims = Aims(mode, query', auto, eco), NEW min,
         CheckHeating(Processed(zone, S, mode, aims), OrdersOf(zone, S, mode, aims), es, min)
  PROVE  Wishes' /\ House' /\ Reasoned' /\ Heard' /\ Within'
<1> DEFINE mid == Processed(zone, S, mode, aims)
           first == OrdersOf(zone, S, mode, aims)
<1>1. aims \in [Sections -> Int]
  BY AimsType DEF Wishes
<1>2. mid \in [Zones -> ZoneType]
      /\ \A z \in Zones : /\ mid[z].actual = zone[z].actual
                          /\ z \notin S => mid[z] = zone[z]
                          /\ z \in S /\ mid[z].heater = 1 => mid[z].actual < aims[SectionOf[z]]
  <2>0. zone \in [Zones -> ZoneType] /\ mode \in Modes
    BY DEF Wishes, House
  <2>1. mid \in [Zones -> ZoneType]
    BY <1>1, <2>0, ProcessedType
  <2>2. ASSUME NEW z \in Zones
        PROVE  /\ mid[z].actual = zone[z].actual
               /\ z \notin S => mid[z] = zone[z]
               /\ z \in S /\ mid[z].heater = 1 => mid[z].actual < aims[SectionOf[z]]
    BY <1>1, ProcessedZone DEF Wishes, House
  <2> QED BY <2>1, <2>2
<1>3. PICK all \in SUBSET Zones, aims2 \in [Sections -> Int] : \E extra :
        /\ all = {} \/ (all = Zones /\ mode = "auto" /\ aims2 = Aims(mode, query', auto', eco))
        /\ all = {} => (auto' = auto \/ Zones = {})
        /\ zone' = Processed(mid, all, mode, aims2)
        /\ Obey(first \cup OrdersOf(mid, all, mode, aims2) \cup extra) /\ Harmless(extra)
        /\ events' \in Good /\ AsksKept(es, events') /\ TempersKept(es, events')
        /\ auto' \in Temps /\ temper' \in [Sections -> BOOLEAN] /\ reheated' \subseteq Sections
  <2> HIDE DEF mid, first
  <2>1. CheckHeating(mid, first, es, min)
    BY DEF mid, first
  <2> QED BY <1>2, <2>1, CheckDoes
<1>4. PICK extra :
        Obey(first \cup OrdersOf(mid, all, mode, aims2) \cup extra) /\ Harmless(extra)
  BY <1>3
<1>5. TempersKept(events, events')
  BY <1>3 DEF TempersKept
<1>6. Reasoned'
  <2>1. /\ zone' = Processed(Processed(zone, S, mode, aims), all, mode, aims2)
        /\ Obey(OrdersOf(zone, S, mode, aims)
                \cup OrdersOf(Processed(zone, S, mode, aims), all, mode, aims2) \cup extra)
        /\ all = {} \/ (all = Zones /\ mode = "auto")
    BY <1>3, <1>4
  <2>2. PinsTyped /\ zone \in [Zones -> ZoneType] /\ mode \in Modes
    BY DEF House, Wishes
  <2> HIDE DEF mid, first
  <2> QED BY <1>1, <1>4, <1>5, <2>1, <2>2, ReasonKept
<1> HIDE DEF mid, first
<1> DEFINE last == Processed(mid, all, mode, aims2)
<1>7. /\ last \in [Zones -> ZoneType]
      /\ \A z \in Zones : /\ last[z].actual = mid[z].actual
                          /\ z \notin all => last[z] = mid[z]
                          /\ z \in all /\ last[z].heater = 1 => last[z].actual < aims2[SectionOf[z]]
  <2>1. last \in [Zones -> ZoneType]
    BY <1>2, ProcessedType DEF Wishes
  <2>2. ASSUME NEW z \in Zones
        PROVE  /\ last[z].actual = mid[z].actual
               /\ z \notin all => last[z] = mid[z]
               /\ z \in all /\ last[z].heater = 1 => last[z].actual < aims2[SectionOf[z]]
    BY <1>2, ProcessedZone DEF Wishes
  <2> QED BY <2>1, <2>2
<1>8. zone' = last
  BY <1>3
<1> HIDE DEF last
<1>9. House'
  <2>1. /\ queued' \in [Pins -> {NONE, 0, 1}] /\ crossed' \subseteq Pins /\ Differs'
    BY <1>4, Obeyed DEF House, PinsTyped
  <2> QED BY <1>3, <1>7, <1>8, <2>1 DEF House, PinsTyped
<1>10. Heard'
  BY <1>2, <1>7, <1>8 DEF Heard
<1>11. Within'
  <2> SUFFICES ASSUME NEW z \in Zones, last[z].heater = 1
               PROVE  last[z].actual < Aims(mode, query', auto', eco)[SectionOf[z]] \/ Asks(events', SectionOf[z])
    <3>1. Aim' = Aims(mode, query', auto', eco)
      BY DEF Aim
    <3>2. \A s \in Sections : Asks(events, s)' <=> Asks(events', s)
      BY DEF Asks
    <3> QED BY <1>8, <3>1, <3>2, Parameters DEF Within
  <2>1. CASE all # {}
    BY <1>3, <1>7, <2>1
  <2>2. CASE all = {}
    <3>1. last[z] = mid[z] /\ auto' = auto
      BY <1>3, <1>7, <2>2
    <3>2. CASE z \in S
      BY <1>2, <3>1, <3>2
    <3>3. CASE z \notin S
      <4>1. zone[z] = last[z] /\ query' = query
        BY <1>2, <3>1, <3>3
      <4>2. last[z].actual < Aim[SectionOf[z]] \/ Asks(events, SectionOf[z])
        BY <4>1 DEF Within
      <4>3. CASE Asks(events, SectionOf[z])
        <5>1. z \in Inside(SectionOf[z]) /\ SectionOf[z] \in Sections
          BY Parameters DEF Inside
        <5>2. Asks(es, SectionOf[z])
          BY <3>3, <4>3, <5>1
        <5> QED BY <1>3, <5>1, <5>2 DEF AsksKept
      <4>4. CASE last[z].actual < Aim[SectionOf[z]]
        <5>1. Aim = Aims(mode, query', auto', eco)
          BY <3>1, <4>1 DEF Aim
        <5> QED BY <4>4, <5>1
      <4> QED BY <4>2, <4>3, <4>4
    <3> QED BY <3>2, <3>3
  <2> QED BY <2>1, <2>2
<1> QED BY <1>3, <1>6, <1>9, <1>10, <1>11 DEF Wishes

----------------------------------------------------------------------------
(* The actions.                                                            *)

LEMMA ReadKeeps ==
  ASSUME IInv, NEW x \in Sensors, NEW t \in Readings, Read(x, t)
  PROVE  Wishes' /\ House' /\ Reasoned' /\ Heard' /\ Within'
<1> DEFINE hears == {z \in Zones : SensorOf[z] = x /\ ~temper[SectionOf[z]]}
           zs == [z \in Zones |-> IF z \in hears THEN [zone[z] EXCEPT !.actual = t] ELSE zone[z]]
           new == Processed(zs, hears, mode, Aim)
<1>0. Wishes /\ House /\ Loop /\ Reasoned /\ Heard /\ Within
  BY DEF IInv
<1>1. /\ measured' = [measured EXCEPT ![x] = t] /\ zone' = new
      /\ Obey(OrdersOf(zs, hears, mode, Aim))
      /\ unheard' = (unheard \cup {z \in Zones : SensorOf[z] = x}) \ hears
      /\ mode' = mode /\ query' = query /\ auto' = auto /\ eco' = eco /\ plan' = plan
      /\ temper' = temper /\ pin' = pin /\ events' = events /\ reheated' = reheated
  BY DEF Read, wishes
<1>2. Aim \in [Sections -> Int] /\ t \in Temps /\ hears \in SUBSET Zones
  BY <1>0, AimsType, Parameters DEF Wishes, Aim
<1>3. \A z \in Zones : [zone[z] EXCEPT !.actual = t] \in ZoneType
  BY <1>0, <1>2 DEF House, ZoneType
<1>4. \A z \in Zones : /\ [zone[z] EXCEPT !.actual = t].actual = t
                       /\ [zone[z] EXCEPT !.actual = t].heater = zone[z].heater
                       /\ [zone[z] EXCEPT !.actual = t].cooler = zone[z].cooler
  BY <1>0 DEF House, ZoneType
<1>5. zs \in [Zones -> ZoneType]
  BY <1>0, <1>3 DEF House
<1>6. \A z \in Zones : /\ zs[z].actual = IF z \in hears THEN t ELSE zone[z].actual
                       /\ zs[z].heater = zone[z].heater /\ zs[z].cooler = zone[z].cooler
                       /\ z \notin hears => zs[z] = zone[z]
  BY <1>4
<1>7. \A z \in Zones : z \in hears => SensorOf[z] = x
  OBVIOUS
<1> HIDE DEF zs
<1>8. Reasoned'
  <2>1. TempersKept(events, events')
    BY <1>1 DEF TempersKept
  <2> HIDE DEF hears
  <2> QED BY <1>0, <1>1, <1>2, <1>5, <1>6, <2>1, ReasonKeptOnce DEF House, Wishes
<1> HIDE DEF hears
<1>9. new \in [Zones -> ZoneType]
  BY <1>0, <1>2, <1>5, ProcessedType DEF Wishes
<1>10. ASSUME NEW z \in Zones
       PROVE  /\ new[z].actual = zs[z].actual
              /\ z \notin hears => new[z] = zs[z]
              /\ z \in hears /\ new[z].heater = 1 => new[z].actual < Aim[SectionOf[z]]
  BY <1>0, <1>2, <1>5, ProcessedZone DEF Wishes
<1> HIDE DEF new
<1>11. House'
  <2>1. /\ queued' \in [Pins -> {NONE, 0, 1}] /\ crossed' \subseteq Pins /\ Differs'
    BY <1>0, <1>1, Obeyed DEF House, PinsTyped
  <2> QED BY <1>0, <1>1, <1>9, <2>1 DEF House, PinsTyped
<1>12. Heard'
  <2> SUFFICES ASSUME NEW z \in Zones, z \notin unheard'
               PROVE  zone'[z].actual = measured'[SensorOf[z]]
    BY DEF Heard
  <2>1. CASE z \in hears
    BY <1>0, <1>1, <1>6, <1>7, <1>10, <2>1 DEF Loop
  <2>2. CASE z \notin hears
    <3>1. z \notin unheard /\ SensorOf[z] # x
      BY <1>1, <2>2
    <3>2. measured'[SensorOf[z]] = measured[SensorOf[z]]
      BY <1>0, <1>1, <3>1, Parameters DEF Loop
    <3> QED BY <1>0, <1>1, <1>6, <1>10, <2>2, <3>1, <3>2 DEF Heard
  <2> QED BY <2>1, <2>2
<1>13. Within'
  <2>1. Aim' = Aim /\ events' = events
    BY <1>1 DEF Aim
  <2>2. \A s \in Sections : Asks(events, s) => Asks(events', s)
    BY <2>1
  <2>3. \A z \in Zones : new[z].heater = 1 => new[z].actual < Aim[SectionOf[z]] \/ Asks(events, SectionOf[z])
    BY <1>0, <1>6, <1>10 DEF Within
  <2> QED BY <1>1, <2>1, <2>3 DEF Within
<1>14. Wishes'
  BY <1>0, <1>1 DEF Wishes
<1> QED BY <1>8, <1>11, <1>12, <1>13, <1>14

(* A request that is handled at once: for all zones. *)
LEMMA AllKeeps ==
  ASSUME IInv, Wishes', ProcessAll, pin' = pin, events' = events,
         measured' = measured, unheard' = unheard
  PROVE  House' /\ Reasoned' /\ Heard' /\ Within'
<1> DEFINE new == Processed(zone, Zones, mode', Aim')
<1>0. Wishes /\ House /\ Loop /\ Reasoned /\ Heard /\ Within
  BY DEF IInv
<1>1. zone' = new /\ Obey(OrdersOf(zone, Zones, mode', Aim')) /\ temper' = temper /\ Remembered({})
  BY DEF ProcessAll
<1>2. mode' \in Modes /\ Zones \in SUBSET Zones
  BY DEF Wishes
<1>3. Aim' \in [Sections -> Int]
  <2>1. Aim' = Aims(mode', query', auto', eco')
    BY DEF Aim
  <2> QED BY <2>1, AimsType DEF Wishes
<1>4. Reasoned'
  <2>1. TempersKept(events, events')
    BY DEF TempersKept
  <2>2. zone' = Processed(zone, Zones, mode', Aim')
    BY <1>1
  <2>3. PinsTyped /\ zone \in [Zones -> ZoneType]
    BY <1>0 DEF House
  <2> QED BY <1>0, <1>1, <1>2, <1>3, <2>1, <2>2, <2>3, ReasonKeptOnce
<1>5. new \in [Zones -> ZoneType]
  BY <1>0, <1>2, <1>3, ProcessedType DEF House
<1>6. ASSUME NEW z \in Zones
      PROVE  /\ new[z].actual = zone[z].actual
             /\ new[z].heater = 1 => new[z].actual < Aim'[SectionOf[z]]
  BY <1>0, <1>2, <1>3, ProcessedZone DEF House
<1> HIDE DEF new
<1>7. House'
  <2>1. /\ queued' \in [Pins -> {NONE, 0, 1}] /\ crossed' \subseteq Pins /\ Differs'
    BY <1>0, <1>1, Obeyed DEF House, PinsTyped
  <2>2. reheated' \subseteq Sections
    BY <1>1 DEF Remembered
  <2> QED BY <1>0, <1>1, <1>5, <2>1, <2>2 DEF House, PinsTyped
<1>8. Heard'
  BY <1>0, <1>1, <1>6 DEF Heard
<1>9. Within'
  BY <1>1, <1>6 DEF Within
<1> QED BY <1>4, <1>7, <1>8, <1>9

(* Steps that leave the zones, the pins and their orders alone. *)
LEMMA QuietKeeps ==
  ASSUME IInv, zone' = zone, temper' = temper, pin' = pin, queued' = queued, crossed' = crossed,
         reheated' = reheated, measured' = measured, unheard' = unheard,
         mode' = mode, auto' = auto, eco' = eco, query' \in [Sections -> Temps], plan' \in Temps,
         events' \in Good, AsksKept(events, events'), TempersKept(events, events'),
         \A s \in Sections : query'[s] = query[s] \/ Asks(events', s)
  PROVE  Wishes' /\ House' /\ Reasoned' /\ Heard' /\ Within'
<1>0. Wishes /\ House /\ Loop /\ Reasoned /\ Heard /\ Within
  BY DEF IInv
<1>1. Wishes' /\ House' /\ Heard'
  BY <1>0 DEF Wishes, House, Heard, PinsTyped, Differs
<1>2. Reasoned'
  <2>1. \A p \in Pins : Eff(p)' = Eff(p) /\ (HeatReason(p) => HeatReason(p)') /\ (CoolsWith(p) => CoolsWith(p)')
    BY DEF Eff, HeatReason, CoolsWith, Wants, TempersKept
  <2> QED BY <1>0, <2>1 DEF Reasoned
<1>3. Within'
  <2>1. \A s \in Sections : Aim'[s] = Aim[s] \/ Asks(events', s)
    <3>1. Aim' = Aims(mode, query', auto, eco)
      BY DEF Aim
    <3> QED BY <3>1 DEF Aim, Aims
  <2>2. \A s \in Sections : Asks(events, s) => Asks(events', s)
    BY DEF AsksKept
  <2> SUFFICES ASSUME NEW z \in Zones, zone[z].heater = 1
               PROVE  zone[z].actual < Aim'[SectionOf[z]] \/ Asks(events', SectionOf[z])
    BY DEF Within
  <2> QED BY <1>0, <2>1, <2>2, Parameters DEF Within
<1> QED BY <1>1, <1>2, <1>3

LEMMA SameEvents ==
  ASSUME NEW es \in Good
  PROVE  AsksKept(es, es) /\ TempersKept(es, es)
BY DEF AsksKept, TempersKept

LEMMA PanelKeeps ==
  ASSUME IInv, Panel
  PROVE  Wishes' /\ House' /\ Reasoned' /\ Heard' /\ Within'
<1>0. Wishes /\ House /\ Loop /\ events \in Good
  BY DEF IInv, House
<1>1. ASSUME NEW m \in Modes, PanelMode(m)
      PROVE  Wishes' /\ House' /\ Reasoned' /\ Heard' /\ Within'
  BY <1>0, <1>1, AllKeeps DEF PanelMode, Wishes
<1>2. ASSUME NEW t \in Wanted, PanelEco(t)
      PROVE  Wishes' /\ House' /\ Reasoned' /\ Heard' /\ Within'
  BY <1>0, <1>2, AllKeeps, Parameters DEF PanelEco, Wishes
<1>3. ASSUME NEW s \in Sections, NEW t \in Wanted, PanelSection(s, t)
      PROVE  Wishes' /\ House' /\ Reasoned' /\ Heard' /\ Within'
  <2>1. /\ query' = [query EXCEPT ![s] = t] /\ events' = Push(events, HeatEvent(s))
        /\ mode' = mode /\ auto' = auto /\ eco' = eco /\ plan' = plan /\ zone' = zone
        /\ temper' = temper /\ pin' = pin /\ queued' = queued /\ measured' = measured
        /\ unheard' = unheard /\ reheated' = reheated /\ crossed' = crossed
    BY <1>3 DEF PanelSection, ghosts
  <2>2. query' \in [Sections -> Temps] /\ \A r \in Sections : r # s => query'[r] = query[r]
    BY <1>0, <2>1, Parameters DEF Wishes
  <2>3. /\ events' \in Good /\ AsksKept(events, events') /\ TempersKept(events, events')
        /\ Asks(events', s)
    BY <1>0, <2>1, PushHeat
  <2>4. \A r \in Sections : query'[r] = query[r] \/ Asks(events', r)
    BY <2>2, <2>3
  <2>5. plan' \in Temps
    BY <1>0, <2>1 DEF Wishes
  <2> QED BY <2>1, <2>2, <2>3, <2>4, <2>5, QuietKeeps
<1>4. ASSUME NEW t \in Wanted, PanelAll(t)
      PROVE  Wishes' /\ House' /\ Reasoned' /\ Heard' /\ Within'
  <2>1. events' \in Good /\ AsksKept(events, events') /\ TempersKept(events, events')
    BY <1>0, <1>4, PushCheck, Parameters DEF PanelAll
  <2> QED BY <1>0, <1>4, <2>1, QuietKeeps DEF PanelAll, wishes, ghosts, Wishes
<1>5. ASSUME NEW t \in Wanted, Schedule(t)
      PROVE  Wishes' /\ House' /\ Reasoned' /\ Heard' /\ Within'
  <2>1. events' \in Good /\ AsksKept(events, events') /\ TempersKept(events, events')
    BY <1>0, <1>5, SameEvents DEF Schedule
  <2>2. plan' \in Temps
    BY <1>5, Parameters DEF Schedule
  <2> QED BY <1>0, <1>5, <2>1, <2>2, QuietKeeps DEF Schedule, wishes, ghosts, Wishes
<1> QED BY <1>1, <1>2, <1>3, <1>4, <1>5 DEF Panel

LEMMA DeliverKeeps ==
  ASSUME IInv, Deliver
  PROVE  Wishes' /\ House' /\ Reasoned' /\ Heard' /\ Within'
<1>0. Wishes /\ House /\ Reasoned /\ Heard /\ Within /\ PinsTyped
  BY DEF IInv, House
<1>1. /\ pin' = [p \in Pins |-> IF queued[p] = NONE THEN pin[p] ELSE queued[p]]
      /\ queued' = [p \in Pins |-> NONE]
      /\ mode' = mode /\ query' = query /\ auto' = auto /\ eco' = eco /\ plan' = plan
      /\ zone' = zone /\ temper' = temper /\ events' = events /\ measured' = measured
      /\ unheard' = unheard /\ reheated' = reheated /\ crossed' = crossed
  BY DEF Deliver, wishes
<1>2. \A p \in Pins : Eff(p) \in {0, 1} /\ Eff(p)' = Eff(p) /\ pin'[p] = Eff(p)
  BY <1>0, <1>1 DEF Eff, PinsTyped, Differs, NONE
<1>3. PinsTyped'
  BY <1>1, <1>2 DEF PinsTyped, Differs, Eff
<1>4. \A p \in Pins : (HeatReason(p) => HeatReason(p)') /\ (CoolsWith(p) => CoolsWith(p)')
  BY <1>1 DEF HeatReason, CoolsWith, Wants, Tempers
<1>5. Reasoned'
  BY <1>0, <1>1, <1>2, <1>4 DEF Reasoned
<1>6. Within'
  BY <1>0, <1>1 DEF Within, Aim, Asks
<1> QED BY <1>0, <1>1, <1>3, <1>5, <1>6 DEF Wishes, House, Heard

LEMMA TimeKeeps ==
  ASSUME IInv, Second \/ Pass \/ EndEvents \/ NoMinute
  PROVE  Wishes' /\ House' /\ Reasoned' /\ Heard' /\ Within'
<1>0. Wishes /\ events \in Good
  BY DEF IInv, House
<1>1. events' = Aged(events) \/ events' = events
  BY DEF Second, Pass, EndEvents, NoMinute
<1>2. events' \in Good /\ AsksKept(events, events') /\ TempersKept(events, events')
  BY <1>0, <1>1, AgedKeeps, SameEvents
<1>3. /\ zone' = zone /\ temper' = temper /\ pin' = pin /\ queued' = queued /\ crossed' = crossed
      /\ reheated' = reheated /\ measured' = measured /\ unheard' = unheard
      /\ mode' = mode /\ auto' = auto /\ eco' = eco /\ query' = query /\ plan' = plan
  BY DEF Second, Pass, EndEvents, NoMinute, wishes, ghosts
<1> QED BY <1>0, <1>2, <1>3, QuietKeeps DEF Wishes

LEMMA RunHeatKeeps ==
  ASSUME IInv, RunHeat
  PROVE  Wishes' /\ House' /\ Reasoned' /\ Heard' /\ Within'
<1> DEFINE S == Inside(-events[it].var)
           es == RemoveAt(events, it)
<1>0. Wishes /\ House /\ Reasoned /\ Heard /\ Within /\ events \in Good
  BY DEF IInv, House
<1>1. /\ it \in DOMAIN events /\ events[it].type = "heat" /\ query' = query
      /\ CheckHeating(Processed(zone, S, mode, Aim), OrdersOf(zone, S, mode, Aim), es, NONE)
      /\ mode' = mode /\ eco' = eco /\ plan' = plan /\ pin' = pin
      /\ measured' = measured /\ unheard' = unheard
  BY DEF RunHeat, AtEvent
<1>2. PICK s \in Sections : events[it].var = -s
  <2>1. events[it] \in EventType
    BY <1>0, <1>1, Elements DEF Good
  <2> QED BY <1>1, <2>1, EventKinds
<1>3. -events[it].var = s /\ s \in Int
  BY <1>2, Parameters
<1>4. S = Inside(s) /\ S \in SUBSET Zones
  BY <1>3 DEF Inside
<1> HIDE DEF S
<1>5. /\ es \in Good /\ TempersKept(events, es)
      /\ \A r \in Sections : Asks(events, r) => Asks(es, r) \/ Inside(r) \subseteq S
  <2>1. \A r \in Sections : r # s => events[it].var # -r
    BY <1>2, Parameters
  <2>2. /\ es \in Good /\ TempersKept(events, es)
        /\ \A r \in Sections : events[it].var # -r => (Asks(events, r) => Asks(es, r))
    BY <1>0, <1>1, ErasedKeeps
  <2> QED BY <1>4, <2>1, <2>2
<1> HIDE DEF es
<1>6. Aim = Aims(mode, query', auto, eco)
  BY <1>1 DEF Aim
<1>7. query' \in [Sections -> Temps]
  BY <1>0, <1>1 DEF Wishes
<1> QED BY <1>0, <1>1, <1>4, <1>5, <1>6, <1>7, CheckKeeps

LEMMA RunCheckKeeps ==
  ASSUME IInv, RunCheck
  PROVE  Wishes' /\ House' /\ Reasoned' /\ Heard' /\ Within'
<1> DEFINE all == [s \in Sections |-> events[it].var]
           aims == Aims(mode, all, auto, eco)
           es == RemoveAt(events, it)
<1>0. Wishes /\ House /\ Reasoned /\ Heard /\ Within /\ events \in Good
  BY DEF IInv, House
<1>1. /\ it \in DOMAIN events /\ events[it].type = "check" /\ query' = all
      /\ CheckHeating(Processed(zone, Zones, mode, aims), OrdersOf(zone, Zones, mode, aims), es, NONE)
      /\ mode' = mode /\ eco' = eco /\ plan' = plan /\ pin' = pin
      /\ measured' = measured /\ unheard' = unheard
  BY DEF RunCheck, AtEvent
<1>2. events[it].var \in Temps
  <2>1. events[it] \in EventType
    BY <1>0, <1>1, Elements DEF Good
  <2> QED BY <1>1, <2>1, EventKinds
<1>3. /\ es \in Good /\ TempersKept(events, es)
  BY <1>0, <1>1, ErasedKeeps
<1>4. \A r \in Sections : Inside(r) \subseteq Zones
  BY DEF Inside
<1> HIDE DEF es
<1>5. query' \in [Sections -> Temps] /\ aims = Aims(mode, query', auto, eco)
  BY <1>1, <1>2
<1> HIDE DEF aims
<1> QED BY <1>0, <1>1, <1>3, <1>4, <1>5, CheckKeeps

LEMMA MinuteKeeps ==
  ASSUME IInv, Minute
  PROVE  Wishes' /\ House' /\ Reasoned' /\ Heard' /\ Within'
<1>0. Wishes /\ House /\ Reasoned /\ Heard /\ Within /\ events \in Good
  BY DEF IInv, House
<1>1. /\ query' = query /\ CheckHeating(zone, {}, events, clock \div MINUTE)
      /\ mode' = mode /\ eco' = eco /\ plan' = plan /\ pin' = pin
      /\ measured' = measured /\ unheard' = unheard
  BY DEF Minute
<1>2. Processed(zone, {}, mode, Aim) = zone
  <2>1. Processed(zone, {}, mode, Aim) = [z \in Zones |-> zone[z]]
    BY DEF Processed
  <2> QED BY <1>0, <2>1 DEF House
<1>3. OrdersOf(zone, {}, mode, Aim) = {}
  BY DEF OrdersOf
<1>4. CheckHeating(Processed(zone, {}, mode, Aim), OrdersOf(zone, {}, mode, Aim), events, clock \div MINUTE)
  BY <1>1, <1>2, <1>3
<1>5. Aim = Aims(mode, query', auto, eco) /\ query' \in [Sections -> Temps]
  BY <1>0, <1>1 DEF Aim, Wishes
<1>6. TempersKept(events, events) /\ {} \in SUBSET Zones
  BY <1>0, SameEvents
<1> QED BY <1>0, <1>1, <1>4, <1>5, <1>6, CheckKeeps

LEMMA RunTemperKeeps ==
  ASSUME IInv, RunTemper
  PROVE  Wishes' /\ House' /\ Reasoned' /\ Heard' /\ Within'
<1> DEFINE h == HeaterOf(events[it])
           es == RemoveAt(events, it)
<1>0. Wishes /\ House /\ Reasoned /\ Heard /\ Within /\ events \in Good /\ PinsTyped
  BY DEF IInv, House
<1>1. /\ it \in DOMAIN events /\ events[it].type = "temper" /\ events' = es
      /\ mode' = mode /\ query' = query /\ auto' = auto /\ eco' = eco /\ plan' = plan
      /\ zone' = zone /\ pin' = pin /\ measured' = measured /\ unheard' = unheard
  BY DEF RunTemper, AtEvent, wishes
<1>2. events[it] \in EventType
  BY <1>0, <1>1, Elements DEF Good
<1>3. PICK p \in Pins : events[it].var = -(NumSections + p)
  BY <1>1, <1>2, EventKinds
<1>4. h = p
  BY <1>3, Parameters DEF HeaterOf
<1>5. /\ \A s \in Sections : events[it].var # -s
      /\ \A r \in Pins : r # h => events[it].var # -(NumSections + r)
  <2>1. \A s \in Sections : events[it].var # -s
    BY <1>1, <1>2, HeatVars
  <2> QED BY <1>3, <1>4, <2>1, Parameters
<1>6. /\ es \in Good /\ AsksKept(events, es)
      /\ \A r \in Pins : r # h => (Tempers(events, r) => Tempers(es, r))
  BY <1>0, <1>1, <1>5, ErasedKeeps DEF AsksKept
<1> HIDE DEF es
<1>7. \A r \in Pins : /\ (Wants(r)' <=> Wants(r)) /\ (CoolsWith(r)' <=> CoolsWith(r))
                      /\ r # h => (HeatReason(r) => HeatReason(r)')
  BY <1>1, <1>6 DEF Wants, CoolsWith, HeatReason, Tempers
<1>8. Within' /\ Heard' /\ Wishes'
  <2>1. Heard' /\ Wishes'
    BY <1>0, <1>1 DEF Heard, Wishes
  <2>2. Aim' = Aim
    BY <1>1 DEF Aim
  <2>3. \A s \in Sections : Asks(events, s) => Asks(events', s)
    BY <1>1, <1>6 DEF AsksKept
  <2>4. \A z \in Zones : SectionOf[z] \in Sections
    BY Parameters
  <2> QED BY <1>0, <1>1, <2>1, <2>2, <2>3, <2>4 DEF Within
<1>9. CASE Idle(h) = {}
  <2>1. /\ crossed' = crossed \cup {r \in {h} : ~Wants(r)}
        /\ temper' = temper /\ reheated' = reheated /\ queued' = queued
    BY <1>9 DEF RunTemper
  <2>2. House'
    BY <1>0, <1>1, <1>4, <1>6, <2>1 DEF House, PinsTyped, Differs
  <2>3. Reasoned'
    <3> SUFFICES ASSUME NEW r \in Pins, r \notin crossed', Eff(r)' = 1, NEW z \in Zones
                 PROVE  (r \in Heaters(z) => HeatReason(r)') /\ (r \in Coolers(z) => CoolsWith(r)')
      BY DEF Reasoned
    <3>1. r \notin crossed /\ Eff(r) = 1 /\ (r = h => Wants(r))
      BY <1>1, <2>1 DEF Eff
    <3>2. (r \in Heaters(z) => HeatReason(r)) /\ (r \in Coolers(z) => CoolsWith(r))
      BY <1>0, <3>1 DEF Reasoned
    <3>3. CASE r = h
      BY <1>7, <3>1, <3>2, <3>3 DEF HeatReason
    <3>4. CASE r # h
      BY <1>7, <3>2, <3>4
    <3> QED BY <3>3, <3>4
  <2> QED BY <1>8, <2>2, <2>3
<1>10. CASE Idle(h) # {}
  <2>1. /\ temper' = [temper EXCEPT ![FirstOf(Idle(h))] = FALSE]
        /\ reheated' = reheated \ {FirstOf(Idle(h))} /\ Obey({<<h, 0>>})
    BY <1>10 DEF RunTemper
  <2>2. /\ queued' \in [Pins -> {NONE, 0, 1}] /\ crossed' \subseteq Pins /\ Differs'
        /\ \A r \in Pins \ crossed' :
             /\ \A v \in {0, 1} : <<r, v>> \in {<<h, 0>>} => Eff(r)' = v
             /\ (\A v \in {0, 1} : <<r, v>> \notin {<<h, 0>>}) => r \notin crossed /\ Eff(r)' = Eff(r)
    <3>1. \A o : o = {<<h, 0>>} /\ Obey(o) =>
            /\ queued' \in [Pins -> {NONE, 0, 1}] /\ crossed' \subseteq Pins /\ Differs'
            /\ \A r \in Pins \ crossed' :
                 /\ \A v \in {0, 1} : <<r, v>> \in o => Eff(r)' = v
                 /\ (\A v \in {0, 1} : <<r, v>> \notin o) => r \notin crossed /\ Eff(r)' = Eff(r)
      BY <1>0, <1>1, Obeyed DEF PinsTyped
    <3> QED BY <2>1, <3>1
  <2>3. House'
    BY <1>0, <1>1, <1>6, <2>1, <2>2 DEF House, PinsTyped
  <2>4. Reasoned'
    <3> SUFFICES ASSUME NEW r \in Pins, r \notin crossed', Eff(r)' = 1, NEW z \in Zones
                 PROVE  (r \in Heaters(z) => HeatReason(r)') /\ (r \in Coolers(z) => CoolsWith(r)')
      BY DEF Reasoned
    <3>1. r # h
      BY <2>2
    <3>2. r \notin crossed /\ Eff(r) = 1
      BY <2>2, <3>1
    <3> QED BY <1>0, <1>7, <3>1, <3>2 DEF Reasoned
  <2> QED BY <1>8, <2>3, <2>4
<1> QED BY <1>9, <1>10

LEMMA LoopKeeps ==
  ASSUME IInv, Next
  PROVE  Loop'
<1>0. Wishes /\ House /\ Loop
  BY DEF IInv
<1>1. MINUTE * OSC \in Nat \ {0} /\ \A c \in Nat : c % (MINUTE * OSC) \in 0..(MINUTE * OSC - 1)
  <2>1. MINUTE \in Nat \ {0} /\ OSC \in Nat \ {0}
    BY Parameters
  <2>2. \A m, n \in Nat \ {0} : m * n \in Nat \ {0}
    OBVIOUS
  <2> DEFINE period == MINUTE * OSC
  <2>3. period \in Nat \ {0}
    BY <2>1, <2>2
  <2> HIDE DEF period
  <2>4. \A c \in Nat : c % period \in 0..(period - 1)
    BY <2>3
  <2> QED BY <2>3, <2>4 DEF period
<1>2. ASSUME NEW what \in Inputs \ {"any"}, Spend(what)
      PROVE  budget' \in [Inputs -> Nat]
  <2>1. /\ budget[what] - 1 \in Nat /\ budget["any"] - 1 \in Nat /\ budget \in [Inputs -> Nat]
        /\ budget' = [budget EXCEPT ![what] = @ - 1, !["any"] = @ - 1]
    BY <1>0, <1>2 DEF Loop, Spend, Inputs
  <2>2. [budget EXCEPT ![what] = @ - 1, !["any"] = @ - 1]
        = [i \in Inputs |-> IF i = "any" \/ i = what THEN budget[i] - 1 ELSE budget[i]]
    BY <1>2, <2>1
  <2> QED BY <2>1, <2>2
<1>3. ASSUME NEW x \in Sensors, NEW t \in Readings, Read(x, t)
      PROVE  Loop'
  <2>1. /\ ref' = [s \in Sections |-> IF RefOf[s] = x THEN t ELSE ref[s]]
        /\ measured' = [measured EXCEPT ![x] = t] /\ unheard' \subseteq Zones
        /\ clock' = clock /\ pc' = pc /\ it' = it /\ dry' = dry
    BY <1>0, <1>3 DEF Read, Loop
  <2>2. budget' \in [Inputs -> Nat]
    BY <1>2, <1>3 DEF Read, Inputs
  <2> QED BY <1>0, <2>1, <2>2, Parameters DEF Loop
<1>4. ASSUME Panel
      PROVE  Loop'
  <2>1. /\ ref' = ref /\ measured' = measured /\ unheard' = unheard
        /\ clock' = clock /\ pc' = pc /\ it' = it /\ dry' = dry
        /\ \E what \in {"request", "mode", "plan"} : Spend(what)
    BY <1>4 DEF Panel, PanelMode, PanelEco, PanelSection, PanelAll, Schedule, ghosts
  <2>2. budget' \in [Inputs -> Nat]
    BY <1>2, <2>1 DEF Inputs
  <2> QED BY <1>0, <2>1, <2>2 DEF Loop
<1>5. CASE Second
  BY <1>0, <1>1, <1>5 DEF Second, Loop, ghosts
<1>6. CASE Deliver \/ Pass \/ EndEvents \/ NoMinute
  BY <1>0, <1>6 DEF Deliver, Pass, EndEvents, NoMinute, Loop, ghosts
<1>7. CASE RunHeat \/ RunCheck \/ RunTemper
  BY <1>0, <1>7 DEF RunHeat, RunCheck, RunTemper, AtEvent, Loop
<1>8. CASE Minute
  <2>1. /\ ref' = ref /\ measured' = measured /\ unheard' = unheard /\ clock' = clock
        /\ it' = it /\ budget' = budget /\ pc' = "incoming" /\ dry' \in 0..2
    BY <1>8 DEF Minute
  <2> QED BY <1>0, <2>1 DEF Loop
<1> QED BY <1>3, <1>4, <1>5, <1>6, <1>7, <1>8 DEF Next, Sensed, Program

----------------------------------------------------------------------------
(* The invariant and what follows from it.                                 *)

LEMMA InitInv == Init => IInv
<1> SUFFICES ASSUME Init PROVE IInv
  OBVIOUS
<1>1. Wishes
  BY Parameters DEF Init, Wishes, Modes
<1>2. House
  <2>1. events \in Good /\ zone \in [Zones -> ZoneType]
    BY Parameters DEF Init, Good, Alone, ZoneType
  <2> QED BY <2>1 DEF Init, House, PinsTyped, Differs, NONE
<1>3. Loop
  <2>1. 0 \in 0..(MINUTE * OSC - 1)
    <3>1. MINUTE \in Nat \ {0} /\ OSC \in Nat \ {0}
      BY Parameters
    <3>2. \A m, n \in Nat \ {0} : m * n \in Nat \ {0}
      OBVIOUS
    <3> DEFINE period == MINUTE * OSC
    <3>3. period \in Nat \ {0}
      BY <3>1, <3>2
    <3> HIDE DEF period
    <3>4. 0 \in 0..(period - 1)
      BY <3>3
    <3> QED BY <3>4 DEF period
  <2> QED BY <2>1, Parameters DEF Init, Loop
<1>4. Reasoned
  BY DEF Init, Reasoned, Eff
<1>5. Heard /\ Within
  BY Parameters DEF Init, Heard, Within
<1> QED BY <1>1, <1>2, <1>3, <1>4, <1>5 DEF IInv

LEMMA NextInv == IInv /\ [Next]_vars => IInv'
<1> SUFFICES ASSUME IInv, [Next]_vars PROVE IInv'
  OBVIOUS
<1>1. CASE UNCHANGED vars
  <2>1. /\ mode' = mode /\ query' = query /\ auto' = auto /\ eco' = eco /\ ref' = ref
        /\ temper' = temper /\ zone' = zone /\ pin' = pin /\ queued' = queued /\ events' = events
        /\ clock' = clock /\ pc' = pc /\ it' = it /\ plan' = plan /\ measured' = measured
        /\ unheard' = unheard /\ reheated' = reheated /\ crossed' = crossed /\ dry' = dry
        /\ budget' = budget
    BY <1>1 DEF vars, wishes, ghosts
  <2>2. \A p \in Pins : Eff(p)' = Eff(p) /\ HeatReason(p)' = HeatReason(p) /\ CoolsWith(p)' = CoolsWith(p)
    BY <2>1 DEF Eff, HeatReason, CoolsWith, Wants, Tempers
  <2>3. Wishes' /\ House' /\ Loop' /\ Heard'
    BY <2>1 DEF IInv, Wishes, House, Loop, Heard, PinsTyped, Differs
  <2>4. Reasoned'
    BY <2>1, <2>2 DEF IInv, Reasoned
  <2>5. Within'
    BY <2>1 DEF IInv, Within, Aim, Asks
  <2> QED BY <2>3, <2>4, <2>5 DEF IInv
<1>2. CASE Next
  <2>1. Loop'
    BY <1>2, LoopKeeps
  <2>2. Wishes' /\ House' /\ Reasoned' /\ Heard' /\ Within'
    <3>1. CASE Sensed
      BY <3>1, ReadKeeps DEF Sensed
    <3>2. CASE Panel
      BY <3>2, PanelKeeps
    <3>3. CASE Program
      BY <3>3, DeliverKeeps, TimeKeeps, RunHeatKeeps, RunCheckKeeps, RunTemperKeeps, MinuteKeeps DEF Program
    <3> QED BY <1>2, <3>1, <3>2, <3>3 DEF Next
  <2> QED BY <2>1, <2>2 DEF IInv
<1> QED BY <1>1, <1>2

LEMMA InvAlways == Spec => []IInv
BY InitInv, NextInv, PTL DEF Spec

LEMMA InvTypes == IInv => TypeOK
<1> SUFFICES ASSUME IInv PROVE TypeOK
  OBVIOUS
<1>1. events \in Seq(EventType) /\ Alone(events)
  BY DEF IInv, House, Good
<1>2. \A s \in Sections : Once(EventsOf("heat", -s))
  BY <1>1 DEF Alone, Once, EventsOf
<1>3. Once(UNION {EventsOf("check", t) : t \in Temps})
  BY <1>1 DEF Alone, Once, EventsOf
<1> QED BY <1>1, <1>2, <1>3 DEF IInv, Wishes, House, Loop, PinsTyped, TypeOK, ZoneType

(* Every variable keeps its type, and of the requests that wait for a      *)
(* section, and of those for all of them, there is one.                    *)
THEOREM HeatingTypes == Spec => []TypeOK
BY InvAlways, InvTypes, PTL

(* No zone heats above what its section aims at, unless its reading came   *)
(* while it was tempered or a request waits to be handled.                 *)
THEOREM NeverOverheats == Spec => []NoOverheat
<1>1. IInv => NoOverheat
  <2> SUFFICES ASSUME IInv, NEW z \in Zones, zone[z].heater = 1, z \notin unheard,
                      EventsOf("heat", -SectionOf[z]) = {}
               PROVE  measured[SensorOf[z]] < Aim[SectionOf[z]]
    BY DEF NoOverheat
  <2>1. zone[z].actual = measured[SensorOf[z]]
    BY DEF IInv, Heard
  <2>2. ~Asks(events, SectionOf[z])
    BY DEF Asks, EventsOf
  <2>3. zone[z].actual < Aim[SectionOf[z]]
    BY <2>2 DEF IInv, Within
  <2> QED BY <2>1, <2>3
<1> QED BY <1>1, InvAlways, PTL

(* An open valve has a reason: a zone that works with it, or a tempering   *)
(* whose end is an event.                                                  *)
THEOREM ValvesHaveReasons == Spec => []ActorHasReason
<1>1. IInv => ActorHasReason
  <2> SUFFICES ASSUME IInv, Settled PROVE ActorHasReason
    BY DEF ActorHasReason
  <2>1. \A p \in Pins : Eff(p) = pin[p]
    BY DEF Settled, Eff
  <2>2. ASSUME NEW z \in Zones, NEW h \in Heaters(z) \ crossed, pin[h] = 1
        PROVE  Wants(h) \/ EventsOf("temper", -(NumSections + h)) # {}
    <3>1. h \in Pins
      BY PinsOfZones
    <3>2. HeatReason(h)
      BY <2>1, <2>2, <3>1 DEF IInv, Reasoned
    <3> QED BY <3>2 DEF HeatReason, Tempers, EventsOf
  <2>3. ASSUME NEW z \in Zones, NEW c \in Coolers(z) \ crossed, pin[c] = 1
        PROVE  \E y \in Zones : zone[y].cooler = 1 /\ c \in Coolers(y)
    <3>1. c \in Pins
      BY PinsOfZones
    <3> QED BY <2>1, <2>3, <3>1 DEF IInv, Reasoned, CoolsWith
  <2> QED BY <2>2, <2>3 DEF ActorHasReason
<1> QED BY <1>1, InvAlways, PTL

----------------------------------------------------------------------------
(* The boiler.  Heaters may be shared; what matters is that each zone has  *)
(* one of its own, which no other zone closes.                             *)

Own(h, z) == h \in Heaters(z) /\ \A y \in Zones \ {z} : h \notin Heaters(y)
OwnHeaters == \A z \in Zones : \E h \in Heaters(z) : Own(h, z)

(* Coolers are for the mode "cooling"; the heater of a zone that heats is  *)
(* open, or its order was dropped.                                         *)
ColdSide == mode # "cooling" => \A z \in Zones : zone[z].cooler = 0
Opened ==
  \A z \in Zones : zone[z].heater = 1 =>
    \A h \in Heaters(z) : Own(h, z) => Eff(h) = 1 \/ h \in crossed

(* Since a minute found the boiler on and the valves closed, no valve has  *)
(* been open.  Zones that heat have their order for a heater waiting, the  *)
(* boiler is off, or will be, or a valve opens, and when the orders are    *)
(* carried out it is off.                                                  *)
Fed == \A z \in Zones : zone[z].heater = 1 => \A h \in Heaters(z) : Own(h, z) => queued[h] = 1
Opens == \E v \in Valves : queued[v] = 1
DryInv ==
  dry # 0 =>
    /\ dry = 1 /\ Closed(pin) /\ Fed
    /\ Eff(MASTER) = 0 \/ Opens
    /\ pc # "incoming" => pin[MASTER] = 0
BoilerInv == ColdSide /\ Opened /\ DryInv

(* An order that waits stays; one for the other status waits from now on.  *)
LEMMA ObeyedNow ==
  ASSUME PinsTyped, pin' = pin, NEW orders, Obey(orders)
  PROVE  \A p \in Pins :
           /\ queued[p] = 1 => queued'[p] = 1
           /\ queued'[p] = 1 => queued[p] = 1 \/ <<p, 1>> \in orders
           /\ pin[p] = 0 /\ <<p, 1>> \in orders => queued'[p] = 1
           /\ pin[p] = 1 /\ <<p, 0>> \in orders => queued'[p] = 0
<1> SUFFICES ASSUME NEW p \in Pins
             PROVE  /\ queued[p] = 1 => queued'[p] = 1
                    /\ queued'[p] = 1 => queued[p] = 1 \/ <<p, 1>> \in orders
                    /\ pin[p] = 0 /\ <<p, 1>> \in orders => queued'[p] = 1
                    /\ pin[p] = 1 /\ <<p, 0>> \in orders => queued'[p] = 0
  OBVIOUS
<1>1. /\ queued'[p] = IF queued[p] = NONE /\ <<p, 1 - pin[p]>> \in orders THEN 1 - pin[p] ELSE queued[p]
      /\ queued[p] \in {NONE, 1 - pin[p]} /\ pin[p] \in {0, 1}
  BY DEF Obey, PinsTyped, Differs
<1>2. CASE pin[p] = 0
  <2>1. 1 - pin[p] = 1
    BY <1>2
  <2>2. queued'[p] = (IF queued[p] = NONE /\ <<p, 1>> \in orders THEN 1 ELSE queued[p])
        /\ queued[p] \in {NONE, 1}
    BY <1>1, <2>1
  <2> QED BY <1>2, <2>2 DEF NONE
<1>3. CASE pin[p] = 1
  <2>1. 1 - pin[p] = 0
    BY <1>3
  <2>2. queued'[p] = (IF queued[p] = NONE /\ <<p, 0>> \in orders THEN 0 ELSE queued[p])
        /\ queued[p] \in {NONE, 0}
    BY <1>1, <2>1
  <2> QED BY <1>3, <2>2 DEF NONE
<1> QED BY <1>1, <1>2, <1>3

(* What the orders of a step do for the zones that heat after it.          *)
Serves(orders) ==
  \A z \in Zones : zone'[z].heater = 1 =>
    \A h \in Heaters(z) : Own(h, z) =>
      <<h, 1>> \in orders \/ (zone[z].heater = 1 /\ <<h, 0>> \notin orders)

LEMMA ServesOpened ==
  ASSUME PinsTyped, Opened, pin' = pin, NEW orders, Obey(orders), Serves(orders)
  PROVE  Opened' /\ (Closed(pin) /\ Fed => Fed')
<1>1. \A p \in Pins \ crossed' :
        /\ \A v \in {0, 1} : <<p, v>> \in orders => Eff(p)' = v
        /\ (\A v \in {0, 1} : <<p, v>> \notin orders) => p \notin crossed /\ Eff(p)' = Eff(p)
  BY Obeyed DEF PinsTyped
<1>2. \A z \in Zones : \A h \in Heaters(z) : h \in Pins /\ h \in Valves
  BY PinsOfZones DEF Valves
<1>3. Opened'
  <2> SUFFICES ASSUME NEW z \in Zones, zone'[z].heater = 1, NEW h \in Heaters(z), Own(h, z), h \notin crossed'
               PROVE  Eff(h)' = 1
    BY DEF Opened, Own
  <2>1. <<h, 1>> \in orders \/ (zone[z].heater = 1 /\ <<h, 0>> \notin orders)
    BY DEF Serves
  <2>2. CASE <<h, 1>> \in orders
    BY <1>1, <1>2, <2>2
  <2>3. CASE <<h, 1>> \notin orders
    <3>1. h \notin crossed /\ Eff(h)' = Eff(h)
      BY <1>1, <1>2, <2>1, <2>3
    <3> QED BY <2>1, <2>3, <3>1 DEF Opened
  <2> QED BY <2>2, <2>3
<1>4. ASSUME Closed(pin), Fed
      PROVE  Fed'
  <2> SUFFICES ASSUME NEW z \in Zones, zone'[z].heater = 1, NEW h \in Heaters(z), Own(h, z)
               PROVE  queued'[h] = 1
    BY DEF Fed, Own
  <2>1. <<h, 1>> \in orders \/ zone[z].heater = 1
    BY DEF Serves
  <2>2. pin[h] = 0 /\ h \in Pins
    BY <1>2, <1>4 DEF Closed
  <2>3. zone[z].heater = 1 => queued[h] = 1
    BY <1>4 DEF Fed
  <2> QED BY <2>1, <2>2, <2>3, ObeyedNow
<1> QED BY <1>3, <1>4

(* The zones of S are processed, then, perhaps, all.                       *)
LEMMA ProcessedServes ==
  ASSUME zone \in [Zones -> ZoneType], NEW zs \in [Zones -> ZoneType],
         \A z \in Zones : zs[z].heater = zone[z].heater /\ zs[z].cooler = zone[z].cooler,
         NEW S \in SUBSET Zones, NEW m \in Modes,
         NEW aims \in [Sections -> Int], NEW aims2 \in [Sections -> Int],
         NEW all \in SUBSET Zones, all = {} \/ (all = Zones /\ m = "auto"),
         zone' = Processed(Processed(zs, S, m, aims), all, m, aims2),
         NEW extra, Harmless(extra)
  PROVE  /\ Serves(OrdersOf(zs, S, m, aims)
                   \cup OrdersOf(Processed(zs, S, m, aims), all, m, aims2) \cup extra)
         /\ m # "cooling" /\ (S = Zones \/ \A z \in Zones : zone[z].cooler = 0) =>
              \A z \in Zones : zone'[z].cooler = 0
<1> DEFINE mid == Processed(zs, S, m, aims)
           first == OrdersOf(zs, S, m, aims)
           second == OrdersOf(mid, all, m, aims2)
<1>1. mid \in [Zones -> ZoneType]
      /\ \A z \in Zones : /\ z \notin S => mid[z] = zs[z]
                          /\ z \in S /\ mid[z].cooler = 1 => m = "cooling"
                          /\ z \in S /\ mid[z].heater = 1 => m # "cooling"
  <2>1. mid \in [Zones -> ZoneType]
    BY ProcessedType
  <2>2. ASSUME NEW z \in Zones
        PROVE  /\ z \notin S => mid[z] = zs[z]
               /\ z \in S /\ mid[z].cooler = 1 => m = "cooling"
               /\ z \in S /\ mid[z].heater = 1 => m # "cooling"
    BY ProcessedZone
  <2> QED BY <2>1, <2>2
<1>2. /\ \A p, v : <<p, v>> \in first =>
           \E z \in S : (p \in Heaters(z) /\ v = mid[z].heater) \/ (p \in Coolers(z) /\ v = mid[z].cooler)
      /\ \A z \in S : \A p \in Heaters(z) :
           m # "cooling" \/ zs[z].heater = 1 => <<p, mid[z].heater>> \in first
      /\ \A z \in S : \A p \in Coolers(z) :
           m = "cooling" \/ zs[z].cooler = 1 => <<p, mid[z].cooler>> \in first
  BY OrdersAre
<1> HIDE DEF mid
<1> DEFINE last == Processed(mid, all, m, aims2)
<1>3. last \in [Zones -> ZoneType]
      /\ \A z \in Zones : (z \notin all => last[z] = mid[z]) /\ (z \in all /\ last[z].cooler = 1 => m = "cooling")
  <2>1. last \in [Zones -> ZoneType]
    BY <1>1, ProcessedType
  <2>2. ASSUME NEW z \in Zones
        PROVE  (z \notin all => last[z] = mid[z]) /\ (z \in all /\ last[z].cooler = 1 => m = "cooling")
    BY <1>1, ProcessedZone
  <2> QED BY <2>1, <2>2
<1>4. /\ \A p, v : <<p, v>> \in second => all # {}
      /\ \A z \in all : \A p \in Heaters(z) : m # "cooling" => <<p, last[z].heater>> \in second
  <2>1. /\ \A p, v : <<p, v>> \in second =>
             \E z \in all : (p \in Heaters(z) /\ v = last[z].heater) \/ (p \in Coolers(z) /\ v = last[z].cooler)
        /\ \A z \in all : \A p \in Heaters(z) :
             m # "cooling" \/ mid[z].heater = 1 => <<p, last[z].heater>> \in second
        /\ \A z \in all : \A p \in Coolers(z) :
             m = "cooling" \/ mid[z].cooler = 1 => <<p, last[z].cooler>> \in second
    BY <1>1, OrdersAre
  <2> QED BY <2>1
<1>5. zone' = last
  BY DEF mid
<1> HIDE DEF last, first, second
<1>6. Serves(first \cup second \cup extra)
  <2> SUFFICES ASSUME NEW z \in Zones, zone'[z].heater = 1, NEW h \in Heaters(z), Own(h, z),
                      <<h, 1>> \notin first \cup second \cup extra
               PROVE  zone[z].heater = 1 /\ <<h, 0>> \notin first \cup second \cup extra
    BY DEF Serves
  <2>1. z \notin all
    BY <1>4, <1>5
  <2>2. all = {} /\ mid[z].heater = 1
    BY <1>3, <1>5, <2>1
  <2>3. z \notin S
    BY <1>1, <1>2, <2>2
  <2>4. zone[z].heater = 1
    BY <1>1, <2>2, <2>3
  <2>5. <<h, 0>> \notin first
    BY <1>2, <2>3, LayoutAssumption DEF Own
  <2>6. <<h, 0>> \notin second
    BY <1>4, <2>2
  <2>7. <<h, 0>> \notin extra
    BY DEF Harmless
  <2> QED BY <2>4, <2>5, <2>6, <2>7
<1>7. ASSUME m # "cooling", S = Zones \/ \A z \in Zones : zone[z].cooler = 0, NEW z \in Zones
      PROVE  zone'[z].cooler = 0
  <2>1. zone'[z].cooler \in {0, 1} /\ mid[z].cooler \in {0, 1}
    BY <1>1, <1>3, <1>5 DEF ZoneType
  <2>2. CASE z \in all
    BY <1>3, <1>5, <1>7, <2>1, <2>2
  <2>3. CASE z \notin all /\ z \in S
    BY <1>1, <1>3, <1>5, <1>7, <2>1, <2>3
  <2>4. CASE z \notin all /\ z \notin S
    BY <1>1, <1>3, <1>5, <1>7, <2>4
  <2> QED BY <2>2, <2>3, <2>4
<1>8. first \cup second \cup extra
      = OrdersOf(zs, S, m, aims) \cup OrdersOf(Processed(zs, S, m, aims), all, m, aims2) \cup extra
  BY DEF first, second, mid
<1> QED BY <1>6, <1>7, <1>8

(* Boiler and master cooler are two pins, and no zone's.                   *)
LEMMA MasterFollows ==
  ASSUME PinsTyped, mode \in Modes, MASTER # COOLER, pin' = pin,
         NEW zs \in [Zones -> ZoneType], NEW orders, \A v : <<MASTER, v>> \notin orders,
         NEW es \in Good, NEW min, CheckHeating(zs, orders, es, min),
         zone' \in [Zones -> ZoneType], mode # "cooling" => \A z \in Zones : zone'[z].cooler = 0
  PROVE  \/ \E z \in Zones : zone'[z].heater = 1
         \/ /\ queued'[MASTER] = 1 => queued[MASTER] = 1
            /\ pin[MASTER] = 1 => queued'[MASTER] = 0
<1> SUFFICES ASSUME \A z \in Zones : zone'[z].heater # 1
             PROVE  /\ queued'[MASTER] = 1 => queued[MASTER] = 1
                    /\ pin[MASTER] = 1 => queued'[MASTER] = 0
  OBVIOUS
<1> DEFINE all == IF mode = "auto" /\ auto # plan THEN Zones ELSE {}
           a == IF all = {} THEN auto ELSE plan
           aims == Aims(mode, query', a, eco)
           new == Processed(zs, all, mode, aims)
           starts == Starts(new, aims, min)
           O == orders \cup OrdersOf(zs, all, mode, aims)
                  \cup TemperOrders(starts) \cup VentOrders(new) \cup MasterOrders(new)
<1>1. zone' = new /\ Obey(O)
  BY DEF CheckHeating
<1>2. all \in SUBSET Zones /\ starts \in SUBSET Sections
  BY DEF Starts
<1>3. \A z \in Zones : MASTER \notin Heaters(z) /\ MASTER \notin Coolers(z)
  BY LayoutAssumption
<1> HIDE DEF all, a, starts
<1>4. \A v : <<MASTER, v>> \notin OrdersOf(zs, all, mode, aims)
  BY <1>2, <1>3 DEF OrdersOf, Orders
<1>5. \A v : <<MASTER, v>> \notin TemperOrders(starts)
  BY <1>2, <1>3, TemperingAdded
<1> HIDE DEF new
<1>6. \A s \in Sections : ~Heating(new, s)
  BY <1>1 DEF Heating, Inside
<1>7. <<MASTER, 1>> \notin VentOrders(new)
  BY <1>6 DEF VentOrders, On
<1>8. <<MASTER, 1>> \notin MasterOrders(new) /\ <<MASTER, 0>> \in MasterOrders(new)
  <2>1. CASE mode = "cooling"
    BY <2>1 DEF MasterOrders
  <2>2. CASE mode # "cooling"
    <3>1. ~Working(new)
      BY <1>1, <2>2 DEF Working
    <3> QED BY <2>2, <3>1 DEF MasterOrders, On
  <2> QED BY <2>1, <2>2
<1>9. <<MASTER, 1>> \notin O /\ <<MASTER, 0>> \in O
  BY <1>4, <1>5, <1>7, <1>8
<1>10. MASTER \in Pins
  BY HeatingAssumption
<1> HIDE DEF O
<1> QED BY <1>1, <1>9, <1>10, ObeyedNow

(* What check_heating does for the boiler, after the zones of S were       *)
(* processed.                                                              *)
LEMMA CheckFires ==
  ASSUME Wishes, House, ColdSide, Opened, MASTER # COOLER, OwnHeaters,
         mode' = mode, pin' = pin, query' \in [Sections -> Temps],
         NEW S \in SUBSET Zones, NEW es \in Good, NEW aims \in [Sections -> Int], NEW min,
         CheckHeating(Processed(zone, S, mode, aims), OrdersOf(zone, S, mode, aims), es, min)
  PROVE  /\ ColdSide' /\ Opened'
         /\ Closed(pin) /\ Fed => Fed' /\ (pin[MASTER] = 1 \/ Eff(MASTER) = 0 \/ Opens => (Eff(MASTER) = 0 \/ Opens)')
<1> DEFINE mid == Processed(zone, S, mode, aims)
           first == OrdersOf(zone, S, mode, aims)
<1>0. PinsTyped /\ zone \in [Zones -> ZoneType] /\ mode \in Modes
  BY DEF House, Wishes
<1>1. mid \in [Zones -> ZoneType]
  BY <1>0, ProcessedType
<1>2. PICK all \in SUBSET Zones, aims2 \in [Sections -> Int] : \E extra :
        /\ all = {} \/ (all = Zones /\ mode = "auto")
        /\ zone' = Processed(mid, all, mode, aims2)
        /\ Obey(first \cup OrdersOf(mid, all, mode, aims2) \cup extra) /\ Harmless(extra)
  <2> HIDE DEF mid, first
  <2>1. CheckHeating(mid, first, es, min)
    BY DEF mid, first
  <2> QED BY <1>1, <2>1, CheckDoes
<1>3. PICK extra :
        Obey(first \cup OrdersOf(mid, all, mode, aims2) \cup extra) /\ Harmless(extra)
  BY <1>2
<1>4. /\ Serves(first \cup OrdersOf(mid, all, mode, aims2) \cup extra)
      /\ mode # "cooling" => \A z \in Zones : zone'[z].cooler = 0
  <2>1. zone' = Processed(Processed(zone, S, mode, aims), all, mode, aims2)
    BY <1>2
  <2>2. \A z \in Zones : zone[z].heater = zone[z].heater /\ zone[z].cooler = zone[z].cooler
    OBVIOUS
  <2>3. mode # "cooling" => \A z \in Zones : zone[z].cooler = 0
    BY DEF ColdSide
  <2>4. /\ Serves(OrdersOf(zone, S, mode, aims)
                   \cup OrdersOf(Processed(zone, S, mode, aims), all, mode, aims2) \cup extra)
        /\ mode # "cooling" /\ (S = Zones \/ \A z \in Zones : zone[z].cooler = 0) =>
              \A z \in Zones : zone'[z].cooler = 0
    <3> HIDE DEF mid, first
    <3> QED BY <1>0, <1>2, <1>3, <2>1, <2>2, ProcessedServes
  <2> QED BY <2>3, <2>4
<1>5. ColdSide'
  BY <1>4 DEF ColdSide
<1>6. Opened' /\ (Closed(pin) /\ Fed => Fed')
  <2> DEFINE O == first \cup OrdersOf(mid, all, mode, aims2) \cup extra
  <2>1. Obey(O) /\ Serves(O)
    BY <1>3, <1>4
  <2> HIDE DEF O
  <2> QED BY <1>0, <2>1, ServesOpened
<1>7. zone' \in [Zones -> ZoneType]
  <2> HIDE DEF mid
  <2>1. zone' = Processed(mid, all, mode, aims2)
    BY <1>2
  <2>2. Processed(mid, all, mode, aims2) \in [Zones -> ZoneType]
    BY <1>0, <1>1, ProcessedType
  <2> QED BY <2>1, <2>2
<1>8. \A v : <<MASTER, v>> \notin first
  BY LayoutAssumption DEF OrdersOf, Orders
<1>9. \/ \E z \in Zones : zone'[z].heater = 1
      \/ /\ queued'[MASTER] = 1 => queued[MASTER] = 1
         /\ pin[MASTER] = 1 => queued'[MASTER] = 0
  <2>1. CheckHeating(mid, first, es, min)
    OBVIOUS
  <2> HIDE DEF mid, first
  <2> QED BY <1>0, <1>1, <1>4, <1>7, <1>8, <2>1, MasterFollows
<1>10. \A p \in Pins : queued[p] = 1 => queued'[p] = 1
  BY <1>0, <1>3, ObeyedNow
<1>11. ASSUME Closed(pin), Fed, pin[MASTER] = 1 \/ Eff(MASTER) = 0 \/ Opens
       PROVE  (Eff(MASTER) = 0 \/ Opens)'
  <2>1. Valves \subseteq Pins
    BY PinsOfZones DEF Valves
  <2>2. Opens => Opens'
    BY <1>10, <2>1 DEF Opens
  <2>3. CASE \E z \in Zones : zone'[z].heater = 1
    <3>1. PICK z \in Zones : zone'[z].heater = 1
      BY <2>3
    <3>2. PICK h \in Heaters(z) : Own(h, z)
      BY DEF OwnHeaters
    <3>3. queued'[h] = 1
      BY <1>6, <1>11, <3>1, <3>2 DEF Fed, Own
    <3>4. h \in Valves
      BY DEF Valves
    <3> QED BY <3>3, <3>4 DEF Opens
  <2>4. CASE ~\E z \in Zones : zone'[z].heater = 1
    <3>1. /\ queued'[MASTER] = 1 => queued[MASTER] = 1
          /\ pin[MASTER] = 1 => queued'[MASTER] = 0
      BY <1>9, <2>4
    <3>2. MASTER \in Pins /\ pin[MASTER] \in {0, 1} /\ queued[MASTER] \in {NONE, 0, 1} /\ NONE \notin {0, 1}
      <4>1. MASTER \in Pins
        BY HeatingAssumption
      <4>2. NONE \notin {0, 1}
        BY DEF NONE
      <4> QED BY <1>0, <4>1, <4>2 DEF PinsTyped
    <3>3. queued'[MASTER] \in {NONE, 0, 1}
      BY <1>0, <1>3, <3>2, Obeyed DEF PinsTyped
    <3>4. CASE pin[MASTER] = 1
      BY <3>1, <3>2, <3>4 DEF Eff
    <3>5. CASE pin[MASTER] = 0 /\ queued[MASTER] = 1
      BY <1>11, <2>2, <3>2, <3>5 DEF Eff
    <3>6. CASE pin[MASTER] = 0 /\ queued[MASTER] # 1
      BY <3>1, <3>3, <3>6 DEF Eff
    <3> QED BY <3>2, <3>4, <3>5, <3>6
  <2> QED BY <2>3, <2>4
<1> QED BY <1>5, <1>6, <1>11

(* Steps that leave the zones, the pins and their orders alone.            *)
LEMMA QuietBoiler ==
  ASSUME IInv, BoilerInv, mode' = mode, zone' = zone, pin' = pin, queued' = queued,
         crossed' = crossed, dry' = dry,
         dry = 0 \/ pc' \in {pc, "incoming"} \/ pc = "events" \/ Settled
  PROVE  BoilerInv'
<1>1. \A p \in Pins : Eff(p)' = Eff(p)
  BY DEF Eff
<1>2. MASTER \in Pins /\ Valves \subseteq Pins
  BY HeatingAssumption, PinsOfZones DEF Valves
<1>3. ColdSide' /\ Opened'
  BY <1>1, PinsOfZones DEF BoilerInv, ColdSide, Opened, Own
<1>4. DryInv'
  <2> SUFFICES ASSUME dry # 0
               PROVE  /\ dry = 1 /\ Closed(pin) /\ Fed'
                      /\ (Eff(MASTER) = 0 \/ Opens)'
                      /\ pc' # "incoming" => pin[MASTER] = 0
    BY DEF DryInv, Closed
  <2>1. /\ dry = 1 /\ Closed(pin) /\ Fed /\ (Eff(MASTER) = 0 \/ Opens)
        /\ pc # "incoming" => pin[MASTER] = 0
    BY DEF BoilerInv, DryInv
  <2>2. Fed' /\ (Eff(MASTER) = 0 \/ Opens)'
    BY <1>1, <1>2, <2>1 DEF Fed, Opens, Own
  <2>3. ASSUME Settled
        PROVE  pin[MASTER] = 0
    <3>1. ~Opens
      BY <1>2, <2>3 DEF Opens, Settled, NONE
    <3> QED BY <1>2, <2>1, <2>3, <3>1 DEF Eff, Settled
  <2> QED BY <2>1, <2>2, <2>3
<1> QED BY <1>3, <1>4 DEF BoilerInv

(* A reading or a request: the zones of S are processed at once.           *)
LEMMA ProcessedBoiler ==
  ASSUME IInv, BoilerInv, OwnHeaters, mode' \in Modes, pin' = pin, dry' = dry,
         pc = "incoming", pc' = pc,
         NEW zs \in [Zones -> ZoneType],
         \A z \in Zones : zs[z].heater = zone[z].heater /\ zs[z].cooler = zone[z].cooler,
         NEW S \in SUBSET Zones, mode' = mode \/ S = Zones, NEW aims \in [Sections -> Int],
         zone' = Processed(zs, S, mode', aims), Obey(OrdersOf(zs, S, mode', aims))
  PROVE  BoilerInv'
<1> DEFINE mid == Processed(zs, S, mode', aims)
           first == OrdersOf(zs, S, mode', aims)
<1>0. PinsTyped /\ zone \in [Zones -> ZoneType] /\ ColdSide /\ Opened /\ DryInv
  BY DEF IInv, House, BoilerInv
<1>1. mid \in [Zones -> ZoneType]
  BY ProcessedType
<1>2. Serves(first) /\ (mode' # "cooling" => \A z \in Zones : zone'[z].cooler = 0)
  <2> HIDE DEF mid
  <2>1. Processed(mid, {}, mode', aims) = mid
    <3>1. Processed(mid, {}, mode', aims) = [z \in Zones |-> mid[z]]
      BY DEF Processed
    <3> QED BY <1>1, <3>1
  <2>2. OrdersOf(mid, {}, mode', aims) = {}
    BY DEF OrdersOf
  <2>3. zone' = Processed(mid, {}, mode', aims)
    BY <2>1 DEF mid
  <2>4. Harmless({})
    BY DEF Harmless
  <2>5. mode' # "cooling" => S = Zones \/ \A z \in Zones : zone[z].cooler = 0
    BY <1>0 DEF ColdSide
  <2>6. /\ Serves(first \cup OrdersOf(mid, {}, mode', aims) \cup {})
        /\ mode' # "cooling" /\ (S = Zones \/ \A z \in Zones : zone[z].cooler = 0) =>
              \A z \in Zones : zone'[z].cooler = 0
    <3>0. PICK m, all, extra : m = mode' /\ all = {} /\ extra = {}
      OBVIOUS
    <3>1. m \in Modes /\ all \in SUBSET Zones /\ all = {} /\ Harmless(extra)
          /\ zone' = Processed(Processed(zs, S, m, aims), all, m, aims)
      BY <3>0, <2>3, <2>4 DEF mid
    <3>2. /\ Serves(OrdersOf(zs, S, m, aims) \cup OrdersOf(Processed(zs, S, m, aims), all, m, aims) \cup extra)
          /\ m # "cooling" /\ (S = Zones \/ \A z \in Zones : zone[z].cooler = 0) =>
                \A z \in Zones : zone'[z].cooler = 0
      <4>1. zone \in [Zones -> ZoneType] /\ (all = {} \/ (all = Zones /\ m = "auto"))
        BY <1>0, <3>1
      <4>2. \A z \in Zones : zs[z].heater = zone[z].heater /\ zs[z].cooler = zone[z].cooler
        OBVIOUS
      <4> QED BY ONLY <3>1, <4>1, <4>2, ProcessedServes, zs \in [Zones -> ZoneType], S \in SUBSET Zones, aims \in [Sections -> Int]
    <3> QED BY <3>0, <3>2 DEF mid
  <2>7. first \cup OrdersOf(mid, {}, mode', aims) \cup {} = first
    BY <2>2
  <2> QED BY <2>5, <2>6, <2>7
<1>3. \A v : <<MASTER, v>> \notin first
  BY LayoutAssumption DEF OrdersOf, Orders
<1> HIDE DEF mid
<1>4. Obey(first)
  OBVIOUS
<1> HIDE DEF first
<1>5. Opened' /\ (Closed(pin) /\ Fed => Fed')
  BY <1>0, <1>2, <1>4, ServesOpened
<1>6. \A p \in Pins : /\ queued[p] = 1 => queued'[p] = 1
                      /\ queued'[p] = 1 => queued[p] = 1 \/ <<p, 1>> \in first
  BY <1>0, <1>4, ObeyedNow
<1>7. MASTER \in Pins /\ Valves \subseteq Pins
  BY HeatingAssumption, PinsOfZones DEF Valves
<1>8. Eff(MASTER) = 0 => Eff(MASTER)' = 0
  <2>1. queued[MASTER] \in {NONE, 1 - pin[MASTER]} /\ pin[MASTER] \in {0, 1}
    BY <1>0, <1>7 DEF PinsTyped, Differs
  <2>2. queued'[MASTER] = queued[MASTER]
    BY <1>3, <1>4, <1>7 DEF Obey
  <2> QED BY <2>2 DEF Eff
<1>9. Opens => Opens'
  BY <1>6, <1>7 DEF Opens
<1>10. DryInv'
  BY <1>0, <1>5, <1>8, <1>9 DEF DryInv, Closed
<1> QED BY <1>2, <1>5, <1>10 DEF BoilerInv, ColdSide

LEMMA EventBoiler ==
  ASSUME IInv, BoilerInv, MASTER # COOLER, OwnHeaters, RunHeat \/ RunCheck
  PROVE  BoilerInv'
<1>0. Wishes /\ House /\ ColdSide /\ Opened /\ DryInv /\ events \in Good
  BY DEF IInv, House, BoilerInv
<1>1. /\ mode' = mode /\ pin' = pin /\ dry' = dry /\ pc' = pc /\ pc = "events"
      /\ it \in DOMAIN events
  BY DEF RunHeat, RunCheck, AtEvent
<1>2. RemoveAt(events, it) \in Good
  BY <1>0, <1>1, ErasedKeeps
<1>3. PICK S \in SUBSET Zones, aims \in [Sections -> Int] :
        /\ query' \in [Sections -> Temps]
        /\ CheckHeating(Processed(zone, S, mode, aims), OrdersOf(zone, S, mode, aims),
                        RemoveAt(events, it), NONE)
  <2>1. CASE RunHeat
    <3> DEFINE S == Inside(-events[it].var)
    <3>1. S \in SUBSET Zones
      BY DEF Inside
    <3>2. Aim \in [Sections -> Int]
      BY <1>0, AimsType DEF Wishes, Aim
    <3>3. /\ query' = query
          /\ CheckHeating(Processed(zone, S, mode, Aim), OrdersOf(zone, S, mode, Aim),
                          RemoveAt(events, it), NONE)
      BY <2>1 DEF RunHeat
    <3>4. query' \in [Sections -> Temps]
      BY <1>0, <3>3 DEF Wishes
    <3> HIDE DEF S
    <3> QED BY <3>1, <3>2, <3>3, <3>4
  <2>2. CASE RunCheck
    <3> DEFINE all == [s \in Sections |-> events[it].var]
               aims == Aims(mode, all, auto, eco)
    <3>1. events[it].var \in Temps
      <4>1. events[it] \in EventType /\ events[it].type = "check"
        BY <1>0, <1>1, <2>2, Elements DEF Good, RunCheck, AtEvent
      <4> QED BY <4>1, EventKinds
    <3>2. all \in [Sections -> Temps]
      BY <3>1
    <3>3. /\ query' = all
          /\ CheckHeating(Processed(zone, Zones, mode, aims), OrdersOf(zone, Zones, mode, aims),
                          RemoveAt(events, it), NONE)
      BY <2>2 DEF RunCheck
    <3> HIDE DEF all
    <3>4. aims \in [Sections -> Int]
      BY <1>0, <3>2, AimsType DEF Wishes
    <3> HIDE DEF aims
    <3> QED BY <3>2, <3>3, <3>4
  <2> QED BY <2>1, <2>2
<1>4. /\ ColdSide' /\ Opened'
      /\ Closed(pin) /\ Fed => Fed' /\ (pin[MASTER] = 1 \/ Eff(MASTER) = 0 \/ Opens => (Eff(MASTER) = 0 \/ Opens)')
  BY <1>0, <1>1, <1>2, <1>3, CheckFires
<1>5. DryInv'
  BY <1>0, <1>1, <1>4 DEF DryInv, Closed
<1> QED BY <1>4, <1>5 DEF BoilerInv

LEMMA TemperBoiler ==
  ASSUME IInv, BoilerInv, RunTemper
  PROVE  BoilerInv'
<1> DEFINE h == HeaterOf(events[it])
<1>0. PinsTyped /\ ColdSide /\ Opened /\ DryInv
  BY DEF IInv, House, BoilerInv
<1>1. /\ mode' = mode /\ zone' = zone /\ pin' = pin /\ dry' = dry /\ pc' = pc /\ pc = "events"
  BY DEF RunTemper, AtEvent, wishes
<1>2. MASTER \in Pins /\ Valves \subseteq Pins
  BY HeatingAssumption, PinsOfZones DEF Valves
<1>3. ColdSide'
  BY <1>0, <1>1 DEF ColdSide
<1>4. CASE Idle(h) = {}
  <2>1. crossed \subseteq crossed' /\ queued' = queued
    BY <1>4 DEF RunTemper
  <2>2. \A p \in Pins : Eff(p)' = Eff(p)
    BY <1>1, <2>1 DEF Eff
  <2>3. Opened'
    BY <1>0, <1>1, <2>1, <2>2, PinsOfZones DEF Opened, Own
  <2>4. DryInv'
    BY <1>0, <1>1, <1>2, <2>1, <2>2 DEF DryInv, Fed, Opens, Own, Closed
  <2> QED BY <1>3, <2>3, <2>4 DEF BoilerInv
<1>5. CASE Idle(h) # {}
  <2>1. PICK y \in Zones : h \in Heaters(y) /\ ~Heating(zone, SectionOf[y])
    BY <1>5 DEF Idle, Inside
  <2>2. zone[y].heater # 1
    BY <2>1 DEF Heating, Inside
  <2> DEFINE orders == {<<h, 0>>}
  <2>3. Serves(orders)
    <3> SUFFICES ASSUME NEW z \in Zones, zone[z].heater = 1, NEW k \in Heaters(z), Own(k, z)
                 PROVE  k # h
      BY <1>1 DEF Serves
    <3> QED BY <2>1, <2>2 DEF Own
  <2>4. Obey(orders)
    BY <1>5 DEF RunTemper
  <2>5. \A v : <<MASTER, v>> \notin orders
    BY <2>1, LayoutAssumption
  <2>6. \A p : <<p, 1>> \notin orders
    OBVIOUS
  <2> HIDE DEF orders, h
  <2>7. Opened' /\ (Closed(pin) /\ Fed => Fed')
    BY <1>0, <1>1, <2>3, <2>4, ServesOpened
  <2>8. \A p \in Pins : queued[p] = 1 => queued'[p] = 1
    BY <1>0, <1>1, <2>4, ObeyedNow
  <2>9. Eff(MASTER)' = Eff(MASTER)
    <3>1. queued'[MASTER] = queued[MASTER]
      BY <1>2, <2>4, <2>5 DEF Obey
    <3> QED BY <1>1, <3>1 DEF Eff
  <2>10. Opens => Opens'
    BY <1>2, <2>8 DEF Opens
  <2>11. DryInv'
    BY <1>0, <1>1, <2>7, <2>9, <2>10 DEF DryInv, Closed
  <2> QED BY <1>3, <2>7, <2>11 DEF BoilerInv
<1> QED BY <1>4, <1>5

LEMMA DeliverBoiler ==
  ASSUME IInv, BoilerInv, Deliver
  PROVE  BoilerInv'
<1>0. PinsTyped /\ ColdSide /\ Opened /\ DryInv
  BY DEF IInv, House, BoilerInv
<1>1. /\ pin' = [p \in Pins |-> IF queued[p] = NONE THEN pin[p] ELSE queued[p]]
      /\ queued' = [p \in Pins |-> NONE]
      /\ dry' = (IF Closed(pin') THEN dry ELSE 0)
      /\ mode' = mode /\ zone' = zone /\ crossed' = crossed /\ pc' = pc /\ pc = "incoming"
  BY DEF Deliver, wishes
<1>2. \A p \in Pins : /\ Eff(p)' = Eff(p) /\ pin'[p] = Eff(p)
                      /\ queued[p] = 1 => pin'[p] = 1
  BY <1>1 DEF Eff, NONE
<1>3. MASTER \in Pins /\ Valves \subseteq Pins
  BY HeatingAssumption, PinsOfZones DEF Valves
<1>4. ColdSide' /\ Opened'
  BY <1>0, <1>1, <1>2, PinsOfZones DEF ColdSide, Opened, Own
<1>5. DryInv'
  <2> SUFFICES ASSUME Closed(pin'), dry # 0
               PROVE  dry = 1 /\ Fed' /\ Eff(MASTER)' = 0
    BY <1>1 DEF DryInv, Closed
  <2>1. dry = 1 /\ Fed /\ (Eff(MASTER) = 0 \/ Opens)
    BY <1>0 DEF DryInv
  <2>2. \A v \in Valves : pin'[v] = 0
    BY DEF Closed
  <2>3. ~Opens
    BY <1>2, <1>3, <2>2 DEF Opens
  <2>4. \A z \in Zones : \A h \in Heaters(z) : h \in Valves
    BY DEF Valves
  <2>5. \A z \in Zones : \A h \in Heaters(z) : queued[h] # 1
    BY <1>2, <1>3, <2>2, <2>4
  <2>6. Fed'
    BY <1>1, <2>1, <2>5 DEF Fed, Own
  <2> QED BY <1>2, <1>3, <2>1, <2>3, <2>6
<1> QED BY <1>4, <1>5 DEF BoilerInv

LEMMA MinuteBoiler ==
  ASSUME IInv, BoilerInv, MASTER # COOLER, OwnHeaters, Minute
  PROVE  BoilerInv'
<1>0. Wishes /\ House /\ PinsTyped /\ ColdSide /\ Opened /\ DryInv /\ events \in Good
  BY DEF IInv, House, BoilerInv
<1>1. /\ query' = query /\ CheckHeating(zone, {}, events, clock \div MINUTE)
      /\ dry' = (IF pin[MASTER] = 0 \/ ~Closed(pin) \/ crossed # {} THEN 0 ELSE IF dry = 0 THEN 1 ELSE 2)
      /\ mode' = mode /\ pin' = pin /\ pc = "minute" /\ pc' = "incoming"
  BY DEF Minute
<1>2. Processed(zone, {}, mode, Aim) = zone
  <2>1. Processed(zone, {}, mode, Aim) = [z \in Zones |-> zone[z]]
    BY DEF Processed
  <2> QED BY <1>0, <2>1 DEF House
<1>3. OrdersOf(zone, {}, mode, Aim) = {}
  BY DEF OrdersOf
<1>4. CheckHeating(Processed(zone, {}, mode, Aim), OrdersOf(zone, {}, mode, Aim), events, clock \div MINUTE)
  BY <1>1, <1>2, <1>3
<1>5. Aim \in [Sections -> Int] /\ query' \in [Sections -> Temps] /\ {} \in SUBSET Zones
  BY <1>0, <1>1, AimsType DEF Aim, Wishes
<1>6. /\ ColdSide' /\ Opened'
      /\ Closed(pin) /\ Fed => Fed' /\ (pin[MASTER] = 1 \/ Eff(MASTER) = 0 \/ Opens => (Eff(MASTER) = 0 \/ Opens)')
  BY <1>0, <1>1, <1>4, <1>5, CheckFires
<1>7. DryInv'
  <2> SUFFICES ASSUME pin[MASTER] # 0, Closed(pin), crossed = {}
               PROVE  dry = 0 /\ Fed' /\ (Eff(MASTER) = 0 \/ Opens)'
    BY <1>1 DEF DryInv, Closed
  <2>1. dry = 0
    BY <1>0, <1>1 DEF DryInv
  <2>2. pin[MASTER] = 1
    BY <1>0, HeatingAssumption DEF PinsTyped
  <2>3. Fed
    <3> SUFFICES ASSUME NEW z \in Zones, zone[z].heater = 1, NEW h \in Heaters(z), Own(h, z)
                 PROVE  queued[h] = 1
      BY DEF Fed
    <3>1. Eff(h) = 1
      BY <1>0 DEF Opened
    <3>2. pin[h] = 0
      BY DEF Closed, Valves
    <3> QED BY <3>1, <3>2 DEF Eff
  <2> QED BY <1>6, <2>1, <2>2, <2>3
<1> QED BY <1>6, <1>7 DEF BoilerInv

LEMMA BoilerInit == Init => BoilerInv
BY Parameters DEF Init, BoilerInv, ColdSide, Opened, DryInv

LEMMA BoilerNext ==
  ASSUME MASTER # COOLER, OwnHeaters
  PROVE  IInv /\ BoilerInv /\ [Next]_vars => BoilerInv'
<1> SUFFICES ASSUME IInv, BoilerInv, [Next]_vars PROVE BoilerInv'
  OBVIOUS
<1>0. Wishes /\ House
  BY DEF IInv
<1>1. CASE UNCHANGED vars
  BY <1>1, QuietBoiler DEF vars, wishes, ghosts
<1>2. ASSUME NEW x \in Sensors, NEW t \in Readings, Read(x, t)
      PROVE  BoilerInv'
  <2> DEFINE hears == {z \in Zones : SensorOf[z] = x /\ ~temper[SectionOf[z]]}
             zs == [z \in Zones |-> IF z \in hears THEN [zone[z] EXCEPT !.actual = t] ELSE zone[z]]
  <2>1. /\ zone' = Processed(zs, hears, mode, Aim) /\ Obey(OrdersOf(zs, hears, mode, Aim))
        /\ mode' = mode /\ pin' = pin /\ dry' = dry /\ pc' = pc /\ pc = "incoming"
    BY <1>2 DEF Read, Incoming, wishes
  <2>2. Aim \in [Sections -> Int] /\ t \in Temps /\ hears \in SUBSET Zones
    BY <1>0, AimsType, Parameters DEF Wishes, Aim
  <2>3. \A z \in Zones : /\ [zone[z] EXCEPT !.actual = t] \in ZoneType
                         /\ [zone[z] EXCEPT !.actual = t].heater = zone[z].heater
                         /\ [zone[z] EXCEPT !.actual = t].cooler = zone[z].cooler
    BY <1>0, <2>2 DEF House, ZoneType
  <2>4. zs \in [Zones -> ZoneType]
    BY <1>0, <2>3 DEF House
  <2>5. \A z \in Zones : zs[z].heater = zone[z].heater /\ zs[z].cooler = zone[z].cooler
    BY <2>3
  <2> HIDE DEF zs, hears
  <2>6. mode' \in Modes /\ zone' = Processed(zs, hears, mode', Aim) /\ Obey(OrdersOf(zs, hears, mode', Aim))
    BY <1>0, <2>1 DEF Wishes
  <2> QED BY <2>1, <2>2, <2>4, <2>5, <2>6, ProcessedBoiler
<1>3. ASSUME ProcessAll, mode' \in Modes, Aim' \in [Sections -> Int], pin' = pin, dry' = dry,
             pc' = pc, Incoming
      PROVE  BoilerInv'
  <2> DEFINE aims == Aim'
  <2>1. /\ zone' = Processed(zone, Zones, mode', aims) /\ Obey(OrdersOf(zone, Zones, mode', aims))
        /\ pc = "incoming" /\ zone \in [Zones -> ZoneType] /\ Zones \in SUBSET Zones
        /\ aims \in [Sections -> Int]
    BY <1>0, <1>3 DEF ProcessAll, Incoming, House
  <2>2. \A z \in Zones : zone[z].heater = zone[z].heater /\ zone[z].cooler = zone[z].cooler
    OBVIOUS
  <2> HIDE DEF aims
  <2> QED BY <1>3, <2>1, <2>2, ProcessedBoiler
<1>4. ASSUME Panel
      PROVE  BoilerInv'
  <2>1. ASSUME NEW m \in Modes, PanelMode(m)
        PROVE  BoilerInv'
    <3>1. Aim' = Aims(mode', query', auto', eco') /\ mode' \in Modes
      BY <2>1 DEF Aim, PanelMode
    <3>2. Aim' \in [Sections -> Int]
      BY <1>0, <2>1, <3>1, AimsType DEF PanelMode, Wishes
    <3> QED BY <1>3, <2>1, <3>1, <3>2 DEF PanelMode
  <2>2. ASSUME NEW t \in Wanted, PanelEco(t)
        PROVE  BoilerInv'
    <3>1. Aim' = Aims(mode', query', auto', eco') /\ mode' \in Modes
      BY <1>0, <2>2 DEF Aim, PanelEco, Wishes
    <3>2. Aim' \in [Sections -> Int]
      BY <1>0, <2>2, <3>1, AimsType, Parameters DEF PanelEco, Wishes
    <3> QED BY <1>3, <2>2, <3>1, <3>2 DEF PanelEco
  <2>3. ASSUME NEW s \in Sections, NEW t \in Wanted, PanelSection(s, t)
        PROVE  BoilerInv'
    BY <2>3, QuietBoiler DEF PanelSection, ghosts
  <2>4. ASSUME NEW t \in Wanted, PanelAll(t) \/ Schedule(t)
        PROVE  BoilerInv'
    BY <2>4, QuietBoiler DEF PanelAll, Schedule, wishes, ghosts
  <2> QED BY <1>4, <2>1, <2>2, <2>3, <2>4 DEF Panel
<1>5. CASE Second \/ Pass \/ EndEvents \/ NoMinute
  <2>1. /\ mode' = mode /\ zone' = zone /\ pin' = pin /\ queued' = queued
        /\ crossed' = crossed /\ dry' = dry
        /\ pc' \in {pc, "incoming"} \/ pc = "events" \/ Settled
    BY <1>5 DEF Second, Pass, EndEvents, NoMinute, Incoming, wishes, ghosts
  <2> QED BY <2>1, QuietBoiler
<1>6. CASE Program
  BY <1>5, <1>6, DeliverBoiler, EventBoiler, TemperBoiler, MinuteBoiler DEF Program
<1> QED BY <1>1, <1>2, <1>4, <1>6 DEF Next, Sensed

(* The boiler never runs for two minutes against closed valves, unless the *)
(* sender dropped an order: if the boiler is not the master cooler as      *)
(* well, and every zone has a heater of its own.                           *)
THEOREM BoilerCorrect ==
  ASSUME MASTER # COOLER, OwnHeaters
  PROVE  Spec => []BoilerHasOutlet
<1>1. IInv /\ BoilerInv /\ [Next]_vars => (IInv /\ BoilerInv)'
  BY NextInv, BoilerNext
<1>2. Init => IInv /\ BoilerInv
  BY InitInv, BoilerInit
<1>3. IInv /\ BoilerInv => BoilerHasOutlet
  <2>1. BoilerInv => dry \in {0, 1}
    BY DEF BoilerInv, DryInv
  <2> QED BY <2>1 DEF BoilerHasOutlet
<1> QED BY <1>1, <1>2, <1>3, PTL DEF Spec
=============================================================================
