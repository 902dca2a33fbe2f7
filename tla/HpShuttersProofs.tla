-------------------------- MODULE HpShuttersProofs --------------------------
(***************************************************************************)
(* Proofs about HpShutters: its types, that of several commands for all    *)
(* shutters the last one wins, that nothing starts in strong wind, and     *)
(* that what moves has an end, for any number of shutters, buttons and     *)
(* commands.                                                               *)
(***************************************************************************)
EXTENDS HpShutters, HpSenderProofs

(* Beside the types: a loop of process_rule was started while the wind     *)
(* allowed to move, and nothing comes between its steps.                   *)
TypeInv == TypeOK /\ LastAllWins /\ (todo # {} => enabled)

(* Entries that start no motor but those of M. *)
Calm(M) ==
  {e \in EntryType : \A s \in Shutters : \A j \in DOMAIN e.items :
     e.items[j].pin = OnOff(s) /\ e.items[j].val # "0" => s \in M}

(* Events that agree with c, the last command for all shutters. *)
Agreeing(c) ==
  {e \in EventType : e.type = "shutter" => (e.by = "all" => e.cmd = TextOf(c))}

----------------------------------------------------------------------------
(* The queue.                                                              *)

LEMMA PinTypes ==
  ASSUME NEW s \in Shutters
  PROVE  OnOff(s) \in Pins /\ DirPin(s) \in Pins /\ HbxOf[s] \in Nat
BY ShuttersAssumption DEF OnOff, DirPin, Pins, Shutters

LEMMA CalmEntries ==
  ASSUME NEW M, NEW q \in Seq(Calm(M))
  PROVE  q \in Seq(EntryType) /\ Motions(q) \subseteq M
<1>1. Calm(M) \subseteq EntryType
  BY DEF Calm
<1>2. q \in Seq(EntryType)
  BY <1>1, SeqMonotonic
<1>3. DOMAIN q = 1..Len(q) /\ \A i \in DOMAIN q : q[i] \in Calm(M)
  BY LenProperties, ElementOfSeq
<1> QED BY <1>2, <1>3 DEF Motions, Calm

LEMMA EntriesCalm ==
  ASSUME NEW q \in Seq(EntryType)
  PROVE  q \in Seq(Calm(Motions(q)))
<1>1. /\ Len(q) \in Nat /\ DOMAIN q = 1..Len(q) /\ q = [i \in DOMAIN q |-> q[i]]
      /\ \A i \in DOMAIN q : q[i] \in EntryType
  BY LenProperties, ElementOfSeq, SeqDef
<1>2. \A i \in DOMAIN q : q[i] \in Calm(Motions(q))
  BY <1>1 DEF Calm, Motions
<1>3. q \in [1..Len(q) -> Calm(Motions(q))]
  BY <1>1, <1>2
<1> QED BY <1>1, <1>3, FunctionIsSeq

LEMMA TypedQueue ==
  ASSUME NEW q \in Seq(EntryType)
  PROVE  q \in Seq(Calm(Shutters))
<1>1. Motions(q) \subseteq Shutters
  BY DEF Motions
<1>2. Calm(Motions(q)) \subseteq Calm(Shutters)
  BY <1>1 DEF Calm
<1> QED BY <1>2, EntriesCalm, SeqMonotonic

LEMMA MergedItems ==
  ASSUME NEW M, NEW e \in Calm(M), NEW s \in Shutters, NEW pin \in {OnOff(s), DirPin(s)},
         NEW v \in Values, pin = OnOff(s) => v = "0" \/ s \in M
  PROVE  Merge(e, PinMessage(s, pin, v)) \in Calm(M)
<1> DEFINE Entry == [pin : Pins, val : Values]
           new == Item(pin, v)
           both == e.items \o <<new>>
           f == [e EXCEPT !.items = both]
<1>1. e \in EntryType /\ e.items \in Seq(Entry) /\ e.counter \in Nat
  BY DEF Calm, EntryType
<1>2. new \in Entry /\ new.pin = pin /\ new.val = v
  BY PinTypes DEF Item
<1> HIDE DEF Entry, new
<1>3. both = Append(e.items, new)
  BY <1>1, <1>2, AppendIsConcat
<1>4. /\ both \in Seq(Entry) /\ DOMAIN both = 1..(Len(e.items) + 1)
      /\ DOMAIN e.items = 1..Len(e.items) /\ Len(e.items) \in Nat
      /\ \A j \in 1..Len(e.items) : both[j] = e.items[j]
      /\ both[Len(e.items) + 1] = new
  BY <1>1, <1>2, <1>3, Longer
<1> HIDE DEF both
<1>5. \A r \in Shutters : OnOff(r) = pin => r = s /\ pin = OnOff(s)
  BY DEF OnOff, DirPin
<1>6. \A r \in Shutters : \A j \in DOMAIN both :
        both[j].pin = OnOff(r) /\ both[j].val # "0" => r \in M
  <2> SUFFICES ASSUME NEW r \in Shutters, NEW j \in DOMAIN both,
                      both[j].pin = OnOff(r), both[j].val # "0"
               PROVE  r \in M
    OBVIOUS
  <2>1. CASE j \in 1..Len(e.items)
    BY <2>1, <1>4 DEF Calm
  <2>2. CASE j = Len(e.items) + 1
    BY <2>2, <1>2, <1>4, <1>5
  <2> QED BY <2>1, <2>2, <1>4
<1>7. f \in EntryType /\ f.items = both /\ f.counter \in Nat
  BY <1>1, <1>4 DEF EntryType, Entry
<1>8. Merge(e, PinMessage(s, pin, v)) = [f EXCEPT !.counter = f.counter + 1]
  BY DEF Merge, PinMessage, both, new
<1> HIDE DEF f
<1>9. /\ [f EXCEPT !.counter = f.counter + 1] \in EntryType
      /\ [f EXCEPT !.counter = f.counter + 1].items = both
  BY <1>7 DEF EntryType
<1> QED BY <1>6, <1>8, <1>9 DEF Calm

(* An order for a pin starts no motor but one that may be started. *)
LEMMA OrderCalm ==
  ASSUME NEW M, NEW q \in Seq(Calm(M)), NEW s \in Shutters, NEW pin \in {OnOff(s), DirPin(s)},
         NEW v \in Values, NEW delay \in Nat, pin = OnOff(s) => v = "0" \/ s \in M
  PROVE  Order(q, s, pin, v, delay) \in Seq(Calm(M))
<1> DEFINE m == PinMessage(s, pin, v)
           n == NewEntry(m, 0, 0, delay)
<1>1. \A e \in Calm(M) : [e EXCEPT !.delay = delay] \in Calm(M)
  BY DEF Calm, EntryType
<1>2. \A e \in Calm(M) : Merge(e, m) \in Calm(M)
  BY MergedItems
<1>3. n \in Calm(M)
  <2>1. Item(pin, v) \in [pin : Pins, val : Values]
    BY PinTypes DEF Item
  <2>2. <<Item(pin, v)>> \in Seq([pin : Pins, val : Values])
    BY <2>1
  <2>3. n \in EntryType /\ n.items = <<Item(pin, v)>>
    BY <2>2, PinTypes DEF NewEntry, PinMessage, EntryType
  <2>4. \A r \in Shutters : OnOff(r) = pin => r = s /\ pin = OnOff(s)
    BY DEF OnOff, DirPin
  <2> HIDE DEF n
  <2> QED BY <2>3, <2>4 DEF Calm, Item
<1> HIDE DEF m
<1> QED BY <1>1, <1>2, <1>3, AddMessageKeeps DEF Order, m

LEMMA OrderNowCalm ==
  ASSUME NEW M, NEW q \in Seq(Calm(M)), NEW s \in Shutters, NEW v \in Values,
         v = "0" \/ s \in M
  PROVE  OrderNow(q, s, v) \in Seq(Calm(M))
BY OrderCalm, DeleteTimerKeeps DEF OrderNow

LEMMA TurnCalm ==
  ASSUME NEW M, NEW q \in Seq(Calm(M)), NEW s \in Shutters, NEW d \in Sides
  PROVE  Turn(q, s, d) \in Seq(Calm(M))
<1>1. DirPin(s) # OnOff(s) /\ d \in Values
  BY DEF DirPin, OnOff, Values
<1> QED BY <1>1, OrderCalm DEF Turn

----------------------------------------------------------------------------
(* The events.                                                             *)

LEMMA CommandTexts ==
  ASSUME NEW c \in Command
  PROVE  c \in Text /\ TextOf(c) \in Text
BY DEF Command, Text, TextOf

LEMMA EventTypes ==
  ASSUME NEW s \in Shutters, NEW c \in Command, NEW all
  PROVE  /\ \A d \in Nat : OffEvent(s, d) \in Agreeing(all)
         /\ ShutterEvent(s, c, 0, "clock") \in Agreeing(all)
         /\ ShutterEvent(s, TextOf(c), s - 1, "all") \in Agreeing(c)
<1>1. s - 1 \in Nat
  BY ShuttersAssumption DEF Shutters
<1>2. c \in Text /\ TextOf(c) \in Text
  BY CommandTexts
<1> QED BY <1>1, <1>2 DEF OffEvent, ShutterEvent, Agreeing, EventType

LEMMA AgreeingEvents ==
  ASSUME NEW es \in Seq(EventType), NEW c
  PROVE  es \in Seq(Agreeing(c)) <=>
           \A i \in DOMAIN es : es[i].type = "shutter" /\ es[i].by = "all" => es[i].cmd = TextOf(c)
<1>1. /\ Len(es) \in Nat /\ DOMAIN es = 1..Len(es) /\ es = [i \in DOMAIN es |-> es[i]]
      /\ \A i \in DOMAIN es : es[i] \in EventType
  BY LenProperties, ElementOfSeq, SeqDef
<1>2. ASSUME \A i \in DOMAIN es : es[i].type = "shutter" /\ es[i].by = "all" => es[i].cmd = TextOf(c)
      PROVE  es \in Seq(Agreeing(c))
  <2>1. es \in [1..Len(es) -> Agreeing(c)]
    BY <1>1, <1>2 DEF Agreeing
  <2> QED BY <2>1, <1>1, FunctionIsSeq
<1>3. ASSUME es \in Seq(Agreeing(c))
      PROVE  \A i \in DOMAIN es : es[i].type = "shutter" /\ es[i].by = "all" => es[i].cmd = TextOf(c)
  BY <1>3, <1>1, ElementOfSeq DEF Agreeing
<1> QED BY <1>2, <1>3

LEMMA AgreeingTyped ==
  ASSUME NEW c, NEW es \in Seq(Agreeing(c))
  PROVE  es \in Seq(EventType)
<1>1. Agreeing(c) \subseteq EventType
  BY DEF Agreeing
<1> QED BY <1>1, SeqMonotonic

LEMMA PushAgrees ==
  ASSUME NEW c, NEW es \in Seq(Agreeing(c)), NEW s \in Shutters, NEW d \in Nat
  PROVE  Push(es, OffEvent(s, d)) \in Seq(Agreeing(c))
<1> DEFINE x == OffEvent(s, d)
           found == AlreadyThere(es, x)
           i == FirstOf(found)
           new == [es[i] EXCEPT !.left = x.left]
<1>1. x \in Agreeing(c) /\ x.type = "off" /\ x.left = d
  <2>1. x \in Agreeing(c)
    BY DEF OffEvent, Agreeing, EventType
  <2> QED BY <2>1 DEF OffEvent
<1> HIDE DEF x
<1>2. CASE found = {}
  BY <1>1, <1>2, AppendProperties DEF Push, x
<1>3. CASE found # {}
  <2>1. found \subseteq Nat /\ found \subseteq DOMAIN es
    BY LenProperties DEF AlreadyThere
  <2> HIDE DEF found
  <2>2. i \in DOMAIN es
    <3>1. \E k \in found : \A j \in found : k <= j
      BY <1>3, <2>1, LeastExists
    <3> QED BY <3>1, <2>1 DEF FirstOf
  <2> HIDE DEF i
  <2>3. es[i] \in Agreeing(c)
    BY <2>2, ReplaceType
  <2>4. new \in Agreeing(c)
    BY <2>3, <1>1 DEF Agreeing, EventType
  <2>5. Push(es, x) = [es EXCEPT ![i] = new]
    BY <1>1, <1>3 DEF Push, found, i
  <2> QED BY <2>2, <2>4, <2>5, ReplaceType DEF x
<1> QED BY <1>2, <1>3

LEMMA AgedAgrees ==
  ASSUME NEW c, NEW es \in Seq(Agreeing(c))
  PROVE  Aged(es) \in Seq(Agreeing(c))
<1>1. Len(es) \in Nat /\ DOMAIN es = 1..Len(es) /\ \A i \in DOMAIN es : es[i] \in Agreeing(c)
  BY LenProperties, ElementOfSeq
<1>2. \A e \in Agreeing(c) :
        [e EXCEPT !.left = IF e.left < 0 THEN -1 ELSE e.left - 1] \in Agreeing(c)
  BY DEF Agreeing, EventType
<1>3. Aged(es) \in [1..Len(es) -> Agreeing(c)]
  BY <1>1, <1>2 DEF Aged
<1> QED BY <1>1, <1>3, FunctionIsSeq

(* After a command for all shutters every event agrees with it. *)
LEMMA SupersedeAgrees ==
  ASSUME NEW es \in Seq(EventType), NEW c \in Command
  PROVE  Supersede(es, c) \in Seq(Agreeing(c))
<1> DEFINE all == ToSet(es)
           gone == {e \in all : e.type = "shutter"}
<1>1. /\ Len(es) \in Nat /\ DOMAIN es = 1..Len(es) /\ es = [i \in DOMAIN es |-> es[i]]
      /\ \A i \in DOMAIN es : es[i] \in EventType
  BY LenProperties, ElementOfSeq, SeqDef
<1>2. es \in [1..Len(es) -> all]
  BY <1>1 DEF ToSet
<1>3. es \in Seq(all) /\ all \subseteq EventType
  BY <1>1, <1>2, FunctionIsSeq DEF ToSet
<1> HIDE DEF all
<1>4. Without(es, gone) \in Seq(all \ gone)
  <2> HIDE DEF gone
  <2> QED BY <1>3, WithoutKeeps
<1>5. all \ gone \subseteq Agreeing(c)
  BY <1>3 DEF Agreeing
<1>6. EraseEvents(es, "shutter") \in Seq(Agreeing(c))
  <2>1. EraseEvents(es, "shutter") = Without(es, gone)
    BY DEF EraseEvents, all
  <2> HIDE DEF gone
  <2> QED BY <2>1, <1>4, <1>5, SeqMonotonic
<1>7. AllEvents(c) \in Seq(Agreeing(c))
  <2>1. AllEvents(c) \in [1..NumShutters -> Agreeing(c)]
    BY EventTypes DEF AllEvents, Shutters
  <2> QED BY <2>1, ShuttersAssumption, FunctionIsSeq
<1> QED BY <1>6, <1>7, ConcatProperties DEF Supersede

(* What a command leaves of the queue and of the events. *)
LEMMA ObeyKeeps ==
  ASSUME NEW q \in Seq(EntryType), NEW all, NEW es \in Seq(Agreeing(all)),
         NEW s \in Shutters, NEW c \in Text, dir[s] \in Sides
  PROVE  /\ Obey(q, es, s, c)[1] \in Seq(EntryType)
         /\ Obey(q, es, s, c)[2] \in Seq(Agreeing(all))
         /\ Obey(q, es, s, c)[3] \in Sides
<1>1. q \in Seq(Calm(Shutters))
  BY TypedQueue
<1>2. c.side \in Sides
  BY DEF Text
<1>3. CASE c.kind = "whole"
  <2>1. Order(q, s, OnOff(s), "1", 0) \in Seq(Calm(Shutters))
    BY <1>1, OrderCalm DEF Values
  <2>2. Turn(Order(q, s, OnOff(s), "1", 0), s, c.side) \in Seq(EntryType)
    BY <2>1, <1>2, TurnCalm, CalmEntries
  <2>3. Timer[s] \in Nat
    BY ShuttersAssumption
  <2> QED BY <1>2, <1>3, <2>2, <2>3, PushAgrees DEF Obey
<1>4. CASE c.kind # "whole"
  <2> DEFINE v == IF c.kind = "steps" THEN "steps" ELSE "1"
  <2>0. v \in Values
    BY DEF Values
  <2> HIDE DEF v
  <2>1. OrderNow(q, s, v) \in Seq(Calm(Shutters))
    BY <1>1, <2>0, OrderNowCalm
  <2>2. Turn(OrderNow(q, s, v), s, c.side) \in Seq(EntryType)
    BY <2>1, <1>2, TurnCalm, CalmEntries
  <2> QED BY <1>4, <2>2 DEF Obey, v
<1> QED BY <1>3, <1>4

----------------------------------------------------------------------------
(* The steps.                                                              *)

LEMMA AgreeingNow == TypeOK /\ LastAllWins <=> TypeOK /\ events \in Seq(Agreeing(lastAll))
BY AgreeingEvents DEF TypeOK, LastAllWins

LEMMA AgreeingNext ==
  TypeOK' /\ LastAllWins' <=> TypeOK' /\ events' \in Seq(Agreeing(lastAll'))
BY AgreeingEvents DEF TypeOK, LastAllWins

LEMMA SpendType ==
  ASSUME NEW what \in Inputs, Spend(what), budget \in [Inputs -> Nat]
  PROVE  budget' \in [Inputs -> Nat]
BY DEF Spend

LEMMA InitType == Init => TypeInv
<1> SUFFICES ASSUME Init PROVE TypeInv
  OBVIOUS
<1>1. events = <<>> /\ queue = <<>> /\ events \in Seq(EventType) /\ queue \in Seq(EntryType)
  BY DEF Init
<1>2. /\ dir \in [Shutters -> Sides] /\ relay \in [Shutters -> Values]
      /\ budget \in [Inputs -> Nat] /\ lastAll \in Command
      /\ button \in [Buttons -> {"free", "short"}]
  BY ShuttersAssumption DEF Init, Sides, Values, Command, Inputs
<1>3. LastAllWins
  BY <1>1 DEF LastAllWins
<1> QED BY <1>1, <1>2, <1>3 DEF Init, TypeInv, TypeOK

LEMMA NotedType ==
  ASSUME TypeOK, NEW s \in Shutters
  PROVE  /\ NoteStop(s) => loose' \subseteq Shutters
         /\ NoteStart(s) => loose' \subseteq Shutters /\ warned' \subseteq Shutters
<1>1. Others(s) \subseteq Shutters /\ Refused({s}) \subseteq Shutters
  BY DEF Others, Refused, Unstopped, Swept, Delayed
<1> QED BY <1>1 DEF NoteStop, NoteStart, TypeOK

LEMMA CommandNoted ==
  ASSUME TypeOK, NEW s \in Shutters, NEW c \in Text, NoteCommand(s, c)
  PROVE  loose' \subseteq Shutters /\ warned' \subseteq Shutters
<1>1. NoteMove(s) => loose' \subseteq Shutters /\ warned' \subseteq Shutters
  <2>1. Others(s) \subseteq Shutters /\ Unstopped({s}) \subseteq Shutters
    BY DEF Others, Unstopped, Swept, Delayed
  <2> QED BY <2>1 DEF NoteMove, TypeOK
<1>2. c.kind \in {"whole", "steps", "move"}
  BY DEF Text
<1> QED BY <1>1, <1>2, NotedType DEF NoteCommand, TypeOK

LEMMA WindType ==
  ASSUME TypeInv, WindRises \/ WindFalls
  PROVE  TypeInv'
<1>1. CASE WindRises
  <2> DEFINE up == [kind |-> "whole", side |-> Up]
  <2>1. up \in Command
    BY DEF Command, Sides
  <2>2. budget' \in [Inputs -> Nat]
    BY <1>1, SpendType DEF WindRises, Inputs, TypeInv, TypeOK
  <2> HIDE DEF up
  <2>3. /\ events' \in Seq(Agreeing(lastAll')) /\ lastAll' \in Command
        /\ warned' \subseteq Shutters
    <3>1. CASE enabled
      BY <1>1, <3>1, <2>1, SupersedeAgrees DEF WindRises, TypeInv, TypeOK, up
    <3>2. CASE ~enabled
      BY <1>1, <3>2, AgreeingNow DEF WindRises, TypeInv, TypeOK
    <3> QED BY <3>1, <3>2
  <2>4. TypeOK'
    BY <1>1, <2>2, <2>3, AgreeingTyped DEF WindRises, TypeInv, TypeOK
  <2> QED BY <1>1, <2>3, <2>4, AgreeingNext DEF WindRises, Incoming, TypeInv
<1>2. CASE WindFalls
  BY <1>2 DEF WindFalls, Incoming, TypeInv, TypeOK, LastAllWins
<1> QED BY <1>1, <1>2

(* The pieces of TypeInv that most steps change, put together. *)
LEMMA Together ==
  ASSUME TypeInv, events' \in Seq(Agreeing(lastAll)), queue' \in Seq(EntryType),
         dir' \in [Shutters -> Sides], loose' \subseteq Shutters, warned' \subseteq Shutters,
         budget' \in [Inputs -> Nat], it' \in Nat \ {0}, pc' \in {"incoming", "events"},
         panel' \subseteq Shutters, UNCHANGED <<enabled, lastAll>>,
         button' \in [Buttons -> {"free", "short"}], relay' \in [Shutters -> Values],
         todo' \subseteq [shutter : Shutters, what : {"turn", "stop", "late"}],
         todo' # {} => enabled
  PROVE  TypeInv'
<1>1. events' \in Seq(EventType) /\ LastAllWins'
  <2>1. events' \in Seq(EventType)
    BY AgreeingTyped
  <2> QED BY <2>1, AgreeingEvents DEF LastAllWins
<1>2. TypeOK'
  BY <1>1 DEF TypeInv, TypeOK
<1> QED BY <1>1, <1>2 DEF TypeInv

LEMMA PanelType ==
  ASSUME TypeInv, Panel
  PROVE  TypeInv'
<1>1. /\ TypeOK /\ events \in Seq(Agreeing(lastAll)) /\ queue \in Seq(Calm(Shutters))
      /\ Commands \subseteq Command
  BY AgreeingNow, TypedQueue, ShuttersAssumption DEF TypeInv, TypeOK
<1>2. Spend("request") => budget' \in [Inputs -> Nat]
  BY <1>1, SpendType DEF Inputs, TypeOK
<1>3. ASSUME NEW c \in Commands, PanelAll(c)
      PROVE  TypeInv'
  <2>1. events' \in Seq(Agreeing(lastAll')) /\ lastAll' \in Command
    BY <1>1, <1>3, SupersedeAgrees DEF PanelAll, TypeOK
  <2>2. events' \in Seq(EventType)
    BY <2>1, AgreeingTyped
  <2>3. TypeOK'
    BY <1>1, <1>2, <1>3, <2>1, <2>2 DEF PanelAll, TypeOK
  <2> QED BY <1>3, <2>1, <2>3, AgreeingNext DEF PanelAll, Incoming, TypeInv
<1>4. ASSUME NEW s \in Shutters, NEW c \in Commands, PanelSingle(s, c)
      PROVE  TypeInv'
  <2> DEFINE r == Obey(queue, events, s, c)
  <2>0. c \in Text
    BY <1>1, CommandTexts
  <2>1. /\ r[1] \in Seq(EntryType) /\ r[2] \in Seq(Agreeing(lastAll)) /\ r[3] \in Sides
    BY <1>1, <2>0, ObeyKeeps DEF TypeOK
  <2> HIDE DEF r
  <2>2. /\ queue' \in Seq(EntryType) /\ events' \in Seq(Agreeing(lastAll))
        /\ dir' \in [Shutters -> Sides] /\ loose' \subseteq Shutters /\ warned' \subseteq Shutters
    <3>1. CASE MayMove
      <4>1. queue' = r[1] /\ events' = r[2] /\ dir' = [dir EXCEPT ![s] = r[3]] /\ NoteCommand(s, c)
        BY <1>4, <3>1 DEF PanelSingle, r
      <4> QED BY <4>1, <2>0, <2>1, <1>1, CommandNoted DEF TypeOK
    <3>2. CASE ~MayMove
      BY <1>1, <1>4, <3>2 DEF PanelSingle, TypeOK
    <3> QED BY <3>1, <3>2
  <2> QED BY <1>1, <1>2, <1>4, <2>2, Together DEF PanelSingle, Incoming, TypeOK
<1>5. ASSUME NEW s \in Shutters, NEW c \in Commands, Clock(s, c)
      PROVE  TypeInv'
  <2>1. events' \in Seq(Agreeing(lastAll))
    BY <1>1, <1>5, EventTypes, AppendProperties DEF Clock
  <2> QED BY <1>1, <1>2, <1>5, <2>1, Together DEF Clock, Incoming, TypeOK, ghosts
<1>6. ASSUME NEW s \in Shutters, PanelStop(s)
      PROVE  TypeInv'
  <2>1. queue' \in Seq(EntryType)
    BY <1>1, <1>6, OrderNowCalm, CalmEntries DEF PanelStop, Values, TypeOK
  <2>2. loose' \subseteq Shutters
    BY <1>1, <1>6, NotedType DEF PanelStop
  <2> QED BY <1>1, <1>6, <2>1, <2>2, Together DEF PanelStop, Incoming, TypeOK
<1>7. ASSUME NEW s \in Shutters, NEW d \in Sides, PanelMove(s, d)
      PROVE  TypeInv'
  <2>1. queue' \in Seq(EntryType) /\ loose' \subseteq Shutters /\ warned' \subseteq Shutters
    <3>1. CASE MayMove
      <4>1. OrderNow(queue, s, "1") \in Seq(Calm(Shutters))
        BY <1>1, OrderNowCalm DEF Values
      <4>2. Turn(OrderNow(queue, s, "1"), s, d) \in Seq(EntryType)
        BY <4>1, TurnCalm, CalmEntries
      <4> QED BY <1>1, <1>7, <3>1, <4>2, NotedType DEF PanelMove
    <3>2. CASE ~MayMove
      BY <1>1, <1>7, <3>2 DEF PanelMove, TypeOK
    <3> QED BY <3>1, <3>2
  <2>2. panel' \subseteq Shutters
    BY <1>1, <1>7 DEF PanelMove, TypeOK
  <2> QED BY <1>1, <1>2, <1>7, <2>1, <2>2, Together DEF PanelMove, Incoming, TypeOK
<1> QED BY <1>3, <1>4, <1>5, <1>6, <1>7 DEF Panel

LEMMA ButtonType ==
  ASSUME TypeInv, Button \/ ButtonSteps
  PROVE  TypeInv'
<1>1. /\ TypeOK /\ events \in Seq(Agreeing(lastAll)) /\ queue \in Seq(Calm(Shutters))
      /\ (todo # {} => enabled)
  BY AgreeingNow, TypedQueue DEF TypeInv, TypeOK
<1>2. ASSUME NEW b \in Buttons
      PROVE  /\ Controls[b] \in SUBSET Shutters
             /\ \A what \in {"turn", "stop", "late"} :
                  /\ Calls(b, what) \subseteq [shutter : Shutters, what : {"turn", "stop", "late"}]
                  /\ Calls(b, what) # {} => enabled
  BY ShuttersAssumption DEF Calls, MayMove
<1>3. ASSUME NEW b \in Buttons, ShortHold(b)
      PROVE  TypeInv'
  <2>1. budget' \in [Inputs -> Nat]
    BY <1>1, <1>3, SpendType DEF ShortHold, Inputs, TypeOK
  <2> QED BY <1>1, <1>2, <1>3, <2>1, Together DEF ShortHold, TypeOK, ghosts
<1>4. ASSUME NEW b \in Buttons, NEW what \in {"stop", "late"}, EndHold(b, what)
      PROVE  TypeInv'
  <2>1. loose' \subseteq Shutters
    BY <1>1, <1>2, <1>4 DEF EndHold, Refused, Unstopped, TypeOK
  <2> QED BY <1>1, <1>2, <1>4, <2>1, Together DEF EndHold, TypeOK
<1>5. ASSUME NEW c \in todo, ButtonStep(c)
      PROVE  TypeInv'
  <2> DEFINE s == c.shutter
  <2>1. s \in Shutters /\ c.what \in {"turn", "stop", "late"} /\ enabled
    BY <1>1 DEF TypeOK
  <2>2. Opposite(dir[s]) \in Sides /\ Timer[s] \in Nat
    BY <1>1, <2>1, ShuttersAssumption DEF Opposite, Sides, TypeOK
  <2>3. queue' \in Seq(EntryType)
    <3>1. OrderNow(queue, s, "1") \in Seq(Calm(Shutters))
      BY <1>1, <2>1, OrderNowCalm DEF Values
    <3>2. Turn(OrderNow(queue, s, "1"), s, Opposite(dir[s])) \in Seq(EntryType)
      BY <3>1, <2>1, <2>2, TurnCalm, CalmEntries
    <3>3. OrderNow(queue, s, "0") \in Seq(EntryType)
      BY <1>1, <2>1, OrderNowCalm, CalmEntries DEF Values
    <3>4. Order(queue, s, OnOff(s), "0", Timer[s]) \in Seq(EntryType)
      BY <1>1, <2>1, <2>2, OrderCalm, CalmEntries DEF Values
    <3> QED BY <1>5, <2>1, <3>2, <3>3, <3>4 DEF ButtonStep
  <2>4. loose' \subseteq Shutters /\ warned' \subseteq Shutters
    BY <1>1, <1>5, <2>1, NotedType DEF ButtonStep, TypeOK
  <2>5. dir' \in [Shutters -> Sides]
    BY <1>1, <1>5, <2>1, <2>2 DEF ButtonStep, TypeOK
  <2> QED BY <1>1, <1>5, <2>1, <2>3, <2>4, <2>5, Together DEF ButtonStep, TypeOK
<1> QED BY <1>3, <1>4, <1>5 DEF Button, ButtonSteps

LEMMA SenderType ==
  ASSUME TypeInv, Sender \/ Seconds \/ (\E s \in Shutters : StepsEnd(s))
  PROVE  TypeInv'
<1>1. /\ TypeOK /\ events \in Seq(Agreeing(lastAll)) /\ queue \in Seq(EntryType)
  BY AgreeingNow DEF TypeInv, TypeOK
<1>2. ASSUME NEW full, Send(full)
      PROVE  TypeInv'
  <2> DEFINE gone == {e \in ToSet(queue) : Goes(e, full)}
  <2>1. Without(queue, gone) \in Seq(EntryType \ gone)
    <3> HIDE DEF gone
    <3> QED BY <1>1, WithoutKeeps
  <2>2. EntryType \ gone \subseteq EntryType
    OBVIOUS
  <2>3. queue' = Without(queue, gone)
    BY <1>2 DEF Send
  <2> HIDE DEF gone
  <2>4. queue' \in Seq(EntryType)
    BY <2>1, <2>2, <2>3, SeqMonotonic
  <2> QED BY <1>1, <1>2, <2>4, Together DEF Send, Incoming, TypeOK, ghosts
<1>3. ASSUME NEW full, Second(full)
      PROVE  TypeInv'
  <2>1. /\ Len(queue) \in Nat /\ DOMAIN queue = 1..Len(queue)
        /\ \A i \in DOMAIN queue : queue[i] \in EntryType
    BY <1>1, LenProperties, ElementOfSeq
  <2>2. \A e \in EntryType : Counted(e) \in EntryType
    BY DEF Counted, EntryType
  <2>3. queue' \in Seq(EntryType)
    <3>1. queue' \in [1..Len(queue) -> EntryType]
      BY <1>3, <2>1, <2>2 DEF Second
    <3> QED BY <3>1, <2>1, FunctionIsSeq
  <2>4. events' \in Seq(Agreeing(lastAll))
    BY <1>1, <1>3, AgedAgrees DEF Second
  <2>5. budget' \in [Inputs -> Nat]
    <3>1. CASE full = {}
      BY <1>1, <1>3, <3>1 DEF Second, TypeOK
    <3>2. CASE full # {}
      BY <1>1, <1>3, <3>2, SpendType DEF Second, Inputs, TypeOK
    <3> QED BY <3>1, <3>2
  <2> QED BY <1>1, <1>3, <2>3, <2>4, <2>5, Together DEF Second, Incoming, TypeOK, ghosts
<1>4. ASSUME NEW s \in Shutters, StepsEnd(s)
      PROVE  TypeInv'
  <2>1. relay' \in [Shutters -> Values]
    BY <1>1, <1>4 DEF StepsEnd, TypeOK, Values
  <2> QED BY <1>1, <1>4, <2>1, Together DEF StepsEnd, TypeInv, TypeOK, ghosts
<1> QED BY <1>2, <1>3, <1>4 DEF Sender, Seconds

LEMMA EventsType ==
  ASSUME TypeInv, Events
  PROVE  TypeInv'
<1>1. /\ TypeOK /\ events \in Seq(Agreeing(lastAll)) /\ queue \in Seq(EntryType)
      /\ queue \in Seq(Calm(Shutters)) /\ (todo # {} => enabled) /\ it + 1 \in Nat \ {0}
  BY AgreeingNow, TypedQueue DEF TypeInv, TypeOK
<1>2. CASE Pass
  BY <1>1, <1>2, Together DEF Pass, TypeOK, ghosts
<1>3. ASSUME AtEvent
      PROVE  /\ it \in 1..Len(events) /\ events[it] \in EventType
             /\ RemoveAt(events, it) \in Seq(Agreeing(lastAll))
  <2>1. it \in 1..Len(events)
    BY <1>1, <1>3, LenProperties DEF AtEvent, TypeOK
  <2> QED BY <1>1, <2>1, ElementOfSeq, RemovedPlaces DEF TypeOK
<1>4. CASE RunShutter
  <2> DEFINE s == -events[it].var
             c == events[it].cmd
             r == Obey(queue, events, s, c)
  <2>1. s \in Shutters /\ c \in Text
    <3>1. AtEvent /\ events[it].type = "shutter"
      BY <1>4 DEF RunShutter
    <3>2. /\ events[it].var \in {-x : x \in Shutters} /\ c \in Text
      BY <1>3, <3>1 DEF EventType
    <3> QED BY <3>2 DEF Shutters
  <2> HIDE DEF s, c
  <2>2. /\ r[1] \in Seq(EntryType) /\ r[2] \in Seq(Agreeing(lastAll)) /\ r[3] \in Sides
    BY <1>1, <2>1, ObeyKeeps DEF TypeOK
  <2>3. it \in 1..Len(r[2]) => RemoveAt(r[2], it) \in Seq(Agreeing(lastAll))
    BY <2>2, RemovedPlaces
  <2>4. it \in 1..Len(r[2])
    <3>1. \A x : x.type = "off" => Len(events) <= Len(Push(events, x))
      BY <1>1, LenProperties, AppendProperties, ExceptSeq DEF Push, TypeOK
    <3> QED BY <1>1, <1>3, <1>4, <3>1, LenProperties, <2>2 DEF Obey, OffEvent, RunShutter, r
  <2> HIDE DEF r
  <2>5. /\ queue' \in Seq(EntryType) /\ events' \in Seq(Agreeing(lastAll))
        /\ dir' \in [Shutters -> Sides] /\ loose' \subseteq Shutters /\ warned' \subseteq Shutters
    <3>1. CASE MayMove
      <4>1. /\ queue' = r[1] /\ events' = RemoveAt(r[2], it)
            /\ dir' = [dir EXCEPT ![s] = r[3]] /\ NoteCommand(s, c)
        BY <1>4, <3>1 DEF RunShutter, r, s, c
      <4> QED BY <4>1, <2>1, <2>2, <2>3, <2>4, <1>1, CommandNoted DEF TypeOK
    <3>2. CASE ~MayMove
      BY <1>1, <1>3, <1>4, <3>2 DEF RunShutter, TypeOK
    <3> QED BY <3>1, <3>2
  <2> QED BY <1>1, <1>4, <2>5, Together DEF RunShutter, TypeOK
<1>5. CASE RunOff
  <2> DEFINE s == events[it].var
  <2>1. s \in Shutters
    <3>1. AtEvent /\ events[it].type = "off"
      BY <1>5 DEF RunOff
    <3> QED BY <1>3, <3>1 DEF EventType
  <2>2. queue' \in Seq(EntryType) /\ NoteStop(s) /\ events' = RemoveAt(events, it) /\ AtEvent
    <3>1. Order(queue, s, OnOff(s), "0", 0) \in Seq(Calm(Shutters))
      <4> HIDE DEF s
      <4> QED BY <1>1, <2>1, OrderCalm DEF Values
    <3>2. Order(queue, s, OnOff(s), "0", 0) \in Seq(EntryType)
      BY <3>1, CalmEntries
    <3> QED BY <1>5, <3>2 DEF RunOff
  <2> HIDE DEF s
  <2>3. loose' \subseteq Shutters
    BY <1>1, <2>1, <2>2, NotedType
  <2> QED BY <1>1, <1>3, <1>5, <2>2, <2>3, Together DEF RunOff, TypeOK
<1>6. CASE EndEvents
  BY <1>1, <1>6, Together DEF EndEvents, TypeOK, ghosts
<1> QED BY <1>2, <1>4, <1>5, <1>6 DEF Events

LEMMA NextType == TypeInv /\ [Next]_vars => TypeInv'
<1>1. TypeInv /\ UNCHANGED vars => TypeInv'
  BY DEF vars, ghosts, TypeInv, TypeOK, LastAllWins
<1> QED BY <1>1, WindType, PanelType, ButtonType, SenderType, EventsType DEF Next

(* Every variable has its type in every reachable state. *)
THEOREM TypeCorrect == Spec => []TypeOK
<1>1. TypeInv => TypeOK
  BY DEF TypeInv
<1> QED BY <1>1, InitType, NextType, PTL DEF Spec

(* Whatever the clock, the panel and the wind mix into my_delayed_events,  *)
(* the moves of all shutters that wait there are those of the last command *)
(* for all.                                                                *)
THEOREM LastAllCorrect == Spec => []LastAllWins
<1>1. TypeInv => LastAllWins
  BY DEF TypeInv
<1> QED BY <1>1, InitType, NextType, PTL DEF Spec

----------------------------------------------------------------------------
(* Nothing starts in strong wind.                                          *)

LEMMA CalmStep ==
  ASSUME queue' \in Seq(Calm(Motions(queue)))
  PROVE  Motions(queue') \subseteq Motions(queue)
BY CalmEntries

(* A step that begins and ends in strong wind adds no motion. *)
LEMMA NextCalm ==
  TypeInv /\ [Next]_vars => (~enabled /\ ~enabled' => Motions(queue') \subseteq Motions(queue))
<1> SUFFICES ASSUME TypeInv, [Next]_vars, ~enabled
             PROVE  Motions(queue') \subseteq Motions(queue)
  OBVIOUS
<1> DEFINE M == Motions(queue)
<1>1. /\ TypeOK /\ queue \in Seq(Calm(M)) /\ queue \in Seq(EntryType) /\ ~MayMove /\ todo = {}
  BY EntriesCalm DEF TypeInv, TypeOK, MayMove
<1>2. UNCHANGED queue => queue' \in Seq(Calm(M))
  BY <1>1
<1>3. CASE UNCHANGED vars
  BY <1>2, <1>3, CalmStep DEF vars
<1>4. CASE WindRises \/ WindFalls \/ (\E s \in Shutters : StepsEnd(s))
  BY <1>2, <1>4, CalmStep DEF WindRises, WindFalls, StepsEnd
<1>5. CASE Panel
  BY <1>1, <1>2, <1>5, CalmStep
     DEF Panel, PanelAll, PanelSingle, PanelMove, PanelStop, Clock
<1>6. CASE Button \/ ButtonSteps
  BY <1>1, <1>2, <1>6, CalmStep DEF Button, ShortHold, EndHold, ButtonSteps
<1>7. ASSUME NEW full, Send(full)
      PROVE  queue' \in Seq(Calm(M))
  <2> DEFINE gone == {e \in ToSet(queue) : Goes(e, full)}
  <2>1. Without(queue, gone) \in Seq(Calm(M) \ gone)
    <3> HIDE DEF gone, M
    <3> QED BY <1>1, WithoutKeeps
  <2>2. queue' = Without(queue, gone)
    BY <1>7 DEF Send
  <2> HIDE DEF gone, M
  <2>3. Calm(M) \ gone \subseteq Calm(M)
    OBVIOUS
  <2> QED BY <2>1, <2>2, <2>3, SeqMonotonic
<1>8. ASSUME NEW full, Second(full)
      PROVE  queue' \in Seq(Calm(M))
  <2> HIDE DEF M
  <2>1. /\ Len(queue) \in Nat /\ DOMAIN queue = 1..Len(queue)
        /\ \A i \in DOMAIN queue : queue[i] \in Calm(M)
    BY <1>1, LenProperties, ElementOfSeq
  <2>2. \A e \in Calm(M) : Counted(e) \in Calm(M)
    BY DEF Counted, EntryType, Calm
  <2>3. queue' \in [1..Len(queue) -> Calm(M)]
    BY <1>8, <2>1, <2>2 DEF Second
  <2> QED BY <2>1, <2>3, FunctionIsSeq
<1>9. CASE RunOff
  <2> DEFINE s == events[it].var
  <2>1. s \in Shutters
    <3>1. events \in Seq(EventType) /\ it \in 1..Len(events) /\ events[it].type = "off"
      BY <1>1, <1>9, LenProperties DEF RunOff, AtEvent, TypeOK
    <3> QED BY <3>1, ElementOfSeq DEF EventType
  <2> HIDE DEF M
  <2>2. Order(queue, s, OnOff(s), "0", 0) \in Seq(Calm(M))
    BY <1>1, <2>1, OrderCalm DEF Values
  <2> QED BY <1>9, <2>2, CalmStep DEF RunOff, M
<1>10. CASE Pass \/ RunShutter \/ EndEvents
  BY <1>1, <1>2, <1>10, CalmStep DEF Pass, RunShutter, EndEvents
<1> QED
  BY <1>3, <1>4, <1>5, <1>6, <1>7, <1>8, <1>9, <1>10, CalmStep
     DEF Next, Sender, Seconds, Events

(* While the wind is strong no event that is due, no button and no request *)
(* of the panel gets a moving command into the queue.                      *)
THEOREM WindCorrect == Spec => NoMoveInWind
<1>1. TypeInv /\ [Next]_vars => [~enabled /\ ~enabled' => Motions(queue') \subseteq Motions(queue)]_vars
  BY NextCalm
<1> QED BY <1>1, InitType, NextType, PTL DEF Spec, NoMoveInWind

----------------------------------------------------------------------------
(* What moves has an end.                                                  *)

HasItem(e, x) == \E j \in DOMAIN e.items : e.items[j] = x
Stopped(q, s) == \E i \in StopsAt(q, s) : \A k \in Starts(q, s) : k < i
OffFor(es, s) == \E i \in DOMAIN es : es[i].type = "off" /\ es[i].var = s

(* The messages for a motor go to its HBX and say nothing else.            *)
Wired(q) ==
  \A i \in DOMAIN q : \A s \in Shutters : \A v \in Values :
    HasItem(q[i], Item(OnOff(s), v)) => q[i].hbx = HbxOf[s] /\ v \in {"0", "1", "steps"}

(* A loop over the shutters of a button is not interrupted, and it turns   *)
(* those that the button holds.                                            *)
LoopInv ==
  /\ todo # {} => pc = "incoming"
  /\ \A c \in todo : c.what = "turn" =>
       \E b \in Buttons : button[b] = "short" /\ c.shutter \in Controls[b]

Ends(s) ==
  Moves(s) => \/ OffFor(events, s) \/ Stopped(queue, s) \/ Held(s) \/ s \in loose
              \/ \E c \in todo : c.shutter = s /\ c.what # "turn"

(* Beside the property: no start waits for a later second but of a shutter *)
(* that is loose, so that a stop never overtakes one.                      *)
EndInv ==
  /\ \A s \in Shutters : Ends(s)
  /\ Delayed(queue) \subseteq loose
  /\ Wired(queue) /\ LoopInv

LEMMA PlacesMean ==
  ASSUME NEW q, NEW s
  PROVE  \A i : /\ i \in Starts(q, s) <=> i \in DOMAIN q /\ HasItem(q[i], Item(OnOff(s), "1"))
                /\ i \in StopsAt(q, s) <=>
                     i \in DOMAIN q /\ \E v \in {"0", "steps"} : HasItem(q[i], Item(OnOff(s), v))
BY DEF Starts, StopsAt, HasItem

LEMMA PendingMeans ==
  ASSUME NEW q, NEW es, NEW s
  PROVE  StopPending(q, es, s) <=> OffFor(es, s) \/ Stopped(q, s)
BY DEF StopPending, OffFor, Stopped

LEMMA EndMeans == MoveHasEnd <=> \A s \in Shutters : Ends(s)
BY PendingMeans DEF MoveHasEnd, Ends

(* A text of one item that is found in a message is an item of it. *)
LEMMA FoundText ==
  ASSUME NEW S, NEW items \in Seq(S), NEW x \in S, <<x>> \in SubSeqs(items)
  PROVE  \E j \in DOMAIN items : items[j] = x
<1>1. <<x>> # <<>> /\ <<x>>[1] = x
  OBVIOUS
<1> QED BY <1>1, FirstFound

LEMMA CounterSet ==
  ASSUME NEW e \in EntryType, NEW c \in Nat
  PROVE  /\ [e EXCEPT !.counter = c] \in EntryType
         /\ [e EXCEPT !.counter = c].items = e.items
         /\ [e EXCEPT !.counter = c].hbx = e.hbx /\ [e EXCEPT !.counter = c].delay = e.delay
<1> DEFINE Items == Seq([pin : Pins, val : Values])
<1>1. e \in [hbx : Nat, type : {"1"}, items : Items, delay : Nat,
             priority : {0}, resend : {0}, counter : Nat, postpone : {0}]
  BY DEF EntryType
<1> HIDE DEF Items
<1>2. /\ [e EXCEPT !.counter = c] \in [hbx : Nat, type : {"1"}, items : Items, delay : Nat,
             priority : {0}, resend : {0}, counter : Nat, postpone : {0}]
      /\ [e EXCEPT !.counter = c].items = e.items
      /\ [e EXCEPT !.counter = c].hbx = e.hbx /\ [e EXCEPT !.counter = c].delay = e.delay
  BY <1>1
<1> QED BY <1>2 DEF EntryType, Items

(* One more item in a message. *)
LEMMA MergedHas ==
  ASSUME NEW e \in EntryType, NEW s \in Shutters, NEW pin \in Pins, NEW v \in Values
  PROVE  LET n == Merge(e, PinMessage(s, pin, v))
         IN /\ n \in EntryType /\ n.hbx = e.hbx /\ n.delay = e.delay
            /\ \A x : HasItem(n, x) <=> HasItem(e, x) \/ x = Item(pin, v)
<1> DEFINE Entry == [pin : Pins, val : Values]
           new == Item(pin, v)
           both == e.items \o <<new>>
           f == [e EXCEPT !.items = both]
<1>1. e.items \in Seq(Entry) /\ e.counter \in Nat
  BY DEF EntryType
<1>2. new \in Entry
  BY DEF Item
<1> HIDE DEF Entry, new
<1>3. both = Append(e.items, new)
  BY <1>1, <1>2, AppendIsConcat
<1>4. /\ both \in Seq(Entry) /\ DOMAIN both = 1..(Len(e.items) + 1)
      /\ DOMAIN e.items = 1..Len(e.items) /\ Len(e.items) \in Nat
      /\ \A j \in 1..Len(e.items) : both[j] = e.items[j]
      /\ both[Len(e.items) + 1] = new
  BY <1>1, <1>2, <1>3, Longer
<1>5. f \in EntryType /\ f.items = both /\ f.counter \in Nat /\ f.hbx = e.hbx /\ f.delay = e.delay
  BY <1>1, <1>4 DEF EntryType, Entry
<1>6. Merge(e, PinMessage(s, pin, v)) = [f EXCEPT !.counter = f.counter + 1]
  BY DEF Merge, PinMessage, new
<1> HIDE DEF f, both
<1>7. /\ [f EXCEPT !.counter = f.counter + 1] \in EntryType
      /\ [f EXCEPT !.counter = f.counter + 1].items = both
      /\ [f EXCEPT !.counter = f.counter + 1].hbx = e.hbx
      /\ [f EXCEPT !.counter = f.counter + 1].delay = e.delay
  <2> DEFINE n == [f EXCEPT !.counter = f.counter + 1]
  <2>1. n \in EntryType /\ n.items = f.items /\ n.hbx = f.hbx /\ n.delay = f.delay
    <3>1. f \in EntryType /\ f.counter \in Nat
      BY <1>5
    <3>2. f.counter + 1 \in Nat
      BY <3>1
    <3> QED BY <3>1, <3>2, CounterSet
  <2> HIDE DEF n
  <2>3. n.items = both /\ n.hbx = e.hbx /\ n.delay = e.delay
    BY <1>5, <2>1
  <2> QED BY <2>1, <2>3 DEF n
<1>8. \A x : (\E j \in DOMAIN both : both[j] = x) <=> (\E j \in DOMAIN e.items : e.items[j] = x) \/ x = new
  <2>1. /\ \A j \in 1..Len(e.items) : j \in 1..(Len(e.items) + 1)
        /\ Len(e.items) + 1 \in 1..(Len(e.items) + 1)
        /\ \A j \in 1..(Len(e.items) + 1) : j \in 1..Len(e.items) \/ j = Len(e.items) + 1
    BY <1>4
  <2> QED BY <1>4, <2>1, Zenon
<1> QED BY <1>6, <1>7, <1>8 DEF HasItem, new

LEMMA RetimedPlaces ==
  ASSUME NEW q \in Seq(EntryType), NEW m, NEW delay \in Nat, NEW k
  PROVE  LET r == Retime(q, m, delay, k)
         IN /\ DOMAIN r = DOMAIN q
            /\ \A j \in DOMAIN q :
                 /\ r[j].hbx = q[j].hbx /\ r[j].items = q[j].items
                 /\ r[j].delay = delay \/ r[j] = q[j]
                 /\ j \in Retimed(q, m, delay, k) => r[j].delay = delay
                 /\ ~(j < k) => r[j] = q[j]
<1>1. \A j \in DOMAIN q : q[j] \in EntryType
  BY LenProperties, ElementOfSeq
<1>2. \A e \in EntryType : LET n == [e EXCEPT !.delay = delay]
                           IN n.hbx = e.hbx /\ n.items = e.items /\ n.delay = delay
  BY DEF EntryType
<1>3. \A j \in Retimed(q, m, delay, k) : j < k
  BY DEF Retimed
<1> QED BY <1>1, <1>2, <1>3 DEF Retime

(* What an order for a pin makes of the queue q, message by message: it is *)
(* said in a message, or one with the same delay has an item for the pin.  *)
Ordered(o, q, s, pin, v, delay) ==
  /\ o \in Seq(EntryType)
  /\ \A i \in DOMAIN q : /\ i \in DOMAIN o /\ o[i].hbx = q[i].hbx
                         /\ o[i].delay = delay \/ o[i] = q[i]
                         /\ \A y : HasItem(q[i], y) => HasItem(o[i], y)
  /\ \A i \in DOMAIN o : \A y : HasItem(o[i], y) =>
       (i \in DOMAIN q /\ HasItem(q[i], y)) \/ (y = Item(pin, v) /\ o[i].hbx = HbxOf[s])
  /\ \A i \in DOMAIN o : i \in DOMAIN q \/ o[i].delay = delay
  /\ \E i \in DOMAIN o :
       /\ o[i].delay = delay
       /\ \/ HasItem(o[i], Item(pin, v))
          \/ i \in DOMAIN q /\ q[i].delay = delay /\ \E w \in Values : HasItem(q[i], Item(pin, w))

LEMMA OrderPlaces ==
  ASSUME NEW q \in Seq(EntryType), NEW s \in Shutters, NEW pin \in {OnOff(s), DirPin(s)},
         NEW v \in Values, NEW delay \in Nat
  PROVE  Ordered(Order(q, s, pin, v, delay), q, s, pin, v, delay)
<1> DEFINE m == PinMessage(s, pin, v)
           x == Item(pin, v)
           o == Order(q, s, pin, v, delay)
           slots == {k \in DOMAIN q : SameSlot(q[k], m, delay)}
           k == CHOOSE y \in slots : \A z \in slots : y <= z
           r == Retime(q, m, delay, k)
           all == Retime(q, m, delay, Len(q) + 1)
           longer == Append(q, NewEntry(m, 0, 0, delay))
           merged == [j \in DOMAIN q |-> IF j = k THEN Merge(q[k], m) ELSE r[j]]
<1>1. /\ pin \in Pins /\ x \in [pin : Pins, val : Values] /\ x.pin = pin
      /\ m.items = <<x>> /\ m.hbx = HbxOf[s] /\ m.type = "1" /\ m.items[1].pin = pin
      /\ Len(q) \in Nat /\ DOMAIN q = 1..Len(q) /\ \A j \in DOMAIN q : q[j] \in EntryType
  BY PinTypes, LenProperties, ElementOfSeq DEF Item, PinMessage
<1>2. o \in Seq(EntryType)
  BY TypedQueue, OrderCalm, CalmEntries
<1>3. /\ slots # {} /\ HoldsFirstPin(q[k], m) => o = r
      /\ slots # {} /\ ~HoldsFirstPin(q[k], m) => o = merged
      /\ slots = {} /\ Retimed(q, m, delay, Len(q) + 1) # {} => o = all
      /\ slots = {} /\ Retimed(q, m, delay, Len(q) + 1) = {} => o = longer
  BY DEF Order, AddMessage
<1>4. ASSUME slots # {}
      PROVE  k \in DOMAIN q /\ q[k].delay = delay /\ q[k].hbx = HbxOf[s] /\ ~(k < k)
  <2>1. slots \subseteq Nat
    BY <1>1
  <2>2. \E y \in slots : \A z \in slots : y <= z
    <3> HIDE DEF slots
    <3> QED BY <1>4, <2>1, LeastExists
  <2>3. k \in slots /\ k \in Nat
    <3> HIDE DEF slots
    <3> QED BY <2>1, <2>2
  <2> HIDE DEF k
  <2>4. k \in DOMAIN q /\ SameSlot(q[k], m, delay)
    BY <2>3
  <2>5. ~(k < k)
    BY <2>3
  <2> HIDE DEF slots, m
  <2> QED BY <1>1, <2>4, <2>5 DEF SameSlot
<1> HIDE DEF k
<1>5. CASE slots # {} /\ HoldsFirstPin(q[k], m)
  <2>1. /\ DOMAIN r = DOMAIN q
        /\ \A j \in DOMAIN q : /\ r[j].hbx = q[j].hbx /\ r[j].items = q[j].items
                               /\ r[j].delay = delay \/ r[j] = q[j]
        /\ r[k] = q[k]
    BY <1>4, <1>5, RetimedPlaces
  <2>2. \E w \in Values : HasItem(q[k], Item(pin, w))
    <3>1. PICK i \in DOMAIN q[k].items : q[k].items[i].pin = pin
      BY <1>1, <1>5 DEF HoldsFirstPin
    <3>2. q[k].items[i] \in [pin : Pins, val : Values]
      <4>1. q[k].items \in Seq([pin : Pins, val : Values])
        BY <1>1, <1>4, <1>5 DEF EntryType
      <4> QED BY <4>1, LenProperties, ElementOfSeq
    <3>3. q[k].items[i] = Item(pin, q[k].items[i].val) /\ q[k].items[i].val \in Values
      BY <3>1, <3>2 DEF Item
    <3> QED BY <3>3 DEF HasItem
  <2> HIDE DEF r
  <2>3. o = r
    BY <1>3, <1>5
  <2>4. \A j \in DOMAIN q : \A y : HasItem(r[j], y) <=> HasItem(q[j], y)
    BY <2>1 DEF HasItem
  <2> HIDE DEF o, x, m
  <2> QED BY <1>2, <1>4, <1>5, <2>1, <2>2, <2>3, <2>4 DEF Ordered, o, x
<1>6. CASE slots # {} /\ ~HoldsFirstPin(q[k], m)
  <2>1. /\ DOMAIN r = DOMAIN q
        /\ \A j \in DOMAIN q : /\ r[j].hbx = q[j].hbx /\ r[j].items = q[j].items
                               /\ r[j].delay = delay \/ r[j] = q[j]
    BY RetimedPlaces
  <2>2. LET n == Merge(q[k], m)
        IN /\ n.hbx = q[k].hbx /\ n.delay = q[k].delay
           /\ \A y : HasItem(n, y) <=> HasItem(q[k], y) \/ y = x
    BY <1>1, <1>4, <1>6, MergedHas
  <2> HIDE DEF r
  <2>3. \A j \in DOMAIN q : \A y : HasItem(r[j], y) <=> HasItem(q[j], y)
    BY <2>1 DEF HasItem
  <2>4. DOMAIN o = DOMAIN q /\ o[k] = Merge(q[k], m) /\ \A j \in DOMAIN q : j # k => o[j] = r[j]
    BY <1>3, <1>4, <1>6
  <2> HIDE DEF o, x, m
  <2> QED BY <1>2, <1>4, <1>6, <2>1, <2>2, <2>3, <2>4 DEF Ordered, o, x
<1>7. CASE slots = {} /\ Retimed(q, m, delay, Len(q) + 1) # {}
  <2>1. PICK j \in Retimed(q, m, delay, Len(q) + 1) : TRUE
    BY <1>7
  <2>2. j \in DOMAIN q /\ HasItem(q[j], x)
    <3>1. j \in DOMAIN q /\ HoldsText(q[j], m)
      BY <2>1 DEF Retimed
    <3>2. <<x>> \in SubSeqs(q[j].items) /\ q[j].items \in Seq([pin : Pins, val : Values])
      BY <1>1, <3>1 DEF HoldsText, EntryType
    <3> DEFINE Items == [pin : Pins, val : Values]
               items == q[j].items
    <3>3. x \in Items /\ items \in Seq(Items) /\ <<x>> \in SubSeqs(items)
      BY <1>1, <3>2
    <3> HIDE DEF x, Items, items
    <3>4. \E i \in DOMAIN items : items[i] = x
      BY <3>3, FoundText
    <3> QED BY <3>1, <3>4 DEF HasItem, items
  <2>3. /\ DOMAIN all = DOMAIN q
        /\ \A i \in DOMAIN q : /\ all[i].hbx = q[i].hbx /\ all[i].items = q[i].items
                               /\ all[i].delay = delay \/ all[i] = q[i]
        /\ all[j].delay = delay
    BY <2>1, <2>2, RetimedPlaces
  <2> HIDE DEF all
  <2>4. o = all
    BY <1>3, <1>7
  <2>5. \A i \in DOMAIN q : \A y : HasItem(all[i], y) <=> HasItem(q[i], y)
    BY <2>3 DEF HasItem
  <2> HIDE DEF o, x, m
  <2> QED BY <1>2, <2>2, <2>3, <2>4, <2>5 DEF Ordered, o, x
<1>8. CASE slots = {} /\ Retimed(q, m, delay, Len(q) + 1) = {}
  <2> DEFINE n == NewEntry(m, 0, 0, delay)
  <2>1. n.hbx = HbxOf[s] /\ n.delay = delay /\ n.items = <<x>>
    BY <1>1 DEF NewEntry
  <2>2. \A y : HasItem(n, y) <=> y = x
    BY <2>1 DEF HasItem
  <2>3. n \in EntryType
    <3>1. <<x>> \in Seq([pin : Pins, val : Values])
      BY <1>1
    <3> QED BY <1>1, <2>1, <3>1, PinTypes DEF NewEntry, EntryType
  <2> HIDE DEF n
  <2>4. /\ DOMAIN longer = 1..(Len(q) + 1) /\ longer[Len(q) + 1] = n
        /\ \A i \in 1..Len(q) : longer[i] = q[i]
    BY <2>3, Longer DEF n
  <2> HIDE DEF longer
  <2>5. DOMAIN o = 1..(Len(q) + 1) /\ o[Len(q) + 1] = n /\ \A i \in DOMAIN q : o[i] = q[i]
    BY <1>1, <1>3, <1>8, <2>4
  <2>6. /\ Len(q) + 1 \in DOMAIN o /\ \A i \in DOMAIN q : i \in DOMAIN o
        /\ \A i \in DOMAIN o : i \in DOMAIN q \/ i = Len(q) + 1
    BY <1>1, <2>5
  <2> HIDE DEF o, x, m
  <2> QED BY <1>2, <2>1, <2>2, <2>5, <2>6 DEF Ordered, o, x
<1> QED BY <1>5, <1>6, <1>7, <1>8

LEMMA OtherItem ==
  ASSUME NEW s \in Shutters, NEW pin \in {OnOff(s), DirPin(s)}, NEW v, NEW t \in Shutters, NEW w,
         Item(OnOff(t), w) = Item(pin, v)
  PROVE  t = s /\ pin = OnOff(s) /\ w = v
BY DEF Item, OnOff, DirPin

(* n is what erasing messages of T leaves of q: a shutter stays stopped if  *)
(* its stop stays, after every start that stays.                           *)
Thinned(n, q, T) ==
  /\ n \in Seq(EntryType)
  /\ \A i \in DOMAIN n : n[i] \notin T /\ \E k \in DOMAIN q : n[i] = q[k]
  /\ \A s \in Shutters : \A i \in StopsAt(q, s) :
       q[i] \notin T /\ (\A k \in Starts(q, s) : q[k] \notin T => k < i) => Stopped(n, s)

LEMMA WithoutEnds ==
  ASSUME NEW q \in Seq(EntryType), NEW T
  PROVE  Thinned(Without(q, T), q, T)
<1> DEFINE n == Without(q, T)
<1>1. n \in Seq(EntryType \ T)
  BY WithoutKeeps
<1>2. PICK f : Embeds(n, q, T, Len(q), f)
  BY WithoutPlaces
<1> HIDE DEF n
<1>3. /\ n \in Seq(EntryType) /\ DOMAIN n = 1..Len(n) /\ DOMAIN q = 1..Len(q)
      /\ Len(n) \in Nat /\ Len(q) \in Nat
      /\ \A i \in DOMAIN n : n[i] \in EntryType \ T
  <2>1. EntryType \ T \subseteq EntryType
    OBVIOUS
  <2> QED BY <1>1, <2>1, SeqMonotonic, LenProperties, ElementOfSeq
<1>4. /\ \A i \in DOMAIN n : f[i] \in DOMAIN q /\ n[i] = q[f[i]]
      /\ \A i, j \in DOMAIN n : i < j => f[i] < f[j]
      /\ \A j \in DOMAIN q : q[j] \notin T => \E i \in DOMAIN n : f[i] = j
  BY <1>2, <1>3 DEF Embeds
<1>5. ASSUME NEW s \in Shutters, NEW i \in StopsAt(q, s), q[i] \notin T,
             \A k \in Starts(q, s) : q[k] \notin T => k < i
      PROVE  Stopped(n, s)
  <2>1. PICK j \in DOMAIN n : f[j] = i
    BY <1>4, <1>5 DEF StopsAt
  <2>2. j \in StopsAt(n, s)
    BY <1>4, <2>1, PlacesMean
  <2>3. ASSUME NEW k \in Starts(n, s) PROVE k < j
    <3>0. k \in DOMAIN n /\ HasItem(n[k], Item(OnOff(s), "1"))
      BY <2>3, PlacesMean
    <3>1. f[k] \in Starts(q, s) /\ q[f[k]] \notin T
      <4>1. f[k] \in DOMAIN q /\ n[k] = q[f[k]] /\ n[k] \notin T
        BY <1>3, <1>4, <3>0
      <4> QED BY <3>0, <4>1, PlacesMean
    <3>2. f[k] < f[j] /\ f[k] \in Nat /\ f[j] \in Nat /\ k \in Nat /\ j \in Nat
      BY <1>3, <1>4, <1>5, <2>1, <3>0, <3>1, PlacesMean
    <3>3. ~(j < k) /\ j # k
      BY <1>4, <1>5, <2>1, <3>0, <3>1, <3>2
    <3> QED BY <3>2, <3>3
  <2> QED BY <2>2, <2>3 DEF Stopped
<1> QED BY <1>3, <1>4, <1>5 DEF Thinned, n

LEMMA OrderOthers ==
  ASSUME NEW q \in Seq(EntryType), NEW s \in Shutters, NEW pin \in {OnOff(s), DirPin(s)},
         NEW v \in Values, NEW delay \in Nat, NEW t \in Shutters, t # s \/ pin # OnOff(s)
  PROVE  LET o == Order(q, s, pin, v, delay)
         IN Starts(o, t) = Starts(q, t) /\ StopsAt(o, t) = StopsAt(q, t)
<1> DEFINE o == Order(q, s, pin, v, delay)
<1>0. Ordered(o, q, s, pin, v, delay)
  BY OrderPlaces
<1> HIDE DEF o
<1>1. \A i \in DOMAIN q : i \in DOMAIN o /\ \A y : HasItem(q[i], y) => HasItem(o[i], y)
  BY <1>0 DEF Ordered
<1>2. \A i \in DOMAIN o : \A y : HasItem(o[i], y) => (i \in DOMAIN q /\ HasItem(q[i], y)) \/ y = Item(pin, v)
  BY <1>0 DEF Ordered
<1>3. \A w : Item(OnOff(t), w) # Item(pin, v)
  BY OtherItem
<1>4. \A i, w : i \in DOMAIN o /\ HasItem(o[i], Item(OnOff(t), w))
                <=> i \in DOMAIN q /\ HasItem(q[i], Item(OnOff(t), w))
  BY <1>1, <1>2, <1>3
<1>5. Starts(o, t) = Starts(q, t)
  <2>1. \A i : i \in Starts(o, t) <=> i \in Starts(q, t)
    BY <1>4, PlacesMean
  <2> QED BY <2>1
<1>6. StopsAt(o, t) = StopsAt(q, t)
  <2>1. \A i : i \in StopsAt(o, t) <=> i \in StopsAt(q, t)
    BY <1>4, PlacesMean
  <2> QED BY <2>1
<1> QED BY <1>5, <1>6 DEF o

(* If no start waits, a stop that is ordered waits with its delay.         *)
Waiting(o, s, delay) == Starts(o, s) = {} /\ \E i \in StopsAt(o, s) : o[i].delay = delay

LEMMA OrderOwn ==
  ASSUME NEW q \in Seq(EntryType), NEW s \in Shutters, NEW v \in {"0", "steps"}, NEW delay \in Nat,
         Wired(q), Starts(q, s) = {}
  PROVE  Waiting(Order(q, s, OnOff(s), v, delay), s, delay)
<1> DEFINE o == Order(q, s, OnOff(s), v, delay)
<1>1. v \in Values
  BY DEF Values
<1>0. Ordered(o, q, s, OnOff(s), v, delay)
  BY <1>1, OrderPlaces
<1> HIDE DEF o
<1>2. /\ \A i \in DOMAIN q : i \in DOMAIN o /\ \A y : HasItem(q[i], y) => HasItem(o[i], y)
      /\ \A i \in DOMAIN o : \A y : HasItem(o[i], y) =>
           (i \in DOMAIN q /\ HasItem(q[i], y)) \/ y = Item(OnOff(s), v)
      /\ \E i \in DOMAIN o :
           /\ o[i].delay = delay
           /\ \/ HasItem(o[i], Item(OnOff(s), v))
              \/ i \in DOMAIN q /\ q[i].delay = delay
                   /\ \E w \in Values : HasItem(q[i], Item(OnOff(s), w))
  BY <1>0 DEF Ordered
<1>3. Starts(o, s) = {}
  <2>1. Item(OnOff(s), "1") # Item(OnOff(s), v)
    BY DEF Item
  <2> QED BY <1>2, <2>1, PlacesMean
<1>4. PICK i \in DOMAIN o :
        /\ o[i].delay = delay
        /\ \/ HasItem(o[i], Item(OnOff(s), v))
           \/ i \in DOMAIN q /\ \E w \in Values : HasItem(q[i], Item(OnOff(s), w))
  BY <1>2
<1>5. i \in StopsAt(o, s)
  <2>1. CASE HasItem(o[i], Item(OnOff(s), v))
    BY <2>1, PlacesMean
  <2>2. CASE ~HasItem(o[i], Item(OnOff(s), v))
    <3>1. PICK w \in Values : i \in DOMAIN q /\ HasItem(q[i], Item(OnOff(s), w))
      BY <1>4, <2>2
    <3>2. w \in {"0", "1", "steps"} /\ w # "1"
      BY <3>1, PlacesMean DEF Wired
    <3>3. HasItem(o[i], Item(OnOff(s), w))
      BY <1>2, <3>1
    <3> QED BY <3>2, <3>3, PlacesMean
  <2> QED BY <2>1, <2>2
<1> QED BY <1>3, <1>4, <1>5 DEF Waiting, o

LEMMA OrderWired ==
  ASSUME NEW q \in Seq(EntryType), NEW s \in Shutters, NEW pin \in {OnOff(s), DirPin(s)},
         NEW v \in Values, NEW delay \in Nat, Wired(q), pin = OnOff(s) => v \in {"0", "1", "steps"}
  PROVE  Wired(Order(q, s, pin, v, delay))
<1> DEFINE o == Order(q, s, pin, v, delay)
<1>0. Ordered(o, q, s, pin, v, delay)
  BY OrderPlaces
<1> HIDE DEF o
<1>1. \A i \in DOMAIN q : o[i].hbx = q[i].hbx
  BY <1>0 DEF Ordered
<1>2. \A i \in DOMAIN o : \A y : HasItem(o[i], y) =>
        (i \in DOMAIN q /\ HasItem(q[i], y)) \/ (y = Item(pin, v) /\ o[i].hbx = HbxOf[s])
  BY <1>0 DEF Ordered
<1>3. ASSUME NEW i \in DOMAIN o, NEW r \in Shutters, NEW w \in Values, HasItem(o[i], Item(OnOff(r), w))
      PROVE  o[i].hbx = HbxOf[r] /\ w \in {"0", "1", "steps"}
  <2>1. CASE i \in DOMAIN q /\ HasItem(q[i], Item(OnOff(r), w))
    BY <1>1, <2>1 DEF Wired
  <2>2. CASE Item(OnOff(r), w) = Item(pin, v) /\ o[i].hbx = HbxOf[s]
    BY <2>2, OtherItem
  <2> QED BY <1>2, <1>3, <2>1, <2>2
<1> QED BY <1>3 DEF Wired, o

(* What is left when messages are erased starts nothing new.               *)
LEMMA ThinnedStarts ==
  ASSUME NEW n, NEW q, NEW T, Thinned(n, q, T)
  PROVE  \A s, i : i \in Starts(n, s) =>
           n[i] \notin T /\ \E k \in Starts(q, s) : n[i] = q[k]
<1>1. \A i \in DOMAIN n : n[i] \notin T /\ \E k \in DOMAIN q : n[i] = q[k]
  BY DEF Thinned
<1>2. ASSUME NEW s, NEW i \in Starts(n, s)
      PROVE  n[i] \notin T /\ \E k \in Starts(q, s) : n[i] = q[k]
  <2>1. i \in DOMAIN n /\ HasItem(n[i], Item(OnOff(s), "1"))
    BY PlacesMean
  <2>2. PICK k \in DOMAIN q : n[i] = q[k]
    BY <1>1, <2>1
  <2>3. k \in Starts(q, s)
    BY <2>1, <2>2, PlacesMean
  <2> QED BY <1>1, <2>1, <2>2, <2>3
<1> QED BY <1>2

(* w is the queue q after an order for s: the other shutters keep their    *)
(* stops, but for those in a message that delete_timer_mess takes; and a   *)
(* stop of s is there if no start of s was.                                *)
Keeps(w, q, s) ==
  /\ w \in Seq(EntryType) /\ Wired(w)
  /\ \A t \in Shutters \ {s} :
       /\ Starts(w, t) # {} => Starts(q, t) # {}
       /\ Stopped(q, t) =>
            Stopped(w, t) \/ \E i \in StopsAt(q, t) : TimerOf(q[i], HbxOf[s], OnOff(s))
Halts(w, q, s) == Starts(q, s) = {} => Stopped(w, s)

MotorValues == {"0", "1", "steps"}

LEMMA OrderKeeps ==
  ASSUME NEW q \in Seq(EntryType), Wired(q), NEW s \in Shutters, NEW v \in MotorValues, NEW delay \in Nat
  PROVE  /\ Keeps(Order(q, s, OnOff(s), v, delay), q, s)
         /\ v # "1" => Halts(Order(q, s, OnOff(s), v, delay), q, s)
<1> DEFINE o == Order(q, s, OnOff(s), v, delay)
<1>1. v \in Values
  BY DEF Values, MotorValues
<1>2. Ordered(o, q, s, OnOff(s), v, delay)
  BY <1>1, OrderPlaces
<1>3. \A t \in Shutters \ {s} : Starts(o, t) = Starts(q, t) /\ StopsAt(o, t) = StopsAt(q, t)
  BY <1>1, OrderOthers
<1>4. Wired(o)
  BY <1>1, OrderWired DEF MotorValues
<1>5. ASSUME v # "1" PROVE Halts(o, q, s)
  <2>1. Starts(q, s) = {} => Waiting(o, s, delay)
    BY <1>5, OrderOwn DEF MotorValues
  <2> HIDE DEF o
  <2> QED BY <2>1 DEF Halts, Stopped, Waiting
<1> HIDE DEF o
<1>6. Keeps(o, q, s)
  BY <1>2, <1>3, <1>4 DEF Keeps, Ordered, Stopped
<1> QED BY <1>5, <1>6 DEF o

LEMMA NowKeeps ==
  ASSUME NEW q \in Seq(EntryType), Wired(q), NEW s \in Shutters, NEW v \in MotorValues
  PROVE  /\ Keeps(OrderNow(q, s, v), q, s)
         /\ v # "1" => Halts(OrderNow(q, s, v), q, s)
<1> DEFINE o == Order(q, s, OnOff(s), v, 0)
           T == {e \in ToSet(o) : TimerOf(e, HbxOf[s], OnOff(s))}
           n == Without(o, T)
<1>1. v \in Values
  BY DEF Values, MotorValues
<1>2. Ordered(o, q, s, OnOff(s), v, 0) /\ Keeps(o, q, s)
  BY <1>1, OrderPlaces, OrderKeeps
<1>3. \A t \in Shutters \ {s} : Starts(o, t) = Starts(q, t) /\ StopsAt(o, t) = StopsAt(q, t)
  BY <1>1, OrderOthers
<1>4. v # "1" /\ Starts(q, s) = {} => Waiting(o, s, 0)
  BY OrderOwn DEF MotorValues
<1>5. OrderNow(q, s, v) = n
  BY DEF OrderNow, DeleteTimerMess
<1> HIDE DEF o
<1>6. \A i \in DOMAIN o : o[i] \in T <=> TimerOf(o[i], HbxOf[s], OnOff(s))
  BY DEF ToSet
<1> HIDE DEF T
<1>7. Thinned(n, o, T)
  BY <1>2, WithoutEnds DEF Keeps
<1> HIDE DEF n
<1>8. /\ n \in Seq(EntryType) /\ Wired(n) /\ \A t \in Shutters : Starts(n, t) # {} => Starts(o, t) # {}
  <2>1. \A t, i : i \in Starts(n, t) => n[i] \notin T /\ \E k \in Starts(o, t) : n[i] = o[k]
    BY <1>7, ThinnedStarts
  <2> QED BY <1>2, <1>7, <2>1 DEF Keeps, Thinned, Wired
<1>9. ASSUME NEW t \in Shutters \ {s}, Stopped(q, t)
      PROVE  Stopped(n, t) \/ \E i \in StopsAt(q, t) : TimerOf(q[i], HbxOf[s], OnOff(s))
  <2>1. PICK i \in StopsAt(q, t) : \A k \in Starts(q, t) : k < i
    BY <1>9 DEF Stopped
  <2>2. i \in DOMAIN o /\ i \in DOMAIN q /\ i \in StopsAt(o, t) /\ \A k \in Starts(o, t) : k < i
    BY <1>3, <2>1, PlacesMean
  <2>3. CASE o[i] \notin T
    BY <1>7, <2>2, <2>3 DEF Thinned
  <2>4. CASE o[i] \in T
    <3>1. TimerOf(o[i], HbxOf[s], OnOff(s)) /\ o[i].delay # 0
      BY <1>6, <2>2, <2>4 DEF TimerOf
    <3>2. o[i] = q[i]
      BY <1>2, <2>2, <3>1 DEF Ordered
    <3> QED BY <2>1, <3>1, <3>2
  <2> QED BY <2>3, <2>4
<1>10. Keeps(n, q, s)
  BY <1>3, <1>8, <1>9 DEF Keeps
<1>11. ASSUME v # "1", Starts(q, s) = {} PROVE Stopped(n, s)
  <2>1. PICK i \in StopsAt(o, s) : o[i].delay = 0
    BY <1>4, <1>11 DEF Waiting
  <2>2. i \in DOMAIN o /\ o[i] \notin T /\ Starts(o, s) = {}
    BY <1>4, <1>6, <1>11, <2>1, PlacesMean DEF Waiting, TimerOf
  <2> QED BY <1>7, <2>1, <2>2 DEF Thinned
<1> QED BY <1>5, <1>10, <1>11 DEF Halts

LEMMA TurnKeeps ==
  ASSUME NEW q, NEW s \in Shutters, NEW w, Keeps(w, q, s), NEW d \in Sides
  PROVE  /\ Keeps(Turn(w, s, d), q, s)
         /\ Halts(w, q, s) => Halts(Turn(w, s, d), q, s)
<1> DEFINE o == Turn(w, s, d)
<1>1. DirPin(s) # OnOff(s) /\ d \in Values /\ w \in Seq(EntryType) /\ Wired(w)
  BY DEF DirPin, OnOff, Values, Keeps
<1>2. o \in Seq(EntryType)
  BY <1>1, TypedQueue, TurnCalm, CalmEntries
<1>3. Wired(o)
  BY <1>1, OrderWired DEF Turn
<1>4. \A t \in Shutters : Starts(o, t) = Starts(w, t) /\ StopsAt(o, t) = StopsAt(w, t)
  BY <1>1, OrderOthers DEF Turn
<1> HIDE DEF o
<1> QED BY <1>2, <1>3, <1>4 DEF o, Keeps, Halts, Stopped

----------------------------------------------------------------------------
(* The events that stop a shutter.                                         *)

(* A delayed stop is pushed: it is there, and every event keeps its place, *)
(* its type and its shutter.                                               *)
LEMMA PushedOff ==
  ASSUME NEW es \in Seq(EventType), NEW s \in Shutters, NEW d \in Nat
  PROVE  LET p == Push(es, OffEvent(s, d))
         IN /\ p \in Seq(EventType) /\ OffFor(p, s)
            /\ \A i \in DOMAIN es : i \in DOMAIN p /\ p[i].type = es[i].type /\ p[i].var = es[i].var
<1> DEFINE x == OffEvent(s, d)
           p == Push(es, x)
           found == AlreadyThere(es, x)
           i == FirstOf(found)
           new == [es[i] EXCEPT !.left = x.left]
<1>1. x \in EventType /\ x.type = "off" /\ x.var = s /\ x.left \in Nat
  <2>1. x \in EventType
    BY DEF OffEvent, EventType
  <2> QED BY <2>1 DEF OffEvent
<1> HIDE DEF x
<1>2. Len(es) \in Nat /\ DOMAIN es = 1..Len(es) /\ \A k \in DOMAIN es : es[k] \in EventType
  BY LenProperties, ElementOfSeq
<1>3. CASE found = {}
  <2>1. p = Append(es, x)
    BY <1>3 DEF Push
  <2>2. /\ p \in Seq(EventType) /\ DOMAIN p = 1..(Len(es) + 1) /\ p[Len(es) + 1] = x
        /\ \A k \in 1..Len(es) : p[k] = es[k]
    BY <1>1, <2>1, Longer
  <2> HIDE DEF p
  <2>3. Len(es) + 1 \in DOMAIN p /\ \A k \in DOMAIN es : k \in DOMAIN p /\ p[k] = es[k]
    BY <1>2, <2>2
  <2>4. OffFor(p, s)
    BY <1>1, <2>2, <2>3 DEF OffFor
  <2> QED BY <2>2, <2>3, <2>4 DEF p, x
<1>4. CASE found # {}
  <2>1. found \subseteq Nat /\ \A k \in found : k \in DOMAIN es /\ es[k].var = s
    BY <1>1, <1>2 DEF AlreadyThere
  <2> HIDE DEF found
  <2>2. i \in DOMAIN es /\ es[i].var = s
    <3>1. \E k \in found : \A j \in found : k <= j
      BY <1>4, <2>1, LeastExists
    <3> QED BY <3>1, <2>1 DEF FirstOf
  <2> HIDE DEF i
  <2>3. es[i].type = "off"
    <3>1. es[i] \in EventType
      BY <1>2, <2>2
    <3>2. CASE es[i] \in [type : {"off"}, var : Shutters, left : Nat \cup {-1}]
      BY <3>2
    <3>3. CASE es[i].var \in {-r : r \in Shutters}
      BY <2>2, <3>3 DEF Shutters
    <3> QED BY <3>1, <3>2, <3>3 DEF EventType
  <2>4. new \in EventType /\ new.type = es[i].type /\ new.var = es[i].var
    BY <1>1, <1>2, <2>2 DEF EventType
  <2>5. p = [es EXCEPT ![i] = new]
    BY <1>1, <1>4 DEF Push, found, i
  <2> HIDE DEF new
  <2>6. p \in Seq(EventType) /\ DOMAIN p = DOMAIN es /\ p[i] = new /\ \A k \in DOMAIN es : k # i => p[k] = es[k]
    BY <2>2, <2>4, <2>5, ReplaceType
  <2> HIDE DEF p
  <2>7. OffFor(p, s)
    BY <2>2, <2>3, <2>4, <2>6 DEF OffFor
  <2> QED BY <2>4, <2>6, <2>7 DEF p, x
<1> QED BY <1>3, <1>4

(* An event that is removed leaves the stops it is none of.                *)
LEMMA RemovedOff ==
  ASSUME NEW es \in Seq(EventType), NEW i \in 1..Len(es), NEW s,
         OffFor(es, s), es[i].type # "off" \/ es[i].var # s
  PROVE  OffFor(RemoveAt(es, i), s)
<1>1. PICK j \in DOMAIN es : es[j].type = "off" /\ es[j].var = s
  BY DEF OffFor
<1>2. PICK k \in DOMAIN RemoveAt(es, i) : RemoveAt(es, i)[k] = es[j]
  BY <1>1, Removed
<1> QED BY <1>1, <1>2 DEF OffFor

(* A command for all shutters erases no stop.                              *)
LEMMA SupersededOff ==
  ASSUME NEW es \in Seq(EventType), NEW c \in Command, NEW s, OffFor(es, s)
  PROVE  OffFor(Supersede(es, c), s)
<1> DEFINE gone == {e \in ToSet(es) : e.type = "shutter"}
           n == Without(es, gone)
           all == AllEvents(c)
<1>1. PICK j \in DOMAIN es : es[j].type = "off" /\ es[j].var = s
  BY DEF OffFor
<1>2. es[j] \notin gone
  BY <1>1
<1> HIDE DEF gone
<1>3. PICK f : Embeds(n, es, gone, Len(es), f)
  BY WithoutPlaces
<1>4. n \in Seq(EventType)
  <2>1. n \in Seq(EventType \ gone)
    BY WithoutKeeps
  <2> QED BY <2>1, SeqMonotonic
<1>5. all \in Seq(EventType)
  <2>1. all \in [1..NumShutters -> EventType]
    BY EventTypes DEF AllEvents, Shutters, Agreeing
  <2> QED BY <2>1, ShuttersAssumption, FunctionIsSeq
<1>6. Supersede(es, c) = n \o all
  BY DEF Supersede, EraseEvents, gone
<1> HIDE DEF n, all
<1>7. PICK k \in 1..Len(n) : n[k] = es[j]
  <2>1. j \in 1..Len(es)
    BY <1>1, LenProperties
  <2> QED BY <1>2, <1>3, <2>1 DEF Embeds
<1>8. k \in DOMAIN (n \o all) /\ (n \o all)[k] = n[k]
  <2>1. Len(n) \in Nat /\ Len(all) \in Nat /\ Len(n \o all) = Len(n) + Len(all) /\ n \o all \in Seq(EventType)
        /\ \A i \in 1..(Len(n) + Len(all)) :
             (n \o all)[i] = IF i <= Len(n) THEN n[i] ELSE all[i - Len(n)]
    BY <1>4, <1>5, ConcatProperties, LenProperties
  <2>2. DOMAIN (n \o all) = 1..(Len(n) + Len(all))
    BY <2>1, LenProperties
  <2> QED BY <1>7, <2>1, <2>2
<1> QED BY <1>1, <1>6, <1>7, <1>8 DEF OffFor

LEMMA AgedOff ==
  ASSUME NEW es \in Seq(EventType), NEW s, OffFor(es, s)
  PROVE  OffFor(Aged(es), s)
<1>1. PICK j \in DOMAIN es : es[j].type = "off" /\ es[j].var = s
  BY DEF OffFor
<1>2. es[j] \in EventType
  BY <1>1, LenProperties, ElementOfSeq
<1> DEFINE n == [es[j] EXCEPT !.left = IF @ < 0 THEN -1 ELSE @ - 1]
<1>3. n.type = "off" /\ n.var = s
  BY <1>1, <1>2 DEF EventType
<1>4. j \in DOMAIN Aged(es) /\ Aged(es)[j] = n
  BY <1>1 DEF Aged
<1> QED BY <1>3, <1>4 DEF OffFor

----------------------------------------------------------------------------
(* The steps.                                                              *)

IInv == TypeInv /\ EndInv

(* What an order for s leaves of the ends of the other shutters. *)
LEMMA OthersEnd ==
  ASSUME IInv, NEW s \in Shutters, Keeps(queue', queue, s), Others(s) \subseteq loose',
         loose \ {s} \subseteq loose', panel \ {s} \subseteq panel', UNCHANGED <<relay, button>>,
         \A t \in Shutters \ {s} : OffFor(events, t) => OffFor(events', t),
         \A c \in todo : c.shutter # s => c \in todo'
  PROVE  \A t \in Shutters \ {s} : Ends(t)'
<1> SUFFICES ASSUME NEW t \in Shutters \ {s}, Moves(t)', ~Ends(t)' PROVE FALSE
  BY DEF Ends
<1>1. /\ ~OffFor(events', t) /\ ~Stopped(queue', t) /\ ~Held(t)' /\ t \notin loose'
      /\ \A c \in todo' : c.shutter = t => c.what = "turn"
  BY DEF Ends
<1>2. relay[t] = "1" \/ Starts(queue', t) # {}
  BY DEF Moves
<1>3. Moves(t)
  BY <1>2 DEF Moves, Keeps
<1>4. ~OffFor(events, t) /\ t \notin loose /\ \A c \in todo : c.shutter = t => c.what = "turn"
  BY <1>1
<1>5. ~Held(t)
  BY <1>1 DEF Held
<1>6. Stopped(queue, t)
  BY <1>3, <1>4, <1>5 DEF IInv, EndInv, Ends
<1>7. \E i \in StopsAt(queue, t) : TimerOf(queue[i], HbxOf[s], OnOff(s))
  BY <1>1, <1>6 DEF Keeps
<1>8. t \in Swept(s)
  BY <1>6, <1>7, PendingMeans DEF Swept
<1>9. t \in Unstopped(Swept(s))
  BY <1>1, <1>2, <1>8, PendingMeans DEF Unstopped
<1> QED BY <1>1, <1>9 DEF Others

(* What a request to stop s, or to move it by steps, leaves of its end. *)
LEMMA OwnEnd ==
  ASSUME IInv, NEW s \in Shutters, enabled => Halts(queue', queue, s),
         Refused({s}) \subseteq loose', loose \subseteq loose', UNCHANGED relay
  PROVE  Ends(s)'
<1> SUFFICES ASSUME Moves(s)', ~Ends(s)' PROVE FALSE
  BY DEF Ends
<1>1. ~OffFor(events', s) /\ ~Stopped(queue', s) /\ s \notin loose'
  BY DEF Ends
<1>2. relay[s] = "1" \/ Starts(queue', s) # {}
  BY DEF Moves
<1>3. enabled /\ ~Waits(s)
  <2>1. SUFFICES ASSUME ~enabled \/ Waits(s) PROVE s \in Refused({s})
    BY <1>1
  <2> QED BY <1>1, <1>2, <2>1, PendingMeans DEF Refused, Unstopped
<1>4. Starts(queue, s) = {}
  <2> SUFFICES ASSUME NEW i \in Starts(queue, s) PROVE FALSE
    OBVIOUS
  <2>1. s \notin Delayed(queue)
    BY <1>1 DEF IInv, EndInv
  <2>2. queue[i].delay = 0
    BY <2>1 DEF Delayed
  <2>3. PICK j \in DOMAIN queue[i].items : queue[i].items[j] = Item(OnOff(s), "1")
    BY DEF Starts
  <2>4. queue[i].items[j].pin = OnOff(s) /\ i \in DOMAIN queue
    BY <2>3 DEF Item, Starts
  <2> QED BY <1>3, <2>2, <2>4 DEF Waits
<1> QED BY <1>1, <1>3, <1>4 DEF Halts

(* A step that leaves the queue, the loop and what is loose alone. *)
LEMMA SameEnds ==
  ASSUME IInv, UNCHANGED <<queue, loose, todo>>, panel \subseteq panel',
         \A t \in Shutters : relay'[t] = "1" => relay[t] = "1",
         \A b \in Buttons : button[b] = "short" => button'[b] = "short",
         \A t \in Shutters : OffFor(events, t) => OffFor(events', t),
         pc' = "incoming" \/ todo = {}
  PROVE  EndInv'
<1>1. ASSUME NEW t \in Shutters PROVE Ends(t)'
  <2>1. Moves(t)' => Moves(t)
    BY DEF Moves
  <2>2. Held(t) => Held(t)'
    BY DEF Held
  <2> QED BY <2>1, <2>2 DEF IInv, EndInv, Ends
<1>2. LoopInv'
  BY DEF IInv, EndInv, LoopInv
<1> QED BY <1>1, <1>2 DEF IInv, EndInv

(* The parts of EndInv after an order for s, put together. *)
LEMMA OrderEnds ==
  ASSUME IInv, NEW s \in Shutters, Keeps(queue', queue, s), Others(s) \subseteq loose',
         loose \ {s} \subseteq loose', panel \ {s} \subseteq panel', UNCHANGED <<relay, button>>,
         \A t \in Shutters \ {s} : OffFor(events, t) => OffFor(events', t),
         \A c \in todo : c.shutter # s => c \in todo', todo' \subseteq todo,
         pc' = pc \/ todo = {}, Ends(s)'
  PROVE  EndInv'
<1>1. \A t \in Shutters : Ends(t)'
  BY OthersEnd
<1>2. Delayed(queue)' \subseteq loose'
  BY DEF Others, Delayed
<1>3. LoopInv'
  BY DEF IInv, EndInv, LoopInv
<1>4. Wired(queue)'
  BY DEF Keeps
<1> QED BY <1>1, <1>2, <1>3, <1>4 DEF EndInv

LEMMA SameKeeps ==
  ASSUME IInv, NEW s \in Shutters
  PROVE  Keeps(queue, queue, s)
BY DEF IInv, TypeInv, TypeOK, EndInv, Keeps

(* What a command for one shutter makes of the queue and of the events. *)
LEMMA ObeyEnds ==
  ASSUME IInv, NEW s \in Shutters, NEW c \in Text
  PROVE  LET r == Obey(queue, events, s, c)
         IN /\ Keeps(r[1], queue, s) /\ r[2] \in Seq(EventType)
            /\ c.kind = "whole" => OffFor(r[2], s)
            /\ c.kind = "steps" => Halts(r[1], queue, s)
            /\ \A i \in DOMAIN events :
                 i \in DOMAIN r[2] /\ r[2][i].type = events[i].type /\ r[2][i].var = events[i].var
<1>1. queue \in Seq(EntryType) /\ events \in Seq(EventType) /\ Wired(queue)
  BY DEF IInv, TypeInv, TypeOK, EndInv
<1>2. c.side \in Sides /\ Timer[s] \in Nat
  BY ShuttersAssumption DEF Text
<1>3. CASE c.kind = "whole"
  <2> DEFINE o == Order(queue, s, OnOff(s), "1", 0)
             w == Turn(o, s, c.side)
             p == Push(events, OffEvent(s, Timer[s]))
  <2>1. Keeps(o, queue, s)
    BY <1>1, OrderKeeps DEF MotorValues
  <2> HIDE DEF o
  <2>2. Keeps(w, queue, s)
    BY <1>2, <2>1, TurnKeeps
  <2>3. /\ p \in Seq(EventType) /\ OffFor(p, s)
        /\ \A i \in DOMAIN events : i \in DOMAIN p /\ p[i].type = events[i].type /\ p[i].var = events[i].var
    BY <1>1, <1>2, PushedOff
  <2>4. Obey(queue, events, s, c) = <<w, p, c.side>>
    BY <1>3 DEF Obey, o
  <2> HIDE DEF w, p
  <2> QED BY <1>3, <2>2, <2>3, <2>4
<1>4. CASE c.kind # "whole"
  <2> DEFINE v == IF c.kind = "steps" THEN "steps" ELSE "1"
             o == OrderNow(queue, s, v)
             w == Turn(o, s, c.side)
  <2>0. v \in MotorValues /\ (c.kind = "steps" => v # "1")
    BY DEF MotorValues
  <2> HIDE DEF v
  <2>1. Keeps(o, queue, s) /\ (c.kind = "steps" => Halts(o, queue, s))
    BY <1>1, <2>0, NowKeeps
  <2> HIDE DEF o
  <2>2. Keeps(w, queue, s) /\ (c.kind = "steps" => Halts(w, queue, s))
    BY <1>2, <2>1, TurnKeeps
  <2>3. Obey(queue, events, s, c) = <<w, events, dir[s]>>
    BY <1>4 DEF Obey, o, v
  <2> HIDE DEF w
  <2> QED BY <1>1, <1>4, <2>2, <2>3
<1> QED BY <1>3, <1>4

LEMMA CommandEnds ==
  ASSUME IInv, NEW s \in Shutters, NEW c \in Text, NoteCommand(s, c),
         queue' = Obey(queue, events, s, c)[1],
         \A t \in Shutters : OffFor(Obey(queue, events, s, c)[2], t) => OffFor(events', t),
         UNCHANGED <<relay, button, panel, todo>>, pc' = pc
  PROVE  EndInv'
<1> DEFINE r == Obey(queue, events, s, c)
<1>1. /\ Keeps(r[1], queue, s) /\ r[2] \in Seq(EventType)
      /\ c.kind = "whole" => OffFor(r[2], s)
      /\ c.kind = "steps" => Halts(r[1], queue, s)
      /\ \A i \in DOMAIN events :
           i \in DOMAIN r[2] /\ r[2][i].type = events[i].type /\ r[2][i].var = events[i].var
  BY ObeyEnds
<1> HIDE DEF r
<1>2. \A t : OffFor(events, t) => OffFor(r[2], t)
  BY <1>1 DEF OffFor
<1>3. queue' = r[1] /\ \A t \in Shutters : OffFor(r[2], t) => OffFor(events', t)
  BY DEF r
<1>0. c.kind \in {"whole", "steps", "move"}
  BY DEF Text
<1>4. Others(s) \subseteq loose' /\ loose \ {s} \subseteq loose'
  BY <1>0 DEF NoteCommand, NoteStart, NoteStop, NoteMove
<1>5. Ends(s)'
  <2>1. CASE c.kind = "whole"
    BY <1>1, <1>3, <2>1 DEF Ends
  <2>2. CASE c.kind = "steps"
    <3>1. Refused({s}) \subseteq loose' /\ loose \subseteq loose'
      BY <2>2 DEF NoteCommand, NoteStop
    <3>2. Halts(queue', queue, s)
      BY <1>1, <1>3, <2>2
    <3> QED BY <3>1, <3>2, OwnEnd
  <2>3. CASE c.kind = "move"
    <3>1. {t \in Unstopped({s}) : ~Held(t)} \subseteq loose'
      BY <2>3 DEF NoteCommand, NoteMove
    <3>2. SUFFICES ASSUME Moves(s)', ~Ends(s)' PROVE FALSE
      BY DEF Ends
    <3>3. ~OffFor(events', s) /\ ~Stopped(queue', s) /\ ~Held(s) /\ s \notin loose'
      BY <3>2 DEF Ends, Held
    <3>4. relay[s] = "1" \/ Starts(queue', s) # {}
      BY <3>2 DEF Moves
    <3> QED BY <3>1, <3>3, <3>4, PendingMeans DEF Unstopped
  <2> QED BY <1>0, <2>1, <2>2, <2>3
<1>6. Keeps(queue', queue, s) /\ \A t \in Shutters \ {s} : OffFor(events, t) => OffFor(events', t)
  BY <1>1, <1>2, <1>3
<1> QED BY <1>4, <1>5, <1>6, OrderEnds

(* A stop that is ordered, at once or for later, or refused by the wind.   *)
LEMMA StopEnds ==
  ASSUME IInv, NEW s \in Shutters, NoteStop(s), Keeps(queue', queue, s),
         enabled => Halts(queue', queue, s),
         panel \ {s} \subseteq panel', UNCHANGED <<relay, button>>, pc' = pc,
         \A t \in Shutters \ {s} : OffFor(events, t) => OffFor(events', t),
         \A c \in todo : c.shutter # s => c \in todo', todo' \subseteq todo
  PROVE  EndInv'
<1>1. Others(s) \subseteq loose' /\ Refused({s}) \subseteq loose' /\ loose \subseteq loose'
  BY DEF NoteStop
<1>2. Ends(s)'
  BY <1>1, OwnEnd
<1>3. loose \ {s} \subseteq loose'
  BY <1>1
<1> QED BY <1>1, <1>2, <1>3, OrderEnds

(* A start of a shutter that is held. *)
LEMMA StartEnds ==
  ASSUME IInv, NEW s \in Shutters, NoteStart(s), NEW d \in Sides,
         queue' = Turn(OrderNow(queue, s, "1"), s, d), Held(s)',
         panel \ {s} \subseteq panel', UNCHANGED <<relay, button, events>>, pc' = pc,
         \A c \in todo : c.shutter # s => c \in todo', todo' \subseteq todo
  PROVE  EndInv'
<1>1. Others(s) \subseteq loose' /\ loose \ {s} \subseteq loose'
  BY DEF NoteStart
<1>2. Ends(s)'
  BY DEF Ends
<1>3. Keeps(queue', queue, s)
  <2>1. Keeps(OrderNow(queue, s, "1"), queue, s)
    BY NowKeeps DEF IInv, TypeInv, TypeOK, EndInv, MotorValues
  <2> QED BY <2>1, TurnKeeps
<1> QED BY <1>1, <1>2, <1>3, OrderEnds

LEMMA InitEnds == Init => IInv
<1> SUFFICES ASSUME Init PROVE EndInv
  BY InitType DEF IInv
<1>1. queue = <<>> /\ events = <<>> /\ todo = {} /\ \A s \in Shutters : relay[s] = "0"
  BY DEF Init
<1>2. \A s : Starts(queue, s) = {}
  BY <1>1 DEF Starts
<1>3. \A s \in Shutters : ~Moves(s)
  BY <1>1, <1>2 DEF Moves
<1>4. Delayed(queue) = {}
  BY <1>2 DEF Delayed
<1>5. Wired(queue)
  BY <1>1 DEF Wired
<1> QED BY <1>1, <1>3, <1>4, <1>5 DEF EndInv, Ends, LoopInv

LEMMA PanelEnds ==
  ASSUME IInv, Panel
  PROVE  EndInv'
<1>1. TypeOK /\ Wired(queue) /\ Commands \subseteq Command /\ events \in Seq(EventType) /\ queue \in Seq(EntryType)
  BY ShuttersAssumption DEF IInv, TypeInv, TypeOK, EndInv
<1>2. ASSUME NEW c \in Commands, PanelAll(c)
      PROVE  EndInv'
  <2>1. \A t : OffFor(events, t) => OffFor(events', t)
    BY <1>1, <1>2, SupersededOff DEF PanelAll
  <2> QED BY <1>2, <2>1, SameEnds DEF PanelAll, Incoming
<1>3. ASSUME NEW s \in Shutters, NEW c \in Commands, PanelSingle(s, c)
      PROVE  EndInv'
  <2>1. CASE MayMove
    BY <1>1, <1>3, <2>1, CommandTexts, CommandEnds DEF PanelSingle
  <2>2. CASE ~MayMove
    BY <1>3, <2>2, SameEnds DEF PanelSingle, Incoming
  <2> QED BY <2>1, <2>2
<1>4. ASSUME NEW s \in Shutters, NEW c \in Commands, Clock(s, c)
      PROVE  EndInv'
  <2> DEFINE x == ShutterEvent(s, c, 0, "clock")
  <2>1. x \in EventType
    BY <1>1, EventTypes DEF Agreeing
  <2>2. events' = Append(events, x)
    BY <1>4 DEF Clock
  <2> HIDE DEF x
  <2>3. \A i \in DOMAIN events : i \in DOMAIN events' /\ events'[i] = events[i]
    BY <1>1, <2>1, <2>2, Longer
  <2>4. \A t : OffFor(events, t) => OffFor(events', t)
    BY <2>3 DEF OffFor
  <2> QED BY <1>4, <2>4, SameEnds DEF Clock, Incoming, ghosts
<1>5. ASSUME NEW s \in Shutters, PanelStop(s)
      PROVE  EndInv'
  <2>1. Keeps(queue', queue, s) /\ (enabled => Halts(queue', queue, s))
    <3>1. CASE enabled
      BY <1>1, <1>5, <3>1, NowKeeps DEF PanelStop, MayMove, MotorValues
    <3>2. CASE ~enabled
      BY <1>5, <3>2, SameKeeps DEF PanelStop, MayMove
    <3> QED BY <3>1, <3>2
  <2> QED BY <1>5, <2>1, StopEnds DEF PanelStop
<1>6. ASSUME NEW s \in Shutters, NEW d \in Sides, PanelMove(s, d)
      PROVE  EndInv'
  <2>1. CASE MayMove
    <3>1. Held(s)'
      BY <1>6 DEF PanelMove, Held
    <3> QED BY <1>6, <2>1, <3>1, StartEnds DEF PanelMove
  <2>2. CASE ~MayMove
    BY <1>6, <2>2, SameEnds DEF PanelMove, Incoming
  <2> QED BY <2>1, <2>2
<1> QED BY <1>2, <1>3, <1>4, <1>5, <1>6 DEF Panel

LEMMA ButtonEnds ==
  ASSUME IInv, Button \/ ButtonSteps
  PROVE  EndInv'
<1>1. /\ TypeOK /\ Wired(queue) /\ queue \in Seq(EntryType) /\ (todo # {} => enabled)
      /\ LoopInv /\ \A s \in Shutters : Ends(s)
  BY DEF IInv, TypeInv, TypeOK, EndInv
<1>2. ASSUME NEW b \in Buttons, ShortHold(b)
      PROVE  EndInv'
  <2>1. \A e \in Buttons : button[e] = "short" => button'[e] = "short"
    BY <1>1, <1>2 DEF ShortHold, TypeOK
  <2>2. button'[b] = "short" /\ pc' = "incoming" /\ todo = {}
    BY <1>1, <1>2 DEF ShortHold, Incoming, TypeOK
  <2>3. \A t \in Shutters : Ends(t)'
    <3> SUFFICES ASSUME NEW t \in Shutters, Moves(t)' PROVE Ends(t)'
      BY DEF Ends
    <3>1. Moves(t) /\ (Held(t) => Held(t)')
      BY <1>2, <2>1 DEF ShortHold, Moves, Held, ghosts
    <3> QED BY <1>1, <1>2, <2>2, <3>1 DEF ShortHold, Ends, ghosts
  <2>4. LoopInv'
    <3>1. \A c \in todo' : c.shutter \in Controls[b]
      BY <1>2 DEF ShortHold, Calls
    <3> QED BY <2>2, <3>1 DEF LoopInv
  <2> QED BY <1>2, <2>3, <2>4 DEF ShortHold, ghosts, IInv, EndInv
<1>3. ASSUME NEW b \in Buttons, NEW what \in {"stop", "late"}, EndHold(b, what)
      PROVE  EndInv'
  <2>1. /\ UNCHANGED <<queue, events, relay, panel>> /\ todo = {} /\ todo' = Calls(b, what)
        /\ \A e \in Buttons : e # b => button'[e] = button[e]
        /\ pc' = "incoming" /\ loose \subseteq loose'
    BY <1>1, <1>3 DEF EndHold, Incoming, TypeOK
  <2>2. ASSUME NEW t \in Shutters, Moves(t)', ~Ends(t)' PROVE FALSE
    <3>1. /\ ~OffFor(events', t) /\ ~Stopped(queue', t) /\ ~Held(t)' /\ t \notin loose'
          /\ \A c \in todo' : c.shutter = t => c.what = "turn"
      BY <2>2 DEF Ends
    <3>2. relay[t] = "1" \/ Starts(queue', t) # {}
      BY <2>1, <2>2 DEF Moves
    <3>3. Moves(t) /\ ~OffFor(events, t) /\ ~Stopped(queue, t) /\ t \notin loose
      BY <2>1, <3>1, <3>2 DEF Moves
    <3>4. Held(t) /\ t \notin panel
      BY <1>1, <2>1, <3>1, <3>3 DEF Ends, Held
    <3>5. t \in Controls[b]
      BY <2>1, <3>1, <3>4 DEF Held
    <3>6. CASE MayMove
      <4>1. [shutter |-> t, what |-> what] \in todo'
        BY <2>1, <3>5, <3>6 DEF Calls
      <4> QED BY <3>1, <4>1
    <3>7. CASE ~MayMove
      <4>1. t \in Refused(Controls[b])
        BY <3>1, <3>2, <3>5, <3>7, PendingMeans, ShuttersAssumption DEF Refused, Unstopped, MayMove
      <4> QED BY <1>3, <3>1, <3>7, <4>1 DEF EndHold
    <3> QED BY <3>6, <3>7
  <2>3. \A t \in Shutters : Ends(t)'
    BY <2>2 DEF Ends
  <2>4. LoopInv'
    BY <2>1 DEF LoopInv, Calls
  <2>5. Delayed(queue)' \subseteq loose'
    BY <2>1 DEF IInv, EndInv, Delayed
  <2>6. Wired(queue)'
    BY <2>1 DEF IInv, EndInv
  <2> QED BY <2>3, <2>4, <2>5, <2>6 DEF EndInv
<1>4. ASSUME NEW c \in todo, ButtonStep(c)
      PROVE  EndInv'
  <2> DEFINE s == c.shutter
  <2>1. s \in Shutters /\ c.what \in {"turn", "stop", "late"} /\ enabled /\ pc = "incoming"
    BY <1>1 DEF TypeOK, LoopInv
  <2>2. /\ UNCHANGED <<events, button, panel, relay, pc>> /\ todo' \subseteq todo
        /\ \A d \in todo : d.shutter # s => d \in todo'
    BY <1>4 DEF ButtonStep
  <2>3. CASE c.what = "turn"
    <3>1. Opposite(dir[s]) \in Sides
      BY <1>1, <2>1 DEF Opposite, Sides, TypeOK
    <3>2. Held(s)'
      BY <1>1, <2>2, <2>3 DEF LoopInv, Held
    <3>3. queue' = Turn(OrderNow(queue, s, "1"), s, Opposite(dir[s])) /\ NoteStart(s)
      BY <1>4, <2>3 DEF ButtonStep
    <3> HIDE DEF s
    <3> QED BY <2>1, <2>2, <3>1, <3>2, <3>3, StartEnds
  <2>4. CASE c.what # "turn"
    <3>1. NoteStop(s) /\ queue' \in {OrderNow(queue, s, "0"), Order(queue, s, OnOff(s), "0", Timer[s])}
      BY <1>4, <2>1, <2>4 DEF ButtonStep
    <3>2. Timer[s] \in Nat
      BY <2>1, ShuttersAssumption
    <3> HIDE DEF s
    <3>3. Keeps(OrderNow(queue, s, "0"), queue, s) /\ Halts(OrderNow(queue, s, "0"), queue, s)
      BY <1>1, <2>1, NowKeeps DEF MotorValues
    <3>4. /\ Keeps(Order(queue, s, OnOff(s), "0", Timer[s]), queue, s)
          /\ Halts(Order(queue, s, OnOff(s), "0", Timer[s]), queue, s)
      BY <1>1, <2>1, <3>2, OrderKeeps DEF MotorValues
    <3>5. Keeps(queue', queue, s) /\ Halts(queue', queue, s)
      BY <3>1, <3>3, <3>4
    <3> QED BY <2>1, <2>2, <3>1, <3>5, StopEnds
  <2> QED BY <2>3, <2>4
<1> QED BY <1>2, <1>3, <1>4 DEF Button, ButtonSteps

LEMMA ItemsAre ==
  ASSUME NEW q \in Seq(EntryType), NEW i \in DOMAIN q, NEW j \in DOMAIN q[i].items
  PROVE  q[i].items[j] = Item(q[i].items[j].pin, q[i].items[j].val)
<1>1. q[i].items \in Seq([pin : Pins, val : Values])
  <2>1. q[i] \in EntryType
    BY LenProperties, ElementOfSeq
  <2> QED BY <2>1 DEF EntryType
<1>2. q[i].items[j] \in [pin : Pins, val : Values]
  BY <1>1, LenProperties, ElementOfSeq
<1> QED BY <1>2 DEF Item

(* What is sent takes a stop of a shutter with it only together with every *)
(* start, and the last of them is the stop.                                *)
LEMMA SentEnds ==
  ASSUME IInv, NEW full, Send(full)
  PROVE  EndInv'
<1> DEFINE gone == {e \in ToSet(queue) : Goes(e, full)}
<1>1. /\ queue \in Seq(EntryType) /\ Wired(queue) /\ queue' = Without(queue, gone)
      /\ UNCHANGED <<todo, events, button, pc, panel, loose>> /\ todo = {}
      /\ Delayed(queue) \subseteq loose /\ \A s \in Shutters : Ends(s)
  BY DEF IInv, TypeInv, TypeOK, EndInv, Send, Incoming, ghosts
<1>2. \A i \in DOMAIN queue : queue[i] \in gone <=> Goes(queue[i], full)
  BY DEF ToSet
<1> HIDE DEF gone
<1>3. Thinned(queue', queue, gone)
  BY <1>1, WithoutEnds
<1>4. \A t, i : i \in Starts(queue', t) => queue'[i] \notin gone /\ \E k \in Starts(queue, t) : queue'[i] = queue[k]
  BY <1>3, ThinnedStarts
<1>5. \A t \in Shutters : Driven(queue, full, t, relay'[t])
  BY DEF Send
<1>6. ASSUME NEW t \in Shutters, relay'[t] = "1"
      PROVE  relay[t] = "1" \/ Starts(queue, t) # {}
  <2>1. Driven(queue, full, t, "1")
    BY <1>5, <1>6
  <2>2. \A i \in DOMAIN queue : \A j \in DOMAIN queue[i].items :
          ForMotor(queue, full, t, i, j) /\ queue[i].items[j].val = "1" => i \in Starts(queue, t)
    BY <1>1, ItemsAre DEF ForMotor, Starts
  <2> QED BY <2>1, <2>2 DEF Driven
<1>7. ASSUME NEW t \in Shutters, Moves(t)', ~Ends(t)' PROVE FALSE
  <2>1. ~OffFor(events, t) /\ ~Stopped(queue', t) /\ ~Held(t) /\ t \notin loose
    BY <1>1, <1>7 DEF Ends, Held
  <2>2. Moves(t)
    BY <1>4, <1>6, <1>7 DEF Moves
  <2>3. Stopped(queue, t)
    BY <1>1, <2>1, <2>2 DEF Ends
  <2>4. PICK i \in StopsAt(queue, t) : \A k \in Starts(queue, t) : k < i
    BY <2>3 DEF Stopped
  <2>5. queue[i] \in gone
    BY <1>3, <2>1, <2>4 DEF Thinned
  <2>6. PICK j \in DOMAIN queue[i].items : \E v \in {"0", "steps"} : queue[i].items[j] = Item(OnOff(t), v)
    BY <2>4 DEF StopsAt
  <2>7. i \in DOMAIN queue /\ queue[i].hbx = HbxOf[t] /\ Goes(queue[i], full) /\ HbxOf[t] \notin full
    <3>1. i \in DOMAIN queue /\ Goes(queue[i], full)
      BY <1>2, <2>4, <2>5 DEF StopsAt
    <3>2. \E v \in Values : HasItem(queue[i], Item(OnOff(t), v))
      BY <2>6 DEF HasItem, Values
    <3>3. queue[i].hbx = HbxOf[t]
      BY <1>1, <3>1, <3>2 DEF Wired
    <3> QED BY <3>1, <3>3 DEF Goes
  <2>8. ASSUME NEW k \in Starts(queue, t) PROVE queue[k] \in gone
    <3>1. k \in DOMAIN queue /\ HasItem(queue[k], Item(OnOff(t), "1")) /\ "1" \in Values
      BY <2>8, PlacesMean DEF Values
    <3>2. queue[k].hbx = HbxOf[t]
      BY <1>1, <3>1 DEF Wired
    <3>3. queue[k].delay = 0
      BY <1>1, <2>1, <2>8 DEF Delayed
    <3> QED BY <1>2, <2>7, <3>1, <3>2, <3>3 DEF Goes
  <2>9. Starts(queue', t) = {}
    BY <1>4, <2>8
  <2>10. Driven(queue, full, t, "1")
    BY <1>5, <1>7, <2>9 DEF Moves
  <2>11. ForMotor(queue, full, t, i, j)
    BY <2>6, <2>7 DEF ForMotor, Item
  <2>12. PICK m \in DOMAIN queue : \E l \in DOMAIN queue[m].items :
           /\ ForMotor(queue, full, t, m, l) /\ queue[m].items[l].val = "1"
           /\ i < m \/ i = m
    BY <2>6, <2>7, <2>10, <2>11 DEF Driven
  <2>13. m \in Starts(queue, t)
    BY <1>1, <2>12, ItemsAre DEF ForMotor, Starts
  <2>14. m < i /\ m \in Nat /\ i \in Nat
    BY <1>1, <2>4, <2>7, <2>13, LenProperties
  <2> QED BY <2>12, <2>14
<1>8. \A t \in Shutters : Ends(t)'
  BY <1>7 DEF Ends
<1>9. Wired(queue)'
  BY <1>1, <1>3 DEF Thinned, Wired
<1>10. Delayed(queue)' \subseteq loose'
  BY <1>1, <1>4 DEF Delayed
<1>11. LoopInv'
  BY <1>1 DEF LoopInv
<1> QED BY <1>8, <1>9, <1>10, <1>11 DEF EndInv

LEMMA SecondEnds ==
  ASSUME IInv, NEW full, Second(full)
  PROVE  EndInv'
<1>1. /\ queue \in Seq(EntryType) /\ events \in Seq(EventType) /\ Wired(queue)
      /\ UNCHANGED <<todo, button, relay, panel, loose>> /\ todo = {}
      /\ queue' = [i \in DOMAIN queue |-> Counted(queue[i])] /\ events' = Aged(events)
      /\ Delayed(queue) \subseteq loose /\ \A s \in Shutters : Ends(s)
  BY DEF IInv, TypeInv, TypeOK, EndInv, Second, Incoming, ghosts
<1>2. \A e \in EntryType : /\ Counted(e).hbx = e.hbx /\ Counted(e).items = e.items
                           /\ e.delay = 0 => Counted(e).delay = 0
  BY DEF Counted, EntryType
<1>3. \A i \in DOMAIN queue : queue[i] \in EntryType
  BY <1>1, LenProperties, ElementOfSeq
<1>4. /\ DOMAIN queue' = DOMAIN queue
      /\ \A i \in DOMAIN queue : /\ queue'[i].hbx = queue[i].hbx /\ queue'[i].items = queue[i].items
                                 /\ queue[i].delay = 0 => queue'[i].delay = 0
  BY <1>1, <1>2, <1>3
<1>5. \A i \in DOMAIN queue : \A x : HasItem(queue'[i], x) <=> HasItem(queue[i], x)
  BY <1>4 DEF HasItem
<1>6. ASSUME NEW t \in Shutters
      PROVE  Starts(queue', t) = Starts(queue, t) /\ StopsAt(queue', t) = StopsAt(queue, t)
  <2>1. \A i : i \in Starts(queue', t) <=> i \in Starts(queue, t)
    BY <1>4, <1>5, PlacesMean
  <2>2. \A i : i \in StopsAt(queue', t) <=> i \in StopsAt(queue, t)
    BY <1>4, <1>5, PlacesMean
  <2> QED BY <2>1, <2>2
<1>7. \A t : OffFor(events, t) => OffFor(events', t)
  BY <1>1, AgedOff
<1>8. \A t \in Shutters : Ends(t)'
  <2> SUFFICES ASSUME NEW t \in Shutters, Moves(t)' PROVE Ends(t)'
    BY DEF Ends
  <2>1. Moves(t) /\ (Held(t) => Held(t)') /\ (Stopped(queue, t) => Stopped(queue', t))
    BY <1>1, <1>6 DEF Moves, Held, Stopped
  <2> QED BY <1>1, <1>7, <2>1 DEF Ends
<1>9. Wired(queue)'
  BY <1>1, <1>4, <1>5 DEF Wired
<1>10. Delayed(queue)' \subseteq loose'
  BY <1>1, <1>4, <1>6, PlacesMean DEF Delayed
<1>11. LoopInv'
  BY <1>1 DEF LoopInv
<1> QED BY <1>8, <1>9, <1>10, <1>11 DEF EndInv

LEMMA EventsEnds ==
  ASSUME IInv, Events
  PROVE  EndInv'
<1>1. /\ TypeOK /\ queue \in Seq(EntryType) /\ events \in Seq(EventType) /\ Wired(queue)
      /\ (todo # {} => pc = "incoming")
  BY DEF IInv, TypeInv, TypeOK, EndInv, LoopInv
<1>2. CASE Pass \/ EndEvents
  BY <1>1, <1>2, SameEnds DEF Pass, EndEvents, AtEvent, ghosts
<1>3. ASSUME AtEvent
      PROVE  it \in 1..Len(events) /\ it \in DOMAIN events /\ events[it] \in EventType /\ todo = {}
  BY <1>1, <1>3, LenProperties, ElementOfSeq DEF AtEvent
<1>4. CASE RunShutter
  <2> DEFINE s == -events[it].var
             c == events[it].cmd
             r == Obey(queue, events, s, c)
  <2>1. s \in Shutters /\ c \in Text /\ events[it].type = "shutter" /\ AtEvent
    <3>1. AtEvent /\ events[it].type = "shutter"
      BY <1>4 DEF RunShutter
    <3>2. /\ events[it].var \in {-x : x \in Shutters} /\ c \in Text
      BY <1>3, <3>1 DEF EventType
    <3> QED BY <3>1, <3>2 DEF Shutters
  <2>2. /\ UNCHANGED <<relay, button, panel, todo>> /\ pc' = pc /\ todo = {}
    BY <1>3, <1>4, <2>1 DEF RunShutter
  <2>3. CASE MayMove
    <3>1. queue' = r[1] /\ events' = RemoveAt(r[2], it) /\ NoteCommand(s, c)
      BY <1>4, <2>3 DEF RunShutter
    <3> HIDE DEF s, c
    <3>2. r[2] \in Seq(EventType) /\ it \in DOMAIN r[2] /\ r[2][it].type = "shutter"
      BY <1>3, <2>1, ObeyEnds
    <3>3. \A t : OffFor(r[2], t) => OffFor(events', t)
      <4> HIDE DEF r
      <4> QED BY <3>1, <3>2, RemovedOff, LenProperties
    <3> QED BY <2>1, <2>2, <3>1, <3>3, CommandEnds
  <2>4. CASE ~MayMove
    <3>1. events' = RemoveAt(events, it) /\ UNCHANGED <<queue, loose>>
      BY <1>4, <2>4 DEF RunShutter
    <3>2. \A t : OffFor(events, t) => OffFor(events', t)
      BY <1>1, <1>3, <2>1, <3>1, RemovedOff
    <3> QED BY <2>2, <3>1, <3>2, SameEnds
  <2> QED BY <2>3, <2>4
<1>5. CASE RunOff
  <2> DEFINE s == events[it].var
  <2>1. s \in Shutters /\ AtEvent
    <3>1. AtEvent /\ events[it].type = "off"
      BY <1>5 DEF RunOff
    <3> QED BY <1>3, <3>1 DEF EventType
  <2>2. /\ queue' = Order(queue, s, OnOff(s), "0", 0) /\ NoteStop(s) /\ events' = RemoveAt(events, it)
        /\ UNCHANGED <<relay, button, panel, todo>> /\ pc' = pc
    BY <1>5 DEF RunOff
  <2>3. \A t \in Shutters \ {s} : OffFor(events, t) => OffFor(events', t)
    BY <1>1, <1>3, <2>1, <2>2, RemovedOff
  <2> HIDE DEF s
  <2>4. Keeps(queue', queue, s) /\ Halts(queue', queue, s)
    BY <1>1, <2>1, <2>2, OrderKeeps DEF MotorValues
  <2> QED BY <2>1, <2>2, <2>3, <2>4, StopEnds
<1> QED BY <1>2, <1>4, <1>5 DEF Events

LEMMA NextEnds == IInv /\ [Next]_vars => IInv'
<1> SUFFICES ASSUME IInv, [Next]_vars PROVE EndInv'
  BY NextType DEF IInv
<1>1. CASE UNCHANGED vars
  BY <1>1 DEF vars, ghosts, IInv, EndInv, Ends, LoopInv, Moves, Held
<1>2. CASE WindRises
  <2> DEFINE up == [kind |-> "whole", side |-> Up]
  <2>1. up \in Command /\ events \in Seq(EventType)
    BY DEF Command, Sides, IInv, TypeInv, TypeOK
  <2>2. events' = Supersede(events, up) \/ events' = events
    BY <1>2 DEF WindRises
  <2> HIDE DEF up
  <2>3. \A t : OffFor(events, t) => OffFor(events', t)
    BY <2>1, <2>2, SupersededOff
  <2> QED BY <1>2, <2>3, SameEnds DEF WindRises, Incoming
<1>3. CASE WindFalls
  BY <1>3, SameEnds DEF WindFalls, Incoming
<1>4. ASSUME NEW s \in Shutters, StepsEnd(s) PROVE EndInv'
  <2>1. \A t \in Shutters : relay'[t] = "1" => relay[t] = "1"
    BY <1>4 DEF StepsEnd, IInv, TypeInv, TypeOK
  <2>2. pc' = "incoming" \/ todo = {}
    BY <1>4 DEF StepsEnd, IInv, EndInv, LoopInv
  <2> QED BY <1>4, <2>1, <2>2, SameEnds DEF StepsEnd, ghosts
<1> QED BY <1>1, <1>2, <1>3, <1>4, PanelEnds, ButtonEnds, SentEnds, SecondEnds, EventsEnds
        DEF Next, Sender, Seconds

(* What moves has an end: nothing that buttons, panel, clock, wind and the *)
(* delayed messages do to each other leaves a shutter running with no stop *)
(* to come, but in the cases that loose names.                             *)
THEOREM MoveCorrect == Spec => []MoveHasEnd
<1>1. IInv => MoveHasEnd
  BY EndMeans DEF IInv, EndInv
<1> QED BY <1>1, InitEnds, NextEnds, PTL DEF Spec
=============================================================================
