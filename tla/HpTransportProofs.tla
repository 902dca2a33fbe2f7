------------------------- MODULE HpTransportProofs -------------------------
(***************************************************************************)
(* Proofs about HpTransport: its types, the bound on attempts, the         *)
(* exclusive use of the message letters, the answers that find their own   *)
(* message, the numbers that are given back and the HBXs that are released *)
(* from reset, for every number of HBXs, every size of the pools and every *)
(* delay.                                                                  *)
(***************************************************************************)
EXTENDS HpTransport, HpSenderProofs, FiniteSetTheorems

(* What the reset command needs in addition to its type: the value that is *)
(* written to D0 comes first, whatever has been merged behind it.          *)
WellFormed(m) == m.type = "0" => m.items # <<>> /\ m.items[1].val \in {"4", "5"}
Commands == {m \in Message : WellFormed(m)}
Attempts == 0..(MAX_RESEND_COUNT - 1)
Entries == {e \in Entry : e.resend \in Attempts /\ WellFormed(e)}
SentEntries == {e \in SentEntry : e.sent_count \in Attempts /\ WellFormed(e)}

(* The inductive invariant about types, attempts and reset commands.       *)
TypeInv ==
  /\ TypeOK
  /\ queue \in Seq(Entries) /\ sent \subseteq SentEntries /\ IsFiniteSet(sent)
  /\ \A t \in todo : t.m \in Commands

----------------------------------------------------------------------------
(* What Lowest takes from a nonempty set of natural numbers. *)
LEMMA LowestInSet ==
  ASSUME NEW S, S \subseteq Nat, S # {}
  PROVE  Lowest(S) \in S /\ \A y \in S : Lowest(S) <= y
BY LeastExists DEF Lowest

(* The messages the program makes are commands.                            *)
LEMMA CommandTypes ==
  ASSUME NEW h \in Hbx
  PROVE  /\ \A p \in Pins, v \in Values : Output(h, p, v) \in Commands
         /\ ResetLow(h) \in Commands /\ ResetHigh(h) \in Commands
         /\ Diagnostics(h) \in Commands /\ UMessage(h) \in Commands
<1>1. \A x \in Item : <<x>> \in Seq(Item) /\ <<x>>[1] = x /\ <<x>> # <<>>
  OBVIOUS
<1>2. \A t \in Types, s \in Seq(Item) : Msg(h, t, s) \in Message
  BY DEF Msg, Message
<1>3. \A p \in Pins, v \in Values : Output(h, p, v) \in Commands
  <2> SUFFICES ASSUME NEW p \in Pins, NEW v \in Values PROVE Output(h, p, v) \in Commands
    OBVIOUS
  <2>1. [pin |-> p, val |-> v] \in Item
    BY DEF Item
  <2>2. Output(h, p, v) \in Message
    BY <2>1, <1>1, <1>2 DEF Output, Types
  <2> QED BY <2>2 DEF Commands, WellFormed, Output, Msg
<1>4. ResetLow(h) \in Commands /\ ResetHigh(h) \in Commands
  <2>1. \A v \in {"4", "5"} : [pin |-> "D0", val |-> v] \in Item
    BY DEF Item
  <2>2. \A v \in {"4", "5"} : Msg(h, "0", <<[pin |-> "D0", val |-> v]>>) \in Message
    BY <2>1, <1>1, <1>2 DEF Types
  <2>3. \A v \in {"4", "5"} : WellFormed(Msg(h, "0", <<[pin |-> "D0", val |-> v]>>))
    BY <2>1, <1>1 DEF WellFormed, Msg
  <2> QED BY <2>2, <2>3 DEF Commands, ResetLow, ResetHigh
<1>5. Diagnostics(h) \in Commands
  <2>1. [pin |-> "X", val |-> ""] \in Item
    BY DEF Item
  <2>2. Diagnostics(h) \in Message
    BY <2>1, <1>1, <1>2 DEF Diagnostics, Types
  <2> QED BY <2>2 DEF Commands, WellFormed, Diagnostics, Msg
<1>6. UMessage(h) \in Commands
  <2>1. UMessage(h) \in Message
    BY <1>2, EmptySeq DEF UMessage, Types
  <2> QED BY <2>1 DEF Commands, WellFormed, UMessage, Msg
<1> QED BY <1>3, <1>4, <1>5, <1>6

LEMMA HeadOfConcat ==
  ASSUME NEW S, NEW s \in Seq(S), NEW t \in Seq(S), s # <<>>
  PROVE  s \o t \in Seq(S) /\ s \o t # <<>> /\ (s \o t)[1] = s[1]
<1>1. Len(s) \in Nat /\ Len(t) \in Nat /\ Len(s) # 0
  BY EmptySeq, LenProperties
<1>2. 1 \in 1..(Len(s) + Len(t)) /\ 1 <= Len(s)
  BY <1>1
<1> QED BY <1>2, ConcatProperties, ConcatEqualIffEmpty

LEMMA MergeType ==
  ASSUME NEW e \in Entries, NEW m \in Commands
  PROVE  Merge(e, m) \in Entries
<1> DEFINE both == e.items \o m.items
           f == [e EXCEPT !.items = both]
<1>1. e.items \in Seq(Item) /\ m.items \in Seq(Item) /\ e \in Entry
  BY DEF Entries, Entry, Commands, Message
<1>2. both \in Seq(Item)
  BY <1>1, ConcatProperties
<1>3. e.type = "0" => both # <<>> /\ both[1].val \in {"4", "5"}
  BY <1>1, HeadOfConcat DEF WellFormed, Entries
<1>4. f \in Entries /\ f \in Entry
  <2> HIDE DEF both
  <2> QED BY <1>1, <1>2, <1>3 DEF Entries, Entry, WellFormed
<1>5. Merge(e, m) = [f EXCEPT !.counter = f.counter + 1]
  BY DEF Merge
<1> HIDE DEF f
<1>6. [f EXCEPT !.counter = f.counter + 1] \in Entry
  BY <1>4 DEF Entry
<1> QED BY <1>4, <1>5, <1>6 DEF Entries, Entry, WellFormed

(* add_message keeps the queue well typed. *)
LEMMA AddMessageType ==
  ASSUME NEW q \in Seq(Entries), NEW m \in Commands, NEW resend \in Attempts,
         NEW priority \in Nat, NEW delay \in Nat
  PROVE  AddMessage(q, m, resend, priority, delay) \in Seq(Entries)
<1>1. \A e \in Entries : [e EXCEPT !.delay = delay] \in Entries
  BY DEF Entries, Entry, WellFormed
<1>2. \A e \in Entries : Merge(e, m) \in Entries
  BY MergeType
<1>3. NewEntry(m, resend, priority, delay) \in Entries
  BY DEF NewEntry, Entries, Entry, Commands, Message, WellFormed, Attempts
<1> QED BY <1>1, <1>2, <1>3, AddMessageKeeps

----------------------------------------------------------------------------
(* What the helpers of the actions keep.                                   *)

LEMMA ConsideredType ==
  ASSUME NEW e \in Entries
  PROVE  Considered(e) \in Entries
<1> DEFINE f == [e EXCEPT !.postpone = e.postpone + 1]
           g == [f EXCEPT !.delay = DELAY_100]
<1>1. e \in Entry
  BY DEF Entries
<1>2. f \in Entries /\ f \in Entry
  BY <1>1 DEF Entries, Entry, WellFormed
<1>3. Considered(e) = IF Postponed(e) THEN g ELSE e
  BY DEF Considered
<1> HIDE DEF f
<1>4. g \in Entry
  BY <1>2, DelayAssumption DEF Entry
<1>5. g \in Entries
  BY <1>2, <1>4 DEF Entries, Entry, WellFormed
<1> QED BY <1>3, <1>5

LEMMA SortedType ==
  ASSUME NEW q \in Seq(Entries), NEW r, StableSort(q, r)
  PROVE  r \in Seq(Entries)
<1>1. PICK p \in [DOMAIN q -> DOMAIN q] : r = [i \in DOMAIN q |-> q[p[i]]]
  BY DEF StableSort
<1>2. Len(q) \in Nat /\ DOMAIN q = 1..Len(q) /\ \A j \in DOMAIN q : q[j] \in Entries
  BY LenProperties, ElementOfSeq
<1>3. r \in [1..Len(q) -> Entries]
  BY <1>1, <1>2
<1> QED BY <1>2, <1>3, FunctionIsSeq

LEMMA RestartType ==
  ASSUME NEW q \in Seq(Entries), NEW h \in Hbx
  PROVE  RestartMessages(q, h) \in Seq(Entries)
<1>1. 0 \in Attempts
  BY SizeAssumption DEF Attempts
<1>2. ResetLow(h) \in Commands /\ ResetHigh(h) \in Commands
  BY CommandTypes
<1>3. AddMessage(q, ResetLow(h), 0, 0, 0) \in Seq(Entries)
  BY <1>1, <1>2, AddMessageType
<1> QED BY <1>1, <1>2, <1>3, DelayAssumption, AddMessageType DEF RestartMessages

LEMMA DecreaseType ==
  ASSUME mess_counter \in [Hbx -> Nat], NEW h \in Hbx, NEW n \in Nat
  PROVE  Decrease(h, n) \in [Hbx -> Nat]
BY DEF Decrease, Decrement

LEMMA FreeXbeeIdsType ==
  ASSUME xbee_busy \subseteq Frames, NEW fs
  PROVE  FreeXbeeIds(fs) \subseteq Frames
BY DEF FreeXbeeIds

LEMMA FramesFinite == IsFiniteSet(Frames)
BY SizeAssumption, FS_Interval DEF Frames

LEMMA CompleteType ==
  ASSUME TypeInv, NEW h \in Hbx, NEW done, done \subseteq sent, Complete(h, done)
  PROVE  /\ sent' \subseteq SentEntries /\ IsFiniteSet(sent')
         /\ uc_busy' \subseteq UcIds /\ xbee_busy' \subseteq Frames
         /\ mess_counter' \in [Hbx -> Nat]
<1> DEFINE frames == {e.frame : e \in done} \cap {f \in xbee_busy : Freeable(f)}
<1>1. sent' \subseteq sent /\ IsFiniteSet(sent')
  BY FS_Subset DEF Complete, TypeInv
<1>2. uc_busy' \subseteq UcIds /\ xbee_busy' \subseteq Frames
  BY DEF Complete, TypeInv, TypeOK
<1>3. Cardinality(frames) \in Nat
  <2>1. frames \subseteq Frames
    BY DEF TypeInv, TypeOK
  <2> QED BY <2>1, FramesFinite, FS_Subset, FS_CardinalityType
<1>4. mess_counter' \in [Hbx -> Nat]
  BY <1>3, DecreaseType DEF Complete, TypeInv, TypeOK
<1> QED BY <1>1, <1>2, <1>4 DEF TypeInv

LEMMA ReleaseType ==
  ASSUME TypeInv, NEW e \in sent, Release(e)
  PROVE  /\ sent' \subseteq SentEntries /\ IsFiniteSet(sent')
         /\ uc_busy' \subseteq UcIds /\ xbee_busy' \subseteq Frames
         /\ mess_counter' \in [Hbx -> Nat]
<1>1. sent' \subseteq sent /\ IsFiniteSet(sent')
  BY FS_Subset DEF Release, TypeInv
<1>2. uc_busy' \subseteq UcIds /\ xbee_busy' \subseteq Frames
  BY FreeXbeeIdsType DEF Release, TypeInv, TypeOK
<1>3. e.hbx \in Hbx
  BY DEF TypeInv, SentEntries, SentEntry
<1>4. mess_counter' \in [Hbx -> Nat]
  BY <1>3, DecreaseType DEF Release, TypeInv, TypeOK
<1> QED BY <1>1, <1>2, <1>4 DEF TypeInv

(* A number that is taken from a pool was not taken before. *)
LEMMA TakenFrameFree ==
  ASSUME FreeFrames # {}
  PROVE  TakenFrame \in Frames /\ TakenFrame \notin xbee_busy
<1>1. FreeFrames \subseteq Nat
  BY SizeAssumption DEF FreeFrames, Frames
<1> QED BY <1>1, LowestInSet DEF TakenFrame, FreeFrames

LEMMA TakenUcFree ==
  ASSUME NEW t
  PROVE  TakenUc(t) = NONE \/ (TakenUc(t) \in UcIds /\ TakenUc(t) \notin uc_busy)
<1>1. FreeUcs \subseteq Nat
  BY SizeAssumption DEF FreeUcs, UcIds
<1> QED BY <1>1, LowestInSet DEF TakenUc, FreeUcs

LEMMA SpendType ==
  ASSUME NEW what \in Events, budget \in [Events -> Nat], Spend(what)
  PROVE  budget' \in [Events -> Nat]
BY DEF Spend

----------------------------------------------------------------------------
(* TypeInv holds at the start and is kept by every action.                 *)

LEMMA InitType == Init => TypeInv
<1> SUFFICES ASSUME Init PROVE TypeInv
  OBVIOUS
<1>1. <<>> \in Seq(Entries) /\ <<>> \in Seq(Entry) /\ IsFiniteSet({})
  BY EmptySeq, FS_EmptySet
<1> QED
  BY <1>1, EnvironmentAssumption, SizeAssumption DEF Init, TypeInv, TypeOK, NONE

LEMMA QueueType ==
  ASSUME NEW q \in Seq(Entries)
  PROVE  q \in Seq(Entry)
BY SeqMonotonic DEF Entries

LEMMA IncomingType ==
  ASSUME TypeInv, Incoming
  PROVE  TypeInv'
<1> USE DEF AtIncoming
<1>1. ASSUME NEW h \in Hbx, NEW p \in Pins, NEW v \in Values, NEW d \in CommandDelays,
             Command(h, p, v, d)
      PROVE  TypeInv'
  <2>1. queue' \in Seq(Entries)
    <3>1. Output(h, p, v) \in Commands /\ d \in Nat /\ 0 \in Attempts
      BY CommandTypes, DelayAssumption, SizeAssumption DEF Attempts
    <3> QED BY <1>1, <3>1, AddMessageType DEF Command, TypeInv
  <2>2. budget' \in [Events -> Nat]
    BY <1>1, SpendType DEF Command, TypeInv, TypeOK, Events
  <2> QED BY <1>1, <2>1, <2>2, QueueType DEF Command, TypeInv, TypeOK, idVars, hbxVars
<1>2. ASSUME NEW a \in air, Txstat(a)
      PROVE  TypeInv'
  <2>1. xbee_busy' \subseteq Frames /\ mess_counter' \in [Hbx -> Nat]
    <3> DEFINE same == {e \in sent : e.frame = a.frame}
    <3>1. CASE same = {}
      BY <1>2, <3>1 DEF Txstat, TypeInv, TypeOK
    <3>2. CASE same # {}
      <4>1. PICK e \in same : /\ mess_counter' = Decrease(e.hbx, 1)
                             /\ xbee_busy' = FreeXbeeIds({a.frame})
        BY <1>2, <3>2 DEF Txstat
      <4>2. e.hbx \in Hbx
        BY DEF TypeInv, SentEntries, SentEntry
      <4> QED BY <4>1, <4>2, DecreaseType, FreeXbeeIdsType DEF TypeInv, TypeOK
    <3> QED BY <3>1, <3>2
  <2> QED BY <1>2, <2>1 DEF Txstat, TypeInv, TypeOK
<1>3. ASSUME NEW a \in air, DrvAck(a)
      PROVE  TypeInv'
  <2> DEFINE same == {e \in sent : e.frame = a.frame}
  <2>1. sent' \subseteq sent /\ IsFiniteSet(sent') /\ IsFiniteSet(same)
    <3>1. sent' = sent \ same
      BY <1>3 DEF DrvAck
    <3> QED BY <3>1, FS_Subset DEF TypeInv
  <2>2. xbee_busy' \subseteq Frames
    BY <1>3, FreeXbeeIdsType DEF DrvAck, TypeInv, TypeOK
  <2>3. mess_counter' \in [Hbx -> Nat]
    <3>1. Cardinality(same) \in Nat /\ a.hbx \in Hbx
      BY <2>1, FS_CardinalityType DEF TypeInv, TypeOK, Answer
    <3>2. mess_counter' = Decrease(a.hbx, Cardinality(same))
      BY <1>3 DEF DrvAck
    <3> QED BY <3>1, <3>2, DecreaseType DEF TypeInv, TypeOK
  <2> QED BY <1>3, <2>1, <2>2, <2>3 DEF DrvAck, TypeInv, TypeOK
<1>4. ASSUME NEW a \in air, Ack(a)
      PROVE  TypeInv'
  <2>1. a.hbx \in Hbx
    BY DEF TypeInv, TypeOK, Answer
  <2> QED BY <1>4, <2>1, CompleteType DEF Ack, Heard, TypeInv, TypeOK, SentEntries
<1>5. ASSUME NEW a \in air, AckWithNack(a)
      PROVE  TypeInv'
  <2>1. a.hbx \in Hbx
    BY DEF TypeInv, TypeOK, Answer
  <2>2. queue' \in Seq(Entries)
    BY <1>5, <2>1, RestartType DEF AckWithNack, TypeInv
  <2>3. protect' \subseteq Hbx /\ restart_type' \in [Hbx -> {NONE, NACK, WATCHDOG}]
    BY <1>5, <2>1 DEF AckWithNack, TypeInv, TypeOK
  <2>4. budget' \in [Events -> Nat]
    BY <1>5, SpendType DEF AckWithNack, TypeInv, TypeOK, Events
  <2>5. /\ sent' \subseteq SentEntries /\ IsFiniteSet(sent')
        /\ uc_busy' \subseteq UcIds /\ xbee_busy' \subseteq Frames
        /\ mess_counter' \in [Hbx -> Nat]
    BY <1>5, <2>1, CompleteType DEF AckWithNack
  <2> QED
    BY <1>5, <2>2, <2>3, <2>4, <2>5, QueueType
    DEF AckWithNack, Heard, TypeInv, TypeOK, SentEntries
<1>6. ASSUME NEW a \in air, UAck(a)
      PROVE  TypeInv'
  <2>1. a.hbx \in Hbx
    BY DEF TypeInv, TypeOK, Answer
  <2>2. restart_type' \in [Hbx -> {NONE, NACK, WATCHDOG}]
    BY <1>6 DEF UAck, TypeInv, TypeOK
  <2>3. todo' \subseteq [ord : Nat, delay : Nat, m : Message] /\ \A t \in todo' : t.m \in Commands
    <3>1. CASE UNCHANGED todo
      BY <3>1 DEF TypeInv, TypeOK
    <3>2. ASSUME NEW place \in [Pins -> 0..(Cardinality(Pins) - 1)], NEW status \in [Pins -> Values],
                 todo' = {[ord |-> place[p], delay |-> place[p] * DELAY_20,
                           m |-> Output(a.hbx, p, status[p])] : p \in Pins}
          PROVE  todo' \subseteq [ord : Nat, delay : Nat, m : Message] /\ \A t \in todo' : t.m \in Commands
      <4>1. \A p \in Pins : place[p] \in Nat /\ status[p] \in Values
        BY SizeAssumption, FS_CardinalityType
      <4>2. \A p \in Pins : place[p] * DELAY_20 \in Nat
        BY <4>1, DelayAssumption
      <4>3. \A p \in Pins : Output(a.hbx, p, status[p]) \in Commands
        BY <4>1, <2>1, CommandTypes
      <4> QED BY <3>2, <4>1, <4>2, <4>3 DEF Commands
    <3> QED BY <1>6, <3>1, <3>2 DEF UAck
  <2>4. budget' \in [Events -> Nat]
    BY <1>6, SpendType DEF UAck, TypeInv, TypeOK, Events
  <2>5. /\ sent' \subseteq SentEntries /\ IsFiniteSet(sent')
        /\ uc_busy' \subseteq UcIds /\ xbee_busy' \subseteq Frames
        /\ mess_counter' \in [Hbx -> Nat]
    BY <1>6, <2>1, CompleteType DEF UAck
  <2> QED
    BY <1>6, <2>2, <2>3, <2>4, <2>5 DEF UAck, Heard, TypeInv, TypeOK, SentEntries
<1>7. ASSUME NEW a \in air, XAct(a)
      PROVE  TypeInv'
  <2>1. a.hbx \in Hbx
    BY DEF TypeInv, TypeOK, Answer
  <2> QED BY <1>7, <2>1, CompleteType DEF XAct, Heard, TypeInv, TypeOK, SentEntries
<1>8. ASSUME NEW h \in Hbx, Boot(h), air' \subseteq air, budget' \in [Events -> Nat]
      PROVE  TypeInv'
  <2>1. queue' \in Seq(Entries)
    <3>1. UMessage(h) \in Commands /\ 0 \in Attempts
      BY CommandTypes, SizeAssumption DEF Attempts
    <3> QED BY <1>8, <3>1, AddMessageType, DelayAssumption DEF Boot, TypeInv
  <2>2. quiet' \subseteq Hbx
    BY <1>8 DEF Boot, Heard, TypeInv, TypeOK
  <2> QED BY <1>8, <2>1, <2>2, QueueType DEF Boot, TypeInv, TypeOK, idVars
<1>9. ASSUME NEW a \in air, Brc(a)
      PROVE  TypeInv'
  <2>1. a.hbx \in Hbx
    BY DEF TypeInv, TypeOK, Answer
  <2> QED BY <1>8, <1>9, <2>1 DEF Brc, TypeInv, TypeOK
<1>10. ASSUME NEW h \in Hbx, SpontaneousBoot(h)
       PROVE  TypeInv'
  <2>1. budget' \in [Events -> Nat]
    BY <1>10, SpendType DEF SpontaneousBoot, TypeInv, TypeOK, Events
  <2> QED BY <1>8, <1>10, <2>1 DEF SpontaneousBoot
<1> QED
  BY <1>1, <1>2, <1>3, <1>4, <1>5, <1>6, <1>7, <1>9, <1>10 DEF Incoming, Handle

LEMMA AddStepType ==
  ASSUME TypeInv, AddStep
  PROVE  TypeInv'
<1>1. PICK t \in todo : /\ queue' = AddMessage(queue, t.m, 0, 0, t.delay)
                       /\ todo' = todo \ {t}
  BY DEF AddStep
<1>2. t.m \in Commands /\ t.delay \in Nat /\ 0 \in Attempts
  BY SizeAssumption DEF TypeInv, TypeOK, Attempts
<1>3. queue' \in Seq(Entries)
  BY <1>1, <1>2, AddMessageType DEF TypeInv
<1> QED BY <1>1, <1>3, QueueType DEF AddStep, TypeInv, TypeOK, idVars, hbxVars

(* The entry that send_messages looks at, and the queue without it or with *)
(* it as it is after a postponement.                                       *)
LEMMA CurrentEntry ==
  ASSUME TypeInv, AtEntry
  PROVE  /\ queue[it] \in Entries /\ it \in 1..Len(queue) /\ it + 1 \in Nat \ {0}
         /\ RemoveAt(queue, it) \in Seq(Entries)
         /\ [queue EXCEPT ![it] = Considered(queue[it])] \in Seq(Entries)
<1>1. it \in DOMAIN queue /\ queue \in Seq(Entries) /\ it \in Nat \ {0}
  BY DEF AtEntry, TypeInv, TypeOK
<1>2. queue[it] \in Entries /\ it \in 1..Len(queue)
  BY <1>1, ReplaceType
<1>3. RemoveAt(queue, it) \in Seq(Entries)
  BY <1>1, <1>2, Removed
<1>4. Considered(queue[it]) \in Entries
  BY <1>2, ConsideredType
<1> QED BY <1>1, <1>2, <1>3, <1>4, ReplaceType

LEMMA TransmitType ==
  ASSUME TypeInv, NEW e \in Entries, NEW f \in Frames, NEW u \in UcIds \cup {NONE},
         Transmit(e, f, u)
  PROVE  /\ air' \subseteq Answer /\ line' \in [Hbx -> {"4", "5"}]
         /\ budget' \in [Events -> Nat]
<1>1. e.hbx \in Hbx
  BY DEF Entries, Entry
<1>2. Report(e, f) \subseteq Answer /\ Answers(e, f, u) \subseteq Answer
  <2>1. \A k \in AnswerKinds, g \in Frames \cup {NONE} : Reply(k, e.hbx, g, u) \in Answer
                                                    /\ Reply(k, e.hbx, g, NONE) \in Answer
    BY <1>1 DEF Reply, Answer
  <2>2. Report(e, f) \subseteq Answer
    BY <2>1 DEF Report, AnswerKinds
  <2>3. e.type = "0" \/ e.type = "1" \/ e.type = "8" \/ e.type = "9"
    BY DEF Entries, Entry, Types
  <2> QED BY <2>1, <2>2, <2>3 DEF Answers, AnswerKinds
<1>3. air' \subseteq Answer
  <2>1. air \subseteq Answer
    BY DEF TypeInv, TypeOK
  <2> QED BY <2>1, <1>2 DEF Transmit
<1>4. line' \in [Hbx -> {"4", "5"}]
  <2>1. e.type = "0" => e.items[1].val \in {"4", "5"}
    BY DEF Entries, WellFormed
  <2> QED BY <1>1, <2>1 DEF Transmit, TypeInv, TypeOK
<1>5. budget' \in [Events -> Nat]
  BY SpendType DEF Transmit, TypeInv, TypeOK, Events
<1> QED BY <1>3, <1>4, <1>5

LEMMA SendType ==
  ASSUME TypeInv, Send
  PROVE  TypeInv'
<1> USE DEF Due, Ready
<1>1. ASSUME StartSend PROVE TypeInv'
  <2>1. queue' \in Seq(Entries)
    BY <1>1, SortedType DEF StartSend, TypeInv
  <2> QED BY <1>1, <2>1, QueueType DEF StartSend, TypeInv, TypeOK, idVars, hbxVars
<1>2. ASSUME CountDelay PROVE TypeInv'
  <2>1. queue[it] \in Entry /\ queue[it] \in Entries /\ it \in DOMAIN queue
    BY <1>2, CurrentEntry DEF CountDelay, AtEntry, Entries
  <2>2. [queue[it] EXCEPT !.delay = @ - 1] \in Entries
    BY <1>2, <2>1 DEF CountDelay, Entries, Entry, WellFormed
  <2>3. queue' \in Seq(Entries)
    <3>1. queue' = [queue EXCEPT ![it] = [queue[it] EXCEPT !.delay = @ - 1]]
      BY <1>2 DEF CountDelay
    <3> QED BY <3>1, <2>1, <2>2, ReplaceType DEF TypeInv
  <2>4. it' \in Nat \ {0}
    BY <1>2, CurrentEntry DEF CountDelay
  <2> QED BY <1>2, <2>3, <2>4, QueueType DEF CountDelay, TypeInv, TypeOK, idVars, hbxVars
<1>3. ASSUME DropEntry PROVE TypeInv'
  <2>1. queue' \in Seq(Entries)
    BY <1>3, CurrentEntry DEF DropEntry
  <2> QED BY <1>3, <2>1, QueueType DEF DropEntry, TypeInv, TypeOK, idVars, hbxVars
<1>4. ASSUME BufferFull PROVE TypeInv'
  <2>1. queue' \in Seq(Entries) /\ it' \in Nat \ {0}
    BY <1>4, CurrentEntry DEF BufferFull
  <2> QED BY <1>4, <2>1, QueueType DEF BufferFull, TypeInv, TypeOK, idVars, hbxVars
<1>5. start_id \in Nat => NextStart \in Nat
  BY DEF NextStart
<1>6. ASSUME NoIds PROVE TypeInv'
  <2>1. queue' \in Seq(Entries) /\ it' \in Nat \ {0}
    BY <1>6, CurrentEntry DEF NoIds
  <2>2. xbee_busy' \subseteq Frames
    <3>1. {TakenFrame} \ {NONE} \subseteq Frames
      BY TakenFrameFree DEF TakenFrame
    <3> QED BY <1>6, <3>1 DEF NoIds, TypeInv, TypeOK
  <2>3. uc_busy' \subseteq UcIds
    BY <1>6, TakenUcFree DEF NoIds, TypeInv, TypeOK
  <2> QED BY <1>5, <1>6, <2>1, <2>2, <2>3, QueueType DEF NoIds, TypeInv, TypeOK, hbxVars
<1>7. ASSUME SocketFails PROVE TypeInv'
  <2>1. queue' \in Seq(Entries) /\ it' \in Nat \ {0}
    BY <1>7, CurrentEntry DEF SocketFails
  <2>2. xbee_busy' \subseteq Frames
    BY <1>7, TakenFrameFree DEF SocketFails, HaveIds, TypeInv, TypeOK
  <2>3. budget' \in [Events -> Nat]
    BY <1>7, SpendType DEF SocketFails, TypeInv, TypeOK, Events
  <2> QED BY <1>5, <1>7, <2>1, <2>2, <2>3, QueueType DEF SocketFails, TypeInv, TypeOK, hbxVars
<1>8. ASSUME SendEntry PROVE TypeInv'
  <2> DEFINE e == queue[it]
             f == TakenFrame
             u == TakenUc(e.type)
             new == [hbx |-> e.hbx, type |-> e.type, items |-> e.items, uc |-> u,
                     frame |-> f, sent_count |-> e.resend, age |-> 0]
  <2>1. e \in Entries /\ e \in Entry /\ queue' \in Seq(Entries)
    BY <1>8, CurrentEntry DEF SendEntry, Entries
  <2>2. f \in Frames /\ u \in UcIds \cup {NONE}
    BY <1>8, TakenFrameFree, TakenUcFree DEF SendEntry, HaveIds
  <2>3. new \in SentEntries
    <3>1. e.resend \in Attempts /\ e.resend \in Nat /\ WellFormed(e)
      BY <2>1 DEF Entries, Entry
    <3> HIDE DEF e, f, u
    <3>2. new \in SentEntry
      BY <2>1, <2>2, <3>1 DEF Entry, SentEntry
    <3> QED BY <3>1, <3>2 DEF SentEntries, WellFormed
  <2>4. sent' \subseteq SentEntries /\ IsFiniteSet(sent')
    <3>1. sent' = sent \cup {new}
      BY <1>8 DEF SendEntry
    <3> HIDE DEF new
    <3> QED BY <3>1, <2>3, FS_AddElement DEF TypeInv
  <2>5. xbee_busy' \subseteq Frames /\ uc_busy' \subseteq UcIds /\ start_id' \in Nat
    BY <1>5, <1>8, <2>2 DEF SendEntry, TypeInv, TypeOK
  <2>6. mess_counter' \in [Hbx -> Nat]
    <3>1. mess_counter' = [mess_counter EXCEPT ![e.hbx] = @ + 1]
      BY <1>8 DEF SendEntry
    <3>2. e.hbx \in Hbx
      BY <2>1 DEF Entry
    <3> HIDE DEF e
    <3> QED BY <3>1, <3>2 DEF TypeInv, TypeOK
  <2>7. /\ air' \subseteq Answer /\ line' \in [Hbx -> {"4", "5"}]
        /\ budget' \in [Events -> Nat]
    <3>1. Transmit(e, f, u)
      BY <1>8 DEF SendEntry
    <3> HIDE DEF e, f, u
    <3> QED BY <2>1, <2>2, <3>1, TransmitType
  <2>8. UNCHANGED <<u_send, protect, restart_type, quiet, todo, pc, it>>
    BY <1>8 DEF SendEntry
  <2> HIDE DEF e, f, u, new
  <2> QED
    BY <2>1, <2>4, <2>5, <2>6, <2>7, <2>8, QueueType DEF TypeInv, TypeOK, SentEntries
<1>9. ASSUME EndSend PROVE TypeInv'
  BY <1>9 DEF EndSend, TypeInv, TypeOK, idVars, hbxVars
<1> QED
  BY <1>1, <1>2, <1>3, <1>4, <1>6, <1>7, <1>8, <1>9 DEF Send

LEMMA CheckType ==
  ASSUME TypeInv, Check
  PROVE  TypeInv'
<1> USE DEF Elapsed
<1>1. ASSUME NEW e \in sent, TimeoutDiagnostics(e) PROVE TypeInv'
  BY <1>1, ReleaseType DEF TimeoutDiagnostics, TypeInv, TypeOK, SentEntries
<1>2. ASSUME NEW e \in sent, TimeoutResend(e) PROVE TypeInv'
  <2>1. queue' \in Seq(Entries)
    <3>1. Msg(e.hbx, e.type, e.items) \in Commands
      BY DEF TypeInv, SentEntries, SentEntry, Msg, Commands, Message, WellFormed
    <3>2. e.sent_count + 1 \in Attempts
      BY <1>2, SizeAssumption DEF TimeoutResend, TypeInv, SentEntries, SentEntry, Attempts
    <3> QED BY <1>2, <3>1, <3>2, AddMessageType DEF TimeoutResend, TypeInv
  <2> QED
    BY <1>2, <2>1, ReleaseType, QueueType DEF TimeoutResend, TypeInv, TypeOK, SentEntries
<1>3. ASSUME NEW e \in sent, TimeoutLost(e) PROVE TypeInv'
  <2>1. e.hbx \in Hbx
    BY DEF TypeInv, SentEntries, SentEntry
  <2>2. queue' \in Seq(Entries)
    BY <1>3, <2>1, RestartType DEF TimeoutLost, TypeInv
  <2>3. protect' \subseteq Hbx /\ restart_type' \in [Hbx -> {NONE, NACK, WATCHDOG}]
    BY <1>3, <2>1 DEF TimeoutLost, TypeInv, TypeOK
  <2> QED
    BY <1>3, <2>2, <2>3, ReleaseType, QueueType DEF TimeoutLost, TypeInv, TypeOK, SentEntries
<1>4. ASSUME NEW next \in {"incoming", "second"}, EndCheck(next) PROVE TypeInv'
  <2>1. \A e \in sent : [e EXCEPT !.age = @ + 1] \in SentEntries
    BY DEF TypeInv, SentEntries, SentEntry, WellFormed
  <2>2. IsFiniteSet(sent')
    <3>1. sent' = {[e EXCEPT !.age = @ + 1] : e \in sent}
      BY <1>4 DEF EndCheck
    <3> DEFINE older == [e \in sent |-> [e EXCEPT !.age = @ + 1]]
    <3>2. older \in Surjection(sent, sent')
      BY <3>1 DEF Surjection
    <3> QED BY <3>2, FS_Surjection DEF TypeInv
  <2> QED
    BY <1>4, <2>1, <2>2 DEF EndCheck, TypeInv, TypeOK, SentEntries, idVars, hbxVars
<1> QED BY <1>1, <1>2, <1>3, <1>4 DEF Check

LEMMA SecondsType ==
  ASSUME TypeInv, Seconds
  PROVE  TypeInv'
<1>1. ASSUME SendDiagnostic PROVE TypeInv'
  <2>1. \A h \in Active : /\ h \in Nat /\ (h - 1) * DELAY_40 \in Nat
                           /\ Diagnostics(h) \in Commands
    BY SizeAssumption, DelayAssumption, CommandTypes DEF Hbx
  <2>2. todo' \subseteq [ord : Nat, delay : Nat, m : Message] /\ \A t \in todo' : t.m \in Commands
    BY <1>1, <2>1 DEF SendDiagnostic, Commands
  <2>3. budget' \in [Events -> Nat]
    BY <1>1, SpendType DEF SendDiagnostic, TypeInv, TypeOK, Events
  <2> QED BY <1>1, <2>2, <2>3 DEF SendDiagnostic, TypeInv, TypeOK, idVars, hbxVars
<1>2. ASSUME NEW u, NEW m, NEW p, NEW q \in SUBSET (Hbx \ quiet), Second(u, m, p, q) PROVE TypeInv'
  <2>1. mess_counter' \in [Hbx -> Nat]
    BY <1>2 DEF Second, Decrement, TypeInv, TypeOK
  <2>2. budget' \in [Events -> Nat]
    BY <1>2, SpendType DEF Second, TypeInv, TypeOK, Events
  <2> QED BY <1>2, <2>1, <2>2 DEF Second, TypeInv, TypeOK, idVars
<1> QED BY <1>1, <1>2 DEF Seconds

LEMMA NextType ==
  ASSUME TypeInv, [Next]_vars
  PROVE  TypeInv'
<1>1. CASE Next
  BY <1>1, IncomingType, AddStepType, SendType, CheckType, SecondsType DEF Next
<1>2. CASE UNCHANGED vars
  BY <1>2 DEF vars, idVars, hbxVars, TypeInv, TypeOK
<1> QED BY <1>1, <1>2

(* Every reachable state is well typed, whatever the number of HBXs, the   *)
(* sizes of the pools, the delays and the events of the environment.       *)
THEOREM TypeCorrect == Spec => []TypeOK
<1>1. TypeInv /\ [Next]_vars => TypeInv'
  BY NextType
<1>2. TypeInv => TypeOK
  BY DEF TypeInv
<1> QED BY InitType, <1>1, <1>2, PTL DEF Spec

(* No message is ever transmitted more than MAX_RESEND_COUNT times: the    *)
(* retries of check_sent_messages, the merging of add_message and the      *)
(* postponements of send_messages keep the count below the limit.          *)
THEOREM AttemptsCorrect == Spec => []AttemptsBounded
<1>1. TypeInv /\ [Next]_vars => TypeInv'
  BY NextType
<1>2. TypeInv => AttemptsBounded
  <2> SUFFICES ASSUME TypeInv PROVE AttemptsBounded
    OBVIOUS
  <2>1. \A i \in DOMAIN queue : queue[i] \in Entries
    BY LenProperties, ElementOfSeq DEF TypeInv
  <2>2. \A n \in Attempts : n < MAX_RESEND_COUNT
    BY SizeAssumption DEF Attempts
  <2> QED BY <2>1, <2>2 DEF AttemptsBounded, TypeInv, Entries, SentEntries
<1> QED BY InitType, <1>1, <1>2, PTL DEF Spec

----------------------------------------------------------------------------
(* A letter that waits for its answer belongs to one message.              *)

(* Whoever only removes entries or takes letters keeps it.                 *)
LEMMA FewerLetters ==
  ASSUME LettersExclusive, sent' \subseteq sent, uc_busy \subseteq uc_busy'
  PROVE  LettersExclusive'
BY DEF LettersExclusive

(* So does whoever gives back the letters of the entries it removes.       *)
LEMMA ReturnedLetters ==
  ASSUME LettersExclusive, NEW done, done \subseteq sent, sent' = sent \ done,
         uc_busy' = uc_busy \ {e.uc : e \in done}
  PROVE  LettersExclusive'
BY DEF LettersExclusive

LEMMA NextLetters ==
  ASSUME TypeInv, LettersExclusive, [Next]_vars
  PROVE  LettersExclusive'
<1>1. ASSUME UNCHANGED <<sent, uc_busy>> PROVE LettersExclusive'
  BY <1>1 DEF LettersExclusive
<1>2. ASSUME NEW h, NEW done, done \subseteq sent, Complete(h, done) PROVE LettersExclusive'
  BY <1>2, ReturnedLetters DEF Complete
<1>3. ASSUME NEW e \in sent, Release(e) PROVE LettersExclusive'
  <2>1. sent' = sent \ {e} /\ uc_busy' = uc_busy \ {x.uc : x \in {e}}
    BY <1>3 DEF Release
  <2> QED BY <2>1, ReturnedLetters
<1>4. ASSUME NEW a \in air, DrvAck(a) PROVE LettersExclusive'
  BY <1>4, FewerLetters DEF DrvAck
<1>5. CASE Incoming
  <2>1. ASSUME NEW h, Boot(h) PROVE UNCHANGED <<sent, uc_busy>>
    BY <2>1 DEF Boot, idVars
  <2>2. ASSUME NEW a \in air, Ack(a) \/ AckWithNack(a) \/ UAck(a) \/ XAct(a)
        PROVE  LettersExclusive'
    BY <2>2, <1>2 DEF Ack, AckWithNack, UAck, XAct
  <2>3. ASSUME NEW a \in air, Txstat(a) \/ Brc(a)
        PROVE  LettersExclusive'
    BY <2>3, <2>1, <1>1 DEF Txstat, Brc
  <2>4. ASSUME NEW h, NEW p, NEW v, NEW d, Command(h, p, v, d) \/ SpontaneousBoot(h)
        PROVE  LettersExclusive'
    BY <2>4, <2>1, <1>1 DEF Command, SpontaneousBoot, idVars
  <2>5. Handle => LettersExclusive'
    BY <2>2, <2>3, <1>4 DEF Handle
  <2> QED BY <1>5, <2>4, <2>5 DEF Incoming
<1>6. CASE AddStep
  BY <1>1, <1>6 DEF AddStep, idVars
<1>7. CASE Send
  <2>1. ASSUME SendEntry PROVE LettersExclusive'
    <3> DEFINE e == queue[it]
               u == TakenUc(e.type)
               new == [hbx |-> e.hbx, type |-> e.type, items |-> e.items, uc |-> u,
                       frame |-> TakenFrame, sent_count |-> e.resend, age |-> 0]
    <3>1. sent' = sent \cup {new} /\ uc_busy' = uc_busy \cup ({u} \ {NONE})
      BY <2>1 DEF SendEntry
    <3>2. u # NONE => u \notin uc_busy
      BY TakenUcFree
    <3>3. new.uc = u
      OBVIOUS
    <3> HIDE DEF u, new
    <3> QED BY <3>1, <3>2, <3>3 DEF LettersExclusive
  <2>2. ASSUME NoIds PROVE LettersExclusive'
    BY <2>2, FewerLetters DEF NoIds
  <2> QED
    BY <1>1, <1>7, <2>1, <2>2
    DEF Send, StartSend, CountDelay, DropEntry, BufferFull, SocketFails, EndSend, idVars
<1>8. CASE Check
  <2>1. ASSUME NEW e \in sent, TimeoutDiagnostics(e) \/ TimeoutResend(e) \/ TimeoutLost(e)
        PROVE  LettersExclusive'
    BY <2>1, <1>3 DEF TimeoutDiagnostics, TimeoutResend, TimeoutLost
  <2>2. ASSUME NEW next, EndCheck(next) PROVE LettersExclusive'
    <3>1. sent' = {[e EXCEPT !.age = @ + 1] : e \in sent} /\ uc_busy' = uc_busy
      BY <2>2 DEF EndCheck, idVars
    <3>2. \A e \in sent : [e EXCEPT !.age = @ + 1].uc = e.uc
      BY DEF TypeInv, SentEntries, SentEntry
    <3> DEFINE older(e) == [e EXCEPT !.age = @ + 1]
    <3>3. \A e \in sent : older(e).uc = e.uc
      BY <3>2
    <3>4. sent' = {older(e) : e \in sent}
      BY <3>1
    <3> HIDE DEF older
    <3> QED BY <3>1, <3>3, <3>4 DEF LettersExclusive
  <2> QED BY <1>8, <2>1, <2>2 DEF Check
<1>9. CASE Seconds
  BY <1>1, <1>9 DEF Seconds, SendDiagnostic, Second, idVars
<1>10. CASE UNCHANGED vars
  BY <1>1, <1>10 DEF vars, idVars
<1> QED BY <1>5, <1>6, <1>7, <1>8, <1>9, <1>10 DEF Next

(* In every reachable state each letter of my_send_messages is marked as   *)
(* taken in my_uc_mess_id and stands in one entry only: process_ack_mess,  *)
(* which knows a message by its letter alone, completes the right one.     *)
THEOREM LettersCorrect == Spec => []LettersExclusive
<1>1. Init => LettersExclusive
  BY DEF Init, LettersExclusive
<1>2. TypeInv /\ LettersExclusive /\ [Next]_vars => TypeInv' /\ LettersExclusive'
  BY NextType, NextLetters
<1> QED BY InitType, <1>1, <1>2, PTL DEF Spec

----------------------------------------------------------------------------
(* When answers are prompt, an answer completes the message it belongs to. *)

(* While messages are being sent no letter is given back, so the letters   *)
(* of the answers that are on their way stay taken.                        *)
AnswerInv ==
  /\ AckFindsItsOwn
  /\ \A a \in air : a.kind = "ack" => a.uc # NONE
  /\ pc = "send" => \A a \in air : a.kind = "ack" => a.uc \in uc_busy

LEMMA FewerAnswers ==
  ASSUME AnswerInv, air' \subseteq air, sent' \subseteq sent, pc' # "send"
  PROVE  AnswerInv'
BY DEF AnswerInv, AckFindsItsOwn

LEMMA SameAnswers ==
  ASSUME AnswerInv, UNCHANGED <<air, sent>>, uc_busy \subseteq uc_busy',
         pc' = "send" => pc = "send"
  PROVE  AnswerInv'
BY DEF AnswerInv, AckFindsItsOwn

LEMMA SendEntryAnswers ==
  ASSUME TypeInv, LettersExclusive, AnswerInv, SendEntry
  PROVE  AnswerInv'
<1> DEFINE e == queue[it]
           f == TakenFrame
           u == TakenUc(e.type)
           new == [hbx |-> e.hbx, type |-> e.type, items |-> e.items, uc |-> u,
                   frame |-> f, sent_count |-> e.resend, age |-> 0]
<1>1. /\ sent' = sent \cup {new} /\ uc_busy' = uc_busy \cup ({u} \ {NONE})
      /\ Transmit(e, f, u)
  BY DEF SendEntry
<1>2. pc = "send" /\ e \in Entries /\ (e.type # "0" => FreeUcs # {})
  BY CurrentEntry DEF SendEntry, Ready, Due, AtEntry, HaveIds
<1>3. u # NONE => u \notin uc_busy
  BY TakenUcFree
<1>4. e.type # "0" => u # NONE
  <2>1. FreeUcs \subseteq Nat \ {NONE}
    BY SizeAssumption DEF FreeUcs, UcIds, NONE
  <2> QED BY <1>2, <2>1, LowestInSet DEF TakenUc
<1>5. \A a \in air' : a \notin air /\ a.kind = "ack" => a.hbx = e.hbx /\ a.uc = u /\ u # NONE
  <2>1. \A a \in air' : a \in air \/ a \in Answers(e, f, u) \/ a \in Report(e, f)
    <3>1. Report(e, f) \subseteq Answers(e, f, u)
      BY DEF Answers
    <3> HIDE DEF e, f, u
    <3> QED BY <1>1, <3>1 DEF Transmit
  <2>2. \A a \in Report(e, f) : a.kind # "ack"
    BY DEF Report, Reply
  <2>3. \A a \in Answers(e, f, u) : a.kind = "ack" => e.type = "1" /\ a.hbx = e.hbx /\ a.uc = u
    <3>1. e.type = "0" \/ e.type = "1" \/ e.type = "8" \/ e.type = "9"
      BY <1>2 DEF Entries, Entry, Types
    <3> HIDE DEF e, f, u
    <3> QED BY <2>2, <3>1 DEF Answers, Reply
  <2> HIDE DEF e, f, u
  <2> QED BY <2>1, <2>2, <2>3, <1>4
<1>6. \A a \in air : a.kind = "ack" => a.uc \in uc_busy /\ a.uc # NONE
  BY <1>2 DEF AnswerInv
<1>7. new.uc = u /\ new.hbx = e.hbx
  OBVIOUS
<1>8. \A x \in sent : x.uc # NONE => x.uc \in uc_busy
  BY DEF LettersExclusive
<1> HIDE DEF e, f, u, new
<1>9. ASSUME NEW a \in air', NEW x \in sent', a.kind = "ack", a.uc = x.uc
      PROVE  a.hbx = x.hbx
  <2>1. CASE a \in air /\ x \in sent
    BY <2>1, <1>9 DEF AnswerInv, AckFindsItsOwn
  <2>2. CASE a \in air /\ x = new
    BY <2>2, <1>3, <1>6, <1>7, <1>9
  <2>3. CASE a \notin air /\ x \in sent
    BY <2>3, <1>3, <1>5, <1>8, <1>9
  <2>4. CASE a \notin air /\ x = new
    BY <2>4, <1>5, <1>7, <1>9
  <2> QED BY <1>1, <2>1, <2>2, <2>3, <2>4
<1> QED BY <1>1, <1>5, <1>6, <1>9 DEF AnswerInv, AckFindsItsOwn

LEMMA NextAnswers ==
  ASSUME Prompt, TypeInv, LettersExclusive, AnswerInv, [Next]_vars
  PROVE  AnswerInv'
<1> USE DEF AtIncoming
<1>1. CASE Incoming
  <2>1. pc' = pc /\ pc = "incoming"
    BY <1>1 DEF Incoming, Handle, Command, Txstat, DrvAck, Ack, AckWithNack, UAck, XAct, Brc,
                SpontaneousBoot, Boot
  <2>2. air' \subseteq air
    BY <1>1 DEF Incoming, Handle, Command, Txstat, DrvAck, Ack, AckWithNack, UAck, XAct, Brc,
                SpontaneousBoot
  <2>3. sent' \subseteq sent
    BY <1>1 DEF Incoming, Handle, Command, Txstat, DrvAck, Ack, AckWithNack, UAck, XAct, Brc,
                SpontaneousBoot, Boot, Complete
  <2> QED BY <2>1, <2>2, <2>3, FewerAnswers
<1>2. CASE AddStep
  BY <1>2, SameAnswers DEF AddStep, idVars
<1>3. CASE Send
  <2>1. CASE StartSend
    BY <2>1 DEF StartSend, AnswerInv, AckFindsItsOwn
  <2>2. CASE SendEntry
    BY <2>2, SendEntryAnswers
  <2>3. CASE EndSend
    BY <2>3, FewerAnswers DEF EndSend
  <2> QED
    BY <1>3, <2>1, <2>2, <2>3, SameAnswers
    DEF Send, CountDelay, DropEntry, BufferFull, NoIds, SocketFails, idVars
<1>4. CASE Check
  <2>1. ASSUME NEW e \in sent, TimeoutDiagnostics(e) \/ TimeoutResend(e) \/ TimeoutLost(e)
        PROVE  AnswerInv'
    BY <2>1, FewerAnswers
    DEF TimeoutDiagnostics, TimeoutResend, TimeoutLost, Elapsed, Release
  <2>2. ASSUME NEW next \in {"incoming", "second"}, EndCheck(next) PROVE AnswerInv'
    <3> DEFINE older(e) == [e EXCEPT !.age = @ + 1]
    <3>1. sent' = {older(e) : e \in sent} /\ air' = air /\ pc' # "send"
      BY <2>2 DEF EndCheck
    <3>2. \A e \in sent : older(e).uc = e.uc /\ older(e).hbx = e.hbx
      BY DEF TypeInv, SentEntries, SentEntry
    <3> HIDE DEF older
    <3> QED BY <3>1, <3>2 DEF AnswerInv, AckFindsItsOwn
  <2> QED BY <1>4, <2>1, <2>2 DEF Check
<1>5. CASE Seconds
  BY <1>5, SameAnswers DEF Seconds, SendDiagnostic, Second, idVars
<1>6. CASE UNCHANGED vars
  BY <1>6, SameAnswers DEF vars, idVars
<1> QED BY <1>1, <1>2, <1>3, <1>4, <1>5, <1>6 DEF Next

(* If no answer outlives the lap it was asked for in, the answer of one    *)
(* HBX never completes the message sent to another one, although           *)
(* process_ack_mess looks at the letter only.                              *)
THEOREM AnswersCorrect == ASSUME Prompt PROVE Spec => []AckFindsItsOwn
<1>1. Init => AnswerInv
  BY DEF Init, AnswerInv, AckFindsItsOwn
<1>2. Init => LettersExclusive
  BY DEF Init, LettersExclusive
<1>3. TypeInv /\ LettersExclusive /\ AnswerInv /\ [Next]_vars
      => TypeInv' /\ LettersExclusive' /\ AnswerInv'
  BY NextType, NextLetters, NextAnswers
<1>4. AnswerInv => AckFindsItsOwn
  BY DEF AnswerInv
<1> QED BY InitType, <1>1, <1>2, <1>3, <1>4, PTL DEF Spec
----------------------------------------------------------------------------
(* Every number that is taken belongs to a message that waits.             *)

(* Nothing keeps the frame number of a message taken until its answer has  *)
(* come (process_txstat_mess gives it back before), so that a later one    *)
(* may bear it too; here a remote AT command never shares one with another *)
(* message.                                                                *)
FramesApart == \A e, f \in sent : e.frame = f.frame => (e.type = "0" <=> f.type = "0")

(* The answer of a remote AT command, which process_xbee_mess takes for    *)
(* all entries with its frame number, removes none that has a letter.      *)
(* While messages are being sent no frame number is given back.            *)
NumbersInv ==
  /\ NoIdLeaks
  /\ \A e \in sent : e.type = "0" => e.uc = NONE
  /\ \A a \in air, e \in sent : a.kind = "drv_ack" /\ e.frame = a.frame => e.uc = NONE
  /\ pc = "send" => \A a \in air : a.kind = "drv_ack" => a.frame \in xbee_busy

(* Who removes entries together with their numbers loses none.             *)
LEMMA ReturnedNumbers ==
  ASSUME NoIdLeaks, NEW done, sent' = sent \ done,
         uc_busy' \subseteq uc_busy, xbee_busy' \subseteq xbee_busy,
         \A e \in done : e.uc \notin uc_busy' /\ (Freeable(e.frame) => e.frame \notin xbee_busy')
  PROVE  NoIdLeaks'
BY DEF NoIdLeaks

LEMMA FewerNumbers ==
  ASSUME NumbersInv, NoIdLeaks', air' \subseteq air, sent' \subseteq sent, pc' # "send"
  PROVE  NumbersInv'
BY DEF NumbersInv

LEMMA SameNumbers ==
  ASSUME NumbersInv, UNCHANGED <<air, sent, xbee_busy, uc_busy>>, pc' = "send" => pc = "send"
  PROVE  NumbersInv'
BY DEF NumbersInv, NoIdLeaks

LEMMA CompleteNumbers ==
  ASSUME NoIdLeaks, NEW h, NEW done, Complete(h, done)
  PROVE  NoIdLeaks'
<1>1. /\ sent' = sent \ done /\ uc_busy' = uc_busy \ {e.uc : e \in done}
      /\ xbee_busy' = xbee_busy \ ({e.frame : e \in done} \cap {f \in xbee_busy : Freeable(f)})
  BY DEF Complete
<1> QED BY <1>1, ReturnedNumbers

LEMMA ReleaseNumbers ==
  ASSUME NoIdLeaks, NEW e, Release(e)
  PROVE  NoIdLeaks'
<1> DEFINE done == {e}
<1>1. /\ sent' = sent \ done /\ uc_busy' = uc_busy \ {e.uc}
      /\ xbee_busy' = xbee_busy \ {f \in {e.frame} : Freeable(f)}
  BY DEF Release, FreeXbeeIds
<1>2. \A x \in done : x.uc \notin uc_busy' /\ (Freeable(x.frame) => x.frame \notin xbee_busy')
  BY <1>1
<1> HIDE DEF done
<1> QED BY <1>1, <1>2, ReturnedNumbers

LEMMA DrvAckNumbers ==
  ASSUME TypeInv, NumbersInv, NEW a \in air, DrvAck(a)
  PROVE  NoIdLeaks'
<1> DEFINE same == {e \in sent : e.frame = a.frame}
<1>1. /\ sent' = sent \ same /\ uc_busy' = uc_busy
      /\ xbee_busy' = IF same = {} THEN xbee_busy ELSE FreeXbeeIds({a.frame})
      /\ a.kind = "drv_ack"
  BY DEF DrvAck
<1>2. \A e \in same : e.uc = NONE /\ e.frame = a.frame
  BY <1>1 DEF NumbersInv
<1>3. NONE \notin uc_busy
  BY DEF TypeInv, TypeOK, UcIds, NONE
<1>4. xbee_busy' \subseteq xbee_busy
  BY <1>1 DEF FreeXbeeIds
<1>5. \A e \in same : Freeable(e.frame) => e.frame \notin xbee_busy'
  BY <1>1, <1>2 DEF FreeXbeeIds
<1> HIDE DEF same
<1> QED BY <1>1, <1>2, <1>3, <1>4, <1>5, ReturnedNumbers DEF NumbersInv

LEMMA SendEntryNumbers ==
  ASSUME TypeInv, NumbersInv, FramesApart', SendEntry
  PROVE  NumbersInv'
<1> DEFINE e == queue[it]
           f == TakenFrame
           u == TakenUc(e.type)
           new == [hbx |-> e.hbx, type |-> e.type, items |-> e.items, uc |-> u,
                   frame |-> f, sent_count |-> e.resend, age |-> 0]
<1>1. /\ sent' = sent \cup {new} /\ uc_busy' = uc_busy \cup ({u} \ {NONE})
      /\ xbee_busy' = xbee_busy \cup {f} /\ Transmit(e, f, u)
  BY DEF SendEntry
<1>2. pc = "send" /\ e.type \in Types /\ FreeFrames # {}
  BY CurrentEntry DEF SendEntry, Ready, Due, AtEntry, HaveIds, Entries, Entry
<1>3. f \notin xbee_busy
  BY <1>2, TakenFrameFree
<1>4. new.uc = u /\ new.frame = f /\ new.type = e.type /\ (e.type = "0" => u = NONE)
  BY DEF TakenUc
<1>5. \A a \in air' : a \notin air /\ a.kind = "drv_ack" => a.frame = f /\ e.type = "0"
  <2>1. \A a \in air' : a \in air \/ a \in Answers(e, f, u) \/ a \in Report(e, f)
    <3>1. Report(e, f) \subseteq Answers(e, f, u)
      BY DEF Answers
    <3> HIDE DEF e, f, u
    <3> QED BY <1>1, <3>1 DEF Transmit
  <2>2. \A a \in Report(e, f) : a.kind = "drv_ack" => a.frame = f /\ e.type = "0"
    BY DEF Report, Reply
  <2>3. \A a \in Answers(e, f, u) : a \in Report(e, f) \/ a.kind # "drv_ack"
    <3>1. e.type = "0" \/ e.type = "1" \/ e.type = "8" \/ e.type = "9"
      BY <1>2 DEF Types
    <3> HIDE DEF e, f, u
    <3> QED BY <3>1 DEF Answers, Reply
  <2> HIDE DEF e, f, u
  <2> QED BY <2>1, <2>2, <2>3
<1>6. \A a \in air : a.kind = "drv_ack" => a.frame \in xbee_busy
  BY <1>2 DEF NumbersInv
<1> HIDE DEF e, f, u, new
<1>7. NoIdLeaks'
  BY <1>1, <1>4 DEF NumbersInv, NoIdLeaks
<1>8. \A x \in sent' : x.type = "0" => x.uc = NONE
  BY <1>1, <1>4 DEF NumbersInv
<1>9. ASSUME NEW a \in air', NEW x \in sent', a.kind = "drv_ack", x.frame = a.frame
      PROVE  x.uc = NONE
  <2>1. CASE a \in air /\ x \in sent
    BY <2>1, <1>9 DEF NumbersInv
  <2>2. CASE a \in air /\ x = new
    BY <2>2, <1>3, <1>4, <1>6, <1>9
  <2>3. CASE a \notin air
    <3>1. a.frame = f /\ e.type = "0" /\ new \in sent'
      BY <2>3, <1>1, <1>5, <1>9
    <3>2. x.type = "0"
      BY <3>1, <1>4, <1>9 DEF FramesApart
    <3> QED BY <3>2, <1>8
  <2> QED BY <1>1, <2>1, <2>2, <2>3
<1>10. \A a \in air' : a.kind = "drv_ack" => a.frame \in xbee_busy'
  BY <1>1, <1>5, <1>6
<1> QED BY <1>7, <1>8, <1>9, <1>10 DEF NumbersInv

LEMMA NextNumbers ==
  ASSUME Prompt, TypeInv, NumbersInv, FramesApart', [Next]_vars, [~NoIds /\ ~SocketFails]_vars
  PROVE  NumbersInv'
<1> USE DEF AtIncoming
<1>1. CASE Incoming
  <2>1. pc' = pc /\ pc = "incoming"
    BY <1>1 DEF Incoming, Handle, Command, Txstat, DrvAck, Ack, AckWithNack, UAck, XAct, Brc,
                SpontaneousBoot, Boot
  <2>2. air' \subseteq air
    BY <1>1 DEF Incoming, Handle, Command, Txstat, DrvAck, Ack, AckWithNack, UAck, XAct, Brc,
                SpontaneousBoot
  <2>3. sent' \subseteq sent
    BY <1>1 DEF Incoming, Handle, Command, Txstat, DrvAck, Ack, AckWithNack, UAck, XAct, Brc,
                SpontaneousBoot, Boot, Complete
  <2>4. NoIdLeaks'
    <3>1. ASSUME NEW a \in air, Ack(a) \/ AckWithNack(a) \/ UAck(a) \/ XAct(a)
          PROVE  NoIdLeaks'
      BY <3>1, CompleteNumbers DEF Ack, AckWithNack, UAck, XAct, NumbersInv
    <3>2. ASSUME NEW a \in air, DrvAck(a) PROVE NoIdLeaks'
      BY <3>2, DrvAckNumbers
    <3>3. ASSUME NEW a \in air, Txstat(a) PROVE NoIdLeaks'
      <4>1. xbee_busy' \subseteq xbee_busy /\ uc_busy' = uc_busy /\ sent' = sent
        BY <3>3 DEF Txstat, FreeXbeeIds
      <4> QED BY <4>1 DEF NumbersInv, NoIdLeaks
    <3>4. ASSUME NEW h, Boot(h) PROVE NoIdLeaks'
      BY <3>4 DEF Boot, idVars, NumbersInv, NoIdLeaks
    <3>5. ASSUME NEW h, NEW p, NEW v, NEW d, Command(h, p, v, d) PROVE NoIdLeaks'
      BY <3>5 DEF Command, idVars, NumbersInv, NoIdLeaks
    <3>6. Handle => NoIdLeaks'
      BY <3>1, <3>2, <3>3, <3>4 DEF Handle, Brc
    <3> QED BY <1>1, <3>4, <3>5, <3>6 DEF Incoming, SpontaneousBoot
  <2> QED BY <2>1, <2>2, <2>3, <2>4, FewerNumbers
<1>2. CASE AddStep
  BY <1>2, SameNumbers DEF AddStep, idVars
<1>3. CASE Send
  <2>1. CASE StartSend
    BY <2>1 DEF StartSend, idVars, NumbersInv, NoIdLeaks
  <2>2. CASE SendEntry
    BY <2>2, SendEntryNumbers
  <2>3. CASE NoIds \/ SocketFails
    BY <2>3, SameNumbers DEF vars, idVars
  <2> QED
    BY <1>3, <2>1, <2>2, <2>3, SameNumbers
    DEF Send, CountDelay, DropEntry, BufferFull, EndSend, idVars
<1>4. CASE Check
  <2>1. ASSUME NEW e \in sent, TimeoutDiagnostics(e) \/ TimeoutResend(e) \/ TimeoutLost(e)
        PROVE  NumbersInv'
    <3>1. Release(e) /\ air' = air /\ pc' = "check"
      BY <2>1 DEF TimeoutDiagnostics, TimeoutResend, TimeoutLost, Elapsed
    <3>2. NoIdLeaks' /\ sent' \subseteq sent
      BY <3>1, ReleaseNumbers DEF NumbersInv, Release
    <3> QED BY <3>1, <3>2, FewerNumbers
  <2>2. ASSUME NEW next \in {"incoming", "second"}, EndCheck(next) PROVE NumbersInv'
    <3> DEFINE older(e) == [e EXCEPT !.age = @ + 1]
    <3>1. /\ sent' = {older(e) : e \in sent} /\ UNCHANGED <<air, xbee_busy, uc_busy>>
          /\ pc' # "send"
      BY <2>2 DEF EndCheck, idVars
    <3>2. \A e \in sent : /\ older(e).uc = e.uc /\ older(e).frame = e.frame
                          /\ older(e).type = e.type
      BY DEF TypeInv, SentEntries, SentEntry
    <3> HIDE DEF older
    <3>3. NoIdLeaks'
      BY <3>1, <3>2 DEF NumbersInv, NoIdLeaks
    <3> QED BY <3>1, <3>2, <3>3 DEF NumbersInv
  <2> QED BY <1>4, <2>1, <2>2 DEF Check
<1>5. CASE Seconds
  BY <1>5, SameNumbers DEF Seconds, SendDiagnostic, Second, idVars
<1>6. CASE UNCHANGED vars
  BY <1>6, SameNumbers DEF vars, idVars
<1> QED BY <1>1, <1>2, <1>3, <1>4, <1>5, <1>6 DEF Next

(* Numbers are lost in no other way than these: one pool is empty while    *)
(* the other gives (NoIds); the socket fails; an answer comes late; a      *)
(* remote AT command shares its frame number with another message.         *)
THEOREM NumbersCorrect ==
  ASSUME Prompt
  PROVE  Spec /\ [][~NoIds /\ ~SocketFails]_vars /\ []FramesApart => []NoIdLeaks
<1>1. Init => NumbersInv
  BY DEF Init, NumbersInv, NoIdLeaks
<1>2. TypeInv /\ NumbersInv /\ FramesApart' /\ [Next]_vars /\ [~NoIds /\ ~SocketFails]_vars
      => TypeInv' /\ NumbersInv'
  BY NextType, NextNumbers
<1>3. NumbersInv => NoIdLeaks
  BY DEF NumbersInv
<1> QED BY InitType, <1>1, <1>2, <1>3, PTL DEF Spec
----------------------------------------------------------------------------
(* An HBX that is held in reset is released.                               *)

(* The two commands of restart_uc, and a message that writes to no D0.     *)
IsReset(e, v) == e.type = "0" /\ e.items = <<[pin |-> "D0", val |-> v]>>
NoD0(m) == \A k \in DOMAIN m.items : m.items[k].pin # "D0"

(* Nothing is merged into a reset command; the one that pulls the line     *)
(* down is never delayed, and the one that raises it is behind it.         *)
Fitting(e) ==
  IF e.type = "0"
  THEN e.priority = 0 /\ (IsReset(e, "5") \/ (IsReset(e, "4") /\ e.delay = 0))
  ELSE NoD0(e)
Raised(q, h, i) == \E j \in DOMAIN q : j > i /\ IsReset(q[j], "5") /\ q[j].hbx = h
Paired(q) ==
  \A i \in DOMAIN q : Fitting(q[i]) /\ (IsReset(q[i], "4") => Raised(q, q[i].hbx, i))

(* An HBX held in reset has the command that raises its line waiting.      *)
Lifted == \A h \in Hbx : line[h] = "4" => h \in Active /\ Raised(queue, h, 0)

(* While messages are sent, a command that pulls a line down is passed     *)
(* over only if there is no room, so that the one behind it is, too.       *)
Passed ==
  pc = "send" => \A i \in DOMAIN queue : i < it /\ IsReset(queue[i], "4") =>
    queue[i].hbx \in Active /\ mess_counter[queue[i].hbx] >= HBX_BUFFER

(* A reset command that was sent has its answer on the way.                *)
Answered(e) ==
  IF e.type = "0"
  THEN /\ \E a \in air : a.kind = "drv_ack" /\ a.frame = e.frame
       /\ pc \in {"send", "check"} => e.age = 0
  ELSE NoD0(e)

ResetInv ==
  /\ Paired(queue) /\ Lifted /\ Passed
  /\ \A e \in sent : Answered(e)
  /\ \A t \in todo : t.m.type # "0" /\ NoD0(t.m)

(* The other entries may change, the reset commands stay where they are.   *)
SameResets(q, r) ==
  /\ \A i \in DOMAIN q : q[i].type = "0" => i \in DOMAIN r /\ r[i] = q[i]
  /\ \A i \in DOMAIN r : IF r[i].type = "0" THEN i \in DOMAIN q /\ r[i] = q[i] ELSE NoD0(r[i])

LEMMA SameResetsPair ==
  ASSUME NEW q, NEW r, Paired(q), SameResets(q, r)
  PROVE  Paired(r) /\ \A h, i : Raised(q, h, i) => Raised(r, h, i)
<1>1. \A h, i : Raised(q, h, i) => Raised(r, h, i)
  BY DEF SameResets, Raised, IsReset
<1>2. ASSUME NEW i \in DOMAIN r
      PROVE  Fitting(r[i]) /\ (IsReset(r[i], "4") => Raised(r, r[i].hbx, i))
  <2>1. CASE r[i].type = "0"
    <3>1. i \in DOMAIN q /\ r[i] = q[i]
      BY <2>1 DEF SameResets
    <3> QED BY <1>1, <3>1 DEF Paired
  <2>2. CASE r[i].type # "0"
    BY <2>2 DEF SameResets, Fitting, IsReset
  <2> QED BY <2>1, <2>2
<1> QED BY <1>1, <1>2 DEF Paired

LEMMA MergedD0 ==
  ASSUME NEW e \in Entries, NEW m \in Commands, NoD0(e), NoD0(m)
  PROVE  NoD0(Merge(e, m)) /\ Merge(e, m).type = e.type
<1> DEFINE a == e.items
           b == m.items
<1>1. a \in Seq(Item) /\ b \in Seq(Item) /\ e \in Entry
  BY DEF Entries, Entry, Commands, Message
<1>2. Merge(e, m).items = a \o b /\ Merge(e, m).type = e.type
  BY <1>1 DEF Merge, Entry
<1>3. \A k \in DOMAIN (a \o b) : (a \o b)[k].pin # "D0"
  <2>1. \A k \in DOMAIN a : a[k].pin # "D0"
    BY DEF NoD0
  <2>2. \A k \in DOMAIN b : b[k].pin # "D0"
    BY DEF NoD0
  <2>3. /\ Len(a) \in Nat /\ Len(b) \in Nat
        /\ DOMAIN a = 1..Len(a) /\ DOMAIN b = 1..Len(b) /\ DOMAIN (a \o b) = 1..(Len(a) + Len(b))
        /\ \A k \in 1..(Len(a) + Len(b)) : (a \o b)[k] = IF k <= Len(a) THEN a[k] ELSE b[k - Len(a)]
    <3> HIDE DEF a, b
    <3>1. a \o b \in Seq(Item) /\ Len(a \o b) = Len(a) + Len(b)
      BY <1>1, ConcatProperties
    <3> QED BY <1>1, <3>1, LenProperties, ConcatProperties
  <2> HIDE DEF a, b
  <2> QED BY <2>1, <2>2, <2>3
<1> QED BY <1>2, <1>3 DEF NoD0

(* A message that is no reset command leaves those that wait in place.     *)
LEMMA OtherMessage ==
  ASSUME NEW q \in Seq(Entries), Paired(q), NEW m \in Commands, m.type # "0", NoD0(m),
         NEW resend \in Attempts, NEW priority \in Nat, NEW delay \in Nat
  PROVE  SameResets(q, AddMessage(q, m, resend, priority, delay))
<1> DEFINE r == AddMessage(q, m, resend, priority, delay)
           new == NewEntry(m, resend, priority, delay)
<1>1. Extended(q, r, m, delay, new)
  BY AddMessageType, AddMessagePlaces
<1>2. \A j \in DOMAIN q : q[j] \in Entries
  BY ElementOfSeq, LenProperties
<1>3. new.type # "0" /\ NoD0(new)
  BY DEF NewEntry, NoD0
<1> HIDE DEF r, new
<1>4. ASSUME NEW j \in DOMAIN q, q[j].type = "0"
      PROVE  r[j] = q[j]
  <2>1. ~SameSlot(q[j], m, delay)
    BY <1>4 DEF SameSlot
  <2>2. ~HoldsText(q[j], m)
    <3>1. SUFFICES ASSUME m.items # <<>>, m.items \in SubSeqs(q[j].items) PROVE FALSE
      BY DEF HoldsText
    <3>2. PICK v \in {"4", "5"} : q[j].items = <<[pin |-> "D0", val |-> v]>>
      BY <1>4 DEF Paired, Fitting, IsReset
    <3>3. q[j].items \in Seq(Item)
      BY <1>2 DEF Entries, Entry
    <3>4. 1 \in DOMAIN m.items /\ \E k \in DOMAIN q[j].items : m.items[1] = q[j].items[k]
      BY <3>1, <3>3, FirstFound
    <3>5. m.items[1].pin = "D0"
      BY <3>2, <3>4
    <3> QED BY <3>4, <3>5 DEF NoD0
  <2> QED BY <1>1, <2>1, <2>2 DEF Extended, AsBefore
<1>5. ASSUME NEW j \in DOMAIN q, q[j].type # "0"
      PROVE  r[j].type # "0" /\ NoD0(r[j])
  <2>1. NoD0(q[j])
    BY <1>5 DEF Paired, Fitting
  <2>2. NoD0(Merge(q[j], m)) /\ Merge(q[j], m).type = q[j].type
    BY <1>2, <2>1, MergedD0
  <2>3. LET e == [q[j] EXCEPT !.delay = delay] IN NoD0(e) /\ e.type = q[j].type
    BY <1>2, <2>1 DEF NoD0, Entries, Entry
  <2> QED BY <1>1, <1>5, <2>1, <2>2, <2>3 DEF Extended, AsBefore
<1>6. \A i \in DOMAIN r : i \in DOMAIN q \/ r[i] = new
  BY <1>1 DEF Extended
<1>7. DOMAIN q \subseteq DOMAIN r
  BY <1>1 DEF Extended
<1>8. SameResets(q, r)
  BY <1>3, <1>4, <1>5, <1>6, <1>7 DEF SameResets
<1> QED BY <1>8 DEF r

(* restart_uc puts its two commands behind all that waits.                 *)
LEMMA RestartPair ==
  ASSUME DELAY_100 # 0, NEW q \in Seq(Entries), Paired(q), NEW h \in Hbx,
         \A j \in DOMAIN q : q[j].type = "0" => q[j].hbx # h
  PROVE  /\ Paired(RestartMessages(q, h))
         /\ \A g, i : Raised(q, g, i) => Raised(RestartMessages(q, h), g, i)
<1> DEFINE low == NewEntry(ResetLow(h), 0, 0, 0)
           high == NewEntry(ResetHigh(h), 0, 0, DELAY_100)
           q1 == Append(q, low)
           q2 == Append(q1, high)
<1>1. Len(q) \in Nat /\ DOMAIN q = 1..Len(q) /\ \A j \in DOMAIN q : q[j] \in Entries
  BY LenProperties, ElementOfSeq
<1>2. /\ IsReset(low, "4") /\ low.hbx = h /\ low.delay = 0 /\ low.priority = 0 /\ low.type = "0"
      /\ IsReset(high, "5") /\ high.hbx = h /\ high.priority = 0 /\ high.type = "0"
  BY DEF NewEntry, ResetLow, ResetHigh, Msg, IsReset
<1>3. \A v \in {"4", "5"} : LET x == <<[pin |-> "D0", val |-> v]>>
                            IN x # <<>> /\ Len(x) = 1 /\ x[1].pin = "D0" /\ x[1].val = v
  OBVIOUS
<1>4. ASSUME NEW v \in {"4", "5"}, NEW e \in Entries, NEW k,
             <<[pin |-> "D0", val |-> v]>> \in SubSeqs(e.items)
      PROVE  \E i \in DOMAIN e.items : e.items[i] = [pin |-> "D0", val |-> v]
  <2> DEFINE x == <<[pin |-> "D0", val |-> v]>>
  <2>1. e.items \in Seq(Item)
    BY DEF Entries, Entry
  <2>2. x \in SubSeqs(e.items) /\ x # <<>> /\ x[1] = [pin |-> "D0", val |-> v]
    BY <1>4
  <2> HIDE DEF x
  <2> QED BY <2>1, <2>2, FirstFound
<1>5. \A v \in {"4", "5"} : \A j \in DOMAIN q :
        q[j].hbx = h => <<[pin |-> "D0", val |-> v]>> \notin SubSeqs(q[j].items)
  <2> SUFFICES ASSUME NEW v \in {"4", "5"}, NEW j \in DOMAIN q, q[j].hbx = h,
                      <<[pin |-> "D0", val |-> v]>> \in SubSeqs(q[j].items)
               PROVE  FALSE
    OBVIOUS
  <2>1. NoD0(q[j])
    BY DEF Paired, Fitting
  <2>2. PICK i \in DOMAIN q[j].items : q[j].items[i] = [pin |-> "D0", val |-> v]
    BY <1>1, <1>4
  <2> QED BY <2>1, <2>2 DEF NoD0
<1>6. AddMessage(q, ResetLow(h), 0, 0, 0) = q1
  <2>1. \A j \in DOMAIN q : /\ ~SameSlot(q[j], ResetLow(h), 0)
                            /\ ~(q[j].hbx = h /\ HoldsText(q[j], ResetLow(h)))
    BY <1>5 DEF SameSlot, HoldsText, ResetLow, Msg
  <2>2. ResetLow(h).hbx = h
    BY DEF ResetLow, Msg
  <2> QED BY <2>1, <2>2, AddMessageAppends
<1>7. /\ low \in Entries /\ high \in Entries
  <2>1. ResetLow(h) \in Commands /\ ResetHigh(h) \in Commands /\ 0 \in Attempts
    BY CommandTypes, SizeAssumption DEF Attempts
  <2> QED BY <2>1, DelayAssumption DEF NewEntry, Entries, Entry, Commands, Message, WellFormed, Attempts
<1>8. /\ q1 \in Seq(Entries) /\ DOMAIN q1 = 1..(Len(q) + 1) /\ q1[Len(q) + 1] = low
      /\ \A j \in DOMAIN q : q1[j] = q[j]
  BY <1>1, <1>7, Longer
<1> HIDE DEF low, high
<1>9. AddMessage(q1, ResetHigh(h), 0, 0, DELAY_100) = q2
  <2>1. \A j \in DOMAIN q1 : /\ ~SameSlot(q1[j], ResetHigh(h), DELAY_100)
                             /\ ~(q1[j].hbx = h /\ HoldsText(q1[j], ResetHigh(h)))
    <3>1. ASSUME NEW j \in DOMAIN q
          PROVE  /\ ~SameSlot(q[j], ResetHigh(h), DELAY_100)
                 /\ ~(q[j].hbx = h /\ HoldsText(q[j], ResetHigh(h)))
      BY <1>5 DEF SameSlot, HoldsText, ResetHigh, Msg
    <3>2. ~SameSlot(low, ResetHigh(h), DELAY_100)
      BY <1>2 DEF SameSlot
    <3>3. ~HoldsText(low, ResetHigh(h))
      <4> SUFFICES ASSUME <<[pin |-> "D0", val |-> "5"]>> \in SubSeqs(low.items) PROVE FALSE
        BY DEF HoldsText, ResetHigh, Msg
      <4>1. PICK i \in DOMAIN low.items : low.items[i] = [pin |-> "D0", val |-> "5"]
        BY <1>4, <1>7
      <4>2. low.items = <<[pin |-> "D0", val |-> "4"]>>
        BY <1>2 DEF IsReset
      <4> QED BY <4>1, <4>2
    <3> HIDE DEF q1
    <3> QED BY <1>1, <1>8, <3>1, <3>2, <3>3
  <2>2. ResetHigh(h).hbx = h
    BY DEF ResetHigh, Msg
  <2> HIDE DEF q1
  <2> QED BY <2>1, <2>2, AddMessageAppends DEF high
<1>10. RestartMessages(q, h) = q2
  BY <1>6, <1>9 DEF RestartMessages
<1> HIDE DEF q1
<1>11. /\ Len(q1) = Len(q) + 1 /\ DOMAIN q2 = 1..(Len(q) + 2) /\ q2[Len(q) + 2] = high
       /\ q2[Len(q) + 1] = low /\ \A j \in DOMAIN q : q2[j] = q[j]
  <2>1. Len(q1) = Len(q) + 1
    BY <1>1, <1>8, LenProperties
  <2>2. /\ DOMAIN q2 = 1..(Len(q1) + 1) /\ \A i \in 1..Len(q1) : q2[i] = q1[i]
        /\ q2[Len(q1) + 1] = high
    BY <1>7, <1>8, Longer
  <2> HIDE DEF q2
  <2> QED BY <1>1, <1>8, <2>1, <2>2
<1> HIDE DEF q2
<1>12. \A g, i : Raised(q, g, i) => Raised(q2, g, i)
  BY <1>1, <1>11 DEF Raised
<1>13. Raised(q2, h, Len(q) + 1)
  BY <1>1, <1>2, <1>11 DEF Raised
<1>14. Paired(q2)
  <2> SUFFICES ASSUME NEW i \in DOMAIN q2
               PROVE  Fitting(q2[i]) /\ (IsReset(q2[i], "4") => Raised(q2, q2[i].hbx, i))
    BY DEF Paired
  <2>1. CASE i \in DOMAIN q
    BY <1>11, <1>12, <2>1 DEF Paired
  <2>2. CASE i = Len(q) + 1
    BY <1>2, <1>11, <1>13, <2>2 DEF Fitting
  <2>3. CASE i = Len(q) + 2
    BY <1>2, <1>11, <2>3 DEF Fitting, IsReset
  <2> QED BY <1>1, <1>11, <2>1, <2>2, <2>3
<1> QED BY <1>10, <1>12, <1>14

(* std::sort keeps the two commands of a restart in their order.           *)
LEMMA SortedPair ==
  ASSUME NEW q \in Seq(Entries), Paired(q), NEW r, StableSort(q, r)
  PROVE  Paired(r) /\ \A h : Raised(q, h, 0) => Raised(r, h, 0)
<1> DEFINE D == DOMAIN q
<1>1. PICK p \in [D -> D] : /\ \A i, j \in D : i < j => Before(q, p[i], p[j])
                            /\ r = [i \in D |-> q[p[i]]]
  BY DEF StableSort
<1>2. Len(q) \in Nat /\ D = 1..Len(q) /\ \A j \in D : q[j] \in Entries
  BY LenProperties, ElementOfSeq
<1>3. \A j \in D : q[j].priority \in Nat
  BY <1>2 DEF Entries, Entry
<1>4. \A i, j \in D : i < j => p[i] # p[j]
  BY <1>1, <1>2, <1>3 DEF Before
<1>5. \A i, j \in D : p[i] = p[j] => i = j
  BY <1>2, <1>4
<1>6. \A j \in D : \E k \in D : p[k] = j
  <2>1. IsFiniteSet(D)
    BY <1>2, FS_Interval
  <2>2. p \in Injection(D, D)
    BY <1>5 DEF Injection, IsInjective
  <2>3. p \in Surjection(D, D)
    BY <2>1, <2>2, FS_Injection
  <2> QED BY <2>3 DEF Surjection
<1>7. DOMAIN r = D /\ \A i \in D : r[i] = q[p[i]] /\ p[i] \in D
  BY <1>1
<1>8. ASSUME NEW i \in D, IsReset(r[i], "4")
      PROVE  Raised(r, r[i].hbx, i)
  <2>1. PICK j \in D : j > p[i] /\ IsReset(q[j], "5") /\ q[j].hbx = q[p[i]].hbx
    BY <1>7, <1>8 DEF Paired, Raised
  <2>2. PICK k \in D : p[k] = j
    BY <1>6
  <2>3. q[p[i]].priority = 0 /\ q[j].priority = 0
    BY <1>7, <1>8, <2>1 DEF Paired, Fitting, IsReset
  <2>4. k # i /\ ~(k < i)
    BY <1>1, <1>2, <1>7, <2>1, <2>2, <2>3 DEF Before
  <2>5. k > i
    BY <1>2, <2>4
  <2> QED BY <1>7, <2>1, <2>2, <2>5 DEF Raised
<1>9. \A i \in D : Fitting(r[i])
  BY <1>7 DEF Paired
<1>10. ASSUME NEW h, Raised(q, h, 0)
       PROVE  Raised(r, h, 0)
  <2>1. PICK j \in D : IsReset(q[j], "5") /\ q[j].hbx = h
    BY <1>10 DEF Raised
  <2>2. PICK k \in D : p[k] = j
    BY <1>6
  <2>3. k > 0
    BY <1>2
  <2> QED BY <1>7, <2>1, <2>2, <2>3 DEF Raised
<1> QED BY <1>7, <1>8, <1>9, <1>10 DEF Paired

(* An entry leaves the queue.                                              *)
LEMMA RemovedPair ==
  ASSUME NEW q \in Seq(Entries), Paired(q), NEW n \in 1..Len(q),
         IsReset(q[n], "5") =>
           \A k \in DOMAIN q : k < n /\ IsReset(q[k], "4") => q[k].hbx # q[n].hbx
  PROVE  /\ Paired(RemoveAt(q, n))
         /\ \A h : /\ Raised(q, h, 0) /\ ~(IsReset(q[n], "5") /\ q[n].hbx = h)
                   => Raised(RemoveAt(q, n), h, 0)
         /\ IsReset(q[n], "4") => Raised(RemoveAt(q, n), q[n].hbx, 0)
         /\ \A k \in DOMAIN RemoveAt(q, n) : k < n => k \in DOMAIN q /\ RemoveAt(q, n)[k] = q[k]
<1> DEFINE r == RemoveAt(q, n)
<1>1. Len(q) \in Nat /\ DOMAIN q = 1..Len(q)
  BY LenProperties
<1>2. DOMAIN r = 1..(Len(q) - 1) /\ \A k \in 1..(Len(q) - 1) : r[k] = q[IF k < n THEN k ELSE k + 1]
  BY RemovedPlaces
<1> HIDE DEF r
<1>3. ASSUME NEW i \in Nat, NEW j \in DOMAIN q, j > i, j # n, IsReset(q[j], "5"),
             i < n \/ i > n
      PROVE  Raised(r, q[j].hbx, IF i < n THEN i ELSE i - 1)
  <2> DEFINE k == IF j < n THEN j ELSE j - 1
  <2>1. k \in DOMAIN r /\ r[k] = q[j] /\ k > IF i < n THEN i ELSE i - 1
    <3>1. CASE j < n
      BY <1>1, <1>2, <1>3, <3>1
    <3>2. CASE j > n
      <4>1. j - 1 \in 1..(Len(q) - 1) /\ ~(j - 1 < n) /\ (j - 1) + 1 = j
        BY <1>1, <3>2
      <4> QED BY <1>1, <1>2, <1>3, <3>2, <4>1
    <3> QED BY <1>1, <1>3, <3>1, <3>2
  <2> HIDE DEF k
  <2> QED BY <1>3, <2>1 DEF Raised
<1>4. ASSUME NEW i \in DOMAIN r
      PROVE  Fitting(r[i]) /\ (IsReset(r[i], "4") => Raised(r, r[i].hbx, i))
  <2> DEFINE o == IF i < n THEN i ELSE i + 1
  <2>1. o \in DOMAIN q /\ o # n /\ r[i] = q[o] /\ i = IF o < n THEN o ELSE o - 1
    BY <1>1, <1>2
  <2> HIDE DEF o
  <2>2. ASSUME IsReset(q[o], "4")
        PROVE  Raised(r, q[o].hbx, i)
    <3>1. PICK j \in DOMAIN q : j > o /\ IsReset(q[j], "5") /\ q[j].hbx = q[o].hbx
      BY <2>1, <2>2 DEF Paired, Raised
    <3>2. j # n
      BY <2>1, <2>2, <3>1
    <3>3. o \in Nat /\ (o < n \/ o > n)
      BY <1>1, <2>1
    <3>4. Raised(r, q[j].hbx, IF o < n THEN o ELSE o - 1)
      BY <1>3, <3>1, <3>2, <3>3
    <3> QED BY <2>1, <3>1, <3>4
  <2> QED BY <2>1, <2>2 DEF Paired
<1>5. ASSUME NEW h, Raised(q, h, 0), ~(IsReset(q[n], "5") /\ q[n].hbx = h)
      PROVE  Raised(r, h, 0)
  <2>1. PICK j \in DOMAIN q : j > 0 /\ IsReset(q[j], "5") /\ q[j].hbx = h
    BY <1>5 DEF Raised
  <2>2. j # n /\ 0 < n
    BY <1>1, <1>5, <2>1
  <2> QED BY <1>3, <2>1, <2>2
<1>6. ASSUME IsReset(q[n], "4") PROVE Raised(r, q[n].hbx, 0)
  <2>1. PICK j \in DOMAIN q : j > n /\ IsReset(q[j], "5") /\ q[j].hbx = q[n].hbx
    BY <1>1, <1>6 DEF Paired, Raised
  <2>2. j # n /\ 0 < n /\ j > 0
    BY <1>1, <2>1
  <2> QED BY <1>3, <2>1, <2>2
<1>7. \A k \in DOMAIN r : k < n => k \in DOMAIN q /\ r[k] = q[k]
  BY <1>1, <1>2
<1>8. Paired(r)
  BY <1>4 DEF Paired
<1> QED BY <1>5, <1>6, <1>7, <1>8 DEF r

(* What the theorem asks of the environment: a reset command is carried    *)
(* out and answered, and none waits longer than the HBX is protected from  *)
(* another restart.                                                        *)
ResetObeyed == SendEntry /\ queue[it].type = "0" => UNCHANGED budget
RestartsEnd == \A i \in DOMAIN queue : queue[i].type = "0" => queue[i].hbx \in protect

LEMMA SpendChanges ==
  ASSUME TypeInv, NEW what \in Events, Spend(what)
  PROVE  budget' # budget
<1>1. budget[what] \in Nat /\ budget'[what] = budget[what] - 1
  BY DEF Spend, TypeInv, TypeOK
<1> QED BY <1>1

LEMMA KeptLifted ==
  ASSUME Lifted, line' = line, \A h, i : Raised(queue, h, i) => Raised(queue', h, i)
  PROVE  Lifted'
BY DEF Lifted

(* The queue changes, but for the reset commands, and nothing is sent.     *)
LEMMA SameQueueResets ==
  ASSUME Paired(queue), Lifted, line' = line, SameResets(queue, queue')
  PROVE  Paired(queue') /\ Lifted'
BY SameResetsPair, KeptLifted

LEMMA UnchangedResets ==
  ASSUME Paired(queue)
  PROVE  SameResets(queue, queue)
BY DEF Paired, Fitting, SameResets

LEMMA RestartResets ==
  ASSUME DELAY_100 # 0, TypeInv, Paired(queue), Lifted, RestartsEnd, NEW h \in Hbx \ protect,
         queue' = RestartMessages(queue, h), line' = line
  PROVE  Paired(queue') /\ Lifted'
<1>1. \A j \in DOMAIN queue : queue[j].type = "0" => queue[j].hbx # h
  BY DEF RestartsEnd
<1>2. /\ Paired(RestartMessages(queue, h))
      /\ \A g, i : Raised(queue, g, i) => Raised(RestartMessages(queue, h), g, i)
  BY <1>1, RestartPair DEF TypeInv
<1> QED BY <1>2, KeptLifted

LEMMA SingleItems ==
  ASSUME "D0" \notin Pins, NEW h \in Hbx
  PROVE  /\ \A p \in Pins, v \in Values : Output(h, p, v).type # "0" /\ NoD0(Output(h, p, v))
         /\ Diagnostics(h).type # "0" /\ NoD0(Diagnostics(h))
         /\ UMessage(h).type # "0" /\ NoD0(UMessage(h))
<1>1. \A x, t : x.pin # "D0" => NoD0(Msg(h, t, <<x>>))
  BY DEF NoD0, Msg
<1>2. \A p, v : [pin |-> p, val |-> v].pin = p
  OBVIOUS
<1>3. \A p \in Pins, v \in Values : Output(h, p, v).type # "0" /\ NoD0(Output(h, p, v))
  <2>1. \A p, v : Output(h, p, v).type = "1"
    BY DEF Output, Msg
  <2>2. \A p \in Pins : p # "D0"
    OBVIOUS
  <2> QED BY <1>1, <1>2, <2>1, <2>2 DEF Output
<1>4. Diagnostics(h).type # "0" /\ NoD0(Diagnostics(h))
  <2>1. Diagnostics(h).type = "8"
    BY DEF Diagnostics, Msg
  <2> QED BY <1>1, <2>1 DEF Diagnostics
<1>5. UMessage(h).type # "0" /\ NoD0(UMessage(h))
  BY DEF UMessage, Msg, NoD0
<1> QED BY <1>3, <1>4, <1>5

(* Who handles a message gives back or removes entries, and only the one   *)
(* who handles the answer of a reset command takes it from the air.        *)
LEMMA IncomingResets ==
  ASSUME DELAY_100 # 0, "D0" \notin Pins, TypeInv, ResetInv, RestartsEnd, Incoming
  PROVE  ResetInv'
<1> USE DEF AtIncoming
<1>1. pc' = "incoming" /\ pc = "incoming" /\ line' = line
  BY DEF Incoming, Handle, Command, Txstat, DrvAck, Ack, AckWithNack, UAck, XAct, Brc,
         SpontaneousBoot, Boot
<1>2. Paired(queue) /\ Lifted /\ queue \in Seq(Entries) /\ 0 \in Attempts
  BY SizeAssumption DEF ResetInv, TypeInv, Attempts
<1>3. Paired(queue') /\ Lifted'
  <2>1. CASE UNCHANGED queue
    BY <1>1, <1>2, <2>1, UnchangedResets, SameQueueResets
  <2>2. ASSUME NEW h \in Hbx, NEW p \in Pins, NEW v \in Values, NEW d \in CommandDelays,
               Command(h, p, v, d)
        PROVE  Paired(queue') /\ Lifted'
    <3>1. Output(h, p, v) \in Commands /\ d \in Nat
      BY CommandTypes, DelayAssumption
    <3>2. queue' = AddMessage(queue, Output(h, p, v), 0, 0, d)
      BY <2>2 DEF Command
    <3>3. SameResets(queue, queue')
      BY <1>2, <3>1, <3>2, SingleItems, OtherMessage
    <3> QED BY <1>1, <1>2, <3>3, SameQueueResets
  <2>3. ASSUME NEW a \in air, AckWithNack(a)
        PROVE  Paired(queue') /\ Lifted'
    <3>1. a.hbx \in Hbx
      BY DEF TypeInv, TypeOK, Answer
    <3>2. CASE a.hbx \in protect
      BY <2>1, <2>3, <3>2 DEF AckWithNack
    <3>3. CASE a.hbx \notin protect
      <4>1. queue' = RestartMessages(queue, a.hbx)
        BY <2>3, <3>3 DEF AckWithNack
      <4> QED BY <1>1, <1>2, <3>1, <3>3, <4>1, RestartResets
    <3> QED BY <3>2, <3>3
  <2>4. ASSUME NEW h \in Hbx, Boot(h)
        PROVE  Paired(queue') /\ Lifted'
    <3>1. CASE h \in u_send
      BY <2>1, <2>4, <3>1 DEF Boot
    <3>2. CASE h \notin u_send
      <4>1. queue' = AddMessage(queue, UMessage(h), 0, 5, DELAY_100) /\ UMessage(h) \in Commands
        BY <2>4, <3>2, CommandTypes DEF Boot
      <4>2. SameResets(queue, queue')
        BY <1>2, <4>1, SingleItems, OtherMessage, DelayAssumption
      <4> QED BY <1>1, <1>2, <4>2, SameQueueResets
    <3> QED BY <3>1, <3>2
  <2>5. ASSUME NEW a \in air, Brc(a)
        PROVE  Paired(queue') /\ Lifted'
    <3>1. a.hbx \in Hbx /\ Boot(a.hbx)
      BY <2>5 DEF TypeInv, TypeOK, Answer, Brc
    <3> QED BY <2>4, <3>1
  <2>6. ASSUME NEW a \in air, Txstat(a) \/ DrvAck(a) \/ Ack(a) \/ UAck(a) \/ XAct(a)
        PROVE  Paired(queue') /\ Lifted'
    BY <2>1, <2>6 DEF Txstat, DrvAck, Ack, UAck, XAct
  <2>7. \A h \in Hbx : SpontaneousBoot(h) => Paired(queue') /\ Lifted'
    BY <2>4 DEF SpontaneousBoot
  <2> QED BY <2>2, <2>3, <2>5, <2>6, <2>7 DEF Incoming, Handle
<1>4. \A e \in sent' : Answered(e)'
  <2>1. sent' \subseteq sent
    BY DEF Incoming, Handle, Command, Txstat, DrvAck, Ack, AckWithNack, UAck, XAct, Brc,
           SpontaneousBoot, Boot, Complete
  <2>2. \/ air' = air
        \/ \E a \in air : air' = air \ {a} /\ a.kind # "drv_ack"
        \/ \E a \in air : air' = air \ {a} /\ \A e \in sent' : e.frame # a.frame
    BY DEF Incoming, Handle, Command, Txstat, DrvAck, Ack, AckWithNack, UAck, XAct, Brc,
           SpontaneousBoot
  <2> SUFFICES ASSUME NEW e \in sent' PROVE Answered(e)'
    OBVIOUS
  <2>3. e \in sent /\ Answered(e)
    BY <2>1 DEF ResetInv
  <2>4. CASE e.type = "0"
    <3>1. PICK b \in air : b.kind = "drv_ack" /\ b.frame = e.frame
      BY <2>3, <2>4 DEF Answered
    <3>2. b \in air'
      BY <2>2, <3>1
    <3> QED BY <1>1, <2>4, <3>1, <3>2 DEF Answered
  <2>5. CASE e.type # "0"
    BY <2>3, <2>5 DEF Answered
  <2> QED BY <2>4, <2>5
<1>5. \A t \in todo' : t.m.type # "0" /\ NoD0(t.m)
  <2>1. CASE UNCHANGED todo
    BY <2>1 DEF ResetInv
  <2>2. ASSUME NEW a \in air, UAck(a)
        PROVE  \A t \in todo' : t.m.type # "0" /\ NoD0(t.m)
    <3>1. a.hbx \in Hbx
      BY DEF TypeInv, TypeOK, Answer
    <3>2. CASE ~UNCHANGED todo
      <4>1. PICK place \in [Pins -> 0..(Cardinality(Pins) - 1)], status \in [Pins -> Values] :
              todo' = {[ord |-> place[p], delay |-> place[p] * DELAY_20,
                        m |-> Output(a.hbx, p, status[p])] : p \in Pins}
        BY <2>2, <3>2 DEF UAck
      <4>2. \A t \in todo' : \E p \in Pins : t.m = Output(a.hbx, p, status[p]) /\ status[p] \in Values
        BY <4>1
      <4> QED BY <3>1, <4>2, SingleItems
    <3> QED BY <2>1, <3>2
  <2>3. \A a \in air : Txstat(a) \/ DrvAck(a) \/ Ack(a) \/ AckWithNack(a) \/ XAct(a) \/ Brc(a)
          => UNCHANGED todo
    BY DEF Txstat, DrvAck, Ack, AckWithNack, XAct, Brc, Boot
  <2>4. \A h : SpontaneousBoot(h) => UNCHANGED todo
    BY DEF SpontaneousBoot, Boot
  <2>5. \A h, p, v, d : Command(h, p, v, d) => UNCHANGED todo
    BY DEF Command
  <2> QED BY <2>1, <2>2, <2>3, <2>4, <2>5 DEF Incoming, Handle
<1> QED BY <1>1, <1>3, <1>4, <1>5 DEF ResetInv, Passed

LEMMA KeptPassed ==
  ASSUME Passed, it' = it, pc' = pc, mess_counter' = mess_counter, SameResets(queue, queue')
  PROVE  Passed'
<1>1. \A i \in DOMAIN queue' : IsReset(queue'[i], "4") => i \in DOMAIN queue /\ queue'[i] = queue[i]
  BY DEF SameResets, IsReset
<1> QED BY <1>1 DEF Passed

LEMMA KeptAnswered ==
  ASSUME \A e \in sent : Answered(e), air \subseteq air',
         pc' \in {"send", "check"} => pc \in {"send", "check"}, NEW e \in sent
  PROVE  Answered(e)'
BY DEF Answered

(* A delayed message is added.                                             *)
LEMMA AddStepResets ==
  ASSUME TypeInv, ResetInv, AddStep
  PROVE  ResetInv'
<1>1. PICK t \in todo : queue' = AddMessage(queue, t.m, 0, 0, t.delay) /\ todo' = todo \ {t}
  BY DEF AddStep
<1>2. /\ UNCHANGED <<sent, mess_counter, pc, it, air, line>>
      /\ queue \in Seq(Entries) /\ 0 \in Attempts /\ t.m \in Commands /\ t.delay \in Nat
  BY SizeAssumption DEF AddStep, hbxVars, TypeInv, TypeOK, Attempts
<1>3. SameResets(queue, queue')
  BY <1>1, <1>2, OtherMessage DEF ResetInv
<1>4. Paired(queue') /\ Lifted' /\ Passed'
  BY <1>2, <1>3, SameQueueResets, KeptPassed DEF ResetInv
<1>5. \A e \in sent' : Answered(e)'
  BY <1>2, KeptAnswered DEF ResetInv
<1> QED BY <1>1, <1>4, <1>5 DEF ResetInv

(* Entries that change in nothing that concerns a reset.                   *)
Alike(q, r) ==
  /\ DOMAIN r = DOMAIN q
  /\ \A j \in DOMAIN q :
       /\ r[j].type = q[j].type /\ r[j].items = q[j].items
       /\ r[j].hbx = q[j].hbx /\ r[j].priority = q[j].priority
       /\ IsReset(q[j], "4") => r[j].delay = q[j].delay

LEMMA AlikePair ==
  ASSUME NEW q, NEW r, Paired(q), Alike(q, r)
  PROVE  Paired(r) /\ \A h, i : Raised(q, h, i) => Raised(r, h, i)
<1>1. DOMAIN r = DOMAIN q /\ \A j \in DOMAIN q : \A v : IsReset(r[j], v) <=> IsReset(q[j], v)
  BY DEF Alike, IsReset
<1>2. ASSUME NEW h, NEW i, Raised(q, h, i)
      PROVE  Raised(r, h, i)
  <2>1. PICK j \in DOMAIN q : j > i /\ IsReset(q[j], "5") /\ q[j].hbx = h
    BY <1>2 DEF Raised
  <2> QED BY <1>1, <2>1 DEF Alike, Raised
<1>3. ASSUME NEW j \in DOMAIN q
      PROVE  Fitting(r[j]) /\ (IsReset(r[j], "4") => Raised(r, r[j].hbx, j))
  <2>1. Fitting(q[j]) /\ (IsReset(q[j], "4") => Raised(q, q[j].hbx, j))
    BY DEF Paired
  <2>2. /\ r[j].type = q[j].type /\ r[j].items = q[j].items
        /\ r[j].hbx = q[j].hbx /\ r[j].priority = q[j].priority
        /\ IsReset(q[j], "4") => r[j].delay = q[j].delay
    BY DEF Alike
  <2>3. \A v : IsReset(r[j], v) <=> IsReset(q[j], v)
    BY <1>1
  <2>4. Fitting(r[j])
    BY <2>1, <2>2, <2>3 DEF Fitting, NoD0
  <2> QED BY <1>2, <2>1, <2>2, <2>3, <2>4
<1>4. Paired(r)
  BY <1>1, <1>3 DEF Paired
<1> QED BY <1>2, <1>4

LEMMA AlikeResets ==
  ASSUME Paired(queue), Lifted, line' = line, Alike(queue, queue')
  PROVE  Paired(queue') /\ Lifted'
BY AlikePair, KeptLifted

(* send_messages goes on to the next entry; it leaves a command that pulls *)
(* a line down only because there is no room in the buffer of its HBX.     *)
LEMMA NextEntryResets ==
  ASSUME TypeInv, ResetInv, AtEntry, Alike(queue, queue'), it' = it + 1,
         UNCHANGED <<sent, mess_counter, todo, pc, air, line>>,
         IsReset(queue[it], "4") =>
           queue[it].hbx \in Active /\ mess_counter[queue[it].hbx] >= HBX_BUFFER
  PROVE  ResetInv'
<1>1. Paired(queue') /\ Lifted'
  BY AlikeResets DEF ResetInv
<1>2. Passed'
  <2> SUFFICES ASSUME NEW i \in DOMAIN queue', i < it', IsReset(queue'[i], "4")
               PROVE  queue'[i].hbx \in Active /\ mess_counter'[queue'[i].hbx] >= HBX_BUFFER
    BY DEF Passed
  <2>1. i \in DOMAIN queue /\ IsReset(queue[i], "4") /\ queue'[i].hbx = queue[i].hbx
    <3>1. \A q, r : Alike(q, r) => \A k \in DOMAIN r :
            IsReset(r[k], "4") => k \in DOMAIN q /\ IsReset(q[k], "4") /\ r[k].hbx = q[k].hbx
      BY DEF Alike, IsReset
    <3> QED BY <3>1
  <2>2. i < it \/ i = it
    <3>1. Len(queue) \in Nat /\ DOMAIN queue = 1..Len(queue)
      BY LenProperties DEF TypeInv
    <3> QED BY <2>1, <3>1 DEF AtEntry
  <2> QED BY <2>1, <2>2 DEF ResetInv, Passed, AtEntry
<1>3. \A e \in sent' : Answered(e)'
  BY KeptAnswered DEF ResetInv
<1> QED BY <1>1, <1>2, <1>3 DEF ResetInv

LEMMA PassingResets ==
  ASSUME TypeInv, ResetInv, RestartsEnd, CountDelay \/ BufferFull
  PROVE  ResetInv'
<1> DEFINE e == queue[it]
<1>1. /\ AtEntry /\ it' = it + 1 /\ e \in Entries /\ Fitting(e)
      /\ UNCHANGED <<sent, mess_counter, todo, pc, air, line>>
  BY CurrentEntry DEF CountDelay, BufferFull, Due, hbxVars, ResetInv, Paired, AtEntry
<1>2. CASE CountDelay
  <2> DEFINE f == [e EXCEPT !.delay = @ - 1]
  <2>1. queue' = [queue EXCEPT ![it] = f] /\ ~IsReset(e, "4")
    BY <1>1, <1>2 DEF CountDelay, Fitting, IsReset, Entries, Entry
  <2>2. /\ f.type = e.type /\ f.items = e.items /\ f.hbx = e.hbx /\ f.priority = e.priority
    BY <1>1 DEF Entries, Entry
  <2> HIDE DEF f
  <2>3. Alike(queue, queue')
    BY <2>1, <2>2, <1>1 DEF Alike, AtEntry
  <2> QED BY <1>1, <2>1, <2>3, NextEntryResets
<1>3. CASE BufferFull
  <2> DEFINE f == Considered(e)
  <2>1. queue' = [queue EXCEPT ![it] = f]
    BY <1>3 DEF BufferFull
  <2>2. e.hbx \in Active /\ mess_counter[e.hbx] >= HBX_BUFFER
    BY <1>3 DEF BufferFull, Due
  <2>3. IsReset(e, "4") => f = e
    BY <1>1 DEF RestartsEnd, Considered, Postponed, IsReset, AtEntry
  <2>4. /\ f.type = e.type /\ f.items = e.items /\ f.hbx = e.hbx /\ f.priority = e.priority
    BY <1>1 DEF Considered, Entries, Entry
  <2> HIDE DEF f
  <2>5. Alike(queue, queue')
    BY <2>1, <2>3, <2>4, <1>1 DEF Alike, AtEntry
  <2> QED BY <1>1, <2>2, <2>5, NextEntryResets
<1> QED BY <1>2, <1>3

LEMMA StartSendResets ==
  ASSUME Prompt, TypeInv, ResetInv, StartSend
  PROVE  ResetInv'
<1>1. /\ air = {} /\ StableSort(queue, queue') /\ it' = 1 /\ queue \in Seq(Entries)
      /\ UNCHANGED <<sent, todo, line>>
  BY DEF StartSend, TypeInv
<1>2. Paired(queue') /\ (\A h : Raised(queue, h, 0) => Raised(queue', h, 0))
  BY <1>1, SortedPair DEF ResetInv
<1>3. Lifted'
  BY <1>1, <1>2 DEF ResetInv, Lifted
<1>4. Passed'
  <2>1. queue' \in Seq(Entries)
    BY <1>1, SortedType
  <2>2. Len(queue') \in Nat /\ DOMAIN queue' = 1..Len(queue')
    BY <2>1, LenProperties
  <2> QED BY <1>1, <2>2 DEF Passed
<1>5. \A e \in sent' : Answered(e)'
  BY <1>1 DEF ResetInv, Answered
<1> QED BY <1>1, <1>2, <1>3, <1>4, <1>5 DEF ResetInv

(* What both ways out of the queue have in common.                         *)
LEMMA RemovedResets ==
  ASSUME TypeInv, ResetInv, AtEntry, queue' = RemoveAt(queue, it),
         IsReset(queue[it], "5") =>
           \A k \in DOMAIN queue : k < it /\ IsReset(queue[k], "4") => queue[k].hbx # queue[it].hbx,
         UNCHANGED <<pc, it>>,
         \A h \in Hbx : mess_counter'[h] \in Nat /\ mess_counter'[h] >= mess_counter[h]
  PROVE  /\ Paired(queue') /\ Passed'
         /\ \A h : Raised(queue, h, 0) /\ ~(IsReset(queue[it], "5") /\ queue[it].hbx = h)
                  => Raised(queue', h, 0)
         /\ IsReset(queue[it], "4") => Raised(queue', queue[it].hbx, 0)
<1>1. /\ queue \in Seq(Entries) /\ it \in 1..Len(queue) /\ \A j \in DOMAIN queue : queue[j] \in Entries
  BY LenProperties, ElementOfSeq DEF TypeInv, AtEntry
<1>2. /\ Paired(queue')
      /\ \A h : /\ Raised(queue, h, 0) /\ ~(IsReset(queue[it], "5") /\ queue[it].hbx = h)
               => Raised(queue', h, 0)
      /\ IsReset(queue[it], "4") => Raised(queue', queue[it].hbx, 0)
      /\ \A k \in DOMAIN queue' : k < it => k \in DOMAIN queue /\ queue'[k] = queue[k]
  BY <1>1, RemovedPair DEF ResetInv
<1>3. Passed'
  <2> SUFFICES ASSUME NEW k \in DOMAIN queue', k < it, IsReset(queue'[k], "4")
               PROVE  queue'[k].hbx \in Active /\ mess_counter'[queue'[k].hbx] >= HBX_BUFFER
    BY DEF Passed
  <2>1. k \in DOMAIN queue /\ queue'[k] = queue[k] /\ queue[k].hbx \in Hbx
    BY <1>1, <1>2 DEF Entries, Entry
  <2>2. queue[k].hbx \in Active /\ mess_counter[queue[k].hbx] >= HBX_BUFFER
    BY <2>1 DEF ResetInv, Passed, AtEntry
  <2>3. mess_counter[queue[k].hbx] \in Nat /\ HBX_BUFFER \in Nat
    BY <2>1, SizeAssumption DEF TypeInv, TypeOK
  <2>4. /\ mess_counter'[queue[k].hbx] \in Nat
        /\ mess_counter'[queue[k].hbx] >= mess_counter[queue[k].hbx]
    BY <2>1
  <2> QED BY <2>1, <2>2, <2>3, <2>4
<1> QED BY <1>2, <1>3

LEMMA DropResets ==
  ASSUME TypeInv, ResetInv, RestartsEnd, DropEntry
  PROVE  ResetInv'
<1> DEFINE e == queue[it]
<1>1. /\ AtEntry /\ queue' = RemoveAt(queue, it)
      /\ UNCHANGED <<sent, mess_counter, todo, pc, it, air, line>>
  BY DEF DropEntry, hbxVars
<1>2. e.type = "0" => e.hbx \notin Active
  BY <1>1 DEF DropEntry, GivenUp, Postponed, RestartsEnd, AtEntry
<1>3. ASSUME IsReset(e, "5"), NEW k \in DOMAIN queue, k < it, IsReset(queue[k], "4")
      PROVE  queue[k].hbx # e.hbx
  BY <1>1, <1>2, <1>3 DEF ResetInv, Passed, AtEntry, IsReset
<1>4. \A h \in Hbx : mess_counter'[h] \in Nat /\ mess_counter'[h] >= mess_counter[h]
  BY <1>1 DEF TypeInv, TypeOK
<1> HIDE DEF e
<1>5. /\ Paired(queue') /\ Passed'
      /\ \A h : Raised(queue, h, 0) /\ ~(IsReset(e, "5") /\ e.hbx = h) => Raised(queue', h, 0)
  BY <1>1, <1>3, <1>4, RemovedResets DEF e
<1>6. Lifted'
  BY <1>1, <1>2, <1>5 DEF ResetInv, Lifted, IsReset
<1>7. \A x \in sent' : Answered(x)'
  BY <1>1, KeptAnswered DEF ResetInv
<1> QED BY <1>1, <1>5, <1>6, <1>7 DEF ResetInv

(* What a reset command that is obeyed does to the line and the air.       *)
LEMMA ObeyedTransmit ==
  ASSUME TypeInv, NEW e \in Entries, NEW f, NEW u, Transmit(e, f, u),
         e.type = "0" => UNCHANGED budget
  PROVE  /\ air \subseteq air'
         /\ line' = IF e.type = "0" THEN [line EXCEPT ![e.hbx] = e.items[1].val] ELSE line
         /\ e.type = "0" => Report(e, f) \subseteq air'
<1>1. e.type = "0" => ~Spend("answer") /\ ~Spend("loss") /\ ~Spend("silence")
  BY SpendChanges DEF Events
<1>2. Report(e, f) \subseteq Answers(e, f, u)
  BY DEF Answers
<1> QED BY <1>1, <1>2 DEF Transmit

LEMMA SendEntryResets ==
  ASSUME TypeInv, ResetInv, SendEntry, ResetObeyed
  PROVE  ResetInv'
<1> DEFINE e == queue[it]
           f == TakenFrame
           u == TakenUc(e.type)
<1>1. /\ AtEntry /\ queue' = RemoveAt(queue, it)
      /\ mess_counter' = [mess_counter EXCEPT ![e.hbx] = @ + 1]
      /\ Transmit(e, f, u) /\ UNCHANGED <<todo, pc, it>>
  BY DEF SendEntry, Ready, Due
<1>2. e \in Entries /\ e.hbx \in Active /\ e.hbx \in Hbx /\ e.type \in Types
  BY <1>1, CurrentEntry DEF SendEntry, Ready, Due, Entries, Entry
<1>3. mess_counter[e.hbx] < HBX_BUFFER
  BY DEF SendEntry, Ready
<1>4. Fitting(e)
  BY <1>1 DEF ResetInv, Paired, AtEntry
<1>5. /\ air \subseteq air'
      /\ line' = IF e.type = "0" THEN [line EXCEPT ![e.hbx] = e.items[1].val] ELSE line
      /\ e.type = "0" => Report(e, f) \subseteq air'
  <2>1. e.type = "0" => UNCHANGED budget
    BY DEF ResetObeyed
  <2> HIDE DEF e, f, u
  <2> QED BY <1>1, <1>2, <2>1, ObeyedTransmit
<1>6. \A h \in Hbx : mess_counter'[h] \in Nat /\ mess_counter'[h] >= mess_counter[h]
  BY <1>1, <1>2 DEF TypeInv, TypeOK
<1>7. ASSUME IsReset(e, "5"), NEW k \in DOMAIN queue, k < it, IsReset(queue[k], "4")
      PROVE  queue[k].hbx # e.hbx
  <2>1. mess_counter[queue[k].hbx] >= HBX_BUFFER
    BY <1>1, <1>7 DEF ResetInv, Passed, AtEntry
  <2>2. mess_counter[e.hbx] \in Nat /\ HBX_BUFFER \in Nat
    BY <1>2, SizeAssumption DEF TypeInv, TypeOK
  <2> HIDE DEF e
  <2> QED BY <2>1, <2>2, <1>3
<1>8. e.type = "0" => \A v : IsReset(e, v) => e.items[1].val = v
  BY DEF IsReset
<1>9. PICK new : /\ new.type = e.type /\ new.items = e.items /\ new.frame = f /\ new.age = 0
                 /\ sent' = sent \cup {new}
  BY DEF SendEntry
<1> HIDE DEF e, f, u
<1>10. /\ Paired(queue') /\ Passed'
       /\ \A h : Raised(queue, h, 0) /\ ~(IsReset(e, "5") /\ e.hbx = h) => Raised(queue', h, 0)
       /\ IsReset(e, "4") => Raised(queue', e.hbx, 0)
  BY <1>1, <1>6, <1>7, RemovedResets DEF e
<1>11. Lifted'
  <2> SUFFICES ASSUME NEW h \in Hbx, line'[h] = "4" PROVE h \in Active /\ Raised(queue', h, 0)
    BY DEF Lifted
  <2>1. line \in [Hbx -> {"4", "5"}] /\ (line[h] = "4" => h \in Active /\ Raised(queue, h, 0))
    BY DEF TypeInv, TypeOK, ResetInv, Lifted
  <2>2. CASE e.type # "0"
    BY <1>5, <1>10, <2>1, <2>2 DEF IsReset
  <2>3. CASE e.type = "0" /\ IsReset(e, "4")
    <3>1. line' = [line EXCEPT ![e.hbx] = "4"]
      BY <1>5, <1>8, <2>3
    <3>2. ~IsReset(e, "5")
      BY <1>8, <2>3
    <3> QED BY <1>2, <1>10, <2>1, <2>3, <3>1, <3>2
  <2>4. CASE e.type = "0" /\ IsReset(e, "5")
    <3>1. line' = [line EXCEPT ![e.hbx] = "5"]
      BY <1>5, <1>8, <2>4
    <3>2. h # e.hbx
      BY <1>2, <2>1, <3>1
    <3> QED BY <1>10, <2>1, <3>1, <3>2
  <2> QED BY <1>4, <2>2, <2>3, <2>4 DEF Fitting
<1>12. \A x \in sent' : Answered(x)'
  <2>1. \A x \in sent : Answered(x)'
    BY <1>1, <1>5, KeptAnswered DEF ResetInv
  <2>2. Answered(new)'
    <3>1. CASE e.type = "0"
      <4>1. PICK a \in Report(e, f) : a.kind = "drv_ack" /\ a.frame = f
        BY <3>1 DEF Report, Reply
      <4>2. a \in air'
        BY <3>1, <4>1, <1>5
      <4> QED BY <1>9, <3>1, <4>1, <4>2 DEF Answered
    <3>2. CASE e.type # "0"
      BY <1>4, <1>9, <3>2 DEF Answered, Fitting, NoD0
    <3> QED BY <3>1, <3>2
  <2> QED BY <1>9, <2>1, <2>2
<1> QED BY <1>1, <1>10, <1>11, <1>12 DEF ResetInv

(* The messages that wait too long are no reset commands.                  *)
LEMMA CheckResets ==
  ASSUME MAX_DELAY_TIME # 0, DELAY_100 # 0, TypeInv, ResetInv, RestartsEnd, Check
  PROVE  ResetInv'
<1>1. ASSUME NEW e \in sent, TimeoutDiagnostics(e) \/ TimeoutResend(e) \/ TimeoutLost(e)
      PROVE  ResetInv'
  <2>1. /\ pc = "check" /\ e.age = MAX_DELAY_TIME /\ sent' = sent \ {e}
        /\ UNCHANGED <<todo, pc, it, air, line>>
    BY <1>1 DEF TimeoutDiagnostics, TimeoutResend, TimeoutLost, Elapsed, Release
  <2>2. e.type # "0" /\ NoD0(e)
    BY <2>1 DEF ResetInv, Answered
  <2>3. /\ e.hbx \in Hbx /\ e.sent_count \in Nat /\ e.type \in Types /\ e.items \in Seq(Item)
        /\ queue \in Seq(Entries)
    BY DEF TypeInv, SentEntries, SentEntry
  <2>4. Paired(queue') /\ Lifted'
    <3>1. CASE TimeoutDiagnostics(e)
      <4>1. SameResets(queue, queue')
        BY <3>1, UnchangedResets DEF TimeoutDiagnostics, ResetInv
      <4> QED BY <2>1, <4>1, SameQueueResets DEF ResetInv
    <3>2. CASE TimeoutResend(e)
      <4> DEFINE m == Msg(e.hbx, e.type, e.items)
      <4>1. queue' = AddMessage(queue, m, e.sent_count + 1, 0, 0)
        BY <3>2 DEF TimeoutResend
      <4>2. m \in Commands /\ m.type # "0" /\ NoD0(m)
        BY <2>2, <2>3 DEF Msg, Commands, Message, WellFormed, NoD0
      <4>3. e.sent_count + 1 \in Attempts
        BY <3>2, <2>3, SizeAssumption DEF TimeoutResend, Attempts
      <4> HIDE DEF m
      <4>4. SameResets(queue, queue')
        BY <2>3, <4>1, <4>2, <4>3, OtherMessage DEF ResetInv
      <4> QED BY <2>1, <4>4, SameQueueResets DEF ResetInv
    <3>3. CASE TimeoutLost(e)
      <4>1. CASE UNCHANGED queue
        <5>1. SameResets(queue, queue')
          BY <4>1, UnchangedResets DEF ResetInv
        <5> QED BY <2>1, <5>1, SameQueueResets DEF ResetInv
      <4>2. CASE queue' = RestartMessages(queue, e.hbx) /\ e.hbx \notin protect
        BY <2>1, <2>3, <4>2, RestartResets DEF ResetInv
      <4> QED BY <3>3, <4>1, <4>2 DEF TimeoutLost
    <3> QED BY <1>1, <3>1, <3>2, <3>3
  <2>5. \A x \in sent' : Answered(x)'
    BY <2>1, KeptAnswered DEF ResetInv
  <2> QED BY <2>1, <2>4, <2>5 DEF ResetInv, Passed
<1>2. ASSUME NEW next \in {"incoming", "second"}, EndCheck(next)
      PROVE  ResetInv'
  <2> DEFINE older(e) == [e EXCEPT !.age = @ + 1]
  <2>1. /\ sent' = {older(e) : e \in sent} /\ UNCHANGED <<queue, todo, air, line>>
        /\ pc' \notin {"send", "check"}
    BY <1>2 DEF EndCheck
  <2>2. \A e \in sent : /\ older(e).frame = e.frame /\ older(e).type = e.type
                        /\ older(e).items = e.items
    BY DEF TypeInv, SentEntries, SentEntry
  <2> HIDE DEF older
  <2>3. \A x \in sent' : Answered(x)'
    BY <2>1, <2>2 DEF ResetInv, Answered, NoD0
  <2> QED BY <2>1, <2>3 DEF ResetInv, Passed, Lifted
<1> QED BY <1>1, <1>2 DEF Check

LEMMA SecondsResets ==
  ASSUME "D0" \notin Pins, TypeInv, ResetInv, Seconds
  PROVE  ResetInv'
<1>1. UNCHANGED <<queue, sent, air, line>> /\ pc' \notin {"send", "check"}
  BY DEF Seconds, SendDiagnostic, Second
<1>2. \A t \in todo' : t.m.type # "0" /\ NoD0(t.m)
  <2>1. CASE SendDiagnostic
    <3>1. \A t \in todo' : \E h \in Active : t.m = Diagnostics(h)
      BY <2>1 DEF SendDiagnostic
    <3>2. Active \subseteq Hbx
      BY SizeAssumption
    <3> QED BY <3>1, <3>2, SingleItems
  <2>2. CASE UNCHANGED todo
    BY <2>2 DEF ResetInv
  <2> QED BY <2>1, <2>2 DEF Seconds, Second
<1>3. \A e \in sent' : Answered(e)'
  BY <1>1, KeptAnswered DEF ResetInv
<1> QED BY <1>1, <1>2, <1>3 DEF ResetInv, Passed, Lifted

LEMMA NextResets ==
  ASSUME Prompt, MAX_DELAY_TIME # 0, DELAY_100 # 0, "D0" \notin Pins,
         TypeInv, ResetInv, RestartsEnd, [Next]_vars,
         [~NoIds /\ ~SocketFails /\ ResetObeyed]_vars
  PROVE  ResetInv'
<1>1. CASE UNCHANGED vars
  BY <1>1 DEF vars, hbxVars, ResetInv, Lifted, Passed, Answered
<1>2. CASE Send /\ ~UNCHANGED vars
  <2>1. CASE EndSend
    <3>1. UNCHANGED <<queue, sent, todo, air, line>> /\ pc' = "check" /\ pc = "send"
      BY <2>1 DEF EndSend
    <3>2. \A e \in sent' : Answered(e)'
      BY <3>1, KeptAnswered DEF ResetInv
    <3> QED BY <3>1, <3>2 DEF ResetInv, Passed, Lifted
  <2>2. ~NoIds /\ ~SocketFails /\ ResetObeyed
    BY <1>2
  <2> QED
    BY <1>2, <2>1, <2>2, StartSendResets, PassingResets, DropResets, SendEntryResets DEF Send
<1> QED
  BY <1>1, <1>2, IncomingResets, AddStepResets, CheckResets, SecondsResets DEF Next

(* Where none of its reset commands is lost on the way and a restart ends  *)
(* before the next one of the same HBX begins, restart_uc leaves no HBX    *)
(* held in reset.                                                          *)
THEOREM ResetCorrect ==
  ASSUME Prompt, MAX_DELAY_TIME # 0, DELAY_100 # 0, "D0" \notin Pins
  PROVE  Spec /\ [][~NoIds /\ ~SocketFails /\ ResetObeyed]_vars /\ []RestartsEnd
         => []ResetReleased
<1>1. Init => ResetInv
  <2> SUFFICES ASSUME Init PROVE ResetInv
    OBVIOUS
  <2>1. DOMAIN queue = {} /\ sent = {} /\ todo = {} /\ pc # "send" /\ \A h \in Hbx : line[h] # "4"
    BY DEF Init
  <2> QED BY <2>1 DEF ResetInv, Paired, Lifted, Passed
<1>2. /\ TypeInv /\ ResetInv /\ RestartsEnd /\ [Next]_vars
      /\ [~NoIds /\ ~SocketFails /\ ResetObeyed]_vars
      => TypeInv' /\ ResetInv'
  BY NextType, NextResets
<1>3. TypeInv /\ ResetInv => ResetReleased
  <2> SUFFICES ASSUME TypeInv, ResetInv, queue = <<>>, NEW h \in Hbx PROVE line[h] = "5"
    BY DEF ResetReleased, Idle
  <2>1. ~Raised(queue, h, 0)
    BY DEF Raised
  <2> QED BY <2>1 DEF ResetInv, Lifted, TypeInv, TypeOK
<1> QED BY InitType, <1>1, <1>2, <1>3, PTL DEF Spec
=============================================================================
