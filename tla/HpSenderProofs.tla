--------------------------- MODULE HpSenderProofs ---------------------------
(* What the operations of hp_sender keep, whatever a caller puts into it.  *)
EXTENDS HpSender, HpLemmas

(* A set of entries that is closed under a new delay and under merging m   *)
(* is one that add_message does not leave.                                 *)
LEMMA RetimeKeeps ==
  ASSUME NEW S, NEW q \in Seq(S), NEW m, NEW delay, NEW k,
         \A e \in S : [e EXCEPT !.delay = delay] \in S
  PROVE  Retime(q, m, delay, k) \in Seq(S) /\ DOMAIN Retime(q, m, delay, k) = DOMAIN q
<1>1. Len(q) \in Nat /\ DOMAIN q = 1..Len(q) /\ \A j \in DOMAIN q : q[j] \in S
  BY LenProperties, ElementOfSeq
<1>2. Retime(q, m, delay, k) \in [1..Len(q) -> S]
  BY <1>1 DEF Retime
<1> QED BY <1>1, <1>2, FunctionIsSeq

LEMMA AddMessageKeeps ==
  ASSUME NEW S, NEW q \in Seq(S), NEW m, NEW resend, NEW priority, NEW delay,
         \A e \in S : [e EXCEPT !.delay = delay] \in S,
         \A e \in S : Merge(e, m) \in S,
         NewEntry(m, resend, priority, delay) \in S
  PROVE  AddMessage(q, m, resend, priority, delay) \in Seq(S)
<1> DEFINE slots == {k \in DOMAIN q : SameSlot(q[k], m, delay)}
           k == CHOOSE x \in slots : \A y \in slots : x <= y
           r == Retime(q, m, delay, k)
<1>1. CASE slots # {}
  <2>1. k \in DOMAIN q
    <3>1. slots \subseteq Nat
      BY LenProperties
    <3>2. \E x \in slots : \A y \in slots : x <= y
      <4> HIDE DEF slots
      <4> QED BY <1>1, <3>1, LeastExists
    <3> QED BY <3>2
  <2>2. r \in Seq(S) /\ DOMAIN r = DOMAIN q
    BY RetimeKeeps
  <2>3. q[k] \in S
    BY <2>1, ReplaceType
  <2> DEFINE merged == [j \in DOMAIN q |-> IF j = k THEN Merge(q[k], m) ELSE r[j]]
  <2>4. merged \in Seq(S)
    <3>1. Len(q) \in Nat /\ DOMAIN q = 1..Len(q)
      BY LenProperties
    <3>2. DOMAIN r = 1..Len(r) /\ \A j \in DOMAIN r : r[j] \in S
      BY <2>2, LenProperties, ElementOfSeq
    <3> HIDE DEF r, k
    <3>3. merged \in [1..Len(q) -> S]
      BY <2>2, <2>3, <3>1, <3>2
    <3> HIDE DEF merged
    <3> QED BY <3>1, <3>3, FunctionIsSeq
  <2> QED BY <1>1, <2>2, <2>4 DEF AddMessage
<1>2. CASE slots = {}
  <2>1. Retime(q, m, delay, Len(q) + 1) \in Seq(S)
    BY RetimeKeeps
  <2>2. Append(q, NewEntry(m, resend, priority, delay)) \in Seq(S)
    BY AppendProperties
  <2> QED BY <1>2, <2>1, <2>2 DEF AddMessage
<1> QED BY <1>1, <1>2

(* What add_message makes of the entries that are there, one by one, and   *)
(* what it adds.                                                           *)
AsBefore(e, f, m, delay) ==
  \/ f = e
  \/ f = [e EXCEPT !.delay = delay] /\ e.hbx = m.hbx /\ HoldsText(e, m)
  \/ f = Merge(e, m) /\ SameSlot(e, m, delay)

Extended(q, r, m, delay, new) ==
  /\ DOMAIN q \subseteq DOMAIN r
  /\ \A j \in DOMAIN q : AsBefore(q[j], r[j], m, delay)
  /\ \A j \in DOMAIN r : j \in DOMAIN q \/ r[j] = new

LEMMA AddMessagePlaces ==
  ASSUME NEW S, NEW q \in Seq(S), NEW m, NEW resend, NEW priority, NEW delay,
         AddMessage(q, m, resend, priority, delay) \in Seq(S)
  PROVE  Extended(q, AddMessage(q, m, resend, priority, delay), m, delay,
                  NewEntry(m, resend, priority, delay))
<1> DEFINE slots == {k \in DOMAIN q : SameSlot(q[k], m, delay)}
           k == CHOOSE x \in slots : \A y \in slots : x <= y
           r == Retime(q, m, delay, k)
           all == Retime(q, m, delay, Len(q) + 1)
           merged == [j \in DOMAIN q |-> IF j = k THEN Merge(q[k], m) ELSE r[j]]
           new == NewEntry(m, resend, priority, delay)
           o == AddMessage(q, m, resend, priority, delay)
<1>1. Len(q) \in Nat /\ DOMAIN q = 1..Len(q)
  BY LenProperties
<1>2. \A i : /\ DOMAIN Retime(q, m, delay, i) = DOMAIN q
             /\ \A j \in DOMAIN q : AsBefore(q[j], Retime(q, m, delay, i)[j], m, delay)
  BY DEF Retime, Retimed, AsBefore
<1>3. ASSUME slots # {}
      PROVE  k \in DOMAIN q /\ SameSlot(q[k], m, delay)
  <2>1. slots \subseteq Nat
    BY <1>1
  <2> HIDE DEF slots
  <2>2. \E y \in slots : \A z \in slots : y <= z
    BY <1>3, <2>1, LeastExists
  <2>3. k \in slots
    BY <2>2
  <2> QED BY <2>3 DEF slots
<1>4. CASE o = r \/ o = all
  BY <1>2, <1>4 DEF Extended
<1>5. CASE o = merged /\ slots # {}
  <2>1. DOMAIN r = DOMAIN q /\ \A j \in DOMAIN q : AsBefore(q[j], r[j], m, delay)
    BY <1>2
  <2>2. AsBefore(q[k], Merge(q[k], m), m, delay)
    BY <1>3, <1>5 DEF AsBefore
  <2>3. DOMAIN o = DOMAIN q /\ \A j \in DOMAIN q : o[j] = IF j = k THEN Merge(q[k], m) ELSE r[j]
    BY <1>5
  <2> HIDE DEF o, r, k, merged, slots
  <2>4. Extended(q, o, m, delay, new)
    BY <2>1, <2>2, <2>3 DEF Extended
  <2> QED BY <2>4 DEF o
<1>6. CASE o = Append(q, new)
  <2>1. /\ DOMAIN o = 1..(Len(q) + 1) /\ o[Len(q) + 1] = new
        /\ \A j \in DOMAIN q : o[j] = q[j]
    BY <1>1, <1>6
  <2> HIDE DEF o, new
  <2>2. Extended(q, o, m, delay, new)
    BY <1>1, <2>1 DEF AsBefore, Extended
  <2> QED BY <2>2 DEF o, new
<1>7. o = r \/ o = all \/ (o = merged /\ slots # {}) \/ o = Append(q, new)
  BY DEF AddMessage
<1> QED BY <1>4, <1>5, <1>6, <1>7

(* Where no entry has room for a message or holds its text, it is appended. *)
LEMMA AddMessageAppends ==
  ASSUME NEW q, NEW m, NEW resend, NEW priority, NEW delay,
         \A j \in DOMAIN q : ~SameSlot(q[j], m, delay) /\ ~(q[j].hbx = m.hbx /\ HoldsText(q[j], m))
  PROVE  AddMessage(q, m, resend, priority, delay) = Append(q, NewEntry(m, resend, priority, delay))
<1>1. {k \in DOMAIN q : SameSlot(q[k], m, delay)} = {} /\ Retimed(q, m, delay, Len(q) + 1) = {}
  BY DEF Retimed
<1> QED BY <1>1 DEF AddMessage

(* A text that is found in another one begins with one of its items.       *)
LEMMA FirstFound ==
  ASSUME NEW S, NEW s \in Seq(S), NEW t \in SubSeqs(s), t # <<>>
  PROVE  1 \in DOMAIN t /\ \E k \in DOMAIN s : t[1] = s[k]
<1>1. Len(s) \in Nat /\ DOMAIN s = 1..Len(s) /\ \A k \in 1..Len(s) : s[k] \in S
  BY LenProperties, ElementOfSeq
<1>2. PICK i \in 0..Len(s), j \in 0..Len(s) : t = SubSeq(s, i + 1, j)
  BY DEF SubSeqs
<1>3. \A k \in (i + 1)..j : s[k] \in S
  BY <1>1
<1>4. /\ t \in Seq(S) /\ Len(t) = IF i + 1 <= j THEN j - (i + 1) + 1 ELSE 0
      /\ \A k \in 1..(j - (i + 1) + 1) : t[k] = s[(i + 1) + k - 1]
  BY <1>1, <1>2, <1>3, SubSeqProperties
<1>5. Len(t) # 0 /\ DOMAIN t = 1..Len(t)
  BY <1>4, EmptySeq, LenProperties
<1>6. i + 1 <= j /\ 1 \in 1..(j - (i + 1) + 1) /\ (i + 1) + 1 - 1 = i + 1 /\ i + 1 \in 1..Len(s)
  BY <1>1, <1>4, <1>5
<1>7. t[1] = s[i + 1]
  BY <1>4, <1>6
<1> QED BY <1>1, <1>4, <1>5, <1>6, <1>7

(* delete_timer_mess only erases. *)
LEMMA DeleteTimerKeeps ==
  ASSUME NEW S, NEW q \in Seq(S), NEW h, NEW pin
  PROVE  DeleteTimerMess(q, h, pin) \in Seq(S)
<1> DEFINE gone == {e \in ToSet(q) : TimerOf(e, h, pin)}
<1>1. Without(q, gone) \in Seq(S \ gone)
  BY WithoutKeeps
<1> HIDE DEF gone
<1>2. Without(q, gone) \in Seq(S)
  BY <1>1, SeqMonotonic
<1> QED BY <1>2 DEF DeleteTimerMess, gone
=============================================================================
