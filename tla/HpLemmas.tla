------------------------------ MODULE HpLemmas ------------------------------
(***************************************************************************)
(* Facts about sets of numbers and about sequences that the proofs of      *)
(* several modules use.                                                    *)
(***************************************************************************)
EXTENDS HpQueues, SequencesExt, SequenceTheorems, WellFoundedInduction, TLAPS

(* A least element exists in every nonempty set of natural numbers. *)
LEMMA LeastExists ==
  ASSUME NEW S, S \subseteq Nat, S # {}
  PROVE  \E x \in S : \A y \in S : x <= y
<1> DEFINE R == OpToRel(<, Nat)
<1>1. IsWellFoundedOn(R, Nat)
  BY NatLessThanWellFounded
<1>2. \E x \in S : \A y \in S : ~ (<<y, x>> \in R)
  <2> HIDE DEF R
  <2> QED BY <1>1, WFMin
<1>3. PICK x \in S : \A y \in S : ~ (<<y, x>> \in R)
  BY <1>2
<1>4. \A y \in S : ~ (y < x)
  BY <1>3 DEF OpToRel
<1>5. \A y \in S : x <= y
  BY <1>4
<1> QED BY <1>5

(* A function on 1..n is a sequence, and so is what EXCEPT makes of one.   *)
LEMMA FunctionIsSeq ==
  ASSUME NEW S, NEW n \in Nat, NEW f \in [1..n -> S]
  PROVE  f \in Seq(S) /\ Len(f) = n
BY SeqDef, LenProperties

(* One element of a sequence is replaced by another one. *)
LEMMA ReplaceType ==
  ASSUME NEW S, NEW s \in Seq(S), NEW i \in DOMAIN s, NEW e \in S
  PROVE  /\ i \in 1..Len(s) /\ s[i] \in S
         /\ [s EXCEPT ![i] = e] \in Seq(S)
BY LenProperties, ElementOfSeq, ExceptSeq

(* An element that is appended to a sequence leaves the others in place.   *)
LEMMA Longer ==
  ASSUME NEW S, NEW s \in Seq(S), NEW e \in S
  PROVE  /\ Append(s, e) \in Seq(S)
         /\ Len(s) \in Nat /\ DOMAIN s = 1..Len(s)
         /\ DOMAIN Append(s, e) = 1..(Len(s) + 1)
         /\ \A i \in 1..Len(s) : Append(s, e)[i] = s[i]
         /\ Append(s, e)[Len(s) + 1] = e
BY AppendProperties, LenProperties

(* What is left when an element is removed, place by place. *)
LEMMA RemovedPlaces ==
  ASSUME NEW S, NEW s \in Seq(S), NEW i \in 1..Len(s)
  PROVE  /\ RemoveAt(s, i) \in Seq(S) /\ DOMAIN RemoveAt(s, i) = 1..(Len(s) - 1)
         /\ \A k \in 1..(Len(s) - 1) :
              RemoveAt(s, i)[k] = s[IF k < i THEN k ELSE k + 1]
<1> DEFINE front == SubSeq(s, 1, i - 1)
           back == SubSeq(s, i + 1, Len(s))
<1>1. Len(s) \in Nat /\ DOMAIN s = 1..Len(s) /\ \A j \in 1..Len(s) : s[j] \in S
  BY LenProperties, ElementOfSeq
<1>2. /\ front \in Seq(S) /\ Len(front) = i - 1
      /\ \A k \in 1..(i - 1) : front[k] = s[k]
  <2>1. \A k \in 1..(i - 1) : s[k] \in S
    BY <1>1
  <2>2. /\ front \in Seq(S) /\ Len(front) = IF 1 <= i - 1 THEN i - 1 - 1 + 1 ELSE 0
        /\ \A k \in 1..(i - 1 - 1 + 1) : front[k] = s[1 + k - 1]
    BY <2>1, <1>1, SubSeqProperties
  <2> HIDE DEF front
  <2> QED BY <2>2
<1>3. /\ back \in Seq(S) /\ Len(back) = Len(s) - i
      /\ \A k \in 1..(Len(s) - i) : back[k] = s[i + k]
  <2>1. \A k \in (i + 1)..Len(s) : s[k] \in S
    BY <1>1
  <2>2. /\ back \in Seq(S)
        /\ Len(back) = IF i + 1 <= Len(s) THEN Len(s) - (i + 1) + 1 ELSE 0
        /\ \A k \in 1..(Len(s) - (i + 1) + 1) : back[k] = s[(i + 1) + k - 1]
    BY <2>1, <1>1, SubSeqProperties
  <2> HIDE DEF back
  <2>3. \A n \in Nat : i \in 1..n =>
          n - (i + 1) + 1 = n - i /\ (i + 1 <= n \/ n - i = 0)
    OBVIOUS
  <2>4. \A k \in 1..(Len(s) - i) : (i + 1) + k - 1 = i + k
    BY <1>1
  <2>5. Len(s) - (i + 1) + 1 = Len(s) - i /\ (i + 1 <= Len(s) \/ Len(s) - i = 0)
    BY <2>3, <1>1
  <2>6. \A k \in 1..(Len(s) - i) : back[k] = s[i + k]
    BY <2>2, <2>4, <2>5
  <2> QED BY <2>2, <2>5, <2>6
<1>4. RemoveAt(s, i) = front \o back
  BY DEF RemoveAt
<1> HIDE DEF front, back
<1>5. /\ RemoveAt(s, i) \in Seq(S) /\ DOMAIN RemoveAt(s, i) = 1..(Len(s) - 1)
      /\ \A k \in 1..(Len(s) - 1) :
           RemoveAt(s, i)[k] = IF k <= i - 1 THEN front[k] ELSE back[k - (i - 1)]
  <2>1. /\ front \o back \in Seq(S) /\ Len(front \o back) = Len(s) - 1
        /\ \A k \in 1..(Len(s) - 1) :
             (front \o back)[k] = IF k <= i - 1 THEN front[k] ELSE back[k - (i - 1)]
    <3>1. (i - 1) + (Len(s) - i) = Len(s) - 1
      BY <1>1
    <3>2. /\ front \o back \in Seq(S) /\ Len(front \o back) = Len(front) + Len(back)
          /\ \A k \in 1..(Len(front) + Len(back)) :
               (front \o back)[k] = IF k <= Len(front) THEN front[k] ELSE back[k - Len(front)]
      BY <1>2, <1>3, ConcatProperties
    <3> QED BY <1>2, <1>3, <3>1, <3>2
  <2> QED BY <2>1, <1>4, LenProperties
<1>6. ASSUME NEW k \in 1..(Len(s) - 1)
      PROVE  RemoveAt(s, i)[k] = s[IF k < i THEN k ELSE k + 1]
  <2>1. CASE k < i
    <3>1. k <= i - 1 /\ k \in 1..(i - 1)
      BY <2>1, <1>1
    <3> QED BY <2>1, <3>1, <1>2, <1>5
  <2>2. CASE ~(k < i)
    <3>1. ~(k <= i - 1) /\ k - (i - 1) \in 1..(Len(s) - i) /\ i + (k - (i - 1)) = k + 1
      BY <2>2, <1>1
    <3> QED BY <2>2, <3>1, <1>3, <1>5
  <2> QED BY <2>1, <2>2
<1> QED BY <1>5, <1>6

(* An element that is removed from a sequence leaves the others in it.     *)
LEMMA Removed ==
  ASSUME NEW S, NEW s \in Seq(S), NEW i \in 1..Len(s)
  PROVE  /\ RemoveAt(s, i) \in Seq(S)
         /\ \A j \in DOMAIN s : j # i =>
              \E k \in DOMAIN RemoveAt(s, i) : RemoveAt(s, i)[k] = s[j]
<1>1. Len(s) \in Nat /\ DOMAIN s = 1..Len(s)
  BY LenProperties
<1>2. ASSUME NEW j \in DOMAIN s, j # i
      PROVE  \E k \in DOMAIN RemoveAt(s, i) : RemoveAt(s, i)[k] = s[j]
  <2>1. CASE j < i
    <3>1. j \in 1..(Len(s) - 1)
      BY <2>1, <1>1
    <3> QED BY <2>1, <3>1, RemovedPlaces
  <2>2. CASE j > i
    <3>1. j - 1 \in 1..(Len(s) - 1) /\ ~(j - 1 < i) /\ (j - 1) + 1 = j
      BY <2>2, <1>1
    <3> QED BY <3>1, RemovedPlaces
  <2> QED BY <1>2, <1>1, <2>1, <2>2
<1> QED BY <1>2, RemovedPlaces

(* RemoveFirst leaves every other element in the sequence. *)
LEMMA FirstRemoved ==
  ASSUME NEW S, NEW s \in Seq(S), NEW e
  PROVE  /\ RemoveFirst(s, e) \in Seq(S)
         /\ \A j \in DOMAIN s : s[j] # e =>
              \E k \in DOMAIN RemoveFirst(s, e) : RemoveFirst(s, e)[k] = s[j]
<1>1. CASE ~\E i \in 1..Len(s) : s[i] = e
  BY <1>1 DEF RemoveFirst
<1>2. CASE \E i \in 1..Len(s) : s[i] = e
  <2> DEFINE places == {i \in 1..Len(s) : s[i] = e}
             first == CHOOSE x \in places : \A y \in places : x =< y
  <2>1. RemoveFirst(s, e) = RemoveAt(s, first)
    BY <1>2 DEF RemoveFirst, SelectInSeq, Min
  <2>2. \E x \in places : \A y \in places : x =< y
    <3>1. places \subseteq Nat /\ places # {}
      BY <1>2
    <3> HIDE DEF places
    <3> QED BY <3>1, LeastExists
  <2>3. first \in 1..Len(s) /\ s[first] = e
    BY <2>2
  <2> HIDE DEF first
  <2> QED BY <2>1, <2>3, Removed
<1> QED BY <1>1, <1>2

(* The equation of the recursion in Without. *)
KeptAt(s, T, f, i) ==
  IF i = 0 THEN <<>> ELSE IF s[i] \in T THEN f[i - 1] ELSE Append(f[i - 1], s[i])

(* The recursion has a solution among the functions of its type. *)
LEMMA WithoutExists ==
  ASSUME NEW S, NEW s \in Seq(S), NEW T
  PROVE  \E f \in [0..Len(s) -> Seq(S \ T)] : \A i \in 0..Len(s) : f[i] = KeptAt(s, T, f, i)
<1> DEFINE Made(n) == \E f \in [0..n -> Seq(S \ T)] : \A i \in 0..n : f[i] = KeptAt(s, T, f, i)
           missing == {n \in 0..Len(s) : ~Made(n)}
<1>1. Len(s) \in Nat /\ \A j \in 1..Len(s) : s[j] \in S
  BY LenProperties, ElementOfSeq
<1>2. Made(0)
  <2> DEFINE f == [i \in 0..0 |-> <<>>]
  <2>1. f \in [0..0 -> Seq(S \ T)]
    BY EmptySeq
  <2>2. \A i \in 0..0 : f[i] = KeptAt(s, T, f, i)
    BY DEF KeptAt
  <2> HIDE DEF f
  <2> QED BY <2>1, <2>2
<1>3. ASSUME NEW n \in Nat, n < Len(s), Made(n)
      PROVE  Made(n + 1)
  <2>1. PICK f \in [0..n -> Seq(S \ T)] : \A i \in 0..n : f[i] = KeptAt(s, T, f, i)
    BY <1>3
  <2> DEFINE new == IF s[n + 1] \in T THEN f[n] ELSE Append(f[n], s[n + 1])
             g == [i \in 0..(n + 1) |-> IF i = n + 1 THEN new ELSE f[i]]
  <2>2. new \in Seq(S \ T)
    <3>1. n + 1 \in 1..Len(s) /\ f[n] \in Seq(S \ T)
      BY <1>1, <1>3, <2>1
    <3>2. s[n + 1] \notin T => Append(f[n], s[n + 1]) \in Seq(S \ T)
      BY <3>1, <1>1, AppendProperties
    <3> QED BY <3>1, <3>2
  <2> HIDE DEF new
  <2>3. g \in [0..(n + 1) -> Seq(S \ T)]
    BY <2>1, <2>2
  <2>4. ASSUME NEW i \in 0..(n + 1) PROVE g[i] = KeptAt(s, T, g, i)
    <3>1. CASE i = n + 1
      <4>1. i # 0 /\ i - 1 = n /\ g[i - 1] = f[n] /\ g[i] = new
        BY <3>1
      <4> HIDE DEF g
      <4> QED BY <3>1, <4>1 DEF new, KeptAt
    <3>2. CASE i # n + 1
      <4>1. i \in 0..n /\ g[i] = f[i] /\ (i # 0 => g[i - 1] = f[i - 1])
        BY <3>2
      <4>2. f[i] = KeptAt(s, T, f, i)
        BY <4>1, <2>1
      <4> HIDE DEF g
      <4> QED BY <4>1, <4>2 DEF KeptAt
    <3> QED BY <3>1, <3>2
  <2> HIDE DEF g
  <2> QED BY <2>3, <2>4
<1> HIDE DEF Made
<1>4. missing = {}
  <2> SUFFICES ASSUME missing # {} PROVE FALSE
    OBVIOUS
  <2>1. PICK n \in missing : \A m \in missing : n <= m
    <3>1. missing \subseteq Nat
      BY <1>1
    <3> HIDE DEF missing
    <3> QED BY <3>1, LeastExists
  <2>2. n \in 0..Len(s) /\ n # 0 /\ ~Made(n)
    BY <2>1, <1>2
  <2>3. n - 1 \in Nat /\ n - 1 < Len(s) /\ n - 1 \notin missing /\ (n - 1) + 1 = n
    BY <2>1, <2>2, <1>1
  <2>4. Made(n - 1)
    BY <2>3, <1>1
  <2>5. Made((n - 1) + 1)
    BY <2>3, <2>4, <1>3
  <2> QED BY <2>2, <2>3, <2>5
<1>5. Made(Len(s))
  BY <1>1, <1>4
<1> QED BY <1>5 DEF Made

(* The equation of the recursion holds of the function that Without takes. *)
LEMMA WithoutFunction ==
  ASSUME NEW S, NEW s \in Seq(S), NEW T
  PROVE  \E f \in [0..Len(s) -> Seq(S \ T)] :
           f[Len(s)] = Without(s, T) /\ \A i \in 0..Len(s) : f[i] = KeptAt(s, T, f, i)
<1> DEFINE F == CHOOSE f : f = [i \in 0..Len(s) |-> KeptAt(s, T, f, i)]
           wrong == {i \in 0..Len(s) : F[i] \notin Seq(S \ T)}
<1>1. Len(s) \in Nat /\ \A j \in 1..Len(s) : s[j] \in S
  BY LenProperties, ElementOfSeq
<1>2. F = [i \in 0..Len(s) |-> KeptAt(s, T, F, i)]
  <2>1. PICK f \in [0..Len(s) -> Seq(S \ T)] : \A i \in 0..Len(s) : f[i] = KeptAt(s, T, f, i)
    BY WithoutExists
  <2>2. f = [i \in 0..Len(s) |-> KeptAt(s, T, f, i)]
    BY <2>1
  <2> QED BY <2>2
<1>3. Without(s, T) = F[Len(s)]
  BY Zenon DEF Without, KeptAt
<1> HIDE DEF F
<1>4. wrong = {}
  <2> SUFFICES ASSUME wrong # {} PROVE FALSE
    OBVIOUS
  <2>1. PICK n \in wrong : \A m \in wrong : n <= m
    <3>1. wrong \subseteq Nat
      BY <1>1
    <3> HIDE DEF wrong
    <3> QED BY <3>1, LeastExists
  <2>2. n \in 0..Len(s) /\ F[n] = KeptAt(s, T, F, n) /\ F[n] \notin Seq(S \ T)
    BY <2>1, <1>2
  <2>3. n # 0
    BY <2>2, EmptySeq DEF KeptAt
  <2>4. n - 1 \in 0..Len(s) /\ n - 1 \notin wrong /\ n \in 1..Len(s)
    BY <2>1, <2>2, <2>3, <1>1
  <2>5. F[n - 1] \in Seq(S \ T)
    BY <2>4
  <2>6. s[n] \notin T => Append(F[n - 1], s[n]) \in Seq(S \ T)
    BY <2>4, <2>5, <1>1, AppendProperties
  <2> QED BY <2>2, <2>3, <2>5, <2>6 DEF KeptAt
<1>5. F \in [0..Len(s) -> Seq(S \ T)]
  <2>1. \A i \in 0..Len(s) : F[i] \in Seq(S \ T)
    BY <1>4
  <2> QED BY <2>1, <1>2
<1>6. \A i \in 0..Len(s) : F[i] = KeptAt(s, T, F, i)
  BY <1>2
<1> QED BY <1>3, <1>5, <1>6

(* Erasing the members of T from a vector leaves none of them. *)
LEMMA WithoutKeeps ==
  ASSUME NEW S, NEW s \in Seq(S), NEW T
  PROVE  Without(s, T) \in Seq(S \ T)
<1>1. Len(s) \in 0..Len(s)
  BY LenProperties
<1> QED BY <1>1, WithoutFunction

(* w holds the elements of s at the first n places that are not in T, in   *)
(* the old order: its place i was place f[i].                              *)
Embeds(w, s, T, n, f) ==
  /\ f \in [1..Len(w) -> 1..n]
  /\ \A i \in 1..Len(w) : w[i] = s[f[i]] /\ i <= f[i]
  /\ \A i, j \in 1..Len(w) : i < j => f[i] < f[j]
  /\ \A j \in 1..n : s[j] \notin T => \E i \in 1..Len(w) : f[i] = j

(* ... one place more: the element is erased or kept. *)
LEMMA EmbedsMore ==
  ASSUME NEW S, NEW s \in Seq(S), NEW T, NEW n \in Nat, n < Len(s), NEW w \in Seq(S \ T),
         Len(w) <= n, NEW f, Embeds(w, s, T, n, f)
  PROVE  LET v == IF s[n + 1] \in T THEN w ELSE Append(w, s[n + 1])
         IN Len(v) <= n + 1 /\ \E g : Embeds(v, s, T, n + 1, g)
<1>1. Len(s) \in Nat /\ Len(w) \in Nat /\ s[n + 1] \in S
  BY LenProperties, ElementOfSeq
<1>2. CASE s[n + 1] \in T
  <2>1. f \in [1..Len(w) -> 1..(n + 1)]
    BY <1>1 DEF Embeds
  <2>2. \A j \in 1..(n + 1) : s[j] \notin T => \E i \in 1..Len(w) : f[i] = j
    BY <1>2 DEF Embeds
  <2>3. Embeds(w, s, T, n + 1, f)
    BY <2>1, <2>2 DEF Embeds
  <2> QED BY <1>1, <1>2, <2>3
<1>3. CASE s[n + 1] \notin T
  <2> DEFINE v == Append(w, s[n + 1])
             m == Len(w)
             g == [i \in 1..(m + 1) |-> IF i = m + 1 THEN n + 1 ELSE f[i]]
  <2>1. /\ Len(v) = m + 1 /\ \A i \in 1..m : v[i] = w[i]
        /\ v[m + 1] = s[n + 1]
    BY <1>1, <1>3, AppendProperties
  <2> HIDE DEF v
  <2>2. \A i \in 1..m : f[i] \in 1..n /\ g[i] = f[i] /\ i \in 1..(m + 1)
    <3>1. \A i \in 1..m : f[i] \in 1..n
      BY DEF Embeds
    <3>2. \A i \in 1..m : i \in 1..(m + 1) /\ i # m + 1
      BY <1>1
    <3> QED BY <3>1, <3>2
  <2>3. g[m + 1] = n + 1 /\ m + 1 \in 1..(m + 1) /\ m + 1 <= n + 1
    BY <1>1
  <2>4. \A i \in 1..(m + 1) : i \in 1..m \/ i = m + 1
    BY <1>1
  <2>5. g \in [1..(m + 1) -> 1..(n + 1)]
    <3>1. \A i \in 1..(m + 1) : g[i] \in 1..(n + 1)
      <4> HIDE DEF g, m
      <4> QED BY <1>1, <2>2, <2>3, <2>4
    <3> QED BY <3>1
  <2> HIDE DEF g
  <2>6. \A i \in 1..(m + 1) : v[i] = s[g[i]] /\ i <= g[i]
    BY <2>1, <2>2, <2>3, <2>4 DEF Embeds
  <2>7. \A i, j \in 1..(m + 1) : i < j => g[i] < g[j]
    <3> SUFFICES ASSUME NEW i \in 1..(m + 1), NEW j \in 1..(m + 1), i < j PROVE g[i] < g[j]
      OBVIOUS
    <3>1. i \in 1..m
      BY <1>1
    <3> QED BY <3>1, <2>2, <2>3, <2>4 DEF Embeds
  <2>8. \A j \in 1..(n + 1) : s[j] \notin T => \E i \in 1..(m + 1) : g[i] = j
    <3> SUFFICES ASSUME NEW j \in 1..(n + 1), s[j] \notin T PROVE \E i \in 1..(m + 1) : g[i] = j
      OBVIOUS
    <3>1. CASE j \in 1..n
      BY <3>1, <2>2 DEF Embeds
    <3> QED BY <3>1, <2>3
  <2>9. Embeds(v, s, T, n + 1, g)
    BY <2>1, <2>5, <2>6, <2>7, <2>8 DEF Embeds
  <2> QED BY <1>3, <2>1, <2>3, <2>9 DEF v
<1> QED BY <1>2, <1>3

(* What Without leaves is all there was but T, in the old order. *)
LEMMA WithoutPlaces ==
  ASSUME NEW S, NEW s \in Seq(S), NEW T
  PROVE  \E f : Embeds(Without(s, T), s, T, Len(s), f)
<1>1. PICK F \in [0..Len(s) -> Seq(S \ T)] :
        F[Len(s)] = Without(s, T) /\ \A i \in 0..Len(s) : F[i] = KeptAt(s, T, F, i)
  BY WithoutFunction
<1> DEFINE Holds(n) == Len(F[n]) <= n /\ \E f : Embeds(F[n], s, T, n, f)
           wrong == {n \in 0..Len(s) : ~Holds(n)}
<1>2. Len(s) \in Nat
  BY LenProperties
<1>3. Holds(0)
  <2> DEFINE f == [i \in 1..0 |-> 1]
  <2>1. F[0] = <<>>
    BY <1>1, <1>2 DEF KeptAt
  <2>2. Embeds(<<>>, s, T, 0, f)
    BY DEF Embeds
  <2> QED BY <2>1, <2>2
<1>4. ASSUME NEW n \in Nat, n < Len(s), Holds(n)
      PROVE  Holds(n + 1)
  <2>1. F[n + 1] = IF s[n + 1] \in T THEN F[n] ELSE Append(F[n], s[n + 1])
    <3>1. n + 1 \in 0..Len(s) /\ n + 1 # 0 /\ (n + 1) - 1 = n
      BY <1>2, <1>4
    <3>2. F[n + 1] = KeptAt(s, T, F, n + 1)
      BY <1>1, <3>1
    <3> QED BY <3>1, <3>2 DEF KeptAt
  <2>2. F[n] \in Seq(S \ T)
    BY <1>1, <1>2, <1>4
  <2>3. PICK f : Embeds(F[n], s, T, n, f)
    BY <1>4
  <2> QED BY <1>4, <2>1, <2>2, <2>3, EmbedsMore
<1> HIDE DEF Holds
<1>5. wrong = {}
  <2> SUFFICES ASSUME wrong # {} PROVE FALSE
    OBVIOUS
  <2>1. PICK n \in wrong : \A m \in wrong : n <= m
    <3>1. wrong \subseteq Nat
      BY <1>2
    <3> HIDE DEF wrong
    <3> QED BY <3>1, LeastExists
  <2>2. n \in 0..Len(s) /\ n # 0 /\ ~Holds(n)
    BY <2>1, <1>3
  <2>3. n - 1 \in Nat /\ n - 1 < Len(s) /\ n - 1 \notin wrong /\ (n - 1) + 1 = n
    BY <2>1, <2>2, <1>2
  <2>4. Holds(n - 1)
    BY <2>3, <1>2
  <2>5. Holds((n - 1) + 1)
    BY <2>3, <2>4, <1>4
  <2> QED BY <2>2, <2>3, <2>5
<1>6. Holds(Len(s))
  BY <1>2, <1>5
<1> QED BY <1>1, <1>6 DEF Holds
=============================================================================
