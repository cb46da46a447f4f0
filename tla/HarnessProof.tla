---------------------------- MODULE HarnessProof ----------------------------
(***************************************************************************)
(* Proofs about the agent harness, for any number of agents, channels and  *)
(* events and any values of its caps.                                      *)
(*                                                                         *)
(* The properties of Harness are not inductive one by one.  That no event  *)
(* is lost needs to know where it is (Lists, Turns: each event in one list *)
(* of its own channel or in one turn); that a steered message is not       *)
(* prompted again needs to know that an event with a steer anywhere (an    *)
(* inbox, the wire, an ack) is in the side table or settled (Steers,       *)
(* HeldBack); that failures are bounded needs to know that a channel with  *)
(* failures has a batch, so that maintenance does not forget its count     *)
(* (Retries); and an agent of a wake overwrites none because a pool that   *)
(* sleeps has no agent, turn or respawn anywhere (Asleep).  EventInv is    *)
(* their conjunction, of a queue, turns, acks and histories that are       *)
(* arguments: a handler is followed call by call, one lemma per call, and  *)
(* EventsStep puts the calls together.                                     *)
(*                                                                         *)
(* In order: lists of distinct events; what the queue's methods change,    *)
(* channel by channel; the invariant and one lemma per call; the step of   *)
(* the whole loop; the theorems.                                           *)
(***************************************************************************)
EXTENDS Harness, FiniteSetTheorems, SequenceTheorems, TLAPS

(* No element of a sequence is in it twice.                                *)
Once(s) == \A i, j \in DOMAIN s : s[i] = s[j] => i = j

-----------------------------------------------------------------------------
(* Lists of distinct events.                                               *)

(* The empty list.                                                         *)
LEMMA Nothing == <<>> \in Seq(Events) /\ Len(<<>>) = 0 /\ ToSet(<<>>) = {} /\ Once(<<>>)
<1>1. <<>> \in Seq(Events) /\ Len(<<>>) = 0 /\ DOMAIN <<>> = {}
  OBVIOUS
<1> QED
  BY <1>1 DEF ToSet, Once

(* A list followed by another holds what either holds.                     *)
LEMMA Joined ==
    ASSUME NEW S, NEW s \in Seq(S), NEW t \in Seq(S)
    PROVE  /\ s \o t \in Seq(S)
           /\ ToSet(s \o t) = ToSet(s) \cup ToSet(t)
           /\ Once(s) /\ Once(t) /\ ToSet(s) \cap ToSet(t) = {} => Once(s \o t)
<1>1. /\ DOMAIN s = 1..Len(s) /\ DOMAIN t = 1..Len(t)
      /\ DOMAIN (s \o t) = 1..(Len(s) + Len(t))
      /\ Len(s) \in Nat /\ Len(t) \in Nat /\ s \o t \in Seq(S)
  OBVIOUS
<1>2. \A i \in 1..(Len(s) + Len(t)) :
         (s \o t)[i] = IF i <= Len(s) THEN s[i] ELSE t[i - Len(s)]
  OBVIOUS
<1>3. ASSUME NEW i \in 1..(Len(s) + Len(t))
      PROVE  \/ i \in DOMAIN s /\ (s \o t)[i] = s[i]
             \/ i > Len(s) /\ i - Len(s) \in DOMAIN t /\ (s \o t)[i] = t[i - Len(s)]
  BY <1>1, <1>2
<1>4. ASSUME NEW x \in ToSet(s) PROVE x \in ToSet(s \o t)
  <2>1. PICK i \in DOMAIN s : x = s[i]
    BY DEF ToSet
  <2>2. i \in DOMAIN (s \o t) /\ x = (s \o t)[i]
    BY <1>1, <1>2, <2>1
  <2> QED
    BY <2>2 DEF ToSet
<1>5. ASSUME NEW x \in ToSet(t) PROVE x \in ToSet(s \o t)
  <2>1. PICK i \in 1..Len(t) : x = t[i]
    BY <1>1 DEF ToSet
  <2>2. /\ Len(s) + i \in 1..(Len(s) + Len(t)) /\ ~(Len(s) + i <= Len(s))
        /\ Len(s) + i - Len(s) = i
    BY <1>1
  <2>3. Len(s) + i \in DOMAIN (s \o t) /\ x = (s \o t)[Len(s) + i]
    BY <1>1, <1>2, <2>1, <2>2
  <2> QED
    BY <2>3 DEF ToSet
<1>6. \A i \in DOMAIN s : s[i] \in ToSet(s)
  BY DEF ToSet
<1>7. \A i \in DOMAIN t : t[i] \in ToSet(t)
  BY DEF ToSet
<1>8. ToSet(s \o t) \subseteq ToSet(s) \cup ToSet(t)
  BY <1>1, <1>3, <1>6, <1>7 DEF ToSet
<1>9. ASSUME Once(s), Once(t), ToSet(s) \cap ToSet(t) = {} PROVE Once(s \o t)
  <2> SUFFICES ASSUME NEW i \in 1..(Len(s) + Len(t)), NEW j \in 1..(Len(s) + Len(t)),
                      (s \o t)[i] = (s \o t)[j]
               PROVE  i = j
    BY <1>1 DEF Once
  <2>1. CASE i \in DOMAIN s /\ (s \o t)[i] = s[i]
    BY <1>1, <1>3, <1>6, <1>7, <1>9, <2>1 DEF Once
  <2>2. CASE i > Len(s) /\ i - Len(s) \in DOMAIN t /\ (s \o t)[i] = t[i - Len(s)]
    <3>1. j > Len(s) /\ j - Len(s) \in DOMAIN t /\ (s \o t)[j] = t[j - Len(s)]
      BY <1>3, <1>6, <1>7, <1>9, <2>2
    <3>2. i - Len(s) = j - Len(s)
      BY <1>9, <2>2, <3>1 DEF Once
    <3> QED
      BY <1>1, <3>2
  <2> QED
    BY <1>3, <2>1, <2>2
<1> QED
  BY <1>1, <1>4, <1>5, <1>8, <1>9

(* A list cut in two: both parts are lists, together they hold what it     *)
(* held, and what was there once is in one of them, once.                  *)
LEMMA Cut ==
    ASSUME NEW S, NEW s \in Seq(S), NEW k \in 0..Len(s)
    PROVE  /\ SubSeq(s, 1, k) \in Seq(S) /\ SubSeq(s, k + 1, Len(s)) \in Seq(S)
           /\ Len(SubSeq(s, 1, k)) = k
           /\ ToSet(SubSeq(s, 1, k)) \cup ToSet(SubSeq(s, k + 1, Len(s))) = ToSet(s)
           /\ Once(s) => /\ Once(SubSeq(s, 1, k)) /\ Once(SubSeq(s, k + 1, Len(s)))
                         /\ ToSet(SubSeq(s, 1, k)) \cap ToSet(SubSeq(s, k + 1, Len(s))) = {}
<1>0. PICK f : f = SubSeq(s, 1, k)
  OBVIOUS
<1>00. PICK b : b = SubSeq(s, k + 1, Len(s))
  OBVIOUS
<1>1. /\ DOMAIN s = 1..Len(s) /\ Len(s) \in Nat
      /\ f \in Seq(S) /\ Len(f) = k /\ DOMAIN f = 1..k
      /\ \A i \in 1..k : f[i] = s[i]
  BY <1>0
<1>2. /\ b \in Seq(S) /\ Len(b) = Len(s) - k /\ DOMAIN b = 1..(Len(s) - k)
      /\ \A i \in 1..(Len(s) - k) : b[i] = s[k + i]
  <2>1. CASE k = Len(s)
    BY <1>00, <2>1
  <2>2. CASE k # Len(s)
    BY <1>00, <2>2
  <2> QED
    BY <2>1, <2>2
<1>3. \A i \in 1..k : i \in DOMAIN s /\ f[i] = s[i] /\ f[i] \in ToSet(s)
  BY <1>1 DEF ToSet
<1>4. ASSUME NEW i \in 1..(Len(s) - k) PROVE k + i \in DOMAIN s /\ b[i] = s[k + i] /\ b[i] \in ToSet(s)
  <2>1. k + i \in 1..Len(s)
    OBVIOUS
  <2> QED
    BY <1>1, <1>2, <2>1 DEF ToSet
<1>5. ToSet(f) \cup ToSet(b) \subseteq ToSet(s)
  BY <1>1, <1>2, <1>3, <1>4 DEF ToSet
<1>6. ASSUME NEW x \in ToSet(s) PROVE x \in ToSet(f) \cup ToSet(b)
  <2>1. PICK i \in 1..Len(s) : x = s[i]
    BY <1>1 DEF ToSet
  <2>2. CASE i <= k
    <3>1. i \in DOMAIN f /\ x = f[i]
      BY <1>1, <2>1, <2>2
    <3> QED
      BY <3>1 DEF ToSet
  <2>3. CASE ~(i <= k)
    <3>1. i - k \in 1..(Len(s) - k) /\ k + (i - k) = i
      BY <2>3
    <3>2. i - k \in DOMAIN b /\ x = b[i - k]
      BY <1>2, <2>1, <3>1
    <3> QED
      BY <3>2 DEF ToSet
  <2> QED
    BY <2>2, <2>3
<1>7. ASSUME Once(s) PROVE Once(f) /\ Once(b) /\ ToSet(f) \cap ToSet(b) = {}
  <2>1. Once(f)
    BY <1>1, <1>3, <1>7 DEF Once
  <2>2. ASSUME NEW i \in 1..(Len(s) - k), NEW j \in 1..(Len(s) - k), b[i] = b[j] PROVE i = j
    <3>1. k + i = k + j
      BY <1>4, <1>7, <2>2 DEF Once
    <3> QED
      BY <3>1
  <2>3. Once(b)
    BY <1>2, <2>2 DEF Once
  <2>4. ASSUME NEW i \in 1..k, NEW j \in 1..(Len(s) - k) PROVE f[i] # b[j]
    <3>1. i # k + j
      OBVIOUS
    <3> QED
      BY <1>3, <1>4, <1>7, <3>1 DEF Once
  <2>5. ToSet(f) \cap ToSet(b) = {}
    BY <1>1, <1>2, <2>4 DEF ToSet
  <2> QED
    BY <2>1, <2>3, <2>5
<1> QED
  BY <1>0, <1>00, <1>1, <1>2, <1>5, <1>6, <1>7

(* The cap keeps the front of a list and drops the rest.                   *)
LEMMA CapCuts ==
    ASSUME NEW s \in Seq(Events)
    PROVE  /\ Capped(s) \in Seq(Events) /\ Len(Capped(s)) <= MaxPending
           /\ ToSet(Capped(s)) \cup Overflow(s) = ToSet(s)
           /\ Once(s) => Once(Capped(s)) /\ ToSet(Capped(s)) \cap Overflow(s) = {}
           /\ Len(s) <= MaxPending => ToSet(Capped(s)) = ToSet(s) /\ Overflow(s) = {}
           /\ s # <<>> => s[1] \in ToSet(Capped(s))
<1>1. Len(s) \in Nat /\ MaxPending \in Nat /\ MaxPending > 0
  BY QueueAssumption
<1>2. ASSUME Len(s) <= MaxPending PROVE Min({Len(s), MaxPending}) = Len(s)
  BY <1>1, <1>2 DEF Min
<1>3. ASSUME ~(Len(s) <= MaxPending) PROVE Min({Len(s), MaxPending}) = MaxPending
  BY <1>1, <1>3 DEF Min
<1>4. s # <<>> => Len(s) > 0
  BY <1>1, EmptySeq
<1>5. CASE Len(s) <= MaxPending
  <2>1. Capped(s) = SubSeq(s, 1, Len(s))
    BY <1>2, <1>5 DEF Capped
  <2>2. Capped(s) = s
    BY <2>1
  <2>3. SubSeq(s, MaxPending + 1, Len(s)) = <<>>
    BY <1>1, <1>5
  <2>4. Overflow(s) = {}
    BY <2>3, Nothing DEF Overflow
  <2>5. s # <<>> => s[1] \in ToSet(s)
    BY <1>1, <1>4 DEF ToSet
  <2> QED
    BY <1>5, <2>2, <2>4, <2>5
<1>6. CASE ~(Len(s) <= MaxPending)
  <2>1. MaxPending \in 0..Len(s)
    BY <1>1, <1>6
  <2>2. Capped(s) = SubSeq(s, 1, MaxPending) /\ Overflow(s) = ToSet(SubSeq(s, MaxPending + 1, Len(s)))
    BY <1>3, <1>6 DEF Capped, Overflow
  <2>3. 1 \in DOMAIN SubSeq(s, 1, MaxPending) /\ SubSeq(s, 1, MaxPending)[1] = s[1]
    BY <1>1, <2>1
  <2>4. s[1] \in ToSet(Capped(s))
    BY <2>2, <2>3 DEF ToSet
  <2>5. Len(SubSeq(s, 1, MaxPending)) = MaxPending
    BY <2>1, Cut
  <2> QED
    BY <1>1, <1>6, <2>1, <2>2, <2>4, <2>5, Cut
<1> QED
  BY <1>5, <1>6

(* A list with an event at its end.                                        *)
LEMMA Pushed ==
    ASSUME NEW s \in Seq(Events), NEW e \in Events
    PROVE  /\ Append(s, e) \in Seq(Events) /\ Len(Append(s, e)) = Len(s) + 1
           /\ ToSet(Append(s, e)) = ToSet(s) \cup {e}
           /\ Once(s) /\ e \notin ToSet(s) => Once(Append(s, e))
<1>0. PICK t : t = Append(s, e)
  OBVIOUS
<1>1. /\ DOMAIN s = 1..Len(s) /\ Len(s) \in Nat
      /\ t \in Seq(Events) /\ Len(t) = Len(s) + 1 /\ DOMAIN t = 1..(Len(s) + 1)
      /\ \A i \in 1..Len(s) : t[i] = s[i]
      /\ t[Len(s) + 1] = e
  BY <1>0
<1>2. \A i \in DOMAIN t : i \in DOMAIN s \/ i = Len(s) + 1
  BY <1>1
<1>3. \A i \in DOMAIN s : s[i] \in ToSet(s) /\ i \in DOMAIN t /\ t[i] = s[i]
  BY <1>1 DEF ToSet
<1>4. ToSet(t) = ToSet(s) \cup {e}
  <2>1. ToSet(t) \subseteq ToSet(s) \cup {e}
    BY <1>1, <1>2, <1>3 DEF ToSet
  <2>2. ToSet(s) \subseteq ToSet(t)
    BY <1>3 DEF ToSet
  <2>3. e \in ToSet(t)
    BY <1>1 DEF ToSet
  <2> QED
    BY <2>1, <2>2, <2>3
<1>5. ASSUME Once(s), e \notin ToSet(s) PROVE Once(t)
  BY <1>1, <1>2, <1>3, <1>5 DEF Once
<1> QED
  BY <1>0, <1>1, <1>4, <1>5

(* A list without its head.                                                *)
LEMMA Popped ==
    ASSUME NEW s \in Seq(Events), s # <<>>
    PROVE  /\ Tail(s) \in Seq(Events) /\ Len(Tail(s)) = Len(s) - 1
           /\ ToSet(s) = {Head(s)} \cup ToSet(Tail(s))
           /\ Once(s) => Once(Tail(s)) /\ Head(s) \notin ToSet(Tail(s))
<1>0. PICK t : t = Tail(s)
  OBVIOUS
<1>1. /\ DOMAIN s = 1..Len(s) /\ Len(s) \in Nat /\ Len(s) > 0 /\ Head(s) = s[1]
      /\ t \in Seq(Events) /\ Len(t) = Len(s) - 1 /\ DOMAIN t = 1..(Len(s) - 1)
      /\ \A i \in 1..(Len(s) - 1) : t[i] = s[i + 1]
  BY <1>0
<1>2. ASSUME NEW i \in DOMAIN t PROVE i + 1 \in DOMAIN s /\ i + 1 # 1 /\ t[i] = s[i + 1]
  BY <1>1
<1>3. ASSUME NEW i \in DOMAIN s, i # 1 PROVE i - 1 \in DOMAIN t /\ t[i - 1] = s[i]
  <2>1. i - 1 \in 1..(Len(s) - 1) /\ (i - 1) + 1 = i
    BY <1>1, <1>3
  <2> QED
    BY <1>1, <2>1
<1>4. ToSet(s) = {Head(s)} \cup ToSet(t)
  <2>1. ToSet(t) \subseteq ToSet(s)
    BY <1>2 DEF ToSet
  <2>2. Head(s) \in ToSet(s)
    BY <1>1 DEF ToSet
  <2>3. ToSet(s) \subseteq {Head(s)} \cup ToSet(t)
    BY <1>1, <1>3 DEF ToSet
  <2> QED
    BY <2>1, <2>2, <2>3
<1>5. ASSUME Once(s) PROVE Once(t) /\ Head(s) \notin ToSet(t)
  <2>1. ASSUME NEW i \in DOMAIN t, NEW j \in DOMAIN t, t[i] = t[j] PROVE i = j
    <3>1. i + 1 = j + 1
      BY <1>2, <1>5, <2>1 DEF Once
    <3> QED
      BY <1>1, <3>1
  <2>2. \A i \in DOMAIN t : t[i] # Head(s)
    BY <1>1, <1>2, <1>5 DEF Once
  <2> QED
    BY <2>1, <2>2 DEF Once, ToSet
<1> QED
  BY <1>0, <1>1, <1>4, <1>5

(* Ranks by a strict total order on a finite set are 1, 2, ... without a   *)
(* gap or a repeat.                                                        *)
LEMMA Ranked ==
    ASSUME NEW K, IsFiniteSet(K), NEW R,
           \A i, j \in K : i # j => <<i, j>> \in R \/ <<j, i>> \in R,
           \A i \in K : <<i, i>> \notin R,
           \A i, j, k \in K : <<i, j>> \in R /\ <<j, k>> \in R => <<i, k>> \in R
    PROVE  /\ \A k \in K : Rank(K, R, k) \in 1..Cardinality(K)
           /\ \A i, j \in K : Rank(K, R, i) = Rank(K, R, j) => i = j
           /\ \A n \in 1..Cardinality(K) : \E k \in K : Rank(K, R, k) = n
<1> DEFINE D(k) == {j \in K : j = k \/ <<j, k>> \in R}
           f == [k \in K |-> Rank(K, R, k)]
<1>1. ASSUME NEW k \in K
      PROVE  IsFiniteSet(D(k)) /\ k \in D(k) /\ Rank(K, R, k) = Cardinality(D(k))
  <2>1. D(k) \in SUBSET K /\ k \in D(k)
    OBVIOUS
  <2>2. Rank(K, R, k) = Cardinality(D(k))
    BY DEF Rank
  <2> HIDE DEF D
  <2> QED
    BY <2>1, <2>2, FS_Subset
<1>2. Cardinality(K) \in Nat
  BY FS_CardinalityType
<1>3. ASSUME NEW k \in K PROVE Rank(K, R, k) \in 1..Cardinality(K)
  <2>1. D(k) \in SUBSET K /\ D(k) # {}
    BY <1>1
  <2> HIDE DEF D
  <2>2. Cardinality(D(k)) <= Cardinality(K) /\ Cardinality(D(k)) \in Nat /\ Cardinality(D(k)) # 0
    BY <1>1, <2>1, FS_Subset, FS_CardinalityType, FS_EmptySet
  <2> QED
    BY <1>1, <1>2, <2>2
<1>4. ASSUME NEW i \in K, NEW j \in K, <<i, j>> \in R PROVE Rank(K, R, i) # Rank(K, R, j)
  <2>1. D(i) \in SUBSET D(j)
    BY <1>4
  <2>2. j \in D(j) /\ j \notin D(i)
    BY <1>4
  <2> HIDE DEF D
  <2>3. D(i) # D(j)
    BY <2>2
  <2> QED
    BY <1>1, <2>1, <2>3, FS_Subset
<1>5. \A i, j \in K : Rank(K, R, i) = Rank(K, R, j) => i = j
  BY <1>4
<1> HIDE DEF D
<1>6. f \in Injection(K, 1..Cardinality(K))
  <2>1. f \in [K -> 1..Cardinality(K)]
    BY <1>3
  <2>2. \A i, j \in K : f[i] = f[j] => i = j
    BY <1>5
  <2> QED
    BY <2>1, <2>2 DEF Injection, IsInjective
<1>7. IsFiniteSet(1..Cardinality(K)) /\ Cardinality(1..Cardinality(K)) = Cardinality(K)
  <2>1. 1 \in Int /\ Cardinality(K) \in Int
    BY <1>2
  <2>2. /\ IsFiniteSet(1..Cardinality(K))
        /\ Cardinality(1..Cardinality(K)) = IF 1 > Cardinality(K) THEN 0 ELSE Cardinality(K) - 1 + 1
    BY <2>1, FS_Interval
  <2> QED
    BY <1>2, <2>2
<1>8. f \in Surjection(K, 1..Cardinality(K))
  BY <1>6, <1>7, FS_Injection
<1>9. \A n \in 1..Cardinality(K) : \E k \in K : f[k] = n
  BY <1>8 DEF Surjection
<1> QED
  BY <1>3, <1>5, <1>9

(* A list arranged holds the elements at the chosen places, each as often  *)
(* as it was there.                                                        *)
LEMMA Arranges ==
    ASSUME NEW s \in Seq(Events), NEW K \in SUBSET DOMAIN s, NEW R,
           \A i, j \in K : i # j => <<i, j>> \in R \/ <<j, i>> \in R,
           \A i \in K : <<i, i>> \notin R,
           \A i, j, k \in K : <<i, j>> \in R /\ <<j, k>> \in R => <<i, k>> \in R
    PROVE  /\ Arranged(s, K, R) \in Seq(Events)
           /\ Len(Arranged(s, K, R)) = Cardinality(K)
           /\ ToSet(Arranged(s, K, R)) = {s[k] : k \in K}
           /\ Once(s) => Once(Arranged(s, K, R))
<1>1. IsFiniteSet(K)
  <2>1. IsFiniteSet(DOMAIN s)
    <3>1. DOMAIN s = 1..Len(s) /\ 1 \in Int /\ Len(s) \in Int
      OBVIOUS
    <3> QED
      BY <3>1, FS_Interval
  <2> QED
    BY <2>1, FS_Subset
<1>2. PICK n \in Nat : n = Cardinality(K)
  BY <1>1, FS_CardinalityType
<1>3. /\ \A k \in K : Rank(K, R, k) \in 1..n
      /\ \A i, j \in K : Rank(K, R, i) = Rank(K, R, j) => i = j
      /\ \A i \in 1..n : \E k \in K : Rank(K, R, k) = i
  BY <1>1, <1>2, Ranked
<1> DEFINE At(i) == CHOOSE k \in K : Rank(K, R, k) = i
<1>4. \A i \in 1..n : At(i) \in K /\ Rank(K, R, At(i)) = i
  BY <1>3
<1>5. PICK t : t = Arranged(s, K, R)
  OBVIOUS
<1>6. t = [i \in 1..n |-> s[At(i)]]
  BY <1>2, <1>5 DEF Arranged
<1> HIDE DEF At
<1>7. \A k \in K : k \in DOMAIN s /\ s[k] \in Events
  OBVIOUS
<1>8. t \in [1..n -> Events]
  BY <1>4, <1>6, <1>7
<1>9. t \in Seq(Events) /\ Len(t) = n /\ DOMAIN t = 1..n
  BY <1>8
<1>10. ToSet(t) \subseteq {s[k] : k \in K}
  BY <1>4, <1>6, <1>9 DEF ToSet
<1>11. ASSUME NEW k \in K PROVE s[k] \in ToSet(t)
  <2>1. PICK i \in 1..n : i = Rank(K, R, k)
    BY <1>3
  <2>2. At(i) = k
    BY <1>3, <1>4, <2>1
  <2> QED
    BY <1>6, <1>9, <2>2 DEF ToSet
<1>12. ASSUME Once(s), NEW i \in 1..n, NEW j \in 1..n, t[i] = t[j] PROVE i = j
  <2>1. At(i) = At(j)
    BY <1>4, <1>6, <1>7, <1>12 DEF Once
  <2> QED
    BY <1>4, <2>1
<1> QED
  BY <1>2, <1>5, <1>9, <1>10, <1>11, <1>12 DEF Once

(* A list without an event.                                                *)
LEMMA Dropped ==
    ASSUME NEW s \in Seq(Events), NEW e
    PROVE  /\ Without(s, e) \in Seq(Events) /\ Len(Without(s, e)) <= Len(s)
           /\ ToSet(Without(s, e)) = ToSet(s) \ {e}
           /\ Once(s) => Once(Without(s, e))
<1> DEFINE K == {k \in DOMAIN s : s[k] # e}
           R == {p \in K \X K : p[1] < p[2]}
<1>1. K \in SUBSET DOMAIN s /\ DOMAIN s = 1..Len(s) /\ Len(s) \in Nat /\ K \in SUBSET Nat
  OBVIOUS
<1>2. \A i, j \in K : <<i, j>> \in R <=> i < j
  OBVIOUS
<1>3. Without(s, e) = Arranged(s, K, R)
  BY DEF Without
<1>4. {s[k] : k \in K} = ToSet(s) \ {e}
  BY DEF ToSet
<1>5. Cardinality(K) <= Len(s)
  <2>1. 1 \in Int /\ Len(s) \in Int
    BY <1>1
  <2>2. IsFiniteSet(1..Len(s)) /\ Cardinality(1..Len(s)) = IF 1 > Len(s) THEN 0 ELSE Len(s) - 1 + 1
    BY <2>1, FS_Interval
  <2>3. Cardinality(K) <= Cardinality(1..Len(s))
    BY <1>1, <2>2, FS_Subset
  <2>4. Cardinality(1..Len(s)) = Len(s)
    BY <1>1, <2>2
  <2> QED
    BY <2>3, <2>4
<1> HIDE DEF K, R
<1>6. /\ \A i, j \in K : i # j => <<i, j>> \in R \/ <<j, i>> \in R
      /\ \A i \in K : <<i, i>> \notin R
      /\ \A i, j, k \in K : <<i, j>> \in R /\ <<j, k>> \in R => <<i, k>> \in R
  <2>1. \A i \in K : i \in Nat
    BY <1>1
  <2> QED
    BY <1>2, <2>1
<1>7. /\ Arranged(s, K, R) \in Seq(Events)
      /\ Len(Arranged(s, K, R)) = Cardinality(K)
      /\ ToSet(Arranged(s, K, R)) = {s[k] : k \in K}
      /\ Once(s) => Once(Arranged(s, K, R))
  BY <1>1, <1>6, Arranges
<1> QED
  BY <1>3, <1>4, <1>5, <1>7

(* A list in the order of its events' creation.                            *)
LEMMA Sorted ==
    ASSUME NEW s \in Seq(Events)
    PROVE  /\ ByCreation(s) \in Seq(Events)
           /\ ToSet(ByCreation(s)) = ToSet(s)
           /\ Once(s) => Once(ByCreation(s))
<1> DEFINE K == DOMAIN s
           Created(k) == CreatedAt[s[k]]
           R == {p \in K \X K : \/ Created(p[1]) < Created(p[2])
                                \/ Created(p[1]) = Created(p[2]) /\ p[1] < p[2]}
<1>1. K \in SUBSET DOMAIN s /\ K = 1..Len(s) /\ Len(s) \in Nat
  OBVIOUS
<1>2. \A k \in K : Created(k) \in Nat
  BY QueueAssumption
<1>3. \A i, j \in K : <<i, j>> \in R <=> \/ Created(i) < Created(j)
                                         \/ Created(i) = Created(j) /\ i < j
  OBVIOUS
<1>4. ByCreation(s) = Arranged(s, K, R)
  BY DEF ByCreation
<1>5. {s[k] : k \in K} = ToSet(s)
  BY DEF ToSet
<1> HIDE DEF K, R, Created
<1>6. /\ \A i, j \in K : i # j => <<i, j>> \in R \/ <<j, i>> \in R
      /\ \A i \in K : <<i, i>> \notin R
      /\ \A i, j, k \in K : <<i, j>> \in R /\ <<j, k>> \in R => <<i, k>> \in R
  <2>1. \A i \in K : i \in Nat
    BY <1>1
  <2> QED
    BY <1>2, <1>3, <2>1
<1>7. /\ Arranged(s, K, R) \in Seq(Events)
      /\ ToSet(Arranged(s, K, R)) = {s[k] : k \in K}
      /\ Once(s) => Once(Arranged(s, K, R))
  BY <1>1, <1>6, Arranges
<1> QED
  BY <1>4, <1>5, <1>7

-----------------------------------------------------------------------------
(* What the queue's methods do to it, channel by channel.                  *)

(* r has what qq has for the channel d.                                    *)
SameAt(r, qq, d) ==
    /\ r.queues[d] = qq.queues[d] /\ r.inFlight[d] = qq.inFlight[d]
    /\ r.retryAfter[d] = qq.retryAfter[d] /\ r.retryCounts[d] = qq.retryCounts[d]
    /\ r.cancelled[d] = qq.cancelled[d] /\ r.withheld[d] = qq.withheld[d]

(* r is qq with these six values for the channel c.                        *)
Changed(r, qq, c, queue, inFlight, after, count, cancelled, withheld) ==
    /\ r \in QueueType
    /\ \A d \in Channels \ {c} : SameAt(r, qq, d)
    /\ r.queues[c] = queue /\ r.inFlight[c] = inFlight
    /\ r.retryAfter[c] = after /\ r.retryCounts[c] = count
    /\ r.cancelled[c] = cancelled /\ r.withheld[c] = withheld

(* r is a record of a queue's fields.                                      *)
Whole(r) ==
    r = [queues |-> r.queues, inFlight |-> r.inFlight, retryAfter |-> r.retryAfter,
         retryCounts |-> r.retryCounts, cancelled |-> r.cancelled, withheld |-> r.withheld]

(* A queue is one if its fields are.                                       *)
LEMMA Assembled ==
    ASSUME NEW r, Whole(r),
           r.queues \in [Channels -> Seq(Events)],
           r.inFlight \in [Channels -> {"no", "armed", "due"}],
           r.retryAfter \in [Channels -> {"none", "active", "past"}],
           r.retryCounts \in [Channels -> 0..MaxRetries],
           r.cancelled \in [Channels -> Seq(Events)],
           r.withheld \in [Channels -> Seq(Events)]
    PROVE  r \in QueueType
BY DEF Whole, QueueType, EventSeqs

(* ... and its fields are of these types.                                  *)
LEMMA Fields ==
    ASSUME NEW qq \in QueueType
    PROVE  /\ qq.queues \in [Channels -> Seq(Events)]
           /\ qq.inFlight \in [Channels -> {"no", "armed", "due"}]
           /\ qq.retryAfter \in [Channels -> {"none", "active", "past"}]
           /\ qq.retryCounts \in [Channels -> 0..MaxRetries]
           /\ qq.cancelled \in [Channels -> Seq(Events)]
           /\ qq.withheld \in [Channels -> Seq(Events)]
BY DEF QueueType, EventSeqs

(* The same, channel by channel.                                           *)
LEMMA FieldsAt ==
    ASSUME NEW qq \in QueueType, NEW c \in Channels
    PROVE  /\ qq.queues[c] \in Seq(Events) /\ qq.cancelled[c] \in Seq(Events)
           /\ qq.withheld[c] \in Seq(Events)
           /\ qq.inFlight[c] \in {"no", "armed", "due"}
           /\ qq.retryAfter[c] \in {"none", "active", "past"}
           /\ qq.retryCounts[c] \in 0..MaxRetries
BY Fields

(* Methods that set one field of a channel: its queue ...                  *)
LEMMA SetQueue ==
    ASSUME NEW qq \in QueueType, NEW c \in Channels, NEW s \in Seq(Events)
    PROVE  Changed([qq EXCEPT !.queues[c] = s], qq, c, s, qq.inFlight[c], qq.retryAfter[c],
                   qq.retryCounts[c], qq.cancelled[c], qq.withheld[c])
BY DEF QueueType, SameAt, EventSeqs, Changed

(* ... its cancelled batch ...                                             *)
LEMMA SetCancelled ==
    ASSUME NEW qq \in QueueType, NEW c \in Channels, NEW s \in Seq(Events)
    PROVE  Changed([qq EXCEPT !.cancelled[c] = s], qq, c, qq.queues[c], qq.inFlight[c],
                   qq.retryAfter[c], qq.retryCounts[c], s, qq.withheld[c])
BY DEF QueueType, SameAt, EventSeqs, Changed

(* ... its in-flight mark ...                                              *)
LEMMA SetInFlight ==
    ASSUME NEW qq \in QueueType, NEW c \in Channels, NEW x \in {"no", "armed", "due"}
    PROVE  Changed([qq EXCEPT !.inFlight[c] = x], qq, c, qq.queues[c], x, qq.retryAfter[c],
                   qq.retryCounts[c], qq.cancelled[c], qq.withheld[c])
BY DEF QueueType, SameAt, EventSeqs, Changed

(* ... its throttle.                                                       *)
LEMMA SetRetryAfter ==
    ASSUME NEW qq \in QueueType, NEW c \in Channels, NEW x \in {"none", "active", "past"}
    PROVE  Changed([qq EXCEPT !.retryAfter[c] = x], qq, c, qq.queues[c], qq.inFlight[c], x,
                   qq.retryCounts[c], qq.cancelled[c], qq.withheld[c])
BY DEF QueueType, SameAt, EventSeqs, Changed

(* flush_next, when it takes from the queue and the cancelled batch.       *)
LEMMA SetFlushed ==
    ASSUME NEW qq \in QueueType, NEW c \in Channels, NEW s \in Seq(Events), NEW r,
           r = [qq EXCEPT !.queues[c] = s, !.inFlight[c] = "armed", !.cancelled[c] = <<>>]
    PROVE  Changed(r, qq, c, s, "armed", qq.retryAfter[c], qq.retryCounts[c], <<>>, qq.withheld[c])
<1>1. /\ r.queues = [qq.queues EXCEPT ![c] = s]
      /\ r.inFlight = [qq.inFlight EXCEPT ![c] = "armed"]
      /\ r.cancelled = [qq.cancelled EXCEPT ![c] = <<>>]
      /\ r.retryAfter = qq.retryAfter /\ r.retryCounts = qq.retryCounts
      /\ r.withheld = qq.withheld
  BY DEF QueueType
<1>2. Whole(r)
  BY DEF QueueType, Whole
<1>3. /\ r.queues \in [Channels -> Seq(Events)]
      /\ r.inFlight \in [Channels -> {"no", "armed", "due"}]
      /\ r.retryAfter \in [Channels -> {"none", "active", "past"}]
      /\ r.retryCounts \in [Channels -> 0..MaxRetries]
      /\ r.cancelled \in [Channels -> Seq(Events)] /\ r.withheld \in [Channels -> Seq(Events)]
  BY <1>1, <1>2, Fields, Nothing
<1>4. r \in QueueType
  BY <1>1, <1>2, <1>3, Assembled
<1> QED
  BY <1>1, <1>4, Fields DEF Changed, SameAt

(* flush_next, when it takes a cancelled batch alone.                      *)
LEMMA SetResumed ==
    ASSUME NEW qq \in QueueType, NEW c \in Channels, NEW r,
           r = [qq EXCEPT !.inFlight[c] = "armed", !.cancelled[c] = <<>>]
    PROVE  Changed(r, qq, c, qq.queues[c], "armed", qq.retryAfter[c], qq.retryCounts[c], <<>>,
                   qq.withheld[c])
<1>1. /\ r.inFlight = [qq.inFlight EXCEPT ![c] = "armed"]
      /\ r.cancelled = [qq.cancelled EXCEPT ![c] = <<>>]
      /\ r.queues = qq.queues /\ r.retryAfter = qq.retryAfter
      /\ r.retryCounts = qq.retryCounts /\ r.withheld = qq.withheld
  BY DEF QueueType
<1>2. Whole(r)
  BY DEF QueueType, Whole
<1>3. /\ r.queues \in [Channels -> Seq(Events)]
      /\ r.inFlight \in [Channels -> {"no", "armed", "due"}]
      /\ r.retryAfter \in [Channels -> {"none", "active", "past"}]
      /\ r.retryCounts \in [Channels -> 0..MaxRetries]
      /\ r.cancelled \in [Channels -> Seq(Events)] /\ r.withheld \in [Channels -> Seq(Events)]
  BY <1>1, <1>2, Fields, Nothing
<1>4. r \in QueueType
  BY <1>1, <1>2, <1>3, Assembled
<1> QED
  BY <1>1, <1>4, Fields DEF Changed, SameAt

(* The queue and the side table: mark_native_steer_pending,                *)
(* release_native_steer and remove_event.                                  *)
LEMMA SetHeldBack ==
    ASSUME NEW qq \in QueueType, NEW c \in Channels, NEW s \in Seq(Events), NEW w \in Seq(Events),
           NEW r, \/ r = [qq EXCEPT !.queues[c] = s, !.withheld[c] = w]
                  \/ r = [qq EXCEPT !.withheld[c] = w, !.queues[c] = s]
    PROVE  Changed(r, qq, c, s, qq.inFlight[c], qq.retryAfter[c], qq.retryCounts[c],
                   qq.cancelled[c], w)
<1>1. /\ r.queues = [qq.queues EXCEPT ![c] = s] /\ r.withheld = [qq.withheld EXCEPT ![c] = w]
      /\ r.inFlight = qq.inFlight /\ r.retryAfter = qq.retryAfter
      /\ r.retryCounts = qq.retryCounts /\ r.cancelled = qq.cancelled
  BY DEF QueueType
<1>2. Whole(r)
  BY DEF QueueType, Whole
<1>3. /\ r.queues \in [Channels -> Seq(Events)]
      /\ r.inFlight \in [Channels -> {"no", "armed", "due"}]
      /\ r.retryAfter \in [Channels -> {"none", "active", "past"}]
      /\ r.retryCounts \in [Channels -> 0..MaxRetries]
      /\ r.cancelled \in [Channels -> Seq(Events)] /\ r.withheld \in [Channels -> Seq(Events)]
  BY <1>1, <1>2, Fields
<1>4. r \in QueueType
  BY <1>1, <1>2, <1>3, Assembled
<1> QED
  BY <1>1, <1>4, Fields DEF Changed, SameAt

(* drain_channel.                                                          *)
LEMMA Drained ==
    ASSUME NEW qq \in QueueType, NEW c \in Channels, NEW r, r = DrainChannel(qq, c)
    PROVE  Changed(r, qq, c, <<>>, qq.inFlight[c], "none", 0, <<>>, <<>>)
<1>1. /\ r.queues = [qq.queues EXCEPT ![c] = <<>>]
      /\ r.cancelled = [qq.cancelled EXCEPT ![c] = <<>>]
      /\ r.withheld = [qq.withheld EXCEPT ![c] = <<>>]
      /\ r.retryAfter = [qq.retryAfter EXCEPT ![c] = "none"]
      /\ r.retryCounts = [qq.retryCounts EXCEPT ![c] = 0]
      /\ r.inFlight = qq.inFlight
  BY DEF QueueType, DrainChannel
<1>2. Whole(r)
  BY DEF QueueType, Whole, DrainChannel
<1>3. 0 \in 0..MaxRetries
  BY QueueAssumption
<1>4. /\ r.queues \in [Channels -> Seq(Events)]
      /\ r.inFlight \in [Channels -> {"no", "armed", "due"}]
      /\ r.retryAfter \in [Channels -> {"none", "active", "past"}]
      /\ r.retryCounts \in [Channels -> 0..MaxRetries]
      /\ r.cancelled \in [Channels -> Seq(Events)] /\ r.withheld \in [Channels -> Seq(Events)]
  BY <1>1, <1>2, <1>3, Fields, Nothing
<1>5. r \in QueueType
  BY <1>1, <1>2, <1>3, <1>4, Assembled
<1> QED
  BY <1>1, <1>5, Fields DEF Changed, SameAt

(* mark_complete.                                                          *)
LEMMA Completed ==
    ASSUME NEW qq \in QueueType, NEW c \in Channels, NEW r, r = MarkComplete(qq, c)
    PROVE  Changed(r, qq, c, qq.queues[c], "no",
                   IF qq.retryAfter[c] = "active" THEN "active" ELSE "none",
                   IF qq.retryAfter[c] = "active" THEN qq.retryCounts[c] ELSE 0,
                   qq.cancelled[c], qq.withheld[c])
<1>0. PICK x \in {"none", "active", "past"} : x = IF qq.retryAfter[c] = "active" THEN "active" ELSE "none"
  OBVIOUS
<1>1. PICK n \in 0..MaxRetries : n = IF qq.retryAfter[c] = "active" THEN qq.retryCounts[c] ELSE 0
  <2>1. 0 \in 0..MaxRetries /\ qq.retryCounts[c] \in 0..MaxRetries
    BY FieldsAt, QueueAssumption
  <2> QED
    BY <2>1
<1>2. r = [qq EXCEPT !.inFlight[c] = "no", !.retryAfter[c] = x, !.retryCounts[c] = n]
  BY <1>0, <1>1 DEF MarkComplete
<1>3. /\ r.inFlight = [qq.inFlight EXCEPT ![c] = "no"]
      /\ r.retryAfter = [qq.retryAfter EXCEPT ![c] = x]
      /\ r.retryCounts = [qq.retryCounts EXCEPT ![c] = n]
      /\ r.queues = qq.queues /\ r.cancelled = qq.cancelled /\ r.withheld = qq.withheld
  BY <1>2 DEF QueueType
<1>4. Whole(r)
  BY <1>2 DEF QueueType, Whole
<1>5. /\ r.queues \in [Channels -> Seq(Events)]
      /\ r.inFlight \in [Channels -> {"no", "armed", "due"}]
      /\ r.retryAfter \in [Channels -> {"none", "active", "past"}]
      /\ r.retryCounts \in [Channels -> 0..MaxRetries]
      /\ r.cancelled \in [Channels -> Seq(Events)] /\ r.withheld \in [Channels -> Seq(Events)]
  BY <1>3, <1>4, Fields
<1>6. r \in QueueType
  BY <1>3, <1>4, <1>5, Assembled
<1> QED
  BY <1>0, <1>1, <1>3, <1>6, Fields DEF Changed, SameAt

(* requeue, whether it puts the batch back or dead-letters it.             *)
LEMMA SetFailed ==
    ASSUME NEW qq \in QueueType, NEW c \in Channels, NEW n \in 0..MaxRetries,
           NEW x \in {"none", "active", "past"}, NEW s \in Seq(Events), NEW r,
           \/ r = [qq EXCEPT !.retryCounts[c] = n, !.retryAfter[c] = x, !.queues[c] = s]
           \/ r = [qq EXCEPT !.retryCounts[c] = n, !.retryAfter[c] = x] /\ s = qq.queues[c]
    PROVE  Changed(r, qq, c, s, qq.inFlight[c], x, n, qq.cancelled[c], qq.withheld[c])
<1>1. /\ r.queues = [qq.queues EXCEPT ![c] = s]
      /\ r.retryAfter = [qq.retryAfter EXCEPT ![c] = x]
      /\ r.retryCounts = [qq.retryCounts EXCEPT ![c] = n]
      /\ r.inFlight = qq.inFlight /\ r.cancelled = qq.cancelled /\ r.withheld = qq.withheld
  BY DEF QueueType
<1>2. Whole(r)
  BY DEF QueueType, Whole
<1>3. /\ r.queues \in [Channels -> Seq(Events)]
      /\ r.inFlight \in [Channels -> {"no", "armed", "due"}]
      /\ r.retryAfter \in [Channels -> {"none", "active", "past"}]
      /\ r.retryCounts \in [Channels -> 0..MaxRetries]
      /\ r.cancelled \in [Channels -> Seq(Events)] /\ r.withheld \in [Channels -> Seq(Events)]
  BY <1>1, <1>2, Fields
<1>4. r \in QueueType
  BY <1>1, <1>2, <1>3, Assembled
<1> QED
  BY <1>1, <1>4, Fields DEF Changed, SameAt

(* One method after another on the same channel.                           *)
LEMMA ChangedTwice ==
    ASSUME NEW c \in Channels, NEW qq, NEW r, NEW u,
           NEW s1, NEW f1, NEW a1, NEW n1, NEW x1, NEW w1, Changed(r, qq, c, s1, f1, a1, n1, x1, w1),
           NEW s2, NEW f2, NEW a2, NEW n2, NEW x2, NEW w2, Changed(u, r, c, s2, f2, a2, n2, x2, w2)
    PROVE  Changed(u, qq, c, s2, f2, a2, n2, x2, w2)
BY DEF Changed, SameAt

-----------------------------------------------------------------------------
(* The invariant.  Its parts are stated of a queue, turns, acks and        *)
(* histories given as arguments, so that what one call in a handler does   *)
(* to them can be followed by what the next one does.                      *)

Tasks == [Agents -> {NoTask} \cup TaskType]
Busy(tt) == {a \in Agents : tt[a] # NoTask}
Mine(c) == {e \in Events : ChannelOf[e] = c}
Carries(t) == ToSet(t.events) \cup ToSet(t.cancelled)
HeldBy(qq, tt, e) == \/ \E c \in Channels : e \in QueueHolds(qq, c)
                     \/ \E a \in Busy(tt) : e \in Carries(tt[a])
Pending(tt, ak, e) == \/ \E a \in Busy(tt) : tt[a].inbox = e \/ tt[a].wire = e
                      \/ \E k \in ak : k.event = e

(* Three lists of a channel's events, no event in them twice.              *)
ListsFit(c, queue, cancelled, withheld) ==
    /\ Len(queue) <= MaxPending
    /\ Once(queue) /\ Once(cancelled) /\ Once(withheld)
    /\ ToSet(queue) \cup ToSet(cancelled) \cup ToSet(withheld) \subseteq Mine(c)
    /\ ToSet(queue) \cap ToSet(cancelled) = {} /\ ToSet(queue) \cap ToSet(withheld) = {}
    /\ ToSet(cancelled) \cap ToSet(withheld) = {}
Lists(qq) == \A c \in Channels : ListsFit(c, qq.queues[c], qq.cancelled[c], qq.withheld[c])

(* A turn's events are its channel's, and nowhere else.                    *)
TurnFits(t) ==
    /\ Once(t.events) /\ Once(t.cancelled) /\ ToSet(t.events) \cap ToSet(t.cancelled) = {}
    /\ Carries(t) \subseteq Mine(t.chan)
Turns(qq, tt) ==
    \A a \in Busy(tt) :
        /\ TurnFits(tt[a])
        /\ \A c \in Channels : Carries(tt[a]) \cap QueueHolds(qq, c) = {}
        /\ \A b \in Busy(tt) : a # b => Carries(tt[a]) \cap Carries(tt[b]) = {}

(* One turn per channel, as its mark says, until the deadline releases it. *)
OneTurn(qq, tt, ex) ==
    \A c \in Channels \ ex :
        /\ \A a, b \in Busy(tt) : tt[a].chan = c /\ tt[b].chan = c => a = b
        /\ (\E a \in Busy(tt) : tt[a].chan = c) <=> qq.inFlight[c] # "no"

(* Accepted events are held, settled or lost with a merged batch, and only *)
(* they are held.                                                          *)
Accounted(qq, tt, acc, res, mg) ==
    /\ \A e \in acc : HeldBy(qq, tt, e) \/ e \in res \/ e \in mg
    /\ \A e \in Events : HeldBy(qq, tt, e) => e \in acc
    /\ \A a \in Busy(tt) : ToSet(tt[a].cancelled) \subseteq mg

(* What is settled is not held again, unless the deadline fired.           *)
Final(qq, tt, res, ex) ==
    \A e \in res : ChannelOf[e] \notin ex => ~HeldBy(qq, tt, e)

(* A steer is in one inbox, on one wire or in one ack, ...                 *)
Steers(tt, ak) ==
    /\ \A a, b \in Busy(tt) : tt[a].inbox # NoEvent =>
          tt[a].inbox # tt[b].wire /\ (tt[a].inbox = tt[b].inbox => a = b)
    /\ \A a, b \in Busy(tt) : tt[a].wire # NoEvent /\ tt[a].wire = tt[b].wire => a = b
    /\ \A k \in ak, a \in Busy(tt) : k.event # tt[a].inbox /\ k.event # tt[a].wire
    /\ \A k, l \in ak : k.event = l.event => k = l

(* ... and its event is meanwhile withheld or settled.                     *)
HeldBack(qq, tt, ak, acc, res, ex) ==
    \A e \in Events : Pending(tt, ak, e) =>
        /\ e \in acc
        /\ ChannelOf[e] \in ex \/ e \in ToSet(qq.withheld[ChannelOf[e]]) \/ e \in res

(* Counted failures are counted by the queue too, and a channel with any   *)
(* has a batch waiting or in a turn.                                       *)
Retries(qq, st, ex) ==
    \A c \in Channels \ ex :
        /\ st[c] <= qq.retryCounts[c]
        /\ st[c] > 0 => qq.queues[c] # <<>> \/ qq.inFlight[c] # "no"

Typed(qq, tt, ak, acc, res, st) ==
    /\ qq \in QueueType /\ tt \in Tasks /\ ak \subseteq Acks
    /\ acc \subseteq Events /\ res \subseteq Events /\ st \in [Channels -> Nat]

EventInv(qq, tt, ak, acc, res, mg, st, ex) ==
    /\ Typed(qq, tt, ak, acc, res, st)
    /\ Lists(qq) /\ Turns(qq, tt) /\ OneTurn(qq, tt, ex)
    /\ Accounted(qq, tt, acc, res, mg) /\ Final(qq, tt, res, ex)
    /\ Steers(tt, ak) /\ HeldBack(qq, tt, ak, acc, res, ex)
    /\ Retries(qq, st, ex)

(* A turn in progress has its fields.                                      *)
LEMMA TurnFields ==
    ASSUME NEW tt \in Tasks, NEW a \in Busy(tt)
    PROVE  /\ tt[a] \in TaskType
           /\ tt[a].chan \in Channels \cup {Heartbeat}
           /\ tt[a].events \in Seq(Events) /\ tt[a].cancelled \in Seq(Events)
           /\ tt[a].control \in {"unset", "requeue", "discard"}
           /\ tt[a].inbox \in Events \cup {NoEvent} /\ tt[a].wire \in Events \cup {NoEvent}
           /\ tt[a].end \in {Going} \cup Ends
<1>1. tt[a] \in TaskType
  BY DEF Tasks, Busy
<1> QED
  BY <1>1 DEF TaskType, EventSeqs

(* Calls that only take events out of the queue's lists, or move them      *)
(* between lists of one channel.                                           *)
LEMMA QueueStep ==
    ASSUME NEW qq, NEW tt, NEW ak, NEW acc, NEW res, NEW mg, NEW st, NEW ex,
           EventInv(qq, tt, ak, acc, res, mg, st, ex),
           NEW r, NEW ak2, NEW res2, NEW mg2, NEW st2, NEW ex2,
           r \in QueueType, Lists(r), ak2 \subseteq ak, res \subseteq res2, res2 \subseteq Events,
           mg \subseteq mg2, ex \subseteq ex2, st2 \in [Channels -> Nat],
           \A d \in Channels : QueueHolds(r, d) \subseteq QueueHolds(qq, d),
           \A d \in Channels : \A e \in QueueHolds(qq, d) :
              e \in QueueHolds(r, d) \/ e \in res2 \/ e \in mg2,
           \A e \in res2 \ res : ChannelOf[e] \notin ex2 => ~HeldBy(r, tt, e),
           \A d \in Channels \ ex2 : r.inFlight[d] = "no" <=> qq.inFlight[d] = "no",
           \A e \in Events : Pending(tt, ak2, e) /\ ChannelOf[e] \notin ex2
                             /\ e \in ToSet(qq.withheld[ChannelOf[e]])
                             => e \in ToSet(r.withheld[ChannelOf[e]]) \/ e \in res2,
           Retries(r, st2, ex2)
    PROVE  EventInv(r, tt, ak2, acc, res2, mg2, st2, ex2)
<1>1. Typed(r, tt, ak2, acc, res2, st2)
  BY DEF EventInv, Typed
<1>2. Turns(r, tt)
  BY DEF EventInv, Turns
<1>3. OneTurn(r, tt, ex2)
  BY DEF EventInv, OneTurn
<1>4. \A e : HeldBy(r, tt, e) => HeldBy(qq, tt, e)
  BY DEF HeldBy
<1>5. \A e : HeldBy(qq, tt, e) => HeldBy(r, tt, e) \/ e \in res2 \/ e \in mg2
  BY DEF HeldBy
<1>6. Accounted(r, tt, acc, res2, mg2)
  <2>1. Accounted(qq, tt, acc, res, mg)
    BY DEF EventInv
  <2>2. \A e \in acc : HeldBy(r, tt, e) \/ e \in res2 \/ e \in mg2
    BY <1>5, <2>1 DEF Accounted
  <2>3. \A e \in Events : HeldBy(r, tt, e) => e \in acc
    BY <1>4, <2>1 DEF Accounted
  <2> QED
    BY <2>1, <2>2, <2>3 DEF Accounted
<1>7. Final(r, tt, res2, ex2)
  BY <1>4 DEF EventInv, Final
<1>8. Steers(tt, ak2)
  BY DEF EventInv, Steers
<1>9. HeldBack(r, tt, ak2, acc, res2, ex2)
  <2>1. \A e : Pending(tt, ak2, e) => Pending(tt, ak, e)
    BY DEF Pending
  <2> QED
    BY <2>1 DEF EventInv, HeldBack
<1> QED
  BY <1>1, <1>2, <1>3, <1>6, <1>7, <1>8, <1>9 DEF EventInv

(* Steps that change nothing of the turns but their steers and how they    *)
(* end.                                                                    *)
LEMMA SteerStep ==
    ASSUME NEW qq, NEW tt, NEW ak, NEW acc, NEW res, NEW mg, NEW st, NEW ex,
           EventInv(qq, tt, ak, acc, res, mg, st, ex),
           NEW tt2 \in Tasks, NEW ak2, ak2 \subseteq Acks, Busy(tt2) = Busy(tt),
           \A a \in Busy(tt) : /\ tt2[a].chan = tt[a].chan /\ tt2[a].events = tt[a].events
                               /\ tt2[a].cancelled = tt[a].cancelled,
           Steers(tt2, ak2), HeldBack(qq, tt2, ak2, acc, res, ex)
    PROVE  EventInv(qq, tt2, ak2, acc, res, mg, st, ex)
<1>1. Typed(qq, tt2, ak2, acc, res, st)
  BY DEF EventInv, Typed
<1>2. \A a \in Busy(tt) : Carries(tt2[a]) = Carries(tt[a]) /\ (TurnFits(tt[a]) => TurnFits(tt2[a]))
  BY DEF Carries, TurnFits
<1>3. Turns(qq, tt2)
  BY <1>2 DEF EventInv, Turns
<1>4. OneTurn(qq, tt2, ex)
  BY DEF EventInv, OneTurn
<1>5. \A e : HeldBy(qq, tt2, e) <=> HeldBy(qq, tt, e)
  BY <1>2 DEF HeldBy
<1>6. Accounted(qq, tt2, acc, res, mg)
  BY <1>5 DEF EventInv, Accounted
<1>7. Final(qq, tt2, res, ex)
  BY <1>5 DEF EventInv, Final
<1> QED
  BY <1>1, <1>3, <1>4, <1>6, <1>7 DEF EventInv

(* The parts that look at the queue alone, after a change to a channel.    *)
LEMMA ListsChanged ==
    ASSUME NEW qq, Lists(qq), NEW c \in Channels, NEW r,
           NEW s, NEW f, NEW a, NEW n, NEW x, NEW w, Changed(r, qq, c, s, f, a, n, x, w),
           ListsFit(c, s, x, w)
    PROVE  /\ Lists(r)
           /\ QueueHolds(r, c) = ToSet(s) \cup ToSet(x) \cup ToSet(w)
           /\ \A d \in Channels \ {c} : QueueHolds(r, d) = QueueHolds(qq, d)
BY DEF Lists, Changed, SameAt, QueueHolds

(* A change to one channel keeps the count of its failures, and no other's *)
(* is concerned.                                                           *)
LEMMA RetriesChanged ==
    ASSUME NEW qq, NEW st, NEW ex, Retries(qq, st, ex), NEW c \in Channels, NEW r,
           NEW s, NEW f, NEW a, NEW n, NEW x, NEW w, Changed(r, qq, c, s, f, a, n, x, w),
           NEW st2, \A d \in Channels \ {c} : st2[d] = st[d],
           c \notin ex => st2[c] <= n /\ (st2[c] > 0 => s # <<>> \/ f # "no")
    PROVE  Retries(r, st2, ex)
BY DEF Retries, Changed, SameAt

(* What a channel's lists hold is the channel's, so what one channel holds *)
(* no other does.                                                          *)
LEMMA HoldsMine ==
    ASSUME NEW qq, Lists(qq), NEW c \in Channels, NEW e \in QueueHolds(qq, c)
    PROVE  e \in Events /\ ChannelOf[e] = c
BY DEF Lists, ListsFit, QueueHolds, Mine

(* The expiry of due channels, channel by channel.                         *)
LEMMA ExpireAt ==
    ASSUME NEW qq \in QueueType, NEW r, r = Expire(qq)
    PROVE  /\ r \in QueueType
           /\ \A c \in Channels \ Expired(qq) : SameAt(r, qq, c)
           /\ \A c \in Expired(qq) :
                 /\ r.queues[c] = Capped(qq.withheld[c] \o qq.queues[c])
                 /\ r.inFlight[c] = "no" /\ r.withheld[c] = <<>>
                 /\ r.cancelled[c] = qq.cancelled[c]
<1>0. PICK A : A = [c \in Channels |-> IF c \in Expired(qq) THEN "no" ELSE qq.inFlight[c]]
  OBVIOUS
<1>00. PICK B : B = [c \in Channels |->
          IF c \in Expired(qq) THEN Capped(qq.withheld[c] \o qq.queues[c]) ELSE qq.queues[c]]
  OBVIOUS
<1>000. PICK C : C = [c \in Channels |-> IF c \in Expired(qq) THEN <<>> ELSE qq.withheld[c]]
  OBVIOUS
<1>1. r = [qq EXCEPT !.inFlight = A, !.queues = B, !.withheld = C]
  BY <1>0, <1>00, <1>000 DEF Expire
<1>2. /\ r.queues = B /\ r.inFlight = A /\ r.withheld = C
      /\ r.retryAfter = qq.retryAfter /\ r.retryCounts = qq.retryCounts
      /\ r.cancelled = qq.cancelled
  BY <1>1 DEF QueueType
<1>3. Whole(r)
  BY <1>1 DEF QueueType, Whole
<1>4. A \in [Channels -> {"no", "armed", "due"}]
  BY <1>0, Fields
<1>5. B \in [Channels -> Seq(Events)]
  <2>1. \A c \in Channels : Capped(qq.withheld[c] \o qq.queues[c]) \in Seq(Events)
    BY FieldsAt, Joined, CapCuts
  <2>2. \A c \in Channels : qq.queues[c] \in Seq(Events)
    BY FieldsAt
  <2> QED
    BY <1>00, <2>1, <2>2
<1>6. C \in [Channels -> Seq(Events)]
  BY <1>000, FieldsAt, Nothing
<1>7. r \in QueueType
  BY <1>2, <1>3, <1>4, <1>5, <1>6, Fields, Assembled
<1>8. Expired(qq) \subseteq Channels
  BY DEF Expired
<1> QED
  BY <1>0, <1>00, <1>000, <1>2, <1>7, <1>8 DEF SameAt

(* Expiry gives withheld events back to the queue, or drops some, and only *)
(* in channels that are then known to have expired.                        *)
LEMMA ExpireKeeps ==
    ASSUME NEW qq, NEW tt, NEW ak, NEW acc, NEW res, NEW mg, NEW st, NEW ex,
           EventInv(qq, tt, ak, acc, res, mg, st, ex)
    PROVE  EventInv(Expire(qq), tt, ak, acc, res \cup ExpireDrops(qq), mg, st,
                    ex \cup Expired(qq))
<1>0. PICK r : r = Expire(qq)
  OBVIOUS
<1>1. /\ r \in QueueType
      /\ \A c \in Channels \ Expired(qq) : SameAt(r, qq, c)
      /\ \A c \in Expired(qq) :
            /\ r.queues[c] = Capped(qq.withheld[c] \o qq.queues[c])
            /\ r.inFlight[c] = "no" /\ r.withheld[c] = <<>>
            /\ r.cancelled[c] = qq.cancelled[c]
      /\ Expired(qq) \subseteq Channels
      /\ qq \in QueueType /\ Lists(qq)
  BY <1>0, ExpireAt DEF EventInv, Typed, Expired
<1>2. ASSUME NEW c \in Expired(qq)
      PROVE  /\ ListsFit(c, r.queues[c], r.cancelled[c], r.withheld[c])
             /\ QueueHolds(r, c) \cup Overflow(qq.withheld[c] \o qq.queues[c]) = QueueHolds(qq, c)
  <2>1. PICK s : s = qq.withheld[c] \o qq.queues[c]
    OBVIOUS
  <2>2. /\ qq.withheld[c] \in Seq(Events) /\ qq.queues[c] \in Seq(Events)
        /\ ListsFit(c, qq.queues[c], qq.cancelled[c], qq.withheld[c])
    BY <1>1, FieldsAt DEF Lists
  <2>3. s \in Seq(Events) /\ ToSet(s) = ToSet(qq.withheld[c]) \cup ToSet(qq.queues[c]) /\ Once(s)
    BY <2>1, <2>2, Joined DEF ListsFit
  <2>4. /\ Len(Capped(s)) <= MaxPending /\ Once(Capped(s))
        /\ ToSet(Capped(s)) \cup Overflow(s) = ToSet(s)
    BY <2>3, CapCuts
  <2>5. r.queues[c] = Capped(s) /\ r.withheld[c] = <<>> /\ r.cancelled[c] = qq.cancelled[c]
    BY <1>1, <2>1
  <2>6. ListsFit(c, r.queues[c], r.cancelled[c], r.withheld[c])
    BY <2>2, <2>3, <2>4, <2>5, Nothing DEF ListsFit
  <2>7. QueueHolds(r, c) \cup Overflow(s) = QueueHolds(qq, c)
    BY <2>3, <2>4, <2>5, Nothing DEF QueueHolds
  <2> QED
    BY <2>1, <2>6, <2>7
<1>3. ASSUME NEW c \in Channels \ Expired(qq)
      PROVE  /\ ListsFit(c, r.queues[c], r.cancelled[c], r.withheld[c])
             /\ QueueHolds(r, c) = QueueHolds(qq, c)
  BY <1>1 DEF SameAt, Lists, QueueHolds
<1>4. Lists(r)
  BY <1>2, <1>3 DEF Lists
<1>5. ASSUME NEW e \in ExpireDrops(qq) PROVE e \in Events /\ ChannelOf[e] \in Expired(qq)
  <2>1. PICK c \in Expired(qq) : e \in Overflow(qq.withheld[c] \o qq.queues[c])
    BY DEF ExpireDrops
  <2>2. e \in QueueHolds(qq, c)
    BY <1>2, <2>1
  <2> QED
    BY <1>1, <2>1, <2>2, HoldsMine
<1>6. \A c \in Channels : \A e \in QueueHolds(qq, c) : e \in QueueHolds(r, c) \/ e \in ExpireDrops(qq)
  BY <1>2, <1>3 DEF ExpireDrops
<1>7. \A c \in Channels : QueueHolds(r, c) \subseteq QueueHolds(qq, c)
  BY <1>2, <1>3
<1>8. Retries(r, st, ex \cup Expired(qq))
  BY <1>1 DEF EventInv, Retries, SameAt
<1>9. \A e \in Events : ChannelOf[e] \in Channels
  BY HarnessAssumption
<1>10. /\ \A d \in Channels \ (ex \cup Expired(qq)) : SameAt(r, qq, d)
       /\ \A e \in (res \cup ExpireDrops(qq)) \ res : ChannelOf[e] \in ex \cup Expired(qq)
  BY <1>1, <1>5
<1>11. /\ res \subseteq Events /\ st \in [Channels -> Nat] /\ ak \subseteq ak
       /\ res \cup ExpireDrops(qq) \subseteq Events
  BY <1>5 DEF EventInv, Typed
<1>12. /\ \A d \in Channels \ (ex \cup Expired(qq)) : r.inFlight[d] = "no" <=> qq.inFlight[d] = "no"
       /\ \A e \in Events : Pending(tt, ak, e) /\ ChannelOf[e] \notin ex \cup Expired(qq)
                            /\ e \in ToSet(qq.withheld[ChannelOf[e]])
                            => e \in ToSet(r.withheld[ChannelOf[e]]) \/ e \in res \cup ExpireDrops(qq)
  BY <1>9, <1>10 DEF SameAt
<1> HIDE DEF EventInv
<1>13. EventInv(r, tt, ak, acc, res \cup ExpireDrops(qq), mg, st, ex \cup Expired(qq))
  <2>1. PICK res2 : res2 = res \cup ExpireDrops(qq)
    OBVIOUS
  <2>2. PICK ex2 : ex2 = ex \cup Expired(qq)
    OBVIOUS
  <2> QED
    BY <1>1, <1>4, <1>6, <1>7, <1>8, <1>10, <1>11, <1>12, <2>1, <2>2, QueueStep
<1> QED
  BY <1>0, <1>13

(* compact_expired_state forgets counts nobody relies on.                  *)
LEMMA CompactKeeps ==
    ASSUME NEW qq, NEW tt, NEW ak, NEW acc, NEW res, NEW mg, NEW st, NEW ex,
           EventInv(qq, tt, ak, acc, res, mg, st, ex)
    PROVE  /\ EventInv(Compact(qq), tt, ak, acc, res, mg, st, ex)
           /\ Expired(Compact(qq)) = Expired(qq) /\ ExpireDrops(Compact(qq)) = ExpireDrops(qq)
<1>0. PICK r : r = Compact(qq)
  OBVIOUS
<1>1. PICK A : A = [c \in Channels |-> IF qq.retryAfter[c] = "past" THEN "none" ELSE qq.retryAfter[c]]
  OBVIOUS
<1>2. PICK B : B = [c \in Channels |->
          IF qq.retryAfter[c] = "active" \/ qq.queues[c] # <<>> \/ qq.inFlight[c] # "no"
          THEN qq.retryCounts[c] ELSE 0]
  OBVIOUS
<1>3. r = [qq EXCEPT !.retryAfter = A, !.retryCounts = B]
  BY <1>0, <1>1, <1>2 DEF Compact
<1>4. qq \in QueueType /\ Lists(qq) /\ st \in [Channels -> Nat] /\ res \subseteq Events
  BY DEF EventInv, Typed
<1>5. /\ r.queues = qq.queues /\ r.inFlight = qq.inFlight /\ r.withheld = qq.withheld
      /\ r.retryAfter = A /\ r.retryCounts = B /\ r.cancelled = qq.cancelled
  BY <1>3, <1>4 DEF QueueType
<1>6. Whole(r)
  BY <1>3, <1>4 DEF QueueType, Whole
<1>7. A \in [Channels -> {"none", "active", "past"}] /\ B \in [Channels -> 0..MaxRetries]
  <2>1. 0 \in 0..MaxRetries
    BY QueueAssumption
  <2>2. /\ qq.retryAfter \in [Channels -> {"none", "active", "past"}]
        /\ qq.retryCounts \in [Channels -> 0..MaxRetries]
    BY <1>4, Fields
  <2> QED
    BY <1>1, <1>2, <2>1, <2>2
<1>8. r \in QueueType
  BY <1>4, <1>5, <1>6, <1>7, Fields, Assembled
<1>9. Retries(r, st, ex)
  <2> SUFFICES ASSUME NEW c \in Channels \ ex
               PROVE  /\ st[c] <= r.retryCounts[c]
                      /\ st[c] > 0 => r.queues[c] # <<>> \/ r.inFlight[c] # "no"
    BY DEF Retries
  <2>1. st[c] <= qq.retryCounts[c] /\ (st[c] > 0 => qq.queues[c] # <<>> \/ qq.inFlight[c] # "no")
    BY DEF EventInv, Retries
  <2>2. st[c] \in Nat
    BY <1>4
  <2> QED
    BY <1>2, <1>5, <2>1, <2>2
<1>10. Lists(r) /\ \A d \in Channels : QueueHolds(r, d) = QueueHolds(qq, d)
  BY <1>4, <1>5 DEF Lists, QueueHolds
<1>11. EventInv(r, tt, ak, acc, res, mg, st, ex)
  BY <1>4, <1>5, <1>8, <1>9, <1>10, QueueStep
<1> QED
  BY <1>0, <1>5, <1>11 DEF Expired, ExpireDrops

(* An event that has left its channel's lists is held nowhere.             *)
LEMMA Gone ==
    ASSUME NEW qq, NEW tt, Lists(qq), Turns(qq, tt), NEW c \in Channels, NEW e \in QueueHolds(qq, c),
           NEW r, e \notin QueueHolds(r, c),
           \A d \in Channels \ {c} : QueueHolds(r, d) = QueueHolds(qq, d)
    PROVE  ~HeldBy(r, tt, e)
<1>1. \A d \in Channels \ {c} : e \notin QueueHolds(qq, d)
  BY HoldsMine
<1>2. \A a \in Busy(tt) : e \notin Carries(tt[a])
  BY DEF Turns
<1> QED
  BY <1>1, <1>2 DEF HeldBy

(* push: a new event is queued, at the cap in place of the oldest.         *)
LEMMA PushKeeps ==
    ASSUME NEW qq, NEW tt, NEW ak, NEW acc, NEW res, NEW mg, NEW st, NEW ex,
           EventInv(qq, tt, ak, acc, res, mg, st, ex),
           NEW e \in Events, e \notin acc, e \notin res, NEW c, c = ChannelOf[e]
    PROVE  /\ EventInv(Push(qq, c, e), tt, ak, acc \cup {e}, res \cup PushDrops(qq, c), mg, st, ex)
           /\ e \in ToSet(Push(qq, c, e).queues[c])
           /\ \A d \in Channels : Push(qq, c, e).inFlight[d] = qq.inFlight[d]
<1>0. PICK r : r = Push(qq, c, e)
  OBVIOUS
<1>00. PICK drops : drops = PushDrops(qq, c)
  OBVIOUS
<1>1. /\ c \in Channels /\ qq \in QueueType /\ tt \in Tasks /\ Lists(qq) /\ Turns(qq, tt)
      /\ st \in [Channels -> Nat] /\ res \subseteq Events /\ acc \subseteq Events /\ ak \subseteq Acks
      /\ qq.queues[c] \in Seq(Events)
  BY HarnessAssumption, FieldsAt DEF EventInv, Typed
<1>2. ListsFit(c, qq.queues[c], qq.cancelled[c], qq.withheld[c])
  BY <1>1 DEF Lists
<1>3. ~HeldBy(qq, tt, e)
  BY DEF EventInv, Accounted
<1>4. e \notin QueueHolds(qq, c)
  BY <1>1, <1>3 DEF HeldBy
<1>5. PICK s \in Seq(Events) :
         /\ s = IF Len(qq.queues[c]) >= MaxPending THEN Tail(qq.queues[c]) ELSE qq.queues[c]
         /\ Once(s) /\ Len(s) < MaxPending /\ ToSet(qq.queues[c]) = ToSet(s) \cup drops
         /\ ToSet(s) \cap drops = {}
  <2>1. /\ MaxPending \in Nat /\ MaxPending > 0 /\ Len(qq.queues[c]) \in Nat
        /\ Len(qq.queues[c]) <= MaxPending /\ Once(qq.queues[c])
    BY <1>1, <1>2, QueueAssumption DEF ListsFit
  <2>2. CASE Len(qq.queues[c]) >= MaxPending
    <3>1. qq.queues[c] # <<>> /\ drops = {Head(qq.queues[c])}
      BY <1>00, <2>1, <2>2, Nothing DEF PushDrops
    <3>2. /\ Tail(qq.queues[c]) \in Seq(Events) /\ Len(Tail(qq.queues[c])) = Len(qq.queues[c]) - 1
          /\ ToSet(qq.queues[c]) = {Head(qq.queues[c])} \cup ToSet(Tail(qq.queues[c]))
          /\ Once(Tail(qq.queues[c])) /\ Head(qq.queues[c]) \notin ToSet(Tail(qq.queues[c]))
      BY <1>1, <2>1, <3>1, Popped
    <3>3. Len(Tail(qq.queues[c])) < MaxPending
      BY <2>1, <3>2
    <3>4. PICK u \in Seq(Events) : u = Tail(qq.queues[c])
      BY <3>2
    <3> QED
      BY <2>2, <3>1, <3>2, <3>3, <3>4
  <2>3. CASE ~(Len(qq.queues[c]) >= MaxPending)
    <3>1. drops = {}
      BY <1>00, <2>3 DEF PushDrops
    <3> QED
      BY <1>1, <2>1, <2>3, <3>1
  <2> QED
    BY <2>2, <2>3
<1>6. ToSet(s) \subseteq ToSet(qq.queues[c]) /\ e \notin ToSet(s)
  BY <1>4, <1>5 DEF QueueHolds
<1>7. PICK s2 \in Seq(Events) :
         /\ s2 = Append(s, e) /\ Once(s2) /\ Len(s2) <= MaxPending
         /\ ToSet(s2) = ToSet(s) \cup {e} /\ s2 # <<>>
  <2>1. /\ Append(s, e) \in Seq(Events) /\ Len(Append(s, e)) = Len(s) + 1
        /\ ToSet(Append(s, e)) = ToSet(s) \cup {e} /\ Once(Append(s, e))
    BY <1>5, <1>6, Pushed
  <2>2. Len(s) + 1 <= MaxPending
    BY <1>5, QueueAssumption
  <2> QED
    BY <2>1, <2>2, Nothing
<1>8. r = [qq EXCEPT !.queues[c] = s2]
  BY <1>0, <1>5, <1>7 DEF Push
<1>9. Changed(r, qq, c, s2, qq.inFlight[c], qq.retryAfter[c], qq.retryCounts[c],
              qq.cancelled[c], qq.withheld[c])
  BY <1>1, <1>8, SetQueue
<1>10. ListsFit(c, s2, qq.cancelled[c], qq.withheld[c])
  BY <1>2, <1>4, <1>6, <1>7 DEF ListsFit, QueueHolds, Mine
<1>11. /\ Lists(r)
       /\ QueueHolds(r, c) = ToSet(s2) \cup ToSet(qq.cancelled[c]) \cup ToSet(qq.withheld[c])
       /\ \A d \in Channels \ {c} : QueueHolds(r, d) = QueueHolds(qq, d)
  BY <1>1, <1>9, <1>10, ListsChanged
<1>12. /\ QueueHolds(r, c) = (QueueHolds(qq, c) \ drops) \cup {e}
       /\ drops \subseteq QueueHolds(qq, c)
  BY <1>2, <1>5, <1>7, <1>11 DEF QueueHolds, ListsFit
<1>13. /\ \A d \in Channels : r.inFlight[d] = qq.inFlight[d] /\ r.withheld[d] = qq.withheld[d]
       /\ r.queues[c] = s2 /\ r \in QueueType
  BY <1>1, <1>9 DEF Changed, SameAt
<1>14. drops \subseteq Events /\ res \cup drops \subseteq Events /\ acc \cup {e} \subseteq Events
  BY <1>1, <1>12, HoldsMine
<1>15. /\ \A x : HeldBy(r, tt, x) => HeldBy(qq, tt, x) \/ x = e
       /\ \A x : HeldBy(qq, tt, x) => HeldBy(r, tt, x) \/ x \in drops
       /\ HeldBy(r, tt, e)
  BY <1>1, <1>11, <1>12 DEF HeldBy
<1>16. \A x \in drops : ~HeldBy(r, tt, x)
  <2> SUFFICES ASSUME NEW x \in drops PROVE ~HeldBy(r, tt, x)
    OBVIOUS
  <2>1. x \in QueueHolds(qq, c) /\ x # e
    BY <1>4, <1>12
  <2>2. x \notin QueueHolds(r, c)
    BY <1>12, <2>1
  <2> QED
    BY <1>1, <1>11, <2>1, <2>2, Gone
<1>17. Typed(r, tt, ak, acc \cup {e}, res \cup drops, st)
  BY <1>1, <1>13, <1>14 DEF Typed
<1>18. Turns(r, tt)
  <2>1. \A a \in Busy(tt) : e \notin Carries(tt[a])
    BY <1>3 DEF HeldBy
  <2>2. \A a \in Busy(tt) : \A d \in Channels : Carries(tt[a]) \cap QueueHolds(qq, d) = {}
    BY <1>1 DEF Turns
  <2>3. \A a \in Busy(tt) : Carries(tt[a]) \cap QueueHolds(r, c) = {}
    BY <1>1, <1>12, <2>1, <2>2
  <2> QED
    BY <1>1, <1>11, <2>2, <2>3 DEF Turns
<1>19. OneTurn(r, tt, ex)
  BY <1>13 DEF EventInv, OneTurn
<1>20. Accounted(r, tt, acc \cup {e}, res \cup drops, mg)
  BY <1>15 DEF EventInv, Accounted
<1>21. Final(r, tt, res \cup drops, ex)
  BY <1>15, <1>16 DEF EventInv, Final
<1>22. HeldBack(r, tt, ak, acc \cup {e}, res \cup drops, ex)
  BY <1>13, HarnessAssumption DEF EventInv, HeldBack
<1>23. Retries(r, st, ex)
  <2>1. c \notin ex => st[c] <= qq.retryCounts[c]
    BY <1>1 DEF EventInv, Retries
  <2>2. Retries(qq, st, ex)
    BY DEF EventInv
  <2>3. c \notin ex => st[c] <= qq.retryCounts[c] /\ (st[c] > 0 => s2 # <<>> \/ qq.inFlight[c] # "no")
    BY <1>7, <2>1
  <2>4. \A d \in Channels \ {c} : st[d] = st[d]
    OBVIOUS
  <2> QED
    BY <1>1, <1>9, <2>2, <2>3, <2>4, RetriesChanged
<1>24. Steers(tt, ak)
  BY DEF EventInv
<1>25. EventInv(r, tt, ak, acc \cup {e}, res \cup drops, mg, st, ex)
  BY <1>11, <1>17, <1>18, <1>19, <1>20, <1>21, <1>22, <1>23, <1>24 DEF EventInv
<1> QED
  BY <1>0, <1>00, <1>7, <1>13, <1>25

(* b is a batch of the channel c, and r is what taking it leaves of qq.    *)
Flushes(r, qq, b, c) ==
    /\ c \in Channels /\ qq.inFlight[c] = "no"
    /\ b.events \in Seq(Events) /\ b.cancelled \in Seq(Events)
    /\ Once(b.events) /\ Once(b.cancelled) /\ ToSet(b.events) \cap ToSet(b.cancelled) = {}
    /\ \E s \in Seq(Events) :
         /\ Changed(r, qq, c, s, "armed", qq.retryAfter[c], qq.retryCounts[c], <<>>,
                    qq.withheld[c])
         /\ ListsFit(c, s, <<>>, qq.withheld[c])
         /\ Carries(b) \cup ToSet(s) = ToSet(qq.queues[c]) \cup ToSet(qq.cancelled[c])
         /\ Carries(b) \cap (ToSet(s) \cup ToSet(qq.withheld[c])) = {}

(* flush_next: a channel without a turn gives the front of its queue and   *)
(* its cancelled batch, or the cancelled batch alone, to a batch.          *)
LEMMA FlushAt ==
    ASSUME NEW qq \in QueueType, Lists(qq), NEW f \in FlushNext(qq)
    PROVE  Flushes(f.rest, qq, f.batch, f.batch.chan)
<1>0. PICK b : b = f.batch
  OBVIOUS
<1>00. PICK c : c = b.chan
  OBVIOUS
<1> DEFINE Taken(d) == Min({MaxBatch, Len(qq.queues[d])})
           Queued(d) ==
             [batch |-> [chan |-> d, events |-> ByCreation(SubSeq(qq.queues[d], 1, Taken(d))),
                         cancelled |-> qq.cancelled[d]],
              rest |-> [qq EXCEPT !.queues[d] = SubSeq(@, Taken(d) + 1, Len(@)),
                                  !.inFlight[d] = "armed", !.cancelled[d] = <<>>]]
           Again(d) ==
             [batch |-> [chan |-> d, events |-> qq.cancelled[d], cancelled |-> <<>>],
              rest |-> [qq EXCEPT !.inFlight[d] = "armed", !.cancelled[d] = <<>>]]
<1>1. \/ \E d \in Flushable(qq) : f = Queued(d)
      \/ \E d \in CancelledWaiting(qq) : f = Again(d)
  BY DEF FlushNext
<1>2. CASE \E d \in Flushable(qq) : f = Queued(d)
  <2>1. PICK d \in Flushable(qq) : f = Queued(d)
    BY <1>2
  <2>2. d \in Channels /\ qq.inFlight[d] = "no"
    BY DEF Flushable
  <2>3. PICK s \in Seq(Events) : s = qq.queues[d]
    BY <2>2, FieldsAt
  <2>4. PICK k \in 0..Len(s) : k = Taken(d)
    <3>1. MaxBatch \in Nat /\ Len(s) \in Nat
      BY QueueAssumption
    <3>2. Taken(d) \in {MaxBatch, Len(s)} /\ Taken(d) <= Len(s)
      BY <2>3, <3>1 DEF Min
    <3> QED
      BY <3>1, <3>2
  <2>5. ListsFit(d, s, qq.cancelled[d], qq.withheld[d])
    BY <2>2, <2>3 DEF Lists
  <2>6. PICK u : u = SubSeq(s, 1, k)
    OBVIOUS
  <2>7. PICK v : v = SubSeq(s, k + 1, Len(s))
    OBVIOUS
  <2>8. /\ u \in Seq(Events) /\ v \in Seq(Events) /\ ToSet(u) \cup ToSet(v) = ToSet(s)
        /\ Once(u) /\ Once(v) /\ ToSet(u) \cap ToSet(v) = {}
    BY <2>5, <2>6, <2>7, Cut DEF ListsFit
  <2>9. ByCreation(u) \in Seq(Events) /\ ToSet(ByCreation(u)) = ToSet(u) /\ Once(ByCreation(u))
    BY <2>8, Sorted
  <2>10. b = [chan |-> d, events |-> ByCreation(u), cancelled |-> qq.cancelled[d]]
    BY <1>0, <2>1, <2>3, <2>4, <2>6
  <2>11. b.events = ByCreation(u) /\ b.cancelled = qq.cancelled[d] /\ c = d
    BY <1>00, <2>10
  <2>12. f.rest = [qq EXCEPT !.queues[d] = v, !.inFlight[d] = "armed", !.cancelled[d] = <<>>]
    BY <2>1, <2>3, <2>4, <2>7
  <2>13. Changed(f.rest, qq, d, v, "armed", qq.retryAfter[d], qq.retryCounts[d], <<>>, qq.withheld[d])
    BY <2>2, <2>8, <2>12, SetFlushed
  <2>14. Len(v) <= MaxPending
    <3>1. Len(v) <= Len(s) /\ Len(v) \in Nat /\ Len(s) \in Nat
      <4>1. CASE k = Len(s)
        BY <2>7, <4>1
      <4>2. CASE k # Len(s)
        BY <2>7, <4>2
      <4> QED
        BY <4>1, <4>2
    <3>2. Len(s) <= MaxPending /\ MaxPending \in Nat
      BY <2>5, QueueAssumption DEF ListsFit
    <3> QED
      BY <3>1, <3>2
  <2>15. ListsFit(d, v, <<>>, qq.withheld[d])
    BY <2>5, <2>8, <2>14, Nothing DEF ListsFit
  <2>16. /\ Carries(b) \cup ToSet(v) = ToSet(s) \cup ToSet(qq.cancelled[d])
         /\ Carries(b) \cap (ToSet(v) \cup ToSet(qq.withheld[d])) = {}
         /\ Once(b.cancelled) /\ ToSet(b.events) \cap ToSet(b.cancelled) = {}
    BY <2>5, <2>8, <2>9, <2>11 DEF Carries, ListsFit
  <2>17. qq.cancelled[d] \in Seq(Events)
    BY <2>2, FieldsAt
  <2> HIDE DEF Queued, Again, Taken
  <2> QED
    BY <1>0, <1>00, <2>2, <2>3, <2>8, <2>9, <2>11, <2>13, <2>15, <2>16, <2>17 DEF Flushes
<1>3. CASE \E d \in CancelledWaiting(qq) : f = Again(d)
  <2>1. PICK d \in CancelledWaiting(qq) : f = Again(d)
    BY <1>3
  <2>2. d \in Channels /\ qq.inFlight[d] = "no"
    BY DEF CancelledWaiting
  <2>3. /\ b.events = qq.cancelled[d] /\ b.cancelled = <<>> /\ c = d
        /\ f.rest = [qq EXCEPT !.inFlight[d] = "armed", !.cancelled[d] = <<>>]
    BY <1>0, <1>00, <2>1
  <2>4. qq.cancelled[d] \in Seq(Events) /\ qq.queues[d] \in Seq(Events)
    BY <2>2, FieldsAt
  <2>5. Changed(f.rest, qq, d, qq.queues[d], "armed", qq.retryAfter[d], qq.retryCounts[d], <<>>,
                qq.withheld[d])
    BY <2>2, <2>3, SetResumed
  <2>6. ListsFit(d, qq.queues[d], qq.cancelled[d], qq.withheld[d])
    BY <2>2 DEF Lists
  <2>7. ListsFit(d, qq.queues[d], <<>>, qq.withheld[d])
    BY <2>6, Nothing DEF ListsFit
  <2>8. /\ Carries(b) \cup ToSet(qq.queues[d]) = ToSet(qq.queues[d]) \cup ToSet(qq.cancelled[d])
        /\ Carries(b) \cap (ToSet(qq.queues[d]) \cup ToSet(qq.withheld[d])) = {}
        /\ Once(b.events) /\ Once(b.cancelled) /\ ToSet(b.events) \cap ToSet(b.cancelled) = {}
    BY <2>3, <2>6, Nothing DEF Carries, ListsFit
  <2> HIDE DEF Queued, Again, Taken
  <2> QED
    BY <1>0, <1>00, <2>2, <2>3, <2>4, <2>5, <2>7, <2>8, Nothing DEF Flushes
<1> QED
  BY <1>1, <1>2, <1>3

(* A turn just started has its batch and no steer.                         *)
LEMMA TurnStarts ==
    ASSUME NEW chan \in Channels \cup {Heartbeat}, NEW ev \in Seq(Events), NEW can \in Seq(Events),
           NEW t, t = Turn(chan, ev, can)
    PROVE  /\ t \in TaskType /\ t # NoTask
           /\ t.chan = chan /\ t.events = ev /\ t.cancelled = can
           /\ t.inbox = NoEvent /\ t.wire = NoEvent
<1>1. t \in TaskType
  BY DEF Turn, TaskType, EventSeqs
<1>2. /\ t.chan = chan /\ t.events = ev /\ t.cancelled = can
      /\ t.inbox = NoEvent /\ t.wire = NoEvent
  BY DEF Turn
<1> QED
  BY <1>1, <1>2, HarnessAssumption

(* A turn more.                                                            *)
Started(tt2, tt, ak, a, t) ==
    /\ tt2 \in Tasks /\ Busy(tt2) = Busy(tt) \cup {a} /\ a \notin Busy(tt)
    /\ tt2[a] = t /\ \A b \in Busy(tt) : tt2[b] = tt[b]
    /\ Steers(tt2, ak)
    /\ \A e \in Events : Pending(tt2, ak, e) => Pending(tt, ak, e)

(* Without a steer, it leaves the steers as they were.                     *)
LEMMA SteersStart ==
    ASSUME NEW tt \in Tasks, NEW a \in Agents, tt[a] = NoTask, NEW ak, ak \subseteq Acks,
           Steers(tt, ak),
           NEW t \in TaskType, t # NoTask, t.inbox = NoEvent, t.wire = NoEvent,
           NEW tt2, tt2 = [tt EXCEPT ![a] = t]
    PROVE  Started(tt2, tt, ak, a, t)
<1>1. tt2 \in Tasks /\ tt2[a] = t /\ \A b \in Agents \ {a} : tt2[b] = tt[b]
  BY DEF Tasks
<1>2. Busy(tt2) = Busy(tt) \cup {a} /\ a \notin Busy(tt) /\ \A b \in Busy(tt) : tt2[b] = tt[b]
  BY <1>1 DEF Busy
<1>3. \A k \in ak : k.event # NoEvent
  BY HarnessAssumption DEF Acks
<1>4. Steers(tt2, ak)
  <2>0. /\ tt2[a].inbox = NoEvent /\ tt2[a].wire = NoEvent
        /\ \A x \in Busy(tt) : tt2[x].inbox = tt[x].inbox /\ tt2[x].wire = tt[x].wire
    BY <1>1, <1>2
  <2>1. ASSUME NEW x \in Busy(tt2), NEW y \in Busy(tt2)
        PROVE  /\ tt2[x].inbox # NoEvent =>
                     tt2[x].inbox # tt2[y].wire /\ (tt2[x].inbox = tt2[y].inbox => x = y)
               /\ tt2[x].wire # NoEvent /\ tt2[x].wire = tt2[y].wire => x = y
    <3>1. CASE x \in Busy(tt) /\ y \in Busy(tt)
      BY <2>0, <3>1 DEF Steers
    <3>2. CASE x = a \/ y = a
      BY <2>0, <3>2
    <3> QED
      BY <1>2, <3>1, <3>2
  <2>2. ASSUME NEW k \in ak, NEW x \in Busy(tt2)
        PROVE  k.event # tt2[x].inbox /\ k.event # tt2[x].wire
    <3>1. CASE x \in Busy(tt)
      BY <2>0, <3>1 DEF Steers
    <3>2. CASE x = a
      BY <1>3, <2>0, <3>2
    <3> QED
      BY <1>2, <3>1, <3>2
  <2> QED
    BY <2>1, <2>2 DEF Steers
<1>5. \A e \in Events : Pending(tt2, ak, e) => Pending(tt, ak, e)
  BY <1>1, <1>2, HarnessAssumption DEF Pending
<1> QED
  BY <1>1, <1>2, <1>4, <1>5 DEF Started

(* A batch becomes a turn: dispatch_pending, with an agent for it.         *)
LEMMA DispatchKeeps ==
    ASSUME NEW qq, NEW tt, NEW ak, NEW acc, NEW res, NEW mg, NEW st, NEW ex,
           EventInv(qq, tt, ak, acc, res, mg, st, ex), NEW f \in FlushNext(qq),
           NEW a \in Agents, tt[a] = NoTask, NEW tt2,
           tt2 = [tt EXCEPT ![a] = Turn(f.batch.chan, f.batch.events, f.batch.cancelled)]
    PROVE  EventInv(f.rest, tt2, ak, acc, res, mg \cup ToSet(f.batch.cancelled), st, ex)
<1>0. PICK b : b = f.batch
  OBVIOUS
<1>b. PICK c : c = b.chan
  OBVIOUS
<1>c. PICK r : r = f.rest
  OBVIOUS
<1>1. /\ qq \in QueueType /\ tt \in Tasks /\ ak \subseteq Acks /\ acc \subseteq Events
      /\ res \subseteq Events /\ st \in [Channels -> Nat] /\ Lists(qq) /\ Turns(qq, tt)
      /\ OneTurn(qq, tt, ex) /\ Accounted(qq, tt, acc, res, mg) /\ Final(qq, tt, res, ex)
      /\ Steers(tt, ak) /\ HeldBack(qq, tt, ak, acc, res, ex) /\ Retries(qq, st, ex)
  BY DEF EventInv, Typed
<1>2. Flushes(r, qq, b, c)
  BY <1>0, <1>b, <1>c, <1>1, FlushAt
<1>3. PICK s \in Seq(Events) :
        /\ Changed(r, qq, c, s, "armed", qq.retryAfter[c], qq.retryCounts[c], <<>>, qq.withheld[c])
        /\ ListsFit(c, s, <<>>, qq.withheld[c])
        /\ Carries(b) \cup ToSet(s) = ToSet(qq.queues[c]) \cup ToSet(qq.cancelled[c])
        /\ Carries(b) \cap (ToSet(s) \cup ToSet(qq.withheld[c])) = {}
  BY <1>2 DEF Flushes
<1>d. /\ c \in Channels /\ qq.inFlight[c] = "no"
       /\ b.events \in Seq(Events) /\ b.cancelled \in Seq(Events)
       /\ Once(b.events) /\ Once(b.cancelled) /\ ToSet(b.events) \cap ToSet(b.cancelled) = {}
  BY <1>2 DEF Flushes
<1>4. PICK t : t = Turn(c, b.events, b.cancelled)
  OBVIOUS
<1>5. /\ t \in TaskType /\ t # NoTask /\ t.chan = c /\ t.events = b.events
      /\ t.cancelled = b.cancelled /\ t.inbox = NoEvent /\ t.wire = NoEvent
  BY <1>d, <1>4, TurnStarts
<1>6. tt2 = [tt EXCEPT ![a] = t]
  BY <1>0, <1>b, <1>4
<1>7. /\ tt2 \in Tasks /\ Busy(tt2) = Busy(tt) \cup {a} /\ a \notin Busy(tt)
      /\ tt2[a] = t /\ \A x \in Busy(tt) : tt2[x] = tt[x]
      /\ Steers(tt2, ak)
      /\ \A e \in Events : Pending(tt2, ak, e) => Pending(tt, ak, e)
  <2>1. tt \in Tasks /\ ak \subseteq Acks /\ Steers(tt, ak)
    BY <1>1
  <2>2. t \in TaskType /\ t # NoTask /\ t.inbox = NoEvent /\ t.wire = NoEvent
    BY <1>5
  <2>3. Started(tt2, tt, ak, a, t)
    BY <1>6, <2>1, <2>2, SteersStart
  <2> QED
    BY <2>3 DEF Started
<1>8. Carries(t) = Carries(b)
  BY <1>5 DEF Carries
<1>9. /\ Lists(r)
      /\ QueueHolds(r, c) = ToSet(s) \cup ToSet(<<>>) \cup ToSet(qq.withheld[c])
      /\ \A d \in Channels \ {c} : QueueHolds(r, d) = QueueHolds(qq, d)
  BY <1>1, <1>d, <1>3, ListsChanged
<1>10. /\ QueueHolds(r, c) \cup Carries(t) = QueueHolds(qq, c)
       /\ QueueHolds(r, c) \cap Carries(t) = {}
  BY <1>3, <1>8, <1>9, Nothing DEF QueueHolds
<1>11. /\ r \in QueueType /\ r.inFlight[c] = "armed"
       /\ \A d \in Channels : r.withheld[d] = qq.withheld[d]
       /\ \A d \in Channels \ {c} : r.inFlight[d] = qq.inFlight[d]
  BY <1>d, <1>3 DEF Changed, SameAt
<1>12. Carries(t) \subseteq Mine(c)
  BY <1>1, <1>d, <1>10, HoldsMine DEF Mine
<1>13. TurnFits(t)
  BY <1>d, <1>5, <1>12 DEF TurnFits
<1>14. Turns(r, tt2)
  <2>1. \A x \in Busy(tt) : TurnFits(tt[x]) /\ \A d \in Channels : Carries(tt[x]) \cap QueueHolds(qq, d) = {}
    BY <1>1 DEF Turns
  <2>2. \A d \in Channels \ {c} : Carries(t) \cap QueueHolds(qq, d) = {}
    BY <1>1, <1>12, HoldsMine DEF Mine
  <2>3. \A d \in Channels : Carries(t) \cap QueueHolds(r, d) = {}
    BY <1>9, <1>10, <2>2
  <2>4. \A x \in Busy(tt) : \A d \in Channels : Carries(tt[x]) \cap QueueHolds(r, d) = {}
    BY <1>d, <1>9, <1>10, <2>1
  <2>5. \A x \in Busy(tt) : Carries(tt[x]) \cap Carries(t) = {}
    BY <1>d, <1>10, <2>1
  <2>6. \A x, y \in Busy(tt) : x # y => Carries(tt[x]) \cap Carries(tt[y]) = {}
    BY <1>1 DEF Turns
  <2> QED
    BY <1>7, <1>13, <2>1, <2>3, <2>4, <2>5, <2>6 DEF Turns
<1>15. OneTurn(r, tt2, ex)
  <2> SUFFICES ASSUME NEW d \in Channels \ ex
               PROVE  /\ \A x, y \in Busy(tt2) : tt2[x].chan = d /\ tt2[y].chan = d => x = y
                      /\ (\E x \in Busy(tt2) : tt2[x].chan = d) <=> r.inFlight[d] # "no"
    BY DEF OneTurn
  <2>1. /\ \A x, y \in Busy(tt) : tt[x].chan = d /\ tt[y].chan = d => x = y
        /\ (\E x \in Busy(tt) : tt[x].chan = d) <=> qq.inFlight[d] # "no"
    BY <1>1 DEF OneTurn
  <2>0. /\ tt2[a].chan = c /\ Busy(tt2) = Busy(tt) \cup {a}
        /\ \A x \in Busy(tt) : tt2[x].chan = tt[x].chan
    BY <1>5, <1>7
  <2>2. CASE d = c
    <3>1. \A x \in Busy(tt) : tt2[x].chan # d
      BY <1>d, <2>0, <2>1, <2>2
    <3> QED
      BY <1>11, <2>0, <2>2, <3>1
  <2>3. CASE d # c
    BY <1>11, <2>0, <2>1, <2>3
  <2> QED
    BY <2>2, <2>3
<1>16. \A e : HeldBy(r, tt2, e) <=> HeldBy(qq, tt, e)
  <2>1. ASSUME NEW e, HeldBy(r, tt2, e) PROVE HeldBy(qq, tt, e)
    <3>1. CASE \E d \in Channels : e \in QueueHolds(r, d)
      BY <1>d, <1>9, <1>10, <3>1 DEF HeldBy
    <3>2. CASE \E x \in Busy(tt2) : e \in Carries(tt2[x])
      BY <1>d, <1>7, <1>10, <3>2 DEF HeldBy
    <3> QED
      BY <2>1, <3>1, <3>2 DEF HeldBy
  <2>2. ASSUME NEW e, HeldBy(qq, tt, e) PROVE HeldBy(r, tt2, e)
    <3>1. CASE \E d \in Channels : e \in QueueHolds(qq, d)
      BY <1>d, <1>7, <1>9, <1>10, <3>1 DEF HeldBy
    <3>2. CASE \E x \in Busy(tt) : e \in Carries(tt[x])
      BY <1>7, <3>2 DEF HeldBy
    <3> QED
      BY <2>2, <3>1, <3>2 DEF HeldBy
  <2> QED
    BY <2>1, <2>2
<1>17. Accounted(r, tt2, acc, res, mg \cup ToSet(b.cancelled))
  <2>1. \A x \in Busy(tt2) : ToSet(tt2[x].cancelled) \subseteq mg \cup ToSet(b.cancelled)
    BY <1>1, <1>5, <1>7 DEF Accounted
  <2> QED
    BY <1>1, <1>16, <2>1 DEF Accounted
<1>18. Final(r, tt2, res, ex)
  BY <1>1, <1>16 DEF Final
<1>19. HeldBack(r, tt2, ak, acc, res, ex)
  BY <1>1, <1>7, <1>11, HarnessAssumption DEF HeldBack
<1>20. Retries(r, st, ex)
  <2>1. c \notin ex => st[c] <= qq.retryCounts[c] /\ (st[c] > 0 => s # <<>> \/ "armed" # "no")
    BY <1>1, <1>d DEF Retries
  <2>2. \A d \in Channels \ {c} : st[d] = st[d]
    OBVIOUS
  <2> QED
    BY <1>1, <1>d, <1>3, <2>1, <2>2, RetriesChanged
<1>21. EventInv(r, tt2, ak, acc, res, mg \cup ToSet(b.cancelled), st, ex)
  BY <1>1, <1>7, <1>9, <1>11, <1>14, <1>15, <1>17, <1>18, <1>19, <1>20 DEF EventInv, Typed
<1> QED
  BY <1>0, <1>c, <1>21

(* A batch without an agent goes back in front of its queue, without its   *)
(* cancelled events, and its channel is released.                          *)
LEMMA PutBackKeeps ==
    ASSUME NEW qq, NEW tt, NEW ak, NEW acc, NEW res, NEW mg, NEW st, NEW ex,
           EventInv(qq, tt, ak, acc, res, mg, st, ex), NEW f \in FlushNext(qq)
    PROVE  EventInv(PutBack(f).queue, tt, ak, acc, res \cup PutBack(f).drops,
                    mg \cup ToSet(f.batch.cancelled), [st EXCEPT ![f.batch.chan] = 0], ex)
<1>0. PICK b : b = f.batch
  OBVIOUS
<1>00. PICK c : c = b.chan
  OBVIOUS
<1>1. /\ qq \in QueueType /\ tt \in Tasks /\ ak \subseteq Acks /\ acc \subseteq Events
      /\ res \subseteq Events /\ st \in [Channels -> Nat] /\ Lists(qq) /\ Turns(qq, tt)
      /\ Retries(qq, st, ex)
  BY DEF EventInv, Typed
<1>2. Flushes(f.rest, qq, b, c)
  BY <1>0, <1>00, <1>1, FlushAt
<1>3. PICK s \in Seq(Events) :
        /\ Changed(f.rest, qq, c, s, "armed", qq.retryAfter[c], qq.retryCounts[c], <<>>, qq.withheld[c])
        /\ ListsFit(c, s, <<>>, qq.withheld[c])
        /\ Carries(b) \cup ToSet(s) = ToSet(qq.queues[c]) \cup ToSet(qq.cancelled[c])
        /\ Carries(b) \cap (ToSet(s) \cup ToSet(qq.withheld[c])) = {}
  BY <1>2 DEF Flushes
<1>4. /\ c \in Channels /\ qq.inFlight[c] = "no"
      /\ b.events \in Seq(Events) /\ b.cancelled \in Seq(Events)
      /\ Once(b.events) /\ Once(b.cancelled) /\ ToSet(b.events) \cap ToSet(b.cancelled) = {}
  BY <1>2 DEF Flushes
<1>5. PICK u : u = b.events \o s
  OBVIOUS
<1>6. u \in Seq(Events) /\ ToSet(u) = ToSet(b.events) \cup ToSet(s) /\ Once(u)
  BY <1>3, <1>4, <1>5, Joined DEF Carries, ListsFit
<1>7. PICK v \in Seq(Events) :
        /\ v = Capped(u) /\ Len(v) <= MaxPending /\ Once(v)
        /\ ToSet(v) \cup Overflow(u) = ToSet(u) /\ ToSet(v) \cap Overflow(u) = {}
  BY <1>6, CapCuts
<1>8. PICK p : p = RequeuePreserve(f.rest, b)
  OBVIOUS
<1>9. PICK r : r = MarkComplete(p, c)
  OBVIOUS
<1>10. f.rest \in QueueType /\ f.rest.queues[c] = s
  BY <1>3 DEF Changed
<1>11. Changed(p, f.rest, c, v, f.rest.inFlight[c], f.rest.retryAfter[c], f.rest.retryCounts[c],
               f.rest.cancelled[c], f.rest.withheld[c])
  <2>1. p = [f.rest EXCEPT !.queues[c] = v]
    BY <1>00, <1>5, <1>7, <1>8, <1>10 DEF RequeuePreserve
  <2> QED
    BY <1>4, <1>10, <2>1, SetQueue
<1>12. /\ p \in QueueType /\ p.queues[c] = v /\ p.cancelled[c] = <<>>
       /\ p.withheld[c] = qq.withheld[c]
  BY <1>3, <1>11 DEF Changed
<1>13. Changed(p, qq, c, v, f.rest.inFlight[c], f.rest.retryAfter[c], f.rest.retryCounts[c],
               f.rest.cancelled[c], f.rest.withheld[c])
  BY <1>3, <1>4, <1>11, ChangedTwice
<1>14. PICK x, n : Changed(r, p, c, v, "no", x, n, <<>>, qq.withheld[c])
  BY <1>4, <1>9, <1>12, Completed
<1>15. Changed(r, qq, c, v, "no", x, n, <<>>, qq.withheld[c])
  BY <1>4, <1>13, <1>14, ChangedTwice
<1>16. ListsFit(c, v, <<>>, qq.withheld[c])
  <2>1. ListsFit(c, qq.queues[c], qq.cancelled[c], qq.withheld[c])
    BY <1>1, <1>4 DEF Lists
  <2>2. ToSet(v) \subseteq Carries(b) \cup ToSet(s)
    BY <1>6, <1>7 DEF Carries
  <2>3. ToSet(s) \cap ToSet(qq.withheld[c]) = {}
    BY <1>3 DEF ListsFit
  <2> QED
    BY <1>3, <1>7, <2>1, <2>2, <2>3, Nothing DEF ListsFit
<1>17. /\ Lists(r)
       /\ QueueHolds(r, c) = ToSet(v) \cup ToSet(<<>>) \cup ToSet(qq.withheld[c])
       /\ \A d \in Channels \ {c} : QueueHolds(r, d) = QueueHolds(qq, d)
  BY <1>1, <1>4, <1>15, <1>16, ListsChanged
<1>18. /\ r \in QueueType /\ \A d \in Channels : r.withheld[d] = qq.withheld[d]
       /\ \A d \in Channels : r.inFlight[d] = "no" <=> qq.inFlight[d] = "no"
  BY <1>4, <1>15 DEF Changed, SameAt
<1>19. /\ QueueHolds(qq, c) = QueueHolds(r, c) \cup Overflow(u) \cup ToSet(b.cancelled)
       /\ QueueHolds(r, c) \cap Overflow(u) = {}
  <2>1. QueueHolds(qq, c) = ToSet(b.events) \cup ToSet(b.cancelled) \cup ToSet(s) \cup ToSet(qq.withheld[c])
    BY <1>3 DEF QueueHolds, Carries
  <2>2. ToSet(u) \cap ToSet(qq.withheld[c]) = {}
    BY <1>3, <1>6 DEF Carries, ListsFit
  <2>3. QueueHolds(r, c) = ToSet(v) \cup ToSet(qq.withheld[c])
    BY <1>17, Nothing
  <2> QED
    BY <1>6, <1>7, <2>1, <2>2, <2>3
<1>20. \A e \in Overflow(u) : e \in Events /\ ~HeldBy(r, tt, e)
  <2> SUFFICES ASSUME NEW e \in Overflow(u) PROVE e \in Events /\ ~HeldBy(r, tt, e)
    OBVIOUS
  <2>1. e \in QueueHolds(qq, c) /\ e \notin QueueHolds(r, c)
    BY <1>19
  <2> QED
    BY <1>1, <1>4, <1>17, <2>1, Gone, HoldsMine
<1>21. PICK st2 : st2 = [st EXCEPT ![c] = 0]
  OBVIOUS
<1>22. st2 \in [Channels -> Nat] /\ st2[c] = 0 /\ \A d \in Channels \ {c} : st2[d] = st[d]
  BY <1>1, <1>4, <1>21
<1>23. n \in 0..MaxRetries
  <2>1. r.retryCounts[c] = n
    BY <1>15 DEF Changed
  <2> QED
    BY <1>4, <1>18, <2>1, FieldsAt
<1>24. Retries(r, st2, ex)
  <2>1. c \notin ex => st2[c] <= n /\ (st2[c] > 0 => v # <<>> \/ "no" # "no")
    BY <1>22, <1>23, QueueAssumption
  <2> QED
    BY <1>1, <1>4, <1>15, <1>22, <2>1, RetriesChanged
<1>25. PICK res2 : res2 = res \cup Overflow(u)
  OBVIOUS
<1>26. PICK mg2 : mg2 = mg \cup ToSet(b.cancelled)
  OBVIOUS
<1>27. /\ res \subseteq res2 /\ res2 \subseteq Events /\ mg \subseteq mg2
       /\ \A e \in res2 \ res : ChannelOf[e] \notin ex => ~HeldBy(r, tt, e)
  BY <1>1, <1>20, <1>25, <1>26
<1>28. /\ \A d \in Channels : QueueHolds(r, d) \subseteq QueueHolds(qq, d)
       /\ \A d \in Channels : \A e \in QueueHolds(qq, d) :
             e \in QueueHolds(r, d) \/ e \in res2 \/ e \in mg2
  BY <1>17, <1>19, <1>25, <1>26
<1>29. \A e \in Events : e \in ToSet(qq.withheld[ChannelOf[e]]) => e \in ToSet(r.withheld[ChannelOf[e]])
  BY <1>18, HarnessAssumption
<1>30. EventInv(r, tt, ak, acc, res2, mg2, st2, ex)
  BY <1>17, <1>18, <1>22, <1>24, <1>27, <1>28, <1>29, QueueStep
<1>31. PutBack(f).queue = r /\ PutBack(f).drops = Overflow(u)
  BY <1>0, <1>00, <1>5, <1>8, <1>9, <1>10 DEF PutBack, RequeueDrops
<1> QED
  BY <1>0, <1>00, <1>21, <1>25, <1>26, <1>30, <1>31

(* drain_channel settles what the queue holds for a channel.               *)
LEMMA DrainKeeps ==
    ASSUME NEW qq, NEW tt, NEW ak, NEW acc, NEW res, NEW mg, NEW st, NEW ex,
           EventInv(qq, tt, ak, acc, res, mg, st, ex), NEW c \in Channels
    PROVE  EventInv(DrainChannel(qq, c), tt, ak, acc, res \cup QueueHolds(qq, c), mg,
                    [st EXCEPT ![c] = 0], ex)
<1>1. /\ qq \in QueueType /\ res \subseteq Events /\ st \in [Channels -> Nat] /\ Lists(qq)
      /\ Turns(qq, tt) /\ Retries(qq, st, ex)
  BY DEF EventInv, Typed
<1>2. PICK r : r = DrainChannel(qq, c)
  OBVIOUS
<1>3. Changed(r, qq, c, <<>>, qq.inFlight[c], "none", 0, <<>>, <<>>)
  BY <1>1, <1>2, Drained
<1>4. ListsFit(c, <<>>, <<>>, <<>>)
  BY Nothing, QueueAssumption DEF ListsFit
<1>5. /\ Lists(r)
      /\ QueueHolds(r, c) = ToSet(<<>>) \cup ToSet(<<>>) \cup ToSet(<<>>)
      /\ \A d \in Channels \ {c} : QueueHolds(r, d) = QueueHolds(qq, d)
  BY <1>1, <1>3, <1>4, ListsChanged
<1>6. QueueHolds(r, c) = {}
  BY <1>5, Nothing
<1>7. PICK st2 : st2 = [st EXCEPT ![c] = 0]
  OBVIOUS
<1>8. st2 \in [Channels -> Nat] /\ st2[c] = 0 /\ \A d \in Channels \ {c} : st2[d] = st[d]
  BY <1>1, <1>7
<1>9. Retries(r, st2, ex)
  <2>1. c \notin ex => st2[c] <= 0 /\ (st2[c] > 0 => <<>> # <<>> \/ qq.inFlight[c] # "no")
    BY <1>8
  <2> QED
    BY <1>1, <1>3, <1>8, <2>1, RetriesChanged
<1>10. PICK res2 : res2 = res \cup QueueHolds(qq, c)
  OBVIOUS
<1>11. \A e \in QueueHolds(qq, c) : e \in Events /\ ~HeldBy(r, tt, e)
  BY <1>1, <1>5, <1>6, Gone, HoldsMine
<1>12. /\ res \subseteq res2 /\ res2 \subseteq Events
       /\ \A e \in res2 \ res : ChannelOf[e] \notin ex => ~HeldBy(r, tt, e)
  BY <1>1, <1>10, <1>11
<1>13. /\ \A d \in Channels : QueueHolds(r, d) \subseteq QueueHolds(qq, d)
       /\ \A d \in Channels : \A e \in QueueHolds(qq, d) :
             e \in QueueHolds(r, d) \/ e \in res2 \/ e \in mg
  BY <1>5, <1>6, <1>10
<1>14. /\ r \in QueueType /\ \A d \in Channels : r.inFlight[d] = qq.inFlight[d]
       /\ \A d \in Channels \ {c} : r.withheld[d] = qq.withheld[d]
  BY <1>3 DEF Changed, SameAt
<1>15. \A e \in Events : e \in ToSet(qq.withheld[ChannelOf[e]])
                         => e \in ToSet(r.withheld[ChannelOf[e]]) \/ e \in res2
  BY <1>10, <1>14, HarnessAssumption DEF QueueHolds
<1>16. EventInv(r, tt, ak, acc, res2, mg, st2, ex)
  BY <1>5, <1>8, <1>9, <1>12, <1>13, <1>14, <1>15, QueueStep
<1> QED
  BY <1>2, <1>7, <1>10, <1>16

(* The turn of a is over: what it had is held by r, settled or lost.       *)
Parts(r, tt2, qq, tt, a, fate) ==
    /\ \A d \in Channels : r.withheld[d] = qq.withheld[d]
    /\ \A e : HeldBy(r, tt2, e) => HeldBy(qq, tt, e) /\ e \notin fate
    /\ \A e : HeldBy(qq, tt, e) =>
          HeldBy(r, tt2, e) \/ e \in fate \/ e \in ToSet(tt[a].cancelled)
    /\ \A b \in Busy(tt) \ {a} : fate \cap Carries(tt[b]) = {}

(* A turn leaves its agent: its events are back in the queue, settled, or  *)
(* lost with the cancelled events it carried.                              *)
LEMMA TurnLeaves ==
    ASSUME NEW qq, NEW tt, NEW ak, NEW acc, NEW res, NEW mg, NEW st, NEW ex,
           EventInv(qq, tt, ak, acc, res, mg, st, ex), NEW a \in Busy(tt),
           NEW tt2, tt2 = [tt EXCEPT ![a] = NoTask],
           NEW r \in QueueType, NEW fate, fate \subseteq Events, NEW st2 \in [Channels -> Nat],
           Lists(r), Turns(r, tt2), OneTurn(r, tt2, ex), Retries(r, st2, ex),
           Parts(r, tt2, qq, tt, a, fate)
    PROVE  EventInv(r, tt2, ak, acc, res \cup fate, mg \ fate, st2, ex)
<1>1. /\ qq \in QueueType /\ tt \in Tasks /\ ak \subseteq Acks /\ acc \subseteq Events
      /\ res \subseteq Events /\ Accounted(qq, tt, acc, res, mg) /\ Final(qq, tt, res, ex)
      /\ Steers(tt, ak) /\ HeldBack(qq, tt, ak, acc, res, ex)
  BY DEF EventInv, Typed
<1>2. /\ tt2 \in Tasks /\ Busy(tt2) = Busy(tt) \ {a}
      /\ \A b \in Busy(tt2) : tt2[b] = tt[b]
  BY <1>1 DEF Tasks, Busy
<1>3. Accounted(r, tt2, acc, res \cup fate, mg \ fate)
  <2>1. ASSUME NEW e \in acc PROVE HeldBy(r, tt2, e) \/ e \in res \cup fate \/ e \in mg \ fate
    <3>1. HeldBy(qq, tt, e) \/ e \in res \/ e \in mg
      BY <1>1 DEF Accounted
    <3>2. ToSet(tt[a].cancelled) \subseteq mg
      BY <1>1 DEF Accounted
    <3> QED
      BY <3>1, <3>2 DEF Parts
  <2>2. \A e \in Events : HeldBy(r, tt2, e) => e \in acc
    BY <1>1 DEF Accounted, Parts
  <2>3. ASSUME NEW b \in Busy(tt2) PROVE ToSet(tt2[b].cancelled) \subseteq mg \ fate
    <3>1. b \in Busy(tt) \ {a} /\ tt2[b] = tt[b]
      BY <1>2
    <3>2. ToSet(tt[b].cancelled) \subseteq mg /\ ToSet(tt[b].cancelled) \subseteq Carries(tt[b])
      BY <1>1, <3>1 DEF Accounted, Carries
    <3> QED
      BY <3>1, <3>2 DEF Parts
  <2> QED
    BY <2>1, <2>2, <2>3 DEF Accounted
<1>4. Final(r, tt2, res \cup fate, ex)
  BY <1>1 DEF Final, Parts
<1>5. Steers(tt2, ak)
  <2>1. Busy(tt2) \subseteq Busy(tt) /\ \A b \in Busy(tt2) : tt2[b].inbox = tt[b].inbox
                                                      /\ tt2[b].wire = tt[b].wire
    BY <1>2
  <2>2. Steers(tt, ak)
    BY <1>1
  <2>3. ASSUME NEW b \in Busy(tt2), NEW d \in Busy(tt2)
        PROVE  /\ tt2[b].inbox # NoEvent =>
                     tt2[b].inbox # tt2[d].wire /\ (tt2[b].inbox = tt2[d].inbox => b = d)
               /\ tt2[b].wire # NoEvent /\ tt2[b].wire = tt2[d].wire => b = d
    <3>1. /\ b \in Busy(tt) /\ tt2[b].inbox = tt[b].inbox /\ tt2[b].wire = tt[b].wire
          /\ d \in Busy(tt) /\ tt2[d].inbox = tt[d].inbox /\ tt2[d].wire = tt[d].wire
      BY <2>1
    <3> QED
      BY <2>2, <3>1 DEF Steers
  <2>4. ASSUME NEW k \in ak, NEW b \in Busy(tt2)
        PROVE  k.event # tt2[b].inbox /\ k.event # tt2[b].wire
    <3>1. b \in Busy(tt) /\ tt2[b].inbox = tt[b].inbox /\ tt2[b].wire = tt[b].wire
      BY <2>1
    <3> QED
      BY <2>2, <3>1 DEF Steers
  <2> QED
    BY <2>2, <2>3, <2>4 DEF Steers
<1>6. HeldBack(r, tt2, ak, acc, res \cup fate, ex)
  <2>1. \A e : Pending(tt2, ak, e) => Pending(tt, ak, e)
    BY <1>2 DEF Pending
  <2> QED
    BY <1>1, <2>1, HarnessAssumption DEF HeldBack, Parts
<1>7. Typed(r, tt2, ak, acc, res \cup fate, st2)
  BY <1>1, <1>2 DEF Typed
<1> QED
  BY <1>3, <1>4, <1>5, <1>6, <1>7 DEF EventInv

(* A heartbeat turn carries nothing.                                       *)
LEMMA HeartbeatLeaves ==
    ASSUME NEW qq, NEW tt, NEW ak, NEW acc, NEW res, NEW mg, NEW st, NEW ex,
           EventInv(qq, tt, ak, acc, res, mg, st, ex), NEW a \in Busy(tt),
           tt[a].chan = Heartbeat, NEW tt2, tt2 = [tt EXCEPT ![a] = NoTask]
    PROVE  /\ Carries(tt[a]) = {}
           /\ EventInv(qq, tt2, ak, acc, res, mg, st, ex)
<1>1. /\ qq \in QueueType /\ tt \in Tasks /\ st \in [Channels -> Nat]
      /\ Lists(qq) /\ Turns(qq, tt) /\ OneTurn(qq, tt, ex) /\ Retries(qq, st, ex)
  BY DEF EventInv, Typed
<1>2. Carries(tt[a]) = {}
  BY <1>1, HarnessAssumption DEF Turns, TurnFits, Mine
<1>3. /\ tt2 \in Tasks /\ Busy(tt2) = Busy(tt) \ {a}
      /\ \A b \in Busy(tt2) : tt2[b] = tt[b]
  BY <1>1 DEF Tasks, Busy
<1>4. Turns(qq, tt2)
  BY <1>1, <1>3 DEF Turns
<1>5. OneTurn(qq, tt2, ex)
  <2> SUFFICES ASSUME NEW c \in Channels \ ex
               PROVE  /\ \A x, y \in Busy(tt2) : tt2[x].chan = c /\ tt2[y].chan = c => x = y
                      /\ (\E x \in Busy(tt2) : tt2[x].chan = c) <=> qq.inFlight[c] # "no"
    BY DEF OneTurn
  <2>1. /\ \A x, y \in Busy(tt) : tt[x].chan = c /\ tt[y].chan = c => x = y
        /\ (\E x \in Busy(tt) : tt[x].chan = c) <=> qq.inFlight[c] # "no"
    BY <1>1 DEF OneTurn
  <2>2. tt[a].chan # c
    BY HarnessAssumption
  <2> QED
    BY <1>3, <2>1, <2>2
<1>6. \A e : HeldBy(qq, tt2, e) <=> HeldBy(qq, tt, e)
  BY <1>2, <1>3 DEF HeldBy
<1>7. PICK fate : fate = {}
  OBVIOUS
<1>8. fate \subseteq Events /\ Parts(qq, tt2, qq, tt, a, fate)
  BY <1>6, <1>7 DEF Parts
<1>9. EventInv(qq, tt2, ak, acc, res \cup fate, mg \ fate, st, ex)
  BY <1>1, <1>4, <1>5, <1>8, TurnLeaves
<1>10. res \cup fate = res /\ mg \ fate = mg
  BY <1>7
<1> QED
  BY <1>2, <1>9, <1>10

(* r is qq with the channel c released, its lists rearranged.              *)
Released(r, qq, c) ==
    /\ r \in QueueType /\ Lists(r) /\ r.inFlight[c] = "no" /\ r.withheld[c] = qq.withheld[c]
    /\ \A d \in Channels \ {c} : SameAt(r, qq, d)

(* The events of a turn t of c are in a list of c, settled or lost.        *)
Hands(r, qq, c, t, fate) ==
    /\ QueueHolds(r, c) \cup fate \subseteq QueueHolds(qq, c) \cup Carries(t)
    /\ \A e \in QueueHolds(qq, c) \cup Carries(t) :
          e \in QueueHolds(r, c) \/ e \in fate \/ e \in ToSet(t.cancelled)
    /\ QueueHolds(r, c) \cap fate = {}

(* A channel's turn gives its events back to the channel's lists, or       *)
(* settles them, and the channel is released.                              *)
LEMMA TurnSettles ==
    ASSUME NEW qq, NEW tt, NEW ak, NEW acc, NEW res, NEW mg, NEW st, NEW ex,
           EventInv(qq, tt, ak, acc, res, mg, st, ex), NEW a \in Busy(tt),
           NEW c \in Channels, tt[a].chan = c,
           NEW tt2, tt2 = [tt EXCEPT ![a] = NoTask],
           NEW r, NEW fate, Released(r, qq, c), Hands(r, qq, c, tt[a], fate),
           NEW st2 \in [Channels -> Nat], Retries(r, st2, ex)
    PROVE  EventInv(r, tt2, ak, acc, res \cup fate, mg \ fate, st2, ex)
<1>0. /\ QueueHolds(r, c) \cup fate \subseteq QueueHolds(qq, c) \cup Carries(tt[a])
      /\ \A e \in QueueHolds(qq, c) \cup Carries(tt[a]) :
            e \in QueueHolds(r, c) \/ e \in fate \/ e \in ToSet(tt[a].cancelled)
      /\ QueueHolds(r, c) \cap fate = {}
  BY DEF Hands
<1>1. /\ qq \in QueueType /\ tt \in Tasks /\ st \in [Channels -> Nat]
      /\ Lists(qq) /\ Turns(qq, tt) /\ OneTurn(qq, tt, ex) /\ Retries(qq, st, ex)
  BY DEF EventInv, Typed
<1>2. /\ tt2 \in Tasks /\ Busy(tt2) = Busy(tt) \ {a}
      /\ \A b \in Busy(tt2) : tt2[b] = tt[b]
  BY <1>1 DEF Tasks, Busy
<1>3. /\ Lists(r)
      /\ \A d \in Channels \ {c} : QueueHolds(r, d) = QueueHolds(qq, d)
  BY DEF Released, SameAt, QueueHolds
<1>4. /\ r \in QueueType /\ r.inFlight[c] = "no"
      /\ \A d \in Channels : r.withheld[d] = qq.withheld[d]
      /\ \A d \in Channels \ {c} : r.inFlight[d] = qq.inFlight[d]
  BY DEF Released, SameAt
<1>5. Carries(tt[a]) \subseteq Mine(c) /\ QueueHolds(qq, c) \subseteq Mine(c)
  <2>1. Carries(tt[a]) \subseteq Mine(c)
    BY <1>1 DEF Turns, TurnFits
  <2>2. QueueHolds(qq, c) \subseteq Mine(c)
    BY <1>1, HoldsMine DEF Mine
  <2> QED
    BY <2>1, <2>2
<1>6. ASSUME NEW b \in Busy(tt), b # a
      PROVE  /\ TurnFits(tt[b])
             /\ \A d \in Channels : Carries(tt[b]) \cap QueueHolds(qq, d) = {}
             /\ Carries(tt[b]) \cap Carries(tt[a]) = {}
  BY <1>1, <1>6 DEF Turns
<1>7. \A b \in Busy(tt) : b # a => /\ Carries(tt[b]) \cap fate = {}
                                   /\ Carries(tt[b]) \cap QueueHolds(r, c) = {}
  BY <1>0, <1>6
<1>8. Turns(r, tt2)
  <2>1. \A b \in Busy(tt2) : TurnFits(tt2[b])
    BY <1>2, <1>6
  <2>2. \A b \in Busy(tt2) : \A d \in Channels : Carries(tt2[b]) \cap QueueHolds(r, d) = {}
    BY <1>2, <1>3, <1>6, <1>7
  <2>3. \A b, y \in Busy(tt2) : b # y => Carries(tt2[b]) \cap Carries(tt2[y]) = {}
    BY <1>1, <1>2 DEF Turns
  <2> QED
    BY <2>1, <2>2, <2>3 DEF Turns
<1>9. OneTurn(r, tt2, ex)
  <2> SUFFICES ASSUME NEW d \in Channels \ ex
               PROVE  /\ \A b, y \in Busy(tt2) : tt2[b].chan = d /\ tt2[y].chan = d => b = y
                      /\ (\E b \in Busy(tt2) : tt2[b].chan = d) <=> r.inFlight[d] # "no"
    BY DEF OneTurn
  <2>1. /\ \A b, y \in Busy(tt) : tt[b].chan = d /\ tt[y].chan = d => b = y
        /\ (\E b \in Busy(tt) : tt[b].chan = d) <=> qq.inFlight[d] # "no"
    BY <1>1 DEF OneTurn
  <2>2. CASE d = c
    BY <1>2, <1>4, <2>1, <2>2
  <2>3. CASE d # c
    BY <1>2, <1>4, <2>1, <2>3
  <2> QED
    BY <2>2, <2>3
<1>11. fate \subseteq Events
  BY <1>0, <1>5 DEF Mine
<1>12. ASSUME NEW e, HeldBy(r, tt2, e) PROVE HeldBy(qq, tt, e) /\ e \notin fate
  <2>1. CASE e \in QueueHolds(r, c)
    <3>1. (e \in QueueHolds(qq, c) \/ e \in Carries(tt[a])) /\ e \notin fate
      BY <1>0, <2>1
    <3> QED
      BY <2>1, <3>1 DEF HeldBy
  <2>2. CASE \E d \in Channels \ {c} : e \in QueueHolds(r, d)
    <3>1. PICK d \in Channels \ {c} : e \in QueueHolds(qq, d)
      BY <1>3, <2>2
    <3>2. e \notin Mine(c)
      BY <1>1, <3>1, HoldsMine DEF Mine
    <3> QED
      BY <1>0, <1>5, <3>1, <3>2 DEF HeldBy
  <2>3. CASE \E b \in Busy(tt2) : e \in Carries(tt2[b])
    BY <1>2, <1>7, <2>3 DEF HeldBy
  <2> QED
    BY <1>12, <2>1, <2>2, <2>3 DEF HeldBy
<1>13. ASSUME NEW e, HeldBy(qq, tt, e)
       PROVE  HeldBy(r, tt2, e) \/ e \in fate \/ e \in ToSet(tt[a].cancelled)
  <2>1. CASE e \in QueueHolds(qq, c) \cup Carries(tt[a])
    BY <1>0, <2>1 DEF HeldBy
  <2>2. CASE \E d \in Channels \ {c} : e \in QueueHolds(qq, d)
    BY <1>3, <2>2 DEF HeldBy
  <2>3. CASE \E b \in Busy(tt) \ {a} : e \in Carries(tt[b])
    BY <1>2, <2>3 DEF HeldBy
  <2> QED
    BY <1>13, <2>1, <2>2, <2>3 DEF HeldBy
<1>14. \A b \in Busy(tt) \ {a} : fate \cap Carries(tt[b]) = {}
  BY <1>7
<1>15. Parts(r, tt2, qq, tt, a, fate)
  BY <1>4, <1>12, <1>13, <1>14 DEF Parts
<1>16. r \in QueueType /\ Lists(r)
  BY <1>3, <1>4
<1> QED
  BY <1>8, <1>9, <1>11, <1>15, <1>16, TurnLeaves

(* What a channel's turn leaves of the queue, however it ended.            *)
LEMMA SettledAt ==
    ASSUME NEW qq \in QueueType, NEW c \in Channels, NEW b, b.chan = c,
           b.events \in Seq(Events), b.cancelled \in Seq(Events),
           NEW r
    PROVE  /\ r = MarkComplete(qq, c) => \E x, n :
                 /\ Changed(r, qq, c, qq.queues[c], "no", x, n, qq.cancelled[c], qq.withheld[c])
                 /\ n \in Nat
           /\ r = MarkComplete(RequeueAsCancelled(qq, b), c) => \E x, n :
                 /\ Changed(r, qq, c, qq.queues[c], "no", x, n,
                            qq.cancelled[c] \o b.cancelled \o b.events, qq.withheld[c])
                 /\ n \in Nat
           /\ r = MarkComplete(Requeue(qq, b), c) => \E x, n :
                 \/ /\ Changed(r, qq, c, qq.queues[c], "no", x, n, qq.cancelled[c], qq.withheld[c])
                    /\ n = 0
                 \/ /\ Changed(r, qq, c, Capped(b.events \o qq.queues[c]), "no", x, n,
                               qq.cancelled[c], qq.withheld[c])
                    /\ n = qq.retryCounts[c] + 1
<1>1. ASSUME r = MarkComplete(qq, c)
      PROVE  \E x, n :
                 /\ Changed(r, qq, c, qq.queues[c], "no", x, n, qq.cancelled[c], qq.withheld[c])
                 /\ n \in Nat
  <2>1. PICK n : n = IF qq.retryAfter[c] = "active" THEN qq.retryCounts[c] ELSE 0
    OBVIOUS
  <2>2. n \in Nat
    BY <2>1, FieldsAt
  <2>3. PICK x : Changed(r, qq, c, qq.queues[c], "no", x, n, qq.cancelled[c], qq.withheld[c])
    BY <1>1, <2>1, Completed
  <2> QED
    BY <2>2, <2>3
<1>2. ASSUME r = MarkComplete(RequeueAsCancelled(qq, b), c)
      PROVE  \E x, n :
                 /\ Changed(r, qq, c, qq.queues[c], "no", x, n,
                            qq.cancelled[c] \o b.cancelled \o b.events, qq.withheld[c])
                 /\ n \in Nat
  <2>1. PICK v : v = qq.cancelled[c] \o b.cancelled \o b.events
    OBVIOUS
  <2>2. v \in Seq(Events)
    BY <2>1, FieldsAt, Joined
  <2>3. PICK p : p = RequeueAsCancelled(qq, b)
    OBVIOUS
  <2>4. p = [qq EXCEPT !.cancelled[c] = v]
    BY <2>1, <2>3 DEF RequeueAsCancelled
  <2>5. Changed(p, qq, c, qq.queues[c], qq.inFlight[c], qq.retryAfter[c], qq.retryCounts[c], v,
                qq.withheld[c])
    BY <2>2, <2>4, SetCancelled
  <2>6. p \in QueueType /\ p.queues[c] = qq.queues[c] /\ p.cancelled[c] = v
        /\ p.withheld[c] = qq.withheld[c]
    BY <2>5 DEF Changed
  <2>7. PICK n : n = IF p.retryAfter[c] = "active" THEN p.retryCounts[c] ELSE 0
    OBVIOUS
  <2>8. n \in Nat
    BY <2>6, <2>7, FieldsAt
  <2>9. PICK x : Changed(r, p, c, qq.queues[c], "no", x, n, v, qq.withheld[c])
    BY <1>2, <2>3, <2>6, <2>7, Completed
  <2>10. Changed(r, qq, c, qq.queues[c], "no", x, n, v, qq.withheld[c])
    BY <2>5, <2>9, ChangedTwice
  <2> QED
    BY <2>1, <2>8, <2>10
<1>3. ASSUME r = MarkComplete(Requeue(qq, b), c)
      PROVE  \E x, n :
                 \/ /\ Changed(r, qq, c, qq.queues[c], "no", x, n, qq.cancelled[c], qq.withheld[c])
                    /\ n = 0
                 \/ /\ Changed(r, qq, c, Capped(b.events \o qq.queues[c]), "no", x, n,
                               qq.cancelled[c], qq.withheld[c])
                    /\ n = qq.retryCounts[c] + 1
  <2>1. PICK p : p = Requeue(qq, b)
    OBVIOUS
  <2>2. CASE Exhausts(qq, b)
    <3>1. p = [qq EXCEPT !.retryCounts[c] = 0, !.retryAfter[c] = "none"]
      BY <2>1, <2>2 DEF Requeue
    <3>2. 0 \in 0..MaxRetries /\ "none" \in {"none", "active", "past"} /\ qq.queues[c] \in Seq(Events)
      BY QueueAssumption, FieldsAt
    <3>3. Changed(p, qq, c, qq.queues[c], qq.inFlight[c], "none", 0, qq.cancelled[c], qq.withheld[c])
      BY <3>1, <3>2, SetFailed
    <3>4. /\ p \in QueueType /\ p.queues[c] = qq.queues[c] /\ p.cancelled[c] = qq.cancelled[c]
          /\ p.withheld[c] = qq.withheld[c] /\ p.retryAfter[c] = "none"
      BY <3>3 DEF Changed
    <3>5. PICK x : Changed(r, p, c, qq.queues[c], "no", x, 0, qq.cancelled[c], qq.withheld[c])
      BY <1>3, <2>1, <3>4, Completed
    <3>6. Changed(r, qq, c, qq.queues[c], "no", x, 0, qq.cancelled[c], qq.withheld[c])
      BY <3>3, <3>5, ChangedTwice
    <3> QED
      BY <3>6
  <2>3. CASE ~Exhausts(qq, b)
    <3>1. PICK v : v = Capped(b.events \o qq.queues[c])
      OBVIOUS
    <3>2. v \in Seq(Events)
      BY <3>1, FieldsAt, Joined, CapCuts
    <3>3. PICK n : n = qq.retryCounts[c] + 1
      OBVIOUS
    <3>4. n \in 0..MaxRetries /\ "active" \in {"none", "active", "past"}
      BY <2>3, <3>3, QueueAssumption, FieldsAt DEF Exhausts
    <3>5. p = [qq EXCEPT !.retryCounts[c] = n, !.retryAfter[c] = "active", !.queues[c] = v]
      BY <2>1, <2>3, <3>1, <3>3 DEF Requeue
    <3>6. Changed(p, qq, c, v, qq.inFlight[c], "active", n, qq.cancelled[c], qq.withheld[c])
      BY <3>2, <3>4, <3>5, SetFailed
    <3>7. /\ p \in QueueType /\ p.queues[c] = v /\ p.cancelled[c] = qq.cancelled[c]
          /\ p.withheld[c] = qq.withheld[c] /\ p.retryAfter[c] = "active" /\ p.retryCounts[c] = n
      BY <3>6 DEF Changed
    <3>8. PICK x : Changed(r, p, c, v, "no", x, n, qq.cancelled[c], qq.withheld[c])
      BY <1>3, <2>1, <3>7, Completed
    <3>9. Changed(r, qq, c, v, "no", x, n, qq.cancelled[c], qq.withheld[c])
      BY <3>6, <3>8, ChangedTwice
    <3> QED
      BY <3>1, <3>3, <3>9
  <2> QED
    BY <2>2, <2>3
<1> QED
  BY <1>1, <1>2, <1>3

(* handle_prompt_result: the batch of an ended turn is settled or put back *)
(* as the turn's end says.                                                 *)
LEMMA ResultKeeps ==
    ASSUME EventInv(q, task, acks, accepted, resolved, merged, strikes, expired),
           removed \subseteq Channels,
           NEW a \in Busy(task), NEW t, t = task[a], t.end # Going,
           NEW tt2, tt2 = [task EXCEPT ![a] = NoTask]
    PROVE  EventInv(Settled(t), tt2, acks, accepted, resolved \cup Fate(t), merged \ Fate(t),
                    Struck(t), expired)
<1>1. /\ q \in QueueType /\ task \in Tasks /\ strikes \in [Channels -> Nat]
      /\ Lists(q) /\ Turns(q, task) /\ Retries(q, strikes, expired)
  BY DEF EventInv, Typed
<1>2. /\ t.chan \in Channels \cup {Heartbeat} /\ t.events \in Seq(Events)
      /\ t.cancelled \in Seq(Events) /\ t.end \in {Going} \cup Ends
  BY <1>1, TurnFields
<1>3. t.end.batch \in {"none", "dead", "retry", "cancelled"}
  BY <1>2 DEF Ends
<1>4. TurnFits(t) /\ \A d \in Channels : Carries(t) \cap QueueHolds(q, d) = {}
  BY <1>1 DEF Turns
<1>5. PICK c : c = t.chan
  OBVIOUS
<1>6. PICK all : all = Carries(t)
  OBVIOUS
<1>7. CASE c = Heartbeat
  <2>1. Carries(task[a]) = {} /\ EventInv(q, tt2, acks, accepted, resolved, merged, strikes, expired)
    BY <1>5, <1>7, HeartbeatLeaves
  <2>2. Settled(t) = q
    BY <1>5, <1>7 DEF Settled
  <2>3. c \notin removed /\ c \notin Channels
    BY <1>7, HarnessAssumption
  <2>4. Fate(t) = {}
    <3>1. ToSet(t.events) = {} /\ ToSet(t.cancelled) = {}
      BY <2>1 DEF Carries
    <3>2. DeadLettered(t)
      BY <3>1 DEF DeadLettered
    <3> QED
      BY <3>1, <3>2 DEF Fate
  <2>5. Struck(t) = strikes
    <3>1. Struck(t) = [d \in Channels |-> strikes[d]]
      BY <1>5, <2>3 DEF Struck
    <3> QED
      BY <1>1, <3>1
  <2>6. resolved \cup {} = resolved /\ merged \ {} = merged
    OBVIOUS
  <2> QED
    BY <2>1, <2>2, <2>4, <2>5, <2>6
<1>8. CASE c \in Channels
  <2>0. PICK b : b = Batch(t)
    OBVIOUS
  <2>1. /\ b.chan = c /\ b.events = t.events /\ b.cancelled = t.cancelled
        /\ b.events \in Seq(Events) /\ b.cancelled \in Seq(Events)
    BY <1>2, <1>5, <2>0 DEF Batch
  <2>2. PICK r : r = Settled(t)
    OBVIOUS
  <2>3. PICK fate : fate = Fate(t)
    OBVIOUS
  <2>4. PICK st2 : st2 = Struck(t)
    OBVIOUS
  <2>5. c # Heartbeat
    BY <1>8, HarnessAssumption
  <2>6. /\ q.queues[c] \in Seq(Events) /\ q.cancelled[c] \in Seq(Events)
        /\ q.withheld[c] \in Seq(Events) /\ q.retryCounts[c] \in Nat
        /\ ListsFit(c, q.queues[c], q.cancelled[c], q.withheld[c])
    BY <1>1, <1>8, FieldsAt DEF Lists
  <2>7. /\ all \cap ToSet(q.queues[c]) = {} /\ all \cap ToSet(q.cancelled[c]) = {}
        /\ all \cap ToSet(q.withheld[c]) = {} /\ all \cap QueueHolds(q, c) = {}
        /\ all \subseteq Mine(c) /\ all = ToSet(t.events) \cup ToSet(t.cancelled)
    BY <1>4, <1>5, <1>6, <1>8 DEF QueueHolds, TurnFits, Carries
  <2>8. /\ \A d \in Channels \ {c} : st2[d] = strikes[d]
        /\ Over(t) \/ t.end.batch # "retry" \/ DeadLettered(t) => st2[c] = 0
        /\ ~(Over(t) \/ t.end.batch # "retry" \/ DeadLettered(t)) => st2[c] = strikes[c] + 1
        /\ st2 \in [Channels -> Nat]
    <3>1. DOMAIN st2 = Channels /\ st2 = [d \in Channels |-> st2[d]]
      BY <2>4 DEF Struck
    <3>2. \A d \in Channels \ {c} : st2[d] = strikes[d]
      BY <1>5, <2>4 DEF Struck
    <3>3. Over(t) \/ t.end.batch # "retry" \/ DeadLettered(t) => st2[c] = 0
      BY <1>5, <1>8, <2>4 DEF Struck
    <3>4. ~(Over(t) \/ t.end.batch # "retry" \/ DeadLettered(t)) => st2[c] = strikes[c] + 1
      BY <1>5, <1>8, <2>4 DEF Struck
    <3>5. strikes[c] \in Nat
      BY <1>1, <1>8
    <3>6. st2[c] \in Nat
      BY <3>3, <3>4, <3>5
    <3> QED
      BY <1>1, <3>1, <3>2, <3>3, <3>4, <3>6
  <2> DEFINE Goal == EventInv(r, tt2, acks, accepted, resolved \cup fate, merged \ fate, st2, expired)
  <2>9. ASSUME NEW s, NEW x, NEW n, NEW can,
               Changed(r, q, c, s, "no", x, n, can, q.withheld[c]),
               ListsFit(c, s, can, q.withheld[c]),
               ToSet(s) \cup ToSet(can) \cup fate \subseteq QueueHolds(q, c) \cup all,
               \A e \in ToSet(q.queues[c]) \cup ToSet(q.cancelled[c]) \cup all :
                  e \in ToSet(s) \/ e \in ToSet(can) \/ e \in fate \/ e \in ToSet(t.cancelled),
               (ToSet(s) \cup ToSet(can) \cup ToSet(q.withheld[c])) \cap fate = {},
               c \notin expired => st2[c] <= n /\ (st2[c] > 0 => s # <<>>)
        PROVE  Goal
    <3>1. QueueHolds(r, c) = ToSet(s) \cup ToSet(can) \cup ToSet(q.withheld[c])
      BY <1>1, <1>8, <2>9, ListsChanged
    <3>2. Hands(r, q, c, task[a], fate)
      <4>1. /\ QueueHolds(r, c) \cup fate \subseteq QueueHolds(q, c) \cup Carries(task[a])
            /\ \A e \in QueueHolds(q, c) \cup Carries(task[a]) :
                  e \in QueueHolds(r, c) \/ e \in fate \/ e \in ToSet(task[a].cancelled)
            /\ QueueHolds(r, c) \cap fate = {}
        BY <1>6, <2>9, <3>1 DEF QueueHolds
      <4> QED
        BY <4>1 DEF Hands
    <3>3. task[a].chan = c
      BY <1>5
    <3> QED
      <4>1. /\ Changed(r, q, c, s, "no", x, n, can, q.withheld[c])
            /\ c \notin expired => st2[c] <= n /\ (st2[c] > 0 => s # <<>> \/ "no" # "no")
        BY <2>9
      <4>2. st2 \in [Channels -> Nat] /\ \A d \in Channels \ {c} : st2[d] = strikes[d]
        BY <2>8
      <4>3. Retries(r, st2, expired)
        BY <1>1, <1>8, <4>1, <4>2, RetriesChanged
      <4>4. Lists(r)
        BY <1>1, <1>8, <2>9, ListsChanged
      <4>5. Released(r, q, c)
        BY <4>1, <4>4 DEF Released, Changed
      <4> QED
        BY <1>8, <3>2, <3>3, <4>2, <4>3, <4>5, TurnSettles
  <2>10. CASE Over(t)
    <3>1. r = MarkComplete(q, c) /\ fate = all
      BY <1>5, <1>6, <2>2, <2>3, <2>5, <2>10 DEF Settled, Fate, Carries
    <3>2. PICK x, n : /\ Changed(r, q, c, q.queues[c], "no", x, n, q.cancelled[c], q.withheld[c])
                      /\ n \in Nat
      BY <1>1, <1>8, <2>1, <3>1, SettledAt
    <3>3. st2[c] = 0
      BY <2>8, <2>10
    <3>4. st2[c] <= n /\ ~(st2[c] > 0)
      BY <3>2, <3>3
    <3>5. /\ ToSet(q.queues[c]) \cup ToSet(q.cancelled[c]) \cup fate \subseteq QueueHolds(q, c) \cup all
          /\ (ToSet(q.queues[c]) \cup ToSet(q.cancelled[c]) \cup ToSet(q.withheld[c])) \cap fate = {}
          /\ \A e \in ToSet(q.queues[c]) \cup ToSet(q.cancelled[c]) \cup all :
               e \in ToSet(q.queues[c]) \/ e \in ToSet(q.cancelled[c]) \/ e \in fate
               \/ e \in ToSet(t.cancelled)
      BY <2>7, <3>1 DEF QueueHolds
    <3> HIDE DEF Goal
    <3> QED
      BY <2>2, <2>3, <2>4, <2>6, <2>9, <3>2, <3>4, <3>5 DEF Goal
  <2>11. CASE ~Over(t) /\ t.end.batch = "cancelled"
    <3>1. r = MarkComplete(RequeueAsCancelled(q, b), c) /\ fate = {}
      BY <1>5, <2>0, <2>2, <2>3, <2>5, <2>11 DEF Settled, Fate
    <3>2. PICK can : can = q.cancelled[c] \o t.cancelled \o t.events
      OBVIOUS
    <3>3. PICK x, n : Changed(r, q, c, q.queues[c], "no", x, n, can, q.withheld[c]) /\ n \in Nat
      BY <1>1, <1>8, <2>1, <3>1, <3>2, SettledAt
    <3>4. ToSet(can) = ToSet(q.cancelled[c]) \cup all /\ Once(can)
      <4>1. PICK u : u = q.cancelled[c] \o t.cancelled
        OBVIOUS
      <4>2. /\ Once(t.events) /\ Once(t.cancelled) /\ ToSet(t.events) \cap ToSet(t.cancelled) = {}
            /\ Once(q.cancelled[c])
        BY <1>4, <2>6 DEF TurnFits, ListsFit
      <4>3. /\ u \in Seq(Events) /\ ToSet(u) = ToSet(q.cancelled[c]) \cup ToSet(t.cancelled) /\ Once(u)
        BY <1>2, <2>6, <2>7, <4>1, <4>2, Joined
      <4>4. ToSet(u) \cap ToSet(t.events) = {}
        BY <2>7, <4>2, <4>3
      <4>5. ToSet(u \o t.events) = ToSet(u) \cup ToSet(t.events) /\ Once(u \o t.events)
        BY <1>2, <4>2, <4>3, <4>4, Joined
      <4> QED
        BY <2>7, <3>2, <4>1, <4>3, <4>5
    <3>5. ListsFit(c, q.queues[c], can, q.withheld[c])
      BY <2>6, <2>7, <3>4 DEF ListsFit
    <3>6. st2[c] <= n /\ ~(st2[c] > 0)
      BY <2>8, <2>11, <3>3
    <3>7. /\ ToSet(q.queues[c]) \cup ToSet(can) \cup fate \subseteq QueueHolds(q, c) \cup all
          /\ (ToSet(q.queues[c]) \cup ToSet(can) \cup ToSet(q.withheld[c])) \cap fate = {}
          /\ \A e \in ToSet(q.queues[c]) \cup ToSet(q.cancelled[c]) \cup all :
               e \in ToSet(q.queues[c]) \/ e \in ToSet(can) \/ e \in fate \/ e \in ToSet(t.cancelled)
      BY <3>1, <3>4 DEF QueueHolds
    <3> HIDE DEF Goal
    <3> QED
      BY <2>2, <2>3, <2>4, <2>9, <3>3, <3>5, <3>6, <3>7 DEF Goal
  <2>12. CASE ~Over(t) /\ t.end.batch = "retry"
    <3>1. /\ r = MarkComplete(Requeue(q, b), c)
          /\ DeadLettered(t) => fate = all
          /\ ~DeadLettered(t) => fate = RequeueDrops(q, b)
      BY <1>5, <1>6, <2>0, <2>2, <2>3, <2>5, <2>12 DEF Settled, Fate, Carries
    <3>2. PICK x, n :
             \/ /\ Changed(r, q, c, q.queues[c], "no", x, n, q.cancelled[c], q.withheld[c])
                /\ n = 0
             \/ /\ Changed(r, q, c, Capped(b.events \o q.queues[c]), "no", x, n,
                           q.cancelled[c], q.withheld[c])
                /\ n = q.retryCounts[c] + 1
      BY <1>1, <1>8, <2>1, <3>1, SettledAt
    <3>3. DeadLettered(t) <=> ToSet(t.events) \cap ToSet(r.queues[c]) = {}
      BY <1>5, <2>2 DEF DeadLettered
    <3>4. CASE /\ Changed(r, q, c, q.queues[c], "no", x, n, q.cancelled[c], q.withheld[c])
               /\ n = 0
      <4>1. DeadLettered(t)
        <5>1. r.queues[c] = q.queues[c]
          BY <3>4 DEF Changed
        <5> QED
          BY <2>7, <3>3, <5>1
      <4>2. fate = all /\ st2[c] <= n /\ ~(st2[c] > 0)
        BY <2>8, <3>1, <3>4, <4>1
      <4>3. /\ ToSet(q.queues[c]) \cup ToSet(q.cancelled[c]) \cup fate \subseteq QueueHolds(q, c) \cup all
            /\ (ToSet(q.queues[c]) \cup ToSet(q.cancelled[c]) \cup ToSet(q.withheld[c])) \cap fate = {}
            /\ \A e \in ToSet(q.queues[c]) \cup ToSet(q.cancelled[c]) \cup all :
                 e \in ToSet(q.queues[c]) \/ e \in ToSet(q.cancelled[c]) \/ e \in fate
                 \/ e \in ToSet(t.cancelled)
        BY <2>7, <4>2 DEF QueueHolds
      <4> HIDE DEF Goal
      <4> QED
        BY <2>2, <2>3, <2>4, <2>6, <2>9, <3>4, <4>2, <4>3 DEF Goal
    <3>5. CASE /\ Changed(r, q, c, Capped(b.events \o q.queues[c]), "no", x, n,
                          q.cancelled[c], q.withheld[c])
               /\ n = q.retryCounts[c] + 1
      <4>1. PICK u : u = t.events \o q.queues[c]
        OBVIOUS
      <4>2. /\ u \in Seq(Events) /\ ToSet(u) = ToSet(t.events) \cup ToSet(q.queues[c]) /\ Once(u)
        BY <1>2, <1>4, <2>6, <2>7, <4>1, Joined DEF TurnFits, ListsFit
      <4>3. PICK v : v = Capped(u)
        OBVIOUS
      <4>4. /\ v \in Seq(Events) /\ Len(v) <= MaxPending /\ Once(v)
            /\ ToSet(v) \cup Overflow(u) = ToSet(u) /\ ToSet(v) \cap Overflow(u) = {}
            /\ Len(u) <= MaxPending => Overflow(u) = {}
            /\ u # <<>> => u[1] \in ToSet(v)
        BY <4>2, <4>3, CapCuts
      <4>5. Changed(r, q, c, v, "no", x, n, q.cancelled[c], q.withheld[c]) /\ r.queues[c] = v
        BY <2>1, <3>5, <4>1, <4>3 DEF Changed
      <4>6. ListsFit(c, v, q.cancelled[c], q.withheld[c])
        <5>1. ToSet(v) \subseteq all \cup ToSet(q.queues[c])
          BY <2>7, <4>2, <4>4
        <5> QED
          BY <2>6, <2>7, <4>4, <5>1 DEF ListsFit
      <4>7. CASE DeadLettered(t)
        <5>1. t.events = <<>>
          <6>1. SUFFICES ASSUME t.events # <<>> PROVE FALSE
            OBVIOUS
          <6>2. /\ 1 \in DOMAIN t.events /\ u[1] = t.events[1] /\ u # <<>>
            <7>0. PICK ev \in Seq(Events) : ev = t.events
              BY <1>2
            <7>00. PICK w \in Seq(Events) : w = q.queues[c]
              BY <2>6
            <7>1. Len(ev) \in Nat \ {0} /\ DOMAIN ev = 1..Len(ev)
              BY <6>1, <7>0, EmptySeq
            <7>2. Len(ev \o w) = Len(ev) + Len(w) /\ (ev \o w)[1] = ev[1] /\ Len(w) \in Nat
              BY <7>1
            <7>3. ev \o w # <<>>
              BY <7>1, <7>2, Nothing
            <7> QED
              BY <4>1, <7>0, <7>00, <7>1, <7>2, <7>3
          <6>3. u[1] \in ToSet(t.events) /\ u[1] \in ToSet(v)
            BY <4>4, <6>2 DEF ToSet
          <6> QED
            BY <3>3, <4>5, <4>7, <6>3
        <5>2. ToSet(t.events) = {} /\ Len(u) <= MaxPending
          <6>1. Len(u) = Len(q.queues[c])
            BY <2>6, <4>1, <5>1
          <6> QED
            BY <2>6, <5>1, <6>1, Nothing DEF ListsFit
        <5>3. ToSet(v) = ToSet(q.queues[c]) /\ fate = all
          BY <3>1, <4>2, <4>4, <4>7, <5>2
        <5>4. st2[c] <= n /\ ~(st2[c] > 0)
          BY <2>6, <2>8, <3>5, <4>7
        <5>5. /\ ToSet(v) \cup ToSet(q.cancelled[c]) \cup fate \subseteq QueueHolds(q, c) \cup all
              /\ (ToSet(v) \cup ToSet(q.cancelled[c]) \cup ToSet(q.withheld[c])) \cap fate = {}
              /\ \A e \in ToSet(q.queues[c]) \cup ToSet(q.cancelled[c]) \cup all :
                   e \in ToSet(v) \/ e \in ToSet(q.cancelled[c]) \/ e \in fate
                   \/ e \in ToSet(t.cancelled)
          BY <2>7, <5>3 DEF QueueHolds
        <5> HIDE DEF Goal
        <5> QED
          BY <2>2, <2>3, <2>4, <2>9, <4>5, <4>6, <5>4, <5>5 DEF Goal
      <4>8. CASE ~DeadLettered(t)
        <5>1. fate = Overflow(u)
          BY <2>1, <3>1, <4>1, <4>8 DEF RequeueDrops
        <5>2. st2[c] = strikes[c] + 1
          BY <2>8, <2>12, <4>8
        <5>3. v # <<>>
          BY <3>3, <4>5, <4>8, Nothing
        <5>4. c \notin expired => strikes[c] <= q.retryCounts[c]
          BY <1>1, <1>8 DEF Retries
        <5>5. strikes[c] \in Nat
          BY <1>1, <1>8
        <5>6. c \notin expired => st2[c] <= n /\ (st2[c] > 0 => v # <<>>)
          BY <2>6, <3>5, <5>2, <5>3, <5>4, <5>5
        <5>7. /\ ToSet(v) \cup ToSet(q.cancelled[c]) \cup fate \subseteq QueueHolds(q, c) \cup all
              /\ \A e \in ToSet(q.queues[c]) \cup ToSet(q.cancelled[c]) \cup all :
                   e \in ToSet(v) \/ e \in ToSet(q.cancelled[c]) \/ e \in fate
                   \/ e \in ToSet(t.cancelled)
          BY <2>7, <4>2, <4>4, <5>1 DEF QueueHolds
        <5>8. (ToSet(v) \cup ToSet(q.cancelled[c]) \cup ToSet(q.withheld[c])) \cap fate = {}
          <6>1. fate \subseteq all \cup ToSet(q.queues[c])
            BY <2>7, <4>2, <4>4, <5>1
          <6>2. fate \cap ToSet(q.cancelled[c]) = {} /\ fate \cap ToSet(q.withheld[c]) = {}
            BY <2>6, <2>7, <6>1 DEF ListsFit
          <6> QED
            BY <4>4, <5>1, <6>2
        <5> HIDE DEF Goal
        <5> QED
          BY <2>2, <2>3, <2>4, <2>9, <4>5, <4>6, <5>6, <5>7, <5>8 DEF Goal
      <4> QED
        BY <4>7, <4>8
    <3> QED
      BY <3>2, <3>4, <3>5
  <2> QED
    BY <1>3, <2>10, <2>11, <2>12 DEF Over
<1> QED
  BY <1>2, <1>5, <1>7, <1>8

(* tt2 is tt with this inbox and wire for the turn of a.                   *)
Alters(tt2, tt, a, inbox, wire) ==
    /\ tt2 \in Tasks /\ tt2[a] # NoTask
    /\ \A b \in Agents \ {a} : tt2[b] = tt[b]
    /\ tt2[a].chan = tt[a].chan /\ tt2[a].events = tt[a].events
    /\ tt2[a].cancelled = tt[a].cancelled
    /\ tt2[a].inbox = inbox /\ tt2[a].wire = wire

(* A turn's record with other values for what may change during it.        *)
LEMMA Altered ==
    ASSUME NEW tt \in Tasks, NEW a \in Busy(tt), NEW u \in TaskType,
           u.chan = tt[a].chan, u.events = tt[a].events, u.cancelled = tt[a].cancelled,
           NEW tt2, tt2 = [tt EXCEPT ![a] = u]
    PROVE  Alters(tt2, tt, a, u.inbox, u.wire)
<1>1. u # NoTask /\ a \in Agents
  BY HarnessAssumption DEF Busy
<1>2. tt2 \in Tasks /\ tt2[a] = u /\ \A b \in Agents \ {a} : tt2[b] = tt[b]
  BY <1>1 DEF Tasks
<1> QED
  BY <1>1, <1>2 DEF Alters

(* Each of the ways a turn's record changes.                               *)
LEMMA AlteredBy ==
    ASSUME NEW tt \in Tasks, NEW a \in Busy(tt), NEW t, t = tt[a]
    PROVE  /\ \A x \in {"unset", "requeue", "discard"} :
                 Alters([tt EXCEPT ![a].control = x], tt, a, t.inbox, t.wire)
           /\ \A x \in Events \cup {NoEvent} :
                 /\ Alters([tt EXCEPT ![a].inbox = x], tt, a, x, t.wire)
                 /\ Alters([tt EXCEPT ![a].wire = x], tt, a, t.inbox, x)
                 /\ Alters([tt EXCEPT ![a].inbox = NoEvent, ![a].wire = x], tt, a, NoEvent, x)
           /\ \A x \in Ends :
                 Alters([tt EXCEPT ![a].end = x, ![a].inbox = NoEvent, ![a].wire = NoEvent],
                        tt, a, NoEvent, NoEvent)
<1>1. t \in TaskType
  BY DEF Tasks, Busy
<1>2. ASSUME NEW x \in {"unset", "requeue", "discard"}
      PROVE  Alters([tt EXCEPT ![a].control = x], tt, a, t.inbox, t.wire)
  <2>1. PICK u : u = [t EXCEPT !.control = x]
    OBVIOUS
  <2>2. /\ u \in TaskType /\ u.chan = t.chan /\ u.events = t.events /\ u.cancelled = t.cancelled
        /\ u.inbox = t.inbox /\ u.wire = t.wire
    BY <1>1, <2>1 DEF TaskType
  <2>3. [tt EXCEPT ![a].control = x] = [tt EXCEPT ![a] = u]
    BY <2>1
  <2> QED
    BY <2>2, <2>3, Altered
<1>3. ASSUME NEW x \in Events \cup {NoEvent}
      PROVE  Alters([tt EXCEPT ![a].inbox = x], tt, a, x, t.wire)
  <2>1. PICK u : u = [t EXCEPT !.inbox = x]
    OBVIOUS
  <2>2. /\ u \in TaskType /\ u.chan = t.chan /\ u.events = t.events /\ u.cancelled = t.cancelled
        /\ u.inbox = x /\ u.wire = t.wire
    BY <1>1, <2>1 DEF TaskType
  <2>3. [tt EXCEPT ![a].inbox = x] = [tt EXCEPT ![a] = u]
    BY <2>1
  <2> QED
    BY <2>2, <2>3, Altered
<1>4. ASSUME NEW x \in Events \cup {NoEvent}
      PROVE  Alters([tt EXCEPT ![a].wire = x], tt, a, t.inbox, x)
  <2>1. PICK u : u = [t EXCEPT !.wire = x]
    OBVIOUS
  <2>2. /\ u \in TaskType /\ u.chan = t.chan /\ u.events = t.events /\ u.cancelled = t.cancelled
        /\ u.inbox = t.inbox /\ u.wire = x
    BY <1>1, <2>1 DEF TaskType
  <2>3. [tt EXCEPT ![a].wire = x] = [tt EXCEPT ![a] = u]
    BY <2>1
  <2> QED
    BY <2>2, <2>3, Altered
<1>5. ASSUME NEW x \in Events \cup {NoEvent}
      PROVE  Alters([tt EXCEPT ![a].inbox = NoEvent, ![a].wire = x], tt, a, NoEvent, x)
  <2>0. PICK v : v = [t EXCEPT !.inbox = NoEvent]
    OBVIOUS
  <2>1. PICK u : u = [v EXCEPT !.wire = x]
    OBVIOUS
  <2>2. /\ v \in TaskType /\ v.chan = t.chan /\ v.events = t.events /\ v.cancelled = t.cancelled
        /\ v.inbox = NoEvent
    BY <1>1, <2>0 DEF TaskType
  <2>3. /\ u \in TaskType /\ u.chan = t.chan /\ u.events = t.events /\ u.cancelled = t.cancelled
        /\ u.inbox = NoEvent /\ u.wire = x
    BY <2>1, <2>2 DEF TaskType
  <2>4. [tt EXCEPT ![a].inbox = NoEvent, ![a].wire = x] = [tt EXCEPT ![a] = u]
    BY <2>0, <2>1 DEF Tasks, Busy
  <2> QED
    BY <2>3, <2>4, Altered
<1>6. ASSUME NEW x \in Ends
      PROVE  Alters([tt EXCEPT ![a].end = x, ![a].inbox = NoEvent, ![a].wire = NoEvent],
                    tt, a, NoEvent, NoEvent)
  <2>0. PICK v : v = [t EXCEPT !.end = x]
    OBVIOUS
  <2>1. PICK w : w = [v EXCEPT !.inbox = NoEvent]
    OBVIOUS
  <2>2. PICK u : u = [w EXCEPT !.wire = NoEvent]
    OBVIOUS
  <2>3. v \in TaskType /\ v.chan = t.chan /\ v.events = t.events /\ v.cancelled = t.cancelled
    BY <1>1, <2>0 DEF TaskType
  <2>4. /\ w \in TaskType /\ w.chan = t.chan /\ w.events = t.events /\ w.cancelled = t.cancelled
        /\ w.inbox = NoEvent
    BY <2>1, <2>3 DEF TaskType
  <2>5. /\ u \in TaskType /\ u.chan = t.chan /\ u.events = t.events /\ u.cancelled = t.cancelled
        /\ u.inbox = NoEvent /\ u.wire = NoEvent
    BY <2>2, <2>4 DEF TaskType
  <2>6. [tt EXCEPT ![a].end = x, ![a].inbox = NoEvent, ![a].wire = NoEvent] = [tt EXCEPT ![a] = u]
    BY <2>0, <2>1, <2>2 DEF Tasks, Busy
  <2> QED
    BY <2>5, <2>6, Altered
<1> QED
  BY <1>2, <1>3, <1>4, <1>5, <1>6

(* The turn of a has this inbox and wire and has sent the acks N: what it  *)
(* had before, or a new steer in the inbox.                                *)
Moves(tt, ak, a, inbox, wire, N) ==
    /\ inbox \in Events \cup {NoEvent} /\ wire \in Events \cup {NoEvent} /\ N \subseteq Acks
    /\ \A x \in Events : x = wire \/ (\E k \in N : k.event = x) =>
          x = tt[a].inbox \/ x = tt[a].wire
    /\ inbox \in Events => inbox = tt[a].inbox \/ ~Pending(tt, ak, inbox)
    /\ inbox # NoEvent => inbox # wire
    /\ \A k \in N : k.event # inbox /\ k.event # wire
    /\ \A k, l \in N : k.event = l.event => k = l

(* Steers that move from a turn's inbox to its wire, or from the turn into *)
(* acks, and one that is new, stay apart.                                  *)
LEMMA SteersMove ==
    ASSUME NEW tt \in Tasks, NEW ak, ak \subseteq Acks, Steers(tt, ak), NEW a \in Busy(tt),
           NEW tt2, NEW i, NEW w, NEW N, Alters(tt2, tt, a, i, w), Moves(tt, ak, a, i, w, N)
    PROVE  /\ Busy(tt2) = Busy(tt)
           /\ \A b \in Busy(tt) : /\ tt2[b].chan = tt[b].chan /\ tt2[b].events = tt[b].events
                                  /\ tt2[b].cancelled = tt[b].cancelled
           /\ Steers(tt2, ak \cup N)
<1>0. /\ i \in Events \cup {NoEvent} /\ w \in Events \cup {NoEvent} /\ N \subseteq Acks
      /\ \A x \in Events : x = i \/ x = w \/ (\E k \in N : k.event = x) =>
            x = tt[a].inbox \/ x = tt[a].wire \/ ~Pending(tt, ak, x)
      /\ i # NoEvent => i # w
      /\ \A k \in N : k.event # i /\ k.event # w
      /\ \A k, l \in N : k.event = l.event => k = l
  BY DEF Moves
<1>1. /\ Busy(tt2) = Busy(tt) /\ tt2[a].inbox = i /\ tt2[a].wire = w
      /\ \A b \in Busy(tt) \ {a} : tt2[b] = tt[b]
  BY DEF Alters, Busy
<1>2. \A b \in Busy(tt) : /\ tt2[b].chan = tt[b].chan /\ tt2[b].events = tt[b].events
                          /\ tt2[b].cancelled = tt[b].cancelled
  BY <1>1 DEF Alters
<1>3. ASSUME NEW x \in Events, x = tt[a].inbox \/ x = tt[a].wire \/ ~Pending(tt, ak, x)
      PROVE  /\ \A b \in Busy(tt) \ {a} : x # tt[b].inbox /\ x # tt[b].wire
             /\ \A k \in ak : k.event # x
  <2>1. CASE x = tt[a].inbox
    BY <2>1, HarnessAssumption DEF Steers
  <2>2. CASE x = tt[a].wire
    BY <2>2, HarnessAssumption DEF Steers
  <2>3. CASE ~Pending(tt, ak, x)
    BY <2>3 DEF Pending
  <2> QED
    BY <1>3, <2>1, <2>2, <2>3
<1>4. \A x \in Events : x = i \/ x = w \/ (\E k \in N : k.event = x) =>
         /\ \A b \in Busy(tt) \ {a} : x # tt[b].inbox /\ x # tt[b].wire
         /\ \A k \in ak : k.event # x
  BY <1>0, <1>3
<1>5. /\ \A k \in ak \cup N : k.event \in Events /\ k.event # NoEvent
      /\ \A b \in Busy(tt) : tt[b].inbox \in Events \cup {NoEvent} /\ tt[b].wire \in Events \cup {NoEvent}
  BY <1>0, TurnFields, HarnessAssumption DEF Acks
<1>6. ASSUME NEW b \in Busy(tt2), NEW d \in Busy(tt2)
      PROVE  /\ tt2[b].inbox # NoEvent =>
                   tt2[b].inbox # tt2[d].wire /\ (tt2[b].inbox = tt2[d].inbox => b = d)
             /\ tt2[b].wire # NoEvent /\ tt2[b].wire = tt2[d].wire => b = d
  <2>1. CASE b # a /\ d # a
    <3>1. b \in Busy(tt) /\ d \in Busy(tt) /\ tt2[b] = tt[b] /\ tt2[d] = tt[d]
      BY <1>1, <2>1
    <3> QED
      BY <3>1 DEF Steers
  <2>2. CASE b = a /\ d # a
    <3>1. /\ d \in Busy(tt) \ {a} /\ tt2[d] = tt[d] /\ tt2[b].inbox = i /\ tt2[b].wire = w
      BY <1>1, <2>2
    <3> QED
      BY <1>0, <1>4, <3>1
  <2>3. CASE b # a /\ d = a
    <3>1. /\ b \in Busy(tt) \ {a} /\ tt2[b] = tt[b] /\ tt2[d].inbox = i /\ tt2[d].wire = w
      BY <1>1, <2>3
    <3> QED
      BY <1>4, <1>5, <3>1
  <2>4. CASE b = a /\ d = a
    BY <1>0, <1>1, <2>4
  <2> QED
    BY <2>1, <2>2, <2>3, <2>4
<1>7. ASSUME NEW k \in ak \cup N, NEW b \in Busy(tt2)
      PROVE  k.event # tt2[b].inbox /\ k.event # tt2[b].wire
  <2>1. CASE b # a
    <3>1. b \in Busy(tt) \ {a} /\ tt2[b] = tt[b]
      BY <1>1, <2>1
    <3>2. CASE k \in ak
      BY <3>1, <3>2 DEF Steers
    <3>3. CASE k \in N
      BY <1>4, <1>5, <3>1, <3>3
    <3> QED
      BY <3>2, <3>3
  <2>2. CASE b = a
    BY <1>0, <1>1, <1>4, <1>5, <2>2
  <2> QED
    BY <2>1, <2>2
<1>8. ASSUME NEW k \in ak \cup N, NEW l \in ak \cup N, k.event = l.event PROVE k = l
  <2>1. CASE k \in ak /\ l \in ak
    BY <1>8, <2>1 DEF Steers
  <2>2. CASE k \in N /\ l \in N
    BY <1>0, <1>8, <2>2
  <2>3. CASE k \in N /\ l \in ak
    BY <1>4, <1>5, <1>8, <2>3
  <2>4. CASE k \in ak /\ l \in N
    BY <1>4, <1>5, <1>8, <2>4
  <2> QED
    BY <2>1, <2>2, <2>3, <2>4
<1>9. Steers(tt2, ak \cup N)
  BY <1>6, <1>7, <1>8 DEF Steers
<1> QED
  BY <1>1, <1>2, <1>9

(* A turn takes in, writes or answers a steer, or ends, or is signalled.   *)
LEMMA SteerKeeps ==
    ASSUME NEW qq, NEW tt, NEW ak, NEW acc, NEW res, NEW mg, NEW st, NEW ex,
           EventInv(qq, tt, ak, acc, res, mg, st, ex), NEW a \in Busy(tt),
           NEW tt2, NEW i, NEW w, NEW N, Alters(tt2, tt, a, i, w), Moves(tt, ak, a, i, w, N),
           i \in Events => i = tt[a].inbox \/ (i \in acc /\ i \in ToSet(qq.withheld[ChannelOf[i]]))
    PROVE  EventInv(qq, tt2, ak \cup N, acc, res, mg, st, ex)
<1>1. /\ tt \in Tasks /\ ak \subseteq Acks /\ Steers(tt, ak) /\ HeldBack(qq, tt, ak, acc, res, ex)
  BY DEF EventInv, Typed
<1>3. N \subseteq Acks
  BY DEF Moves
<1>4. /\ Busy(tt2) = Busy(tt)
      /\ \A b \in Busy(tt) : /\ tt2[b].chan = tt[b].chan /\ tt2[b].events = tt[b].events
                             /\ tt2[b].cancelled = tt[b].cancelled
      /\ Steers(tt2, ak \cup N)
  BY <1>1, SteersMove
<1>5. ASSUME NEW x \in Events, Pending(tt2, ak \cup N, x) PROVE Pending(tt, ak, x) \/ x = i
  <2>1. CASE \E b \in Busy(tt2) \ {a} : tt2[b].inbox = x \/ tt2[b].wire = x
    <3>1. PICK b \in Busy(tt2) \ {a} : tt2[b].inbox = x \/ tt2[b].wire = x
      BY <2>1
    <3>2. b \in Busy(tt) /\ tt2[b] = tt[b]
      BY <1>4, <3>1 DEF Alters, Busy
    <3> QED
      BY <3>1, <3>2 DEF Pending
  <2>2. CASE tt2[a].inbox = x \/ tt2[a].wire = x
    <3>1. x = i \/ x = w
      BY <2>2 DEF Alters
    <3>2. x = w => x = tt[a].inbox \/ x = tt[a].wire
      BY DEF Moves
    <3> QED
      BY <3>1, <3>2 DEF Pending
  <2>3. CASE \E k \in N : k.event = x
    <3>1. x = tt[a].inbox \/ x = tt[a].wire
      BY <2>3 DEF Moves
    <3> QED
      BY <3>1 DEF Pending
  <2>4. CASE \E k \in ak : k.event = x
    BY <2>4 DEF Pending
  <2> QED
    BY <1>5, <2>1, <2>2, <2>3, <2>4 DEF Pending
<1>6. i \in Events /\ i = tt[a].inbox => Pending(tt, ak, i)
  BY DEF Pending
<1>7. HeldBack(qq, tt2, ak \cup N, acc, res, ex)
  BY <1>1, <1>5, <1>6 DEF HeldBack
<1>8. tt2 \in Tasks /\ ak \cup N \subseteq Acks
  BY <1>1, <1>3 DEF Alters
<1> QED
  BY <1>4, <1>7, <1>8, SteerStep

(* signal_in_flight_task leaves everything but the signal alone.           *)
LEMMA SignalKeeps ==
    ASSUME NEW qq, NEW tt, NEW ak, NEW acc, NEW res, NEW mg, NEW st, NEW ex,
           EventInv(qq, tt, ak, acc, res, mg, st, ex), NEW a \in Busy(tt),
           NEW x \in {"unset", "requeue", "discard"}
    PROVE  EventInv(qq, [tt EXCEPT ![a].control = x], ak, acc, res, mg, st, ex)
<1>1. tt \in Tasks /\ Steers(tt, ak)
  BY DEF EventInv, Typed
<1>2. PICK i : i = tt[a].inbox
  OBVIOUS
<1>3. PICK w : w = tt[a].wire
  OBVIOUS
<1>4. PICK tt2 : tt2 = [tt EXCEPT ![a].control = x]
  OBVIOUS
<1>5. Alters(tt2, tt, a, i, w)
  BY <1>1, <1>2, <1>3, <1>4, AlteredBy
<1>6. PICK N : N = {}
  OBVIOUS
<1>7. i \in Events \cup {NoEvent} /\ w \in Events \cup {NoEvent} /\ (i # NoEvent => i # w)
  BY <1>1, <1>2, <1>3, TurnFields DEF Steers
<1>8. Moves(tt, ak, a, i, w, N)
  BY <1>2, <1>3, <1>6, <1>7 DEF Moves
<1>9. EventInv(qq, tt2, ak \cup N, acc, res, mg, st, ex)
  BY <1>2, <1>5, <1>8, SteerKeeps
<1>10. ak \cup N = ak
  BY <1>6
<1> QED
  BY <1>4, <1>9, <1>10

(* mark_native_steer_pending and the running turn's inbox.                 *)
LEMMA NativeSteerKeeps ==
    ASSUME NEW qq, NEW tt, NEW ak, NEW acc, NEW res, NEW mg, NEW st, NEW ex,
           EventInv(qq, tt, ak, acc, res, mg, st, ex), NEW a \in Busy(tt), tt[a].inbox = NoEvent,
           NEW e \in Events, NEW c, c = ChannelOf[e], e \in ToSet(qq.queues[c]),
           ~Pending(tt, ak, e), qq.inFlight[c] # "no"
    PROVE  EventInv(Withhold(qq, c, e), [tt EXCEPT ![a].inbox = e], ak, acc, res, mg, st, ex)
<1>0. PICK r : r = Withhold(qq, c, e)
  OBVIOUS
<1>1. /\ c \in Channels /\ qq \in QueueType /\ tt \in Tasks /\ Lists(qq) /\ st \in [Channels -> Nat]
      /\ res \subseteq Events /\ Steers(tt, ak) /\ Retries(qq, st, ex)
  BY HarnessAssumption DEF EventInv, Typed
<1>2. /\ ListsFit(c, qq.queues[c], qq.cancelled[c], qq.withheld[c])
      /\ qq.queues[c] \in Seq(Events) /\ qq.withheld[c] \in Seq(Events)
  BY <1>1, FieldsAt DEF Lists
<1>3. PICK s \in Seq(Events) :
         /\ s = Without(qq.queues[c], e) /\ Len(s) <= Len(qq.queues[c]) /\ Once(s)
         /\ ToSet(s) = ToSet(qq.queues[c]) \ {e}
  BY <1>2, Dropped DEF ListsFit
<1>4. e \notin ToSet(qq.withheld[c]) /\ e \notin ToSet(qq.cancelled[c])
  BY <1>2 DEF ListsFit
<1>5. PICK w \in Seq(Events) :
         w = Append(qq.withheld[c], e) /\ Once(w) /\ ToSet(w) = ToSet(qq.withheld[c]) \cup {e}
  BY <1>2, <1>4, Pushed DEF ListsFit
<1>6. r = [qq EXCEPT !.queues[c] = s, !.withheld[c] = w]
  BY <1>0, <1>3, <1>5 DEF Withhold
<1>7. Changed(r, qq, c, s, qq.inFlight[c], qq.retryAfter[c], qq.retryCounts[c], qq.cancelled[c], w)
  BY <1>1, <1>6, SetHeldBack
<1>8. Len(s) <= MaxPending
  <2>1. Len(s) \in Nat /\ Len(qq.queues[c]) \in Nat /\ Len(qq.queues[c]) <= MaxPending /\ MaxPending \in Nat
    BY <1>2, QueueAssumption DEF ListsFit
  <2> QED
    BY <1>3, <2>1
<1>9. ListsFit(c, s, qq.cancelled[c], w)
  BY <1>2, <1>3, <1>4, <1>5, <1>8 DEF ListsFit
<1>10. /\ Lists(r)
       /\ QueueHolds(r, c) = ToSet(s) \cup ToSet(qq.cancelled[c]) \cup ToSet(w)
       /\ \A d \in Channels \ {c} : QueueHolds(r, d) = QueueHolds(qq, d)
  BY <1>1, <1>7, <1>9, ListsChanged
<1>11. \A d \in Channels : QueueHolds(r, d) = QueueHolds(qq, d)
  BY <1>3, <1>5, <1>10 DEF QueueHolds
<1>12. Retries(r, st, ex)
  <2>1. c \notin ex => st[c] <= qq.retryCounts[c] /\ (st[c] > 0 => s # <<>> \/ qq.inFlight[c] # "no")
    BY <1>1 DEF Retries
  <2>2. \A d \in Channels \ {c} : st[d] = st[d]
    OBVIOUS
  <2> QED
    BY <1>1, <1>7, <2>1, <2>2, RetriesChanged
<1>13. /\ r \in QueueType /\ \A d \in Channels : r.inFlight[d] = qq.inFlight[d]
       /\ r.withheld[c] = w /\ \A d \in Channels \ {c} : r.withheld[d] = qq.withheld[d]
  BY <1>7 DEF Changed, SameAt
<1>14. \A x \in Events : x \in ToSet(qq.withheld[ChannelOf[x]]) => x \in ToSet(r.withheld[ChannelOf[x]])
  BY <1>5, <1>13, HarnessAssumption
<1>15. EventInv(r, tt, ak, acc, res, mg, st, ex)
  BY <1>1, <1>10, <1>11, <1>12, <1>13, <1>14, QueueStep
<1>16. e \in acc
  <2>1. HeldBy(qq, tt, e)
    BY <1>1 DEF HeldBy, QueueHolds
  <2> QED
    BY <2>1 DEF EventInv, Accounted
<1>17. PICK tt2 : tt2 = [tt EXCEPT ![a].inbox = e]
  OBVIOUS
<1>18. PICK v : v = tt[a].wire
  OBVIOUS
<1>19. Alters(tt2, tt, a, e, v)
  BY <1>1, <1>17, <1>18, AlteredBy
<1>20. PICK N : N = {}
  OBVIOUS
<1>21. v \in Events \cup {NoEvent} /\ e # v
  BY <1>1, <1>18, TurnFields DEF Pending
<1>22. Moves(tt, ak, a, e, v, N)
  BY <1>18, <1>20, <1>21 DEF Moves
<1>23. e \in ToSet(r.withheld[ChannelOf[e]])
  BY <1>5, <1>13
<1>24. EventInv(r, tt2, ak \cup N, acc, res, mg, st, ex)
  BY <1>15, <1>16, <1>19, <1>22, <1>23, SteerKeeps
<1>25. ak \cup N = ak
  BY <1>20
<1> QED
  BY <1>0, <1>17, <1>24, <1>25

(* A list with an element is not empty.                                    *)
LEMMA Inhabited ==
    ASSUME NEW s \in Seq(Events)
    PROVE  s # <<>> <=> ToSet(s) # {}
<1>1. ASSUME s # <<>> PROVE ToSet(s) # {}
  <2>1. 1 \in DOMAIN s
    BY <1>1, EmptySeq
  <2> QED
    BY <2>1 DEF ToSet
<1> QED
  BY <1>1, Nothing

(* A steer that landed takes its event out of the side table.              *)
LEMMA LandedKeeps ==
    ASSUME NEW qq, NEW tt, NEW ak, NEW acc, NEW res, NEW mg, NEW st, NEW ex,
           EventInv(qq, tt, ak, acc, res, mg, st, ex), NEW k \in ak, NEW e, e = k.event,
           NEW c, c = ChannelOf[e]
    PROVE  EventInv(RemoveEvent(ExtendDeadline(qq, c), c, e), tt, ak \ {k}, acc, res \cup {e},
                    mg, st, ex)
<1>1. /\ e \in Events /\ c \in Channels /\ qq \in QueueType /\ tt \in Tasks /\ Lists(qq)
      /\ Turns(qq, tt) /\ st \in [Channels -> Nat] /\ res \subseteq Events
      /\ Final(qq, tt, res, ex) /\ HeldBack(qq, tt, ak, acc, res, ex) /\ Retries(qq, st, ex)
  BY HarnessAssumption DEF EventInv, Typed, Acks
<1>2. /\ ListsFit(c, qq.queues[c], qq.cancelled[c], qq.withheld[c])
      /\ qq.queues[c] \in Seq(Events) /\ qq.withheld[c] \in Seq(Events)
      /\ qq.inFlight[c] \in {"no", "armed", "due"}
  BY <1>1, FieldsAt DEF Lists
<1>3. c \in ex \/ e \in ToSet(qq.withheld[c]) \/ e \in res
  BY <1>1 DEF HeldBack, Pending
<1>4. c \notin ex => e \notin ToSet(qq.queues[c]) /\ e \notin ToSet(qq.cancelled[c])
  <2>1. CASE e \in ToSet(qq.withheld[c])
    BY <1>2, <2>1 DEF ListsFit
  <2>2. CASE e \in res
    BY <1>1, <2>2 DEF Final, HeldBy, QueueHolds
  <2> QED
    BY <1>3, <2>1, <2>2
<1>5. PICK s \in Seq(Events) :
         /\ s = Without(qq.queues[c], e) /\ Len(s) <= Len(qq.queues[c]) /\ Once(s)
         /\ ToSet(s) = ToSet(qq.queues[c]) \ {e}
  BY <1>2, Dropped DEF ListsFit
<1>6. PICK w \in Seq(Events) :
         w = Without(qq.withheld[c], e) /\ Once(w) /\ ToSet(w) = ToSet(qq.withheld[c]) \ {e}
  BY <1>2, Dropped DEF ListsFit
<1>7. PICK f \in {"no", "armed", "due"} : f = IF qq.inFlight[c] = "no" THEN "no" ELSE "armed"
  OBVIOUS
<1>8. PICK p : p = ExtendDeadline(qq, c)
  OBVIOUS
<1>9. p = [qq EXCEPT !.inFlight[c] = f]
  BY <1>7, <1>8 DEF ExtendDeadline
<1>10. Changed(p, qq, c, qq.queues[c], f, qq.retryAfter[c], qq.retryCounts[c], qq.cancelled[c],
               qq.withheld[c])
  BY <1>1, <1>9, SetInFlight
<1>11. /\ p \in QueueType /\ p.queues[c] = qq.queues[c] /\ p.withheld[c] = qq.withheld[c]
       /\ p.inFlight[c] = f /\ p.cancelled[c] = qq.cancelled[c]
       /\ p.retryCounts[c] = qq.retryCounts[c]
  BY <1>10 DEF Changed
<1>12. PICK r : r = RemoveEvent(p, c, e)
  OBVIOUS
<1>13. r = [p EXCEPT !.withheld[c] = w, !.queues[c] = s]
  BY <1>5, <1>6, <1>11, <1>12 DEF RemoveEvent
<1>14. Changed(r, p, c, s, f, p.retryAfter[c], qq.retryCounts[c], qq.cancelled[c], w)
  BY <1>1, <1>11, <1>13, SetHeldBack
<1>15. Changed(r, qq, c, s, f, p.retryAfter[c], qq.retryCounts[c], qq.cancelled[c], w)
  BY <1>1, <1>10, <1>14, ChangedTwice
<1>16. Len(s) <= MaxPending
  <2>1. Len(s) \in Nat /\ Len(qq.queues[c]) \in Nat /\ Len(qq.queues[c]) <= MaxPending /\ MaxPending \in Nat
    BY <1>2, QueueAssumption DEF ListsFit
  <2> QED
    BY <1>5, <2>1
<1>17. ListsFit(c, s, qq.cancelled[c], w)
  BY <1>2, <1>5, <1>6, <1>16 DEF ListsFit
<1>18. /\ Lists(r)
       /\ QueueHolds(r, c) = ToSet(s) \cup ToSet(qq.cancelled[c]) \cup ToSet(w)
       /\ \A d \in Channels \ {c} : QueueHolds(r, d) = QueueHolds(qq, d)
  BY <1>1, <1>15, <1>17, ListsChanged
<1>19. /\ QueueHolds(r, c) \subseteq QueueHolds(qq, c)
       /\ \A x \in QueueHolds(qq, c) : x \in QueueHolds(r, c) \/ x = e
       /\ c \notin ex => e \notin QueueHolds(r, c)
  BY <1>4, <1>5, <1>6, <1>18 DEF QueueHolds
<1>20. /\ r \in QueueType /\ r.withheld[c] = w
       /\ \A d \in Channels \ {c} : r.withheld[d] = qq.withheld[d]
       /\ \A d \in Channels : r.inFlight[d] = "no" <=> qq.inFlight[d] = "no"
  BY <1>7, <1>15 DEF Changed, SameAt
<1>21. Retries(r, st, ex)
  <2>1. c \notin ex => (qq.queues[c] # <<>> => s # <<>>)
    BY <1>2, <1>4, <1>5, Inhabited
  <2>2. c \notin ex => st[c] <= qq.retryCounts[c] /\ (st[c] > 0 => s # <<>> \/ f # "no")
    BY <1>1, <1>7, <2>1 DEF Retries
  <2>3. \A d \in Channels \ {c} : st[d] = st[d]
    OBVIOUS
  <2> QED
    BY <1>1, <1>15, <2>2, <2>3, RetriesChanged
<1>22. PICK res2 : res2 = res \cup {e}
  OBVIOUS
<1>23. c \notin ex /\ e \notin res => ~HeldBy(r, tt, e)
  <2>1. c \notin ex /\ e \notin res => e \in QueueHolds(qq, c) /\ e \notin QueueHolds(r, c)
    BY <1>3, <1>19 DEF QueueHolds
  <2> QED
    BY <1>1, <1>18, <2>1, Gone
<1>24. /\ res \subseteq res2 /\ res2 \subseteq Events
       /\ \A x \in res2 \ res : ChannelOf[x] \notin ex => ~HeldBy(r, tt, x)
  BY <1>1, <1>22, <1>23
<1>25. /\ \A d \in Channels : QueueHolds(r, d) \subseteq QueueHolds(qq, d)
       /\ \A d \in Channels : \A x \in QueueHolds(qq, d) :
             x \in QueueHolds(r, d) \/ x \in res2 \/ x \in mg
  BY <1>18, <1>19, <1>22
<1>26. \A x \in Events : x \in ToSet(qq.withheld[ChannelOf[x]])
                         => x \in ToSet(r.withheld[ChannelOf[x]]) \/ x \in res2
  BY <1>6, <1>20, <1>22, HarnessAssumption
<1>27. EventInv(r, tt, ak \ {k}, acc, res2, mg, st, ex)
  BY <1>1, <1>18, <1>20, <1>21, <1>24, <1>25, <1>26, QueueStep
<1> QED
  BY <1>8, <1>12, <1>22, <1>27

(* Any other answer to a steer puts its event back in front of the queue,  *)
(* if the side table still has it.                                         *)
LEMMA ReleaseKeeps ==
    ASSUME NEW qq, NEW tt, NEW ak, NEW acc, NEW res, NEW mg, NEW st, NEW ex,
           EventInv(qq, tt, ak, acc, res, mg, st, ex), NEW k \in ak, NEW e, e = k.event,
           NEW c, c = ChannelOf[e]
    PROVE  EventInv(Release(qq, c, e), tt, ak \ {k}, acc, res \cup ReleaseDrops(qq, c, e),
                    mg, st, ex)
<1>1. /\ e \in Events /\ c \in Channels /\ qq \in QueueType /\ tt \in Tasks /\ Lists(qq)
      /\ Turns(qq, tt) /\ st \in [Channels -> Nat] /\ res \subseteq Events /\ Steers(tt, ak)
      /\ Retries(qq, st, ex) /\ ak \subseteq Acks
  BY HarnessAssumption DEF EventInv, Typed, Acks
<1>2. /\ ListsFit(c, qq.queues[c], qq.cancelled[c], qq.withheld[c])
      /\ qq.queues[c] \in Seq(Events) /\ qq.withheld[c] \in Seq(Events)
  BY <1>1, FieldsAt DEF Lists
<1>3. CASE e \notin ToSet(qq.withheld[c])
  <2>1. Release(qq, c, e) = qq /\ ReleaseDrops(qq, c, e) = {} /\ res \cup {} = res
    BY <1>3 DEF Release, ReleaseDrops
  <2>2. EventInv(qq, tt, ak \ {k}, acc, res, mg, st, ex)
    BY <1>1, QueueStep
  <2> QED
    BY <2>1, <2>2
<1>4. CASE e \in ToSet(qq.withheld[c])
  <2>1. e \notin ToSet(qq.queues[c])
    BY <1>2, <1>4 DEF ListsFit
  <2>2. PICK one : one = <<e>>
    OBVIOUS
  <2>0. one \in Seq(Events) /\ ToSet(one) = {e} /\ Once(one)
    <3>1. <<e>> \in Seq(Events) /\ DOMAIN <<e>> = {1} /\ <<e>>[1] = e
      BY <1>1
    <3> QED
      BY <2>2, <3>1 DEF ToSet, Once
  <2>3. PICK u : u = one \o qq.queues[c]
    OBVIOUS
  <2>4. u \in Seq(Events) /\ ToSet(u) = {e} \cup ToSet(qq.queues[c]) /\ Once(u)
    <3>1. Once(qq.queues[c]) /\ ToSet(one) \cap ToSet(qq.queues[c]) = {}
      BY <1>2, <2>0, <2>1 DEF ListsFit
    <3> QED
      BY <1>2, <2>0, <2>3, <3>1, Joined
  <2>5. u # <<>>
    BY <2>4, Nothing
  <2>6. PICK s \in Seq(Events) :
          /\ s = Capped(u) /\ Len(s) <= MaxPending /\ Once(s)
          /\ ToSet(s) \cup Overflow(u) = ToSet(u) /\ ToSet(s) \cap Overflow(u) = {}
          /\ u[1] \in ToSet(s)
    BY <2>4, <2>5, CapCuts
  <2>7. PICK w \in Seq(Events) :
           w = Without(qq.withheld[c], e) /\ Once(w) /\ ToSet(w) = ToSet(qq.withheld[c]) \ {e}
    BY <1>2, Dropped DEF ListsFit
  <2>8. PICK r : r = Release(qq, c, e)
    OBVIOUS
  <2>9. r = [qq EXCEPT !.withheld[c] = w, !.queues[c] = s]
    BY <1>4, <2>2, <2>3, <2>6, <2>7, <2>8 DEF Release
  <2>10. Changed(r, qq, c, s, qq.inFlight[c], qq.retryAfter[c], qq.retryCounts[c],
                 qq.cancelled[c], w)
    BY <1>1, <2>9, SetHeldBack
  <2>11. ListsFit(c, s, qq.cancelled[c], w)
    <3>1. ToSet(s) \subseteq {e} \cup ToSet(qq.queues[c])
      BY <2>4, <2>6
    <3> QED
      BY <1>2, <1>4, <2>6, <2>7, <3>1 DEF ListsFit
  <2>12. /\ Lists(r)
         /\ QueueHolds(r, c) = ToSet(s) \cup ToSet(qq.cancelled[c]) \cup ToSet(w)
         /\ \A d \in Channels \ {c} : QueueHolds(r, d) = QueueHolds(qq, d)
    BY <1>1, <2>10, <2>11, ListsChanged
  <2>13. PICK drops : drops = Overflow(u)
    OBVIOUS
  <2>14. QueueHolds(r, c) \cup drops = QueueHolds(qq, c) /\ QueueHolds(r, c) \cap drops = {}
    <3>1. drops \subseteq {e} \cup ToSet(qq.queues[c])
      BY <2>4, <2>6, <2>13
    <3>2. drops \cap ToSet(qq.cancelled[c]) = {} /\ drops \cap ToSet(w) = {}
      BY <1>2, <1>4, <2>7, <3>1 DEF ListsFit
    <3> QED
      BY <1>4, <2>4, <2>6, <2>7, <2>12, <2>13, <3>2 DEF QueueHolds
  <2>15. /\ r \in QueueType /\ r.withheld[c] = w
         /\ \A d \in Channels \ {c} : r.withheld[d] = qq.withheld[d]
         /\ \A d \in Channels : r.inFlight[d] = qq.inFlight[d]
    BY <2>10 DEF Changed, SameAt
  <2>16. Retries(r, st, ex)
    <3>1. s # <<>>
      BY <2>6, Nothing
    <3>2. c \notin ex => st[c] <= qq.retryCounts[c] /\ (st[c] > 0 => s # <<>> \/ qq.inFlight[c] # "no")
      BY <1>1, <3>1 DEF Retries
    <3>3. \A d \in Channels \ {c} : st[d] = st[d]
      OBVIOUS
    <3> QED
      BY <1>1, <2>10, <3>2, <3>3, RetriesChanged
  <2>17. PICK res2 : res2 = res \cup drops
    OBVIOUS
  <2>18. \A x \in drops : x \in Events /\ ~HeldBy(r, tt, x)
    <3> SUFFICES ASSUME NEW x \in drops PROVE x \in Events /\ ~HeldBy(r, tt, x)
      OBVIOUS
    <3>1. x \in QueueHolds(qq, c) /\ x \notin QueueHolds(r, c)
      BY <2>14
    <3> QED
      BY <1>1, <2>12, <3>1, Gone, HoldsMine
  <2>19. /\ res \subseteq res2 /\ res2 \subseteq Events
         /\ \A x \in res2 \ res : ChannelOf[x] \notin ex => ~HeldBy(r, tt, x)
    BY <1>1, <2>17, <2>18
  <2>20. /\ \A d \in Channels : QueueHolds(r, d) \subseteq QueueHolds(qq, d)
         /\ \A d \in Channels : \A x \in QueueHolds(qq, d) :
               x \in QueueHolds(r, d) \/ x \in res2 \/ x \in mg
    BY <2>12, <2>14, <2>17
  <2>21. ~Pending(tt, ak \ {k}, e)
    <3>1. \A a \in Busy(tt) : e # tt[a].inbox /\ e # tt[a].wire
      BY <1>1 DEF Steers
    <3>2. \A l \in ak \ {k} : l.event # e
      BY <1>1 DEF Steers
    <3> QED
      BY <3>1, <3>2 DEF Pending
  <2>22. \A x \in Events : Pending(tt, ak \ {k}, x) /\ x \in ToSet(qq.withheld[ChannelOf[x]])
                           => x \in ToSet(r.withheld[ChannelOf[x]])
    BY <2>7, <2>15, <2>21, HarnessAssumption
  <2>23. EventInv(r, tt, ak \ {k}, acc, res2, mg, st, ex)
    <3>1. PICK ak2 : ak2 = ak \ {k} /\ ak2 \subseteq ak
      OBVIOUS
    <3>2. /\ \A d \in Channels : r.inFlight[d] = "no" <=> qq.inFlight[d] = "no"
          /\ \A x \in Events : Pending(tt, ak2, x) /\ ChannelOf[x] \notin ex
                               /\ x \in ToSet(qq.withheld[ChannelOf[x]])
                               => x \in ToSet(r.withheld[ChannelOf[x]]) \/ x \in res2
          /\ r \in QueueType /\ Lists(r) /\ ak2 \subseteq ak /\ mg \subseteq mg /\ ex \subseteq ex
          /\ st \in [Channels -> Nat]
      BY <1>1, <2>12, <2>15, <2>22, <3>1
    <3>3. EventInv(r, tt, ak2, acc, res2, mg, st, ex)
      BY <2>16, <2>19, <2>20, <3>2, QueueStep
    <3> QED
      BY <3>1, <3>3
  <2>24. ReleaseDrops(qq, c, e) = drops
    BY <1>4, <2>2, <2>3, <2>13 DEF ReleaseDrops
  <2> QED
    BY <2>8, <2>17, <2>23, <2>24
<1> QED
  BY <1>3, <1>4

(* A heartbeat turn starts.                                                *)
LEMMA HeartbeatStarts ==
    ASSUME NEW qq, NEW tt, NEW ak, NEW acc, NEW res, NEW mg, NEW st, NEW ex,
           EventInv(qq, tt, ak, acc, res, mg, st, ex), NEW a \in Agents, tt[a] = NoTask,
           NEW tt2, tt2 = [tt EXCEPT ![a] = Turn(Heartbeat, <<>>, <<>>)]
    PROVE  EventInv(qq, tt2, ak, acc, res, mg, st, ex)
<1>1. /\ qq \in QueueType /\ tt \in Tasks /\ ak \subseteq Acks /\ Turns(qq, tt) /\ OneTurn(qq, tt, ex)
      /\ Steers(tt, ak) /\ Accounted(qq, tt, acc, res, mg)
  BY DEF EventInv, Typed
<1>2. PICK t : t = Turn(Heartbeat, <<>>, <<>>)
  OBVIOUS
<1>3. /\ t \in TaskType /\ t # NoTask /\ t.chan = Heartbeat /\ t.events = <<>>
      /\ t.cancelled = <<>> /\ t.inbox = NoEvent /\ t.wire = NoEvent
  <2>1. PICK none : none = <<>>
    OBVIOUS
  <2>2. none \in Seq(Events) /\ t = Turn(Heartbeat, none, none)
    BY <1>2, <2>1, Nothing
  <2>3. /\ t \in TaskType /\ t # NoTask /\ t.chan = Heartbeat /\ t.events = none
        /\ t.cancelled = none /\ t.inbox = NoEvent /\ t.wire = NoEvent
    BY <2>2, TurnStarts
  <2> QED
    BY <2>1, <2>3
<1>4. /\ tt2 \in Tasks /\ Busy(tt2) = Busy(tt) \cup {a} /\ a \notin Busy(tt)
      /\ tt2[a] = t /\ \A b \in Busy(tt) : tt2[b] = tt[b]
      /\ Steers(tt2, ak)
      /\ \A e \in Events : Pending(tt2, ak, e) => Pending(tt, ak, e)
  <2>1. tt \in Tasks /\ ak \subseteq Acks /\ Steers(tt, ak)
    BY <1>1
  <2>2. t \in TaskType /\ t # NoTask /\ t.inbox = NoEvent /\ t.wire = NoEvent
    BY <1>3
  <2>3. tt2 = [tt EXCEPT ![a] = t]
    BY <1>2
  <2>4. Started(tt2, tt, ak, a, t)
    BY <2>1, <2>2, <2>3, SteersStart
  <2> QED
    BY <2>4 DEF Started
<1>5. Carries(t) = {} /\ ToSet(t.cancelled) = {}
  BY <1>3, Nothing DEF Carries
<1>6. TurnFits(t)
  BY <1>3, <1>5, Nothing DEF TurnFits
<1>7. Turns(qq, tt2)
  <2> SUFFICES ASSUME NEW x \in Busy(tt2)
               PROVE  /\ TurnFits(tt2[x])
                      /\ \A c \in Channels : Carries(tt2[x]) \cap QueueHolds(qq, c) = {}
                      /\ \A y \in Busy(tt2) : x # y => Carries(tt2[x]) \cap Carries(tt2[y]) = {}
    BY DEF Turns
  <2>1. CASE x = a
    BY <1>4, <1>5, <1>6, <2>1
  <2>2. CASE x # a
    <3>1. x \in Busy(tt) /\ tt2[x] = tt[x]
      BY <1>4, <2>2
    <3>2. \A y \in Busy(tt2) : x # y => Carries(tt[x]) \cap Carries(tt2[y]) = {}
      BY <1>1, <1>4, <1>5, <3>1 DEF Turns
    <3> QED
      BY <1>1, <3>1, <3>2 DEF Turns
  <2> QED
    BY <2>1, <2>2
<1>8. OneTurn(qq, tt2, ex)
  <2> SUFFICES ASSUME NEW d \in Channels \ ex
               PROVE  /\ \A x, y \in Busy(tt2) : tt2[x].chan = d /\ tt2[y].chan = d => x = y
                      /\ (\E x \in Busy(tt2) : tt2[x].chan = d) <=> qq.inFlight[d] # "no"
    BY DEF OneTurn
  <2>1. /\ \A x, y \in Busy(tt) : tt[x].chan = d /\ tt[y].chan = d => x = y
        /\ (\E x \in Busy(tt) : tt[x].chan = d) <=> qq.inFlight[d] # "no"
    BY <1>1 DEF OneTurn
  <2>2. /\ tt2[a].chan # d /\ Busy(tt2) = Busy(tt) \cup {a}
        /\ \A x \in Busy(tt) : tt2[x].chan = tt[x].chan
    BY <1>3, <1>4, HarnessAssumption
  <2> QED
    BY <2>1, <2>2
<1>9. \A e : HeldBy(qq, tt2, e) <=> HeldBy(qq, tt, e)
  BY <1>4, <1>5 DEF HeldBy
<1>10. Accounted(qq, tt2, acc, res, mg)
  <2>1. \A x \in Busy(tt2) : ToSet(tt2[x].cancelled) \subseteq mg
    BY <1>1, <1>4, <1>5 DEF Accounted
  <2> QED
    BY <1>1, <1>9, <2>1 DEF Accounted
<1>11. Final(qq, tt2, res, ex) /\ HeldBack(qq, tt2, ak, acc, res, ex)
  BY <1>4, <1>9 DEF EventInv, Final, HeldBack
<1> QED
  BY <1>4, <1>7, <1>8, <1>10, <1>11 DEF EventInv, Typed

(* Drop mode refuses an event: it is settled and held by nobody.           *)
LEMMA RefusedKeeps ==
    ASSUME NEW qq, NEW tt, NEW ak, NEW acc, NEW res, NEW mg, NEW st, NEW ex,
           EventInv(qq, tt, ak, acc, res, mg, st, ex), NEW e \in Events, e \notin acc
    PROVE  EventInv(qq, tt, ak, acc, res \cup {e}, mg, st, ex)
<1>1. ~HeldBy(qq, tt, e) /\ Typed(qq, tt, ak, acc, res, st) /\ Accounted(qq, tt, acc, res, mg)
  BY DEF EventInv, Accounted
<1>2. Typed(qq, tt, ak, acc, res \cup {e}, st)
  BY <1>1 DEF Typed
<1>3. Accounted(qq, tt, acc, res \cup {e}, mg)
  BY <1>1 DEF Accounted
<1>4. Final(qq, tt, res \cup {e}, ex)
  BY <1>1 DEF EventInv, Final
<1>5. HeldBack(qq, tt, ak, acc, res \cup {e}, ex)
  BY DEF EventInv, HeldBack
<1> QED
  BY <1>2, <1>3, <1>4, <1>5 DEF EventInv

(* A deadline or a throttle runs out.                                      *)
LEMMA ClockKeeps ==
    ASSUME NEW qq, NEW tt, NEW ak, NEW acc, NEW res, NEW mg, NEW st, NEW ex,
           EventInv(qq, tt, ak, acc, res, mg, st, ex), NEW c \in Channels, NEW r,
           \/ r = [qq EXCEPT !.inFlight[c] = "due"] /\ qq.inFlight[c] = "armed"
           \/ r = [qq EXCEPT !.retryAfter[c] = "past"]
    PROVE  EventInv(r, tt, ak, acc, res, mg, st, ex)
<1>1. /\ qq \in QueueType /\ Lists(qq) /\ st \in [Channels -> Nat] /\ res \subseteq Events
      /\ Retries(qq, st, ex)
  BY DEF EventInv, Typed
<1>2. PICK f, x : /\ Changed(r, qq, c, qq.queues[c], f, x, qq.retryCounts[c], qq.cancelled[c], qq.withheld[c])
                  /\ f = "no" <=> qq.inFlight[c] = "no"
  <2>1. CASE r = [qq EXCEPT !.inFlight[c] = "due"] /\ qq.inFlight[c] = "armed"
    <3>1. Changed(r, qq, c, qq.queues[c], "due", qq.retryAfter[c], qq.retryCounts[c],
                  qq.cancelled[c], qq.withheld[c])
      BY <1>1, <2>1, SetInFlight
    <3>2. "due" = "no" <=> qq.inFlight[c] = "no"
      BY <2>1
    <3> QED
      BY <3>1, <3>2
  <2>2. CASE r = [qq EXCEPT !.retryAfter[c] = "past"]
    <3>1. Changed(r, qq, c, qq.queues[c], qq.inFlight[c], "past", qq.retryCounts[c],
                  qq.cancelled[c], qq.withheld[c])
      BY <1>1, <2>2, SetRetryAfter
    <3> QED
      BY <3>1
  <2> QED
    BY <2>1, <2>2
<1>3. ListsFit(c, qq.queues[c], qq.cancelled[c], qq.withheld[c])
  BY <1>1 DEF Lists
<1>4. /\ Lists(r)
      /\ QueueHolds(r, c) = ToSet(qq.queues[c]) \cup ToSet(qq.cancelled[c]) \cup ToSet(qq.withheld[c])
      /\ \A d \in Channels \ {c} : QueueHolds(r, d) = QueueHolds(qq, d)
  BY <1>1, <1>2, <1>3, ListsChanged
<1>5. \A d \in Channels : QueueHolds(r, d) = QueueHolds(qq, d)
  BY <1>4 DEF QueueHolds
<1>6. Retries(r, st, ex)
  <2>1. c \notin ex => st[c] <= qq.retryCounts[c] /\ (st[c] > 0 => qq.queues[c] # <<>> \/ f # "no")
    BY <1>1, <1>2 DEF Retries
  <2>2. \A d \in Channels \ {c} : st[d] = st[d]
    OBVIOUS
  <2> QED
    BY <1>1, <1>2, <2>1, <2>2, RetriesChanged
<1>7. /\ r \in QueueType /\ \A d \in Channels : r.withheld[d] = qq.withheld[d]
      /\ \A d \in Channels : r.inFlight[d] = "no" <=> qq.inFlight[d] = "no"
  BY <1>2 DEF Changed, SameAt
<1>8. \A x2 \in Events : x2 \in ToSet(qq.withheld[ChannelOf[x2]]) => x2 \in ToSet(r.withheld[ChannelOf[x2]])
  BY <1>7, HarnessAssumption
<1> QED
  BY <1>1, <1>4, <1>5, <1>6, <1>7, <1>8, QueueStep

(* A turn's read loop moves its steers on.                                 *)
LEMMA WriteKeeps ==
    ASSUME NEW qq, NEW tt, NEW ak, NEW acc, NEW res, NEW mg, NEW st, NEW ex,
           EventInv(qq, tt, ak, acc, res, mg, st, ex), NEW a \in Busy(tt),
           tt[a].inbox # NoEvent, tt[a].wire = NoEvent
    PROVE  /\ EventInv(qq, [tt EXCEPT ![a].inbox = NoEvent, ![a].wire = tt[a].inbox], ak, acc, res,
                       mg, st, ex)
           /\ EventInv(qq, [tt EXCEPT ![a].inbox = NoEvent],
                       ak \cup {[event |-> tt[a].inbox, res |-> "fallback"]}, acc, res, mg, st, ex)
<1>1. tt \in Tasks
  BY DEF EventInv, Typed
<1>2. PICK e : e = tt[a].inbox
  OBVIOUS
<1>3. e \in Events /\ NoEvent \notin Events
  BY <1>1, <1>2, TurnFields, HarnessAssumption
<1>4. PICK N : N = {}
  OBVIOUS
<1>5. PICK M : M = {[event |-> e, res |-> "fallback"]}
  OBVIOUS
<1>6. M \subseteq Acks /\ \A k \in M : k.event = e /\ \A l \in M : k = l
  BY <1>3, <1>5 DEF Acks
<1>7. Moves(tt, ak, a, NoEvent, e, N)
  BY <1>2, <1>3, <1>4 DEF Moves
<1>8. Moves(tt, ak, a, NoEvent, tt[a].wire, M)
  BY <1>2, <1>3, <1>6 DEF Moves
<1>9. PICK t1 : t1 = [tt EXCEPT ![a].inbox = NoEvent, ![a].wire = e]
  OBVIOUS
<1>10. PICK t2 : t2 = [tt EXCEPT ![a].inbox = NoEvent]
  OBVIOUS
<1>11. Alters(t1, tt, a, NoEvent, e) /\ Alters(t2, tt, a, NoEvent, tt[a].wire)
  BY <1>1, <1>3, <1>9, <1>10, AlteredBy
<1>12. EventInv(qq, t1, ak \cup N, acc, res, mg, st, ex)
  BY <1>3, <1>7, <1>11, SteerKeeps
<1>13. EventInv(qq, t2, ak \cup M, acc, res, mg, st, ex)
  BY <1>3, <1>8, <1>11, SteerKeeps
<1>14. ak \cup N = ak
  BY <1>4
<1> QED
  BY <1>2, <1>5, <1>9, <1>10, <1>12, <1>13, <1>14

(* The agent answers a steer.                                              *)
LEMMA AnswerKeeps ==
    ASSUME NEW qq, NEW tt, NEW ak, NEW acc, NEW res, NEW mg, NEW st, NEW ex,
           EventInv(qq, tt, ak, acc, res, mg, st, ex), NEW a \in Busy(tt),
           tt[a].wire # NoEvent, NEW x \in {"success", "fallback", "release"}
    PROVE  EventInv(qq, [tt EXCEPT ![a].wire = NoEvent],
                    ak \cup {[event |-> tt[a].wire, res |-> x]}, acc, res, mg, st, ex)
<1>1. tt \in Tasks /\ Steers(tt, ak)
  BY DEF EventInv, Typed
<1>2. PICK e : e = tt[a].wire
  OBVIOUS
<1>3. PICK i : i = tt[a].inbox
  OBVIOUS
<1>4. e \in Events /\ NoEvent \notin Events /\ i \in Events \cup {NoEvent} /\ e # i
  BY <1>1, <1>2, <1>3, TurnFields, HarnessAssumption DEF Steers
<1>5. PICK M : M = {[event |-> e, res |-> x]}
  OBVIOUS
<1>6. M \subseteq Acks /\ \A k \in M : k.event = e /\ \A l \in M : k = l
  BY <1>4, <1>5 DEF Acks
<1>7. Moves(tt, ak, a, i, NoEvent, M)
  BY <1>2, <1>3, <1>4, <1>6 DEF Moves
<1>8. PICK t2 : t2 = [tt EXCEPT ![a].wire = NoEvent]
  OBVIOUS
<1>9. Alters(t2, tt, a, i, NoEvent)
  BY <1>1, <1>3, <1>8, AlteredBy
<1>10. EventInv(qq, t2, ak \cup M, acc, res, mg, st, ex)
  BY <1>3, <1>7, <1>9, SteerKeeps
<1> QED
  BY <1>2, <1>5, <1>8, <1>10

(* A turn ends: its steers are acked neutrally.                            *)
LEMMA EndKeeps ==
    ASSUME NEW qq, NEW tt, NEW ak, NEW acc, NEW res, NEW mg, NEW st, NEW ex,
           EventInv(qq, tt, ak, acc, res, mg, st, ex), NEW a \in Busy(tt), NEW x \in Ends
    PROVE  EventInv(qq, [tt EXCEPT ![a].end = x, ![a].inbox = NoEvent, ![a].wire = NoEvent],
                    ak \cup {[event |-> e, res |-> "release"] :
                                e \in {tt[a].inbox, tt[a].wire} \ {NoEvent}},
                    acc, res, mg, st, ex)
<1>1. tt \in Tasks
  BY DEF EventInv, Typed
<1>2. PICK M : M = {[event |-> e, res |-> "release"] : e \in {tt[a].inbox, tt[a].wire} \ {NoEvent}}
  OBVIOUS
<1>3. {tt[a].inbox, tt[a].wire} \ {NoEvent} \subseteq Events /\ NoEvent \notin Events
  BY <1>1, TurnFields, HarnessAssumption
<1>4. /\ M \subseteq Acks
      /\ \A k \in M : /\ k.event = tt[a].inbox \/ k.event = tt[a].wire
                      /\ k.event # NoEvent /\ k = [event |-> k.event, res |-> "release"]
  BY <1>2, <1>3 DEF Acks
<1>5. \A k, l \in M : k.event = l.event => k = l
  BY <1>4
<1>6. Moves(tt, ak, a, NoEvent, NoEvent, M)
  BY <1>3, <1>4, <1>5 DEF Moves
<1>7. PICK t2 : t2 = [tt EXCEPT ![a].end = x, ![a].inbox = NoEvent, ![a].wire = NoEvent]
  OBVIOUS
<1>8. Alters(t2, tt, a, NoEvent, NoEvent)
  BY <1>1, <1>7, AlteredBy
<1>9. EventInv(qq, t2, ak \cup M, acc, res, mg, st, ex)
  BY <1>3, <1>6, <1>8, SteerKeeps
<1> QED
  BY <1>2, <1>7, <1>9

(* signal_in_flight_task, whichever of the channel's turns it finds.       *)
LEMMA SignalledKeeps ==
    ASSUME NEW qq, NEW ak, NEW acc, NEW res, NEW mg, NEW st, NEW ex,
           EventInv(qq, task, ak, acc, res, mg, st, ex), NEW c,
           NEW signal \in {"requeue", "discard"}, NEW t \in Signalled(task, c, signal)
    PROVE  EventInv(qq, t, ak, acc, res, mg, st, ex)
<1>1. t = task \/ \E a \in TasksOf(c) : t = [task EXCEPT ![a].control = signal]
  BY DEF Signalled
<1>2. ASSUME NEW a \in TasksOf(c), t = [task EXCEPT ![a].control = signal]
      PROVE  EventInv(qq, t, ak, acc, res, mg, st, ex)
  <2>1. a \in Busy(task) /\ signal \in {"unset", "requeue", "discard"}
    BY DEF TasksOf, Busy
  <2> QED
    BY <1>2, <2>1, SignalKeeps
<1> QED
  BY <1>1, <1>2

(* The mode gate: a received event that is queued already may steer the    *)
(* running turn or cancel it.                                              *)
LEMMA MidTurnKeeps ==
    ASSUME NEW qq, NEW ak, NEW acc, NEW res, NEW mg, NEW st, NEW ex,
           EventInv(qq, task, ak, acc, res, mg, st, ex), NEW e \in Events, NEW c,
           c = ChannelOf[e], e \in ToSet(qq.queues[c]), ~Pending(task, ak, e),
           NEW m \in MidTurn(qq, c, e)
    PROVE  EventInv(m.queue, m.task, ak, acc, res, mg, st, ex)
<1>1. \/ m = [queue |-> qq, task |-> task]
      \/ \E t \in Signalled(task, c, "requeue") : m = [queue |-> qq, task |-> t]
      \/ /\ qq.inFlight[c] # "no"
         /\ \E a \in {x \in TasksOf(c) : Running(x) /\ task[x].inbox = NoEvent} :
              m = [queue |-> Withhold(qq, c, e), task |-> [task EXCEPT ![a].inbox = e]]
  <2>1. CASE qq.inFlight[c] = "no"
    BY <2>1 DEF MidTurn
  <2>2. CASE qq.inFlight[c] # "no" /\ handling = "steer"
    BY <2>2 DEF MidTurn, NativeSteer
  <2>3. CASE qq.inFlight[c] # "no" /\ handling # "steer"
    BY <2>3 DEF MidTurn
  <2> QED
    BY <2>1, <2>2, <2>3
<1>2. CASE m = [queue |-> qq, task |-> task]
  BY <1>2
<1>3. CASE \E t \in Signalled(task, c, "requeue") : m = [queue |-> qq, task |-> t]
  <2>1. PICK t \in Signalled(task, c, "requeue") : m = [queue |-> qq, task |-> t]
    BY <1>3
  <2>2. EventInv(qq, t, ak, acc, res, mg, st, ex)
    BY SignalledKeeps
  <2>3. m.queue = qq /\ m.task = t
    BY <2>1
  <2> QED
    BY <2>2, <2>3
<1>4. CASE /\ qq.inFlight[c] # "no"
           /\ \E a \in {x \in TasksOf(c) : Running(x) /\ task[x].inbox = NoEvent} :
                m = [queue |-> Withhold(qq, c, e), task |-> [task EXCEPT ![a].inbox = e]]
  <2>1. PICK a \in {x \in TasksOf(c) : Running(x) /\ task[x].inbox = NoEvent} :
                m = [queue |-> Withhold(qq, c, e), task |-> [task EXCEPT ![a].inbox = e]]
    BY <1>4
  <2>2. a \in Busy(task) /\ task[a].inbox = NoEvent
    BY <2>1 DEF TasksOf, Busy
  <2>3. EventInv(Withhold(qq, c, e), [task EXCEPT ![a].inbox = e], ak, acc, res, mg, st, ex)
    BY <1>4, <2>2, NativeSteerKeeps
  <2>4. m.queue = Withhold(qq, c, e) /\ m.task = [task EXCEPT ![a].inbox = e]
    BY <2>1
  <2> QED
    BY <2>3, <2>4
<1> QED
  BY <1>1, <1>2, <1>3, <1>4

-----------------------------------------------------------------------------
(* The inductive invariant.                                                *)

(* Events, turns and steers, of the state as it is.                        *)
Events_ == EventInv(q, task, acks, accepted, resolved, merged, strikes, expired)

(* A pool that sleeps or wakes has no agent anywhere: an agent that a wake *)
(* brings overwrites none.                                                 *)
Asleep ==
    /\ life = "waking" => ~poolReady
    /\ ~poolReady => /\ idle = {}
                     /\ \A a \in Agents : task[a] = NoTask /\ circuit[a].respawn = "no"

Circuits == [crashes: 0..Threshold, open: {"no", "open", "cooled"},
             respawn: {"no", "running", "ok", "failed"}]

Loop ==
    /\ handling \in Handlings /\ dedup \in Dedups
    /\ idle \subseteq Agents /\ circuit \in [Agents -> Circuits]
    /\ removed \subseteq Channels
    /\ poolReady \in BOOLEAN /\ wakePending \in BOOLEAN
    /\ life \in {"listening", "waking", "failed", "retry_due"}
    /\ pc \in {"top", "collect", "select", "dispatch", "exited"}
    /\ ret \in {"top", "collect", "select"}

Inductive == Loop /\ Events_ /\ SlotsExclusive /\ Asleep

(* The start.                                                              *)
LEMMA Starts == Init => Inductive
<1> SUFFICES ASSUME Init PROVE Inductive
  OBVIOUS
<1>1. Loop
  <2>1. circuit \in [Agents -> Circuits]
    <3>1. 0 \in 0..Threshold
      BY HarnessAssumption
    <3> QED
      BY <3>1 DEF Init, Circuits
  <2> QED
    BY <2>1 DEF Init, Loop
<1>2. SlotsExclusive /\ Asleep
  BY DEF Init, SlotsExclusive, Asleep
<1>3. Events_
  <2>1. /\ \A c \in Channels : /\ q.queues[c] = <<>> /\ q.cancelled[c] = <<>> /\ q.withheld[c] = <<>>
                               /\ q.inFlight[c] = "no" /\ q.retryCounts[c] = 0
        /\ Busy(task) = {}
    BY DEF Init, NewQueue, Busy
  <2>2. q \in QueueType
    <3>1. <<>> \in Seq(Events) /\ 0 \in 0..MaxRetries
      BY Nothing, QueueAssumption
    <3> QED
      BY <3>1 DEF Init, NewQueue, QueueType, EventSeqs
  <2>3. Typed(q, task, acks, accepted, resolved, strikes)
    BY <2>2 DEF Init, Typed, Tasks
  <2>4. ListsFit(0, <<>>, <<>>, <<>>) /\ \A c : ListsFit(c, <<>>, <<>>, <<>>)
    BY Nothing, QueueAssumption DEF ListsFit
  <2>5. Lists(q)
    BY <2>1, <2>4 DEF Lists
  <2>6. \A e : ~HeldBy(q, task, e)
    BY <2>1, Nothing DEF HeldBy, QueueHolds
  <2>7. Turns(q, task) /\ OneTurn(q, task, expired)
    BY <2>1 DEF Turns, OneTurn
  <2>8. Accounted(q, task, accepted, resolved, merged) /\ Final(q, task, resolved, expired)
    BY <2>1, <2>6 DEF Init, Accounted, Final
  <2>9. Steers(task, acks) /\ HeldBack(q, task, acks, accepted, resolved, expired)
    BY <2>1 DEF Init, Steers, HeldBack, Pending
  <2>10. Retries(q, strikes, expired)
    BY <2>1 DEF Init, Retries
  <2> QED
    BY <2>3, <2>5, <2>7, <2>8, <2>9, <2>10 DEF Events_, EventInv
<1> QED
  BY <1>1, <1>2, <1>3 DEF Inductive


(* What a handler does to events, turns and steers keeps their invariant:  *)
(* its calls one after the other.                                          *)
LEMMA EventsStep == Inductive /\ [Next]_vars => Events_'
<1> SUFFICES ASSUME Inductive, [Next]_vars PROVE Events_'
  OBVIOUS
<1>a. /\ EventInv(q, task, acks, accepted, resolved, merged, strikes, expired)
      /\ SlotsExclusive /\ removed \subseteq Channels /\ idle \subseteq Agents
      /\ task \in Tasks /\ acks \subseteq Acks
  BY DEF Inductive, Events_, Loop, EventInv, Typed
<1>b. EventInv(Expire(q), task, acks, accepted, resolved \cup ExpireDrops(q), merged, strikes,
               expired \cup Expired(q))
  BY <1>a, ExpireKeeps
<1>c. ASSUME EventInv(q', task', acks', accepted', resolved', merged', strikes', expired')
      PROVE  Events_'
  BY <1>c DEF Events_
<1>d. ASSUME UNCHANGED <<q, task, acks, history>> PROVE Events_'
  BY <1>d, <1>a DEF Events_, history
<1>1. CASE StartWake
  BY <1>1, <1>b, <1>c DEF StartWake, Clocked, pool
<1>2. CASE Maintenance
  <2>1. EventInv(Expire(Compact(q)), task, acks, accepted, resolved \cup ExpireDrops(q), merged,
                 strikes, expired \cup Expired(q))
    <3>1. PICK r : r = Compact(q)
      OBVIOUS
    <3>2. /\ EventInv(r, task, acks, accepted, resolved, merged, strikes, expired)
          /\ Expired(r) = Expired(q) /\ ExpireDrops(r) = ExpireDrops(q)
      BY <3>1, <1>a, CompactKeeps
    <3>3. EventInv(Expire(r), task, acks, accepted, resolved \cup ExpireDrops(r), merged, strikes,
                   expired \cup Expired(r))
      BY <3>2, ExpireKeeps
    <3> QED
      BY <3>1, <3>2, <3>3
  <2> QED
    BY <1>2, <2>1, <1>c DEF Maintenance, Clocked
<1>3. CASE CollectRespawns
  BY <1>3, <1>d DEF CollectRespawns
<1>4. CASE DispatchBatch
  <2>1. PICK f \in FlushNext(Expire(q)), a \in idle :
           /\ q' = f.rest
           /\ task' = [task EXCEPT ![a] = Turn(f.batch.chan, f.batch.events, f.batch.cancelled)]
           /\ merged' = merged \cup ToSet(f.batch.cancelled)
    BY <1>4 DEF DispatchBatch
  <2>2. a \in Agents /\ task[a] = NoTask
    BY <1>a, <2>1 DEF SlotsExclusive
  <2>3. PICK qq, res, ex : /\ qq = Expire(q) /\ res = resolved \cup ExpireDrops(q)
                           /\ ex = expired \cup Expired(q)
    OBVIOUS
  <2>4. EventInv(qq, task, acks, accepted, res, merged, strikes, ex) /\ f \in FlushNext(qq)
    BY <2>1, <2>3, <1>b
  <2>5. PICK tt : tt = task'
    OBVIOUS
  <2>6. tt = [task EXCEPT ![a] = Turn(f.batch.chan, f.batch.events, f.batch.cancelled)]
    BY <2>1, <2>5
  <2>7. EventInv(f.rest, tt, acks, accepted, res, merged \cup ToSet(f.batch.cancelled), strikes, ex)
    BY <2>4, <2>2, <2>6, DispatchKeeps
  <2>8. /\ acks' = acks /\ accepted' = accepted /\ strikes' = strikes
        /\ resolved' = res /\ expired' = ex
    BY <1>4, <2>3 DEF DispatchBatch, Clocked
  <2> QED
    BY <2>1, <2>5, <2>7, <2>8, <1>c
<1>5. CASE PoolExhausted
  <2>1. PICK f \in FlushNext(Expire(q)) :
           /\ q' = PutBack(f).queue
           /\ merged' = merged \cup ToSet(PutBack(f).batch.cancelled)
           /\ resolved' = resolved \cup ExpireDrops(q) \cup PutBack(f).drops
           /\ strikes' = [strikes EXCEPT ![PutBack(f).batch.chan] = 0]
    BY <1>5 DEF PoolExhausted
  <2>2. PutBack(f).batch = f.batch
    BY DEF PutBack
  <2>3. PICK qq, res, ex : /\ qq = Expire(q) /\ res = resolved \cup ExpireDrops(q)
                           /\ ex = expired \cup Expired(q)
    OBVIOUS
  <2>4. EventInv(qq, task, acks, accepted, res, merged, strikes, ex) /\ f \in FlushNext(qq)
    BY <2>1, <2>3, <1>b
  <2>5. EventInv(PutBack(f).queue, task, acks, accepted, res \cup PutBack(f).drops,
                 merged \cup ToSet(f.batch.cancelled), [strikes EXCEPT ![f.batch.chan] = 0], ex)
    BY <2>4, PutBackKeeps
  <2>6. /\ acks' = acks /\ accepted' = accepted /\ task' = task /\ expired' = ex
    BY <1>5, <2>3 DEF PoolExhausted, pool
  <2>7. /\ merged' = merged \cup ToSet(f.batch.cancelled)
        /\ strikes' = [strikes EXCEPT ![f.batch.chan] = 0]
        /\ resolved' = res \cup PutBack(f).drops
    BY <2>1, <2>2, <2>3
  <2> QED
    BY <2>1, <2>5, <2>6, <2>7, <1>c
<1>6. CASE DispatchDone
  BY <1>6, <1>b, <1>c DEF DispatchDone, Clocked, pool
<1>7. ASSUME NEW e \in Events, Receive(e) PROVE Events_'
  <2>1. PICK c : c = ChannelOf[e]
    OBVIOUS
  <2>2. e \notin accepted /\ e \notin resolved
    BY <1>7 DEF Receive
  <2>3. /\ acks' = acks /\ merged' = merged /\ strikes' = strikes /\ expired' = expired
    BY <1>7 DEF Receive
  <2>4. CASE dedup = "drop" /\ q.inFlight[c] # "no"
    <3>1. EventInv(q, task, acks, accepted, resolved \cup {e}, merged, strikes, expired)
      BY <1>a, <2>2, RefusedKeeps
    <3>2. resolved' = resolved \cup {e} /\ q' = q /\ task' = task /\ accepted' = accepted
      BY <1>7, <2>1, <2>4 DEF Receive
    <3> QED
      BY <3>1, <3>2, <2>3, <1>c
  <2>5. CASE ~(dedup = "drop" /\ q.inFlight[c] # "no")
    <3>1. PICK m \in MidTurn(Push(q, c, e), c, e) : q' = m.queue /\ task' = m.task
      BY <1>7, <2>1, <2>5 DEF Receive
    <3>2. accepted' = accepted \cup {e} /\ resolved' = resolved \cup PushDrops(q, c)
      BY <1>7, <2>1, <2>5 DEF Receive
    <3>3. PICK qq, acc, res : qq = Push(q, c, e) /\ acc = accepted' /\ res = resolved'
      OBVIOUS
    <3>4. EventInv(qq, task, acks, acc, res, merged, strikes, expired) /\ e \in ToSet(qq.queues[c])
      <4>1. /\ EventInv(Push(q, c, e), task, acks, accepted \cup {e}, resolved \cup PushDrops(q, c),
                        merged, strikes, expired)
            /\ e \in ToSet(Push(q, c, e).queues[c])
        BY <1>a, <2>1, <2>2, PushKeeps
      <4> QED
        BY <4>1, <3>2, <3>3
    <3>5. ~Pending(task, acks, e)
      BY <1>a, <2>2 DEF EventInv, HeldBack
    <3>6. m \in MidTurn(qq, c, e)
      BY <3>1, <3>3
    <3>7. EventInv(m.queue, m.task, acks, acc, res, merged, strikes, expired)
      BY <3>4, <3>5, <3>6, <2>1, MidTurnKeeps
    <3> QED
      BY <3>1, <3>3, <3>7, <2>3, <1>c
  <2> QED
    BY <2>4, <2>5
<1>8. ASSUME NEW c \in Channels, NEW s \in {"requeue", "discard"}, OwnerControl(c, s)
      PROVE  Events_'
  <2>1. PICK t \in Signalled(task, c, s) : task' = t
    BY <1>8 DEF OwnerControl
  <2>2. EventInv(q, t, acks, accepted, resolved, merged, strikes, expired)
    BY <1>a, <2>1, SignalledKeeps
  <2> QED
    BY <1>8, <2>1, <2>2, <1>c DEF OwnerControl
<1>9. ASSUME NEW c \in Channels, MemberRemoved(c) PROVE Events_'
  <2>1. EventInv(DrainChannel(q, c), task, acks, accepted, resolved \cup QueueHolds(q, c), merged,
                 [strikes EXCEPT ![c] = 0], expired)
    BY <1>a, DrainKeeps
  <2> QED
    BY <1>9, <2>1, <1>c DEF MemberRemoved, pool
<1>10. ASSUME NEW c \in Channels, MemberAdded(c) PROVE Events_'
  BY <1>10, <1>d DEF MemberAdded, pool
<1>11. ASSUME NEW a \in Agents, HandleResult(a) PROVE Events_'
  <2>1. a \in Busy(task) /\ task[a].end # Going
    BY <1>11 DEF HandleResult, Busy
  <2>2. PICK t, tt : t = task[a] /\ tt = [task EXCEPT ![a] = NoTask]
    OBVIOUS
  <2>3. EventInv(Settled(t), tt, acks, accepted, resolved \cup Fate(t), merged \ Fate(t),
                 Struck(t), expired)
    BY <1>a, <2>1, <2>2, ResultKeeps
  <2>4. /\ q' = Settled(t) /\ task' = tt /\ acks' = acks /\ accepted' = accepted
        /\ resolved' = resolved \cup Fate(t) /\ merged' = merged \ Fate(t)
        /\ strikes' = Struck(t) /\ expired' = expired
    BY <1>11, <2>2 DEF HandleResult
  <2> QED
    BY <2>3, <2>4, <1>c
<1>12. ASSUME NEW k \in acks, SteerAck(k) PROVE Events_'
  <2>1. PICK e, c : e = k.event /\ c = ChannelOf[e]
    OBVIOUS
  <2>2. /\ acks' = acks \ {k} /\ accepted' = accepted /\ merged' = merged /\ strikes' = strikes
        /\ expired' = expired
    BY <1>12 DEF SteerAck
  <2>3. CASE k.res = "success"
    <3>1. EventInv(RemoveEvent(ExtendDeadline(q, c), c, e), task, acks \ {k}, accepted,
                   resolved \cup {e}, merged, strikes, expired)
      BY <1>a, <1>12, <2>1, LandedKeeps
    <3>2. /\ q' = RemoveEvent(ExtendDeadline(q, c), c, e) /\ resolved' = resolved \cup {e}
          /\ task' = task
      BY <1>12, <2>1, <2>3 DEF SteerAck, Acked
    <3> QED
      BY <3>1, <3>2, <2>2, <1>c
  <2>4. CASE k.res # "success"
    <3>1. EventInv(Release(q, c, e), task, acks \ {k}, accepted,
                   resolved \cup ReleaseDrops(q, c, e), merged, strikes, expired)
      BY <1>a, <1>12, <2>1, ReleaseKeeps
    <3>2. /\ q' = Release(q, c, e) /\ resolved' = resolved \cup ReleaseDrops(q, c, e)
          /\ task' \in IF k.res = "fallback" THEN Signalled(task, c, "requeue") ELSE {task}
      BY <1>12, <2>1, <2>4 DEF SteerAck, Acked
    <3>3. EventInv(q', task, acks', accepted', resolved', merged', strikes', expired')
      BY <3>1, <3>2, <2>2
    <3>4. CASE k.res = "fallback"
      <4>1. PICK qq, ak, acc, res, mg, st, ex :
               /\ qq = q' /\ ak = acks' /\ acc = accepted' /\ res = resolved' /\ mg = merged'
               /\ st = strikes' /\ ex = expired'
        OBVIOUS
      <4>2. PICK t : t = task' /\ t \in Signalled(task, c, "requeue")
        BY <3>2, <3>4
      <4>3. EventInv(qq, task, ak, acc, res, mg, st, ex)
        BY <3>3, <4>1
      <4>4. EventInv(qq, t, ak, acc, res, mg, st, ex)
        BY <4>2, <4>3, SignalledKeeps
      <4> QED
        BY <4>1, <4>2, <4>4, <1>c
    <3>5. CASE k.res # "fallback"
      BY <3>2, <3>3, <3>5, <1>c
    <3> QED
      BY <3>4, <3>5
  <2> QED
    BY <2>3, <2>4
<1>13. CASE WakeSucceeds \/ WakeFails \/ WakeRetry \/ IdleSleep \/ TimerTick \/ WakeRetryDue
  BY <1>13, <1>d DEF WakeSucceeds, WakeFails, WakeRetry, IdleSleep, TimerTick, WakeRetryDue, pool
<1>14. CASE HeartbeatTick
  <2>1. CASE task' = task
    BY <1>14, <2>1, <1>b, <1>c DEF HeartbeatTick, Clocked
  <2>2. CASE task' # task
    <3>1. PICK a \in idle : task' = [task EXCEPT ![a] = Turn(Heartbeat, <<>>, <<>>)]
      BY <1>14, <2>2 DEF HeartbeatTick
    <3>2. a \in Agents /\ task[a] = NoTask
      BY <1>a, <3>1 DEF SlotsExclusive
    <3>3. PICK qq, res, ex, tt : /\ qq = Expire(q) /\ res = resolved \cup ExpireDrops(q)
                                 /\ ex = expired \cup Expired(q) /\ tt = task'
      OBVIOUS
    <3>4. /\ EventInv(qq, task, acks, accepted, res, merged, strikes, ex)
          /\ tt = [task EXCEPT ![a] = Turn(Heartbeat, <<>>, <<>>)]
      BY <3>1, <3>3, <1>b
    <3>5. EventInv(qq, tt, acks, accepted, res, merged, strikes, ex)
      BY <3>2, <3>4, HeartbeatStarts
    <3>6. /\ q' = qq /\ resolved' = res /\ expired' = ex /\ acks' = acks
          /\ accepted' = accepted /\ merged' = merged /\ strikes' = strikes
      BY <1>14, <3>3 DEF HeartbeatTick, Clocked
    <3> QED
      BY <3>3, <3>5, <3>6, <1>c
  <2> QED
    BY <2>1, <2>2
<1>15. ASSUME NEW a \in Agents, WriteSteer(a) PROVE Events_'
  <2>1. a \in Busy(task) /\ task[a].inbox # NoEvent /\ task[a].wire = NoEvent
    BY <1>15 DEF WriteSteer, Running, Busy
  <2>2. /\ EventInv(q, [task EXCEPT ![a].inbox = NoEvent, ![a].wire = task[a].inbox], acks,
                    accepted, resolved, merged, strikes, expired)
        /\ EventInv(q, [task EXCEPT ![a].inbox = NoEvent],
                    acks \cup {[event |-> task[a].inbox, res |-> "fallback"]},
                    accepted, resolved, merged, strikes, expired)
    BY <1>a, <2>1, WriteKeeps
  <2>3. q' = q /\ UNCHANGED history
    BY <1>15 DEF WriteSteer
  <2>4. CASE /\ task' = [task EXCEPT ![a].inbox = NoEvent, ![a].wire = task[a].inbox]
             /\ acks' = acks
    BY <2>2, <2>3, <2>4, <1>c DEF history
  <2>5. CASE /\ task' = [task EXCEPT ![a].inbox = NoEvent]
             /\ acks' = acks \cup {[event |-> task[a].inbox, res |-> "fallback"]}
    BY <2>2, <2>3, <2>5, <1>c DEF history
  <2> QED
    BY <1>15, <2>4, <2>5 DEF WriteSteer
<1>16. ASSUME NEW a \in Agents, SteerAnswer(a) PROVE Events_'
  <2>1. a \in Busy(task) /\ task[a].wire # NoEvent
    BY <1>16 DEF SteerAnswer, Running, Busy
  <2>2. PICK x \in {"success", "fallback", "release"} :
           acks' = acks \cup {[event |-> task[a].wire, res |-> x]}
    BY <1>16 DEF SteerAnswer
  <2>3. EventInv(q, [task EXCEPT ![a].wire = NoEvent],
                 acks \cup {[event |-> task[a].wire, res |-> x]},
                 accepted, resolved, merged, strikes, expired)
    BY <1>a, <2>1, AnswerKeeps
  <2> QED
    BY <1>16, <2>2, <2>3, <1>c DEF SteerAnswer, history
<1>17. ASSUME NEW a \in Agents, NEW x \in Ends, TurnEnds(a, x) PROVE Events_'
  <2>1. a \in Busy(task)
    BY <1>17 DEF TurnEnds, Running, Busy
  <2>2. EventInv(q, [task EXCEPT ![a].end = x, ![a].inbox = NoEvent, ![a].wire = NoEvent],
                 acks \cup {[event |-> e, res |-> "release"] :
                               e \in {task[a].inbox, task[a].wire} \ {NoEvent}},
                 accepted, resolved, merged, strikes, expired)
    BY <1>a, <2>1, EndKeeps
  <2> QED
    BY <1>17, <2>2, <1>c DEF TurnEnds
<1>18. ASSUME NEW a \in Agents, NEW r \in {"ok", "failed"}, RespawnEnds(a, r) PROVE Events_'
  BY <1>18, <1>d DEF RespawnEnds
<1>19. ASSUME NEW c \in Channels, DeadlinePasses(c) \/ BackoffPasses(c) PROVE Events_'
  <2>1. PICK r : r = q'
    OBVIOUS
  <2>2. \/ r = [q EXCEPT !.inFlight[c] = "due"] /\ q.inFlight[c] = "armed"
        \/ r = [q EXCEPT !.retryAfter[c] = "past"]
    BY <1>19, <2>1 DEF DeadlinePasses, BackoffPasses
  <2>3. EventInv(r, task, acks, accepted, resolved, merged, strikes, expired)
    BY <1>a, <2>2, ClockKeeps
  <2>4. UNCHANGED <<pool, acks, history>>
    BY <1>19 DEF DeadlinePasses, BackoffPasses
  <2> QED
    BY <2>1, <2>3, <2>4, <1>c DEF pool, history
<1>20. ASSUME NEW a \in Agents, CircuitClock(a) PROVE Events_'
  BY <1>20, <1>d DEF CircuitClock
<1>21. CASE UNCHANGED vars
  BY <1>21, <1>d DEF vars, pool
<1> QED
  BY <1>1, <1>2, <1>3, <1>4, <1>5, <1>6, <1>7, <1>8, <1>9, <1>10, <1>11, <1>12, <1>13, <1>14,
     <1>15, <1>16, <1>17, <1>18, <1>19, <1>20, <1>21 DEF Next, Exited


(* A turn whose record changes is still the turn of its agent.             *)
LEMMA StillBusy ==
    ASSUME NEW tt \in Tasks, NEW a \in Busy(tt), NEW tt2, NEW i, NEW w, Alters(tt2, tt, a, i, w)
    PROVE  Busy(tt2) = Busy(tt)
BY DEF Alters, Busy

(* A signal starts and ends no turn ...                                    *)
LEMMA SignalledSame ==
    ASSUME task \in Tasks, NEW c, NEW signal \in {"requeue", "discard"},
           NEW t \in Signalled(task, c, signal)
    PROVE  Busy(t) = Busy(task)
<1>1. CASE t # task
  <2>1. PICK b \in TasksOf(c) : t = [task EXCEPT ![b].control = signal]
    BY <1>1 DEF Signalled
  <2>2. b \in Busy(task)
    BY <2>1 DEF TasksOf, Busy
  <2>3. Alters(t, task, b, task[b].inbox, task[b].wire)
    BY <2>1, <2>2, AlteredBy
  <2> QED
    BY <2>2, <2>3, StillBusy
<1> QED
  BY <1>1

(* ... and neither does what the mode gate does with an event.             *)
LEMMA MidTurnSame ==
    ASSUME task \in Tasks, NEW qq, NEW c, NEW e \in Events, NEW m \in MidTurn(qq, c, e)
    PROVE  Busy(m.task) = Busy(task)
<1>1. \/ m = [queue |-> qq, task |-> task]
      \/ \E t \in Signalled(task, c, "requeue") : m = [queue |-> qq, task |-> t]
      \/ \E a \in TasksOf(c) :
           m = [queue |-> Withhold(qq, c, e), task |-> [task EXCEPT ![a].inbox = e]]
  <2>1. CASE qq.inFlight[c] = "no"
    BY <2>1 DEF MidTurn
  <2>2. CASE qq.inFlight[c] # "no" /\ handling = "steer"
    BY <2>2 DEF MidTurn, NativeSteer
  <2>3. CASE qq.inFlight[c] # "no" /\ handling # "steer"
    BY <2>3 DEF MidTurn
  <2> QED
    BY <2>1, <2>2, <2>3
<1>2. CASE \E t \in Signalled(task, c, "requeue") : m = [queue |-> qq, task |-> t]
  <2>1. PICK t \in Signalled(task, c, "requeue") : m = [queue |-> qq, task |-> t]
    BY <1>2
  <2>2. Busy(t) = Busy(task)
    BY SignalledSame
  <2>3. m.task = t
    BY <2>1
  <2> QED
    BY <2>2, <2>3
<1>3. CASE \E a \in TasksOf(c) :
             m = [queue |-> Withhold(qq, c, e), task |-> [task EXCEPT ![a].inbox = e]]
  <2>1. PICK a \in TasksOf(c) :
             m = [queue |-> Withhold(qq, c, e), task |-> [task EXCEPT ![a].inbox = e]]
    BY <1>3
  <2>2. a \in Busy(task) /\ m.task = [task EXCEPT ![a].inbox = e]
    BY <2>1 DEF TasksOf, Busy
  <2>3. Alters(m.task, task, a, e, task[a].wire)
    <3>1. PICK t : t = task[a]
      OBVIOUS
    <3>2. \A x \in Events \cup {NoEvent} :
             Alters([task EXCEPT ![a].inbox = x], task, a, x, t.wire)
      BY <2>2, <3>1, AlteredBy
    <3> QED
      BY <2>2, <3>1, <3>2
  <2> QED
    BY <2>2, <2>3, StillBusy
<1> QED
  BY <1>1, <1>2, <1>3

(* The circuits keep their type.                                           *)
LEMMA CircuitSteps ==
    ASSUME NEW s \in Circuits
    PROVE  /\ s.crashes \in 0..Threshold /\ s.open \in {"no", "open", "cooled"}
           /\ s.respawn \in {"no", "running", "ok", "failed"}
           /\ Refilled(s) \in Circuits /\ Refilled(s).respawn = "running"
           /\ RecordCrash(s) \in Circuits
<1>1. /\ s.crashes \in 0..Threshold /\ s.open \in {"no", "open", "cooled"}
      /\ s.respawn \in {"no", "running", "ok", "failed"}
      /\ s = [crashes |-> s.crashes, open |-> s.open, respawn |-> s.respawn]
  BY DEF Circuits
<1>2. Threshold - 1 \in 0..Threshold /\ 0 \in 0..Threshold
  BY HarnessAssumption
<1>3. Refilled(s) \in Circuits /\ Refilled(s).respawn = "running"
  <2>1. PICK n : n = IF s.open = "cooled" THEN Threshold - 1 ELSE s.crashes
    OBVIOUS
  <2>2. n \in 0..Threshold
    BY <2>1, <1>1, <1>2
  <2>3. PICK r : r = Refilled(s)
    OBVIOUS
  <2>4. r.crashes = n /\ r.open = "no" /\ r.respawn = "running"
    <3>1. r = [s EXCEPT !.respawn = "running", !.open = "no", !.crashes = n]
      <4>1. CASE s.open = "cooled"
        BY <4>1, <2>1, <2>3 DEF Refilled
      <4>2. CASE s.open # "cooled"
        BY <4>2, <2>1, <2>3 DEF Refilled
      <4> QED
        BY <4>1, <4>2
    <3> QED
      BY <3>1 DEF Circuits
  <2>5. r = [crashes |-> r.crashes, open |-> r.open, respawn |-> r.respawn]
    BY <2>3 DEF Refilled, Circuits
  <2> QED
    BY <2>2, <2>3, <2>4, <2>5 DEF Circuits
<1>4. RecordCrash(s) \in Circuits
  <2>1. CASE s.open = "cooled"
    BY <2>1, <1>3 DEF RecordCrash
  <2>2. CASE s.open = "open"
    BY <2>2 DEF RecordCrash
  <2>3. CASE s.open = "no" /\ s.crashes + 1 >= Threshold
    <3>1. PICK r : r = [s EXCEPT !.crashes = 0, !.open = "open"]
      OBVIOUS
    <3>2. r.crashes = 0 /\ r.open = "open" /\ r.respawn = s.respawn
      BY <3>1 DEF Circuits
    <3>3. r = [crashes |-> r.crashes, open |-> r.open, respawn |-> r.respawn]
      BY <3>1 DEF Circuits
    <3>4. RecordCrash(s) = r
      BY <2>3, <3>1 DEF RecordCrash
    <3> QED
      BY <3>2, <3>3, <3>4, <1>1, <1>2 DEF Circuits
  <2>4. CASE s.open = "no" /\ ~(s.crashes + 1 >= Threshold)
    <3>1. PICK r : r = [s EXCEPT !.crashes = @ + 1, !.respawn = "running"]
      OBVIOUS
    <3>2. r.crashes = s.crashes + 1 /\ r.open = s.open /\ r.respawn = "running"
      BY <3>1 DEF Circuits
    <3>3. r = [crashes |-> r.crashes, open |-> r.open, respawn |-> r.respawn]
      BY <3>1 DEF Circuits
    <3>4. RecordCrash(s) = r
      BY <2>4, <3>1 DEF RecordCrash
    <3>5. s.crashes + 1 \in 0..Threshold
      BY <1>1, <2>4, HarnessAssumption
    <3> QED
      BY <3>2, <3>3, <3>4, <3>5, <1>1 DEF Circuits
  <2> QED
    BY <1>1, <2>1, <2>2, <2>3, <2>4
<1> QED
  BY <1>1, <1>3, <1>4

(* The loop's own variables keep their types.                              *)
LEMMA LoopStep == Inductive /\ [Next]_vars => Loop'
<1> SUFFICES ASSUME Inductive, [Next]_vars PROVE Loop'
  OBVIOUS
<1> USE DEF Loop
<1>a. Loop
  BY DEF Inductive
<1>c. \A s \in Circuits : /\ s.crashes \in 0..Threshold /\ s.open \in {"no", "open", "cooled"}
                          /\ s.respawn \in {"no", "running", "ok", "failed"}
                          /\ Refilled(s) \in Circuits /\ RecordCrash(s) \in Circuits
  BY CircuitSteps
<1>1. CASE StartWake
  BY <1>1, <1>a DEF StartWake, config, pool, HasFlushableWork
<1>2. CASE Maintenance
  BY <1>2, <1>a, <1>c DEF Maintenance, config, lifecycle
<1>3. CASE CollectRespawns
  <2>1. [crashes |-> 0, open |-> "open", respawn |-> "no"] \in Circuits
    BY HarnessAssumption DEF Circuits
  <2>2. \A s \in Circuits : [s EXCEPT !.respawn = "no"] \in Circuits
    BY DEF Circuits
  <2>3. circuit' \in [Agents -> Circuits]
    BY <1>3, <1>a, <2>1, <2>2 DEF CollectRespawns
  <2> QED
    BY <1>3, <1>a, <2>3 DEF CollectRespawns, config
<1>4. CASE DispatchBatch
  BY <1>4, <1>a DEF DispatchBatch, config, lifecycle
<1>5. CASE PoolExhausted \/ DispatchDone
  BY <1>5, <1>a DEF PoolExhausted, DispatchDone, config, lifecycle, pool
<1>7. ASSUME NEW e \in Events, Receive(e) PROVE Loop'
  BY <1>7, <1>a DEF Receive, ThenDispatch, ThenTop, config, lifecycle
<1>8. ASSUME NEW c \in Channels, NEW s \in {"requeue", "discard"}, OwnerControl(c, s) PROVE Loop'
  BY <1>8, <1>a DEF OwnerControl, ThenTop, config, lifecycle
<1>9. ASSUME NEW c \in Channels, MemberRemoved(c) \/ MemberAdded(c) PROVE Loop'
  BY <1>9, <1>a DEF MemberRemoved, MemberAdded, ThenTop, config, lifecycle, pool
<1>11. ASSUME NEW a \in Agents, HandleResult(a) PROVE Loop'
  <2>1. circuit' \in [Agents -> Circuits] /\ idle' \subseteq Agents
    BY <1>11, <1>a, <1>c DEF HandleResult
  <2> QED
    BY <1>11, <1>a, <2>1 DEF HandleResult, ThenDispatch, config, lifecycle
<1>12. ASSUME NEW k \in acks, SteerAck(k) PROVE Loop'
  BY <1>12, <1>a DEF SteerAck, ThenDispatch, config, lifecycle
<1>13. CASE WakeSucceeds \/ WakeFails \/ WakeRetry \/ IdleSleep \/ TimerTick \/ WakeRetryDue
  BY <1>13, <1>a DEF WakeSucceeds, WakeFails, WakeRetry, IdleSleep, TimerTick, WakeRetryDue,
                     ThenDispatch, ThenTop, config, lifecycle, pool
<1>14. CASE HeartbeatTick
  BY <1>14, <1>a DEF HeartbeatTick, ThenDispatch, ThenTop, config, lifecycle
<1>15. ASSUME NEW a \in Agents, WriteSteer(a) \/ SteerAnswer(a) PROVE Loop'
  BY <1>15, <1>a DEF WriteSteer, SteerAnswer, config, lifecycle
<1>17. ASSUME NEW a \in Agents, NEW x \in Ends, TurnEnds(a, x) PROVE Loop'
  BY <1>17, <1>a DEF TurnEnds, config, lifecycle
<1>18. ASSUME NEW a \in Agents, NEW r \in {"ok", "failed"}, RespawnEnds(a, r) PROVE Loop'
  <2>1. [circuit[a] EXCEPT !.respawn = r] \in Circuits
    BY <1>a, <1>18 DEF Circuits
  <2>2. circuit' \in [Agents -> Circuits]
    BY <1>18, <1>a, <2>1 DEF RespawnEnds
  <2> QED
    BY <1>18, <1>a, <2>2 DEF RespawnEnds, config, lifecycle
<1>19. ASSUME NEW c \in Channels, DeadlinePasses(c) \/ BackoffPasses(c) PROVE Loop'
  BY <1>19, <1>a DEF DeadlinePasses, BackoffPasses, config, lifecycle, pool
<1>20. ASSUME NEW a \in Agents, CircuitClock(a) PROVE Loop'
  <2>1. /\ [circuit[a] EXCEPT !.open = "cooled"] \in Circuits
        /\ [circuit[a] EXCEPT !.crashes = 0] \in Circuits
    BY <1>a, <1>20, HarnessAssumption DEF Circuits
  <2>2. circuit' \in [Agents -> Circuits]
    BY <1>20, <1>a, <2>1 DEF CircuitClock
  <2> QED
    BY <1>20, <1>a, <2>2 DEF CircuitClock, config, lifecycle
<1>21. CASE UNCHANGED vars
  BY <1>21, <1>a DEF vars, config, lifecycle, pool
<1> QED
  BY <1>1, <1>2, <1>3, <1>4, <1>5, <1>7, <1>8, <1>9, <1>11, <1>12, <1>13, <1>14,
     <1>15, <1>17, <1>18, <1>19, <1>20, <1>21 DEF Next, Exited


(* A slot is filled where it is empty: by a respawn that was started for   *)
(* an empty slot, by a turn that ends in it, or by a wake, which finds     *)
(* every slot empty.                                                       *)
LEMMA SlotsStep == Inductive /\ [Next]_vars => SlotsExclusive' /\ Asleep'
<1> SUFFICES ASSUME Inductive, [Next]_vars PROVE SlotsExclusive' /\ Asleep'
  OBVIOUS
<1>a. /\ SlotsExclusive /\ Asleep /\ task \in Tasks /\ acks \subseteq Acks
      /\ idle \subseteq Agents /\ circuit \in [Agents -> Circuits]
  BY DEF Inductive, Events_, EventInv, Typed, Loop
<1>b. ASSUME UNCHANGED <<idle, circuit, life, poolReady>>, Busy(task') = Busy(task)
      PROVE  SlotsExclusive' /\ Asleep'
  BY <1>a, <1>b DEF SlotsExclusive, Asleep, Busy
<1>1. CASE StartWake
  BY <1>1, <1>a DEF StartWake, pool, SlotsExclusive, Asleep
<1>2. CASE Maintenance
  <2>1. \A a \in Agents : \/ circuit'[a].respawn = circuit[a].respawn
                          \/ a \notin idle /\ task[a] = NoTask
    BY <1>2, <1>a DEF Maintenance, EmptySlots
  <2>2. UNCHANGED <<idle, task, life, poolReady>> /\ poolReady
    BY <1>2 DEF Maintenance, lifecycle
  <2> QED
    BY <2>1, <2>2, <1>a DEF SlotsExclusive, Asleep
<1>3. CASE CollectRespawns
  <2>1. \A a \in Agents : CASE circuit[a].respawn = "ok" -> circuit'[a].respawn = "no"
                            [] circuit[a].respawn = "failed" -> circuit'[a].respawn = "no"
                            [] OTHER -> circuit'[a] = circuit[a]
    <3>1. \A s \in Circuits : [s EXCEPT !.respawn = "no"].respawn = "no"
      BY DEF Circuits
    <3> QED
      BY <1>3, <1>a, <3>1 DEF CollectRespawns
  <2>2. idle' = idle \cup {a \in Agents : circuit[a].respawn = "ok"}
    BY <1>3 DEF CollectRespawns
  <2>3. UNCHANGED <<task, life, poolReady>>
    BY <1>3 DEF CollectRespawns
  <2>4. \A a \in Agents : circuit'[a].respawn = "no" \/ circuit'[a] = circuit[a]
    BY <2>1
  <2>5. \A a \in Agents : circuit[a].respawn = "ok" => circuit'[a].respawn = "no"
    BY <2>1
  <2>6. SlotsExclusive'
    BY <2>2, <2>3, <2>4, <2>5, <1>a DEF SlotsExclusive
  <2>7. Asleep'
    BY <2>2, <2>3, <2>4, <1>a DEF Asleep
  <2> QED
    BY <2>6, <2>7
<1>4. CASE DispatchBatch
  <2>1. PICK a \in idle : idle' = idle \ {a} /\ \E u : task' = [task EXCEPT ![a] = u]
    BY <1>4 DEF DispatchBatch
  <2>2. UNCHANGED <<circuit, life, poolReady>>
    BY <1>4 DEF DispatchBatch, lifecycle
  <2>3. a \in Agents /\ \A b \in Agents \ {a} : task'[b] = task[b]
    BY <1>a, <2>1 DEF Tasks
  <2>4. circuit[a].respawn = "no" /\ poolReady
    BY <1>a, <2>1, <2>3 DEF SlotsExclusive, Asleep
  <2> QED
    BY <2>1, <2>2, <2>3, <2>4, <1>a DEF SlotsExclusive, Asleep
<1>5. CASE PoolExhausted \/ DispatchDone
  BY <1>5, <1>b DEF PoolExhausted, DispatchDone, pool, lifecycle
<1>7. ASSUME NEW e \in Events, Receive(e) PROVE SlotsExclusive' /\ Asleep'
  <2>1. UNCHANGED <<idle, circuit, life, poolReady>>
    BY <1>7 DEF Receive, lifecycle
  <2>2. task' = task \/ \E m \in MidTurn(Push(q, ChannelOf[e], e), ChannelOf[e], e) : task' = m.task
    BY <1>7 DEF Receive
  <2>3. Busy(task') = Busy(task)
    <3>1. CASE task' = task
      BY <3>1
    <3>2. CASE task' # task
      <4>1. PICK c, qq : c = ChannelOf[e] /\ qq = Push(q, c, e)
        OBVIOUS
      <4>2. PICK m \in MidTurn(qq, c, e) : task' = m.task
        BY <2>2, <3>2, <4>1
      <4>3. Busy(m.task) = Busy(task)
        BY <1>a, MidTurnSame
      <4> QED
        BY <4>2, <4>3
    <3> QED
      BY <3>1, <3>2
  <2> QED
    BY <2>1, <2>3, <1>b
<1>8. ASSUME NEW c \in Channels, NEW s \in {"requeue", "discard"}, OwnerControl(c, s)
      PROVE  SlotsExclusive' /\ Asleep'
  <2>1. PICK t \in Signalled(task, c, s) : task' = t
    BY <1>8 DEF OwnerControl
  <2>2. Busy(t) = Busy(task)
    BY <1>a, SignalledSame
  <2> QED
    BY <1>8, <2>1, <2>2, <1>b DEF OwnerControl, lifecycle
<1>9. ASSUME NEW c \in Channels, MemberRemoved(c) \/ MemberAdded(c)
      PROVE  SlotsExclusive' /\ Asleep'
  BY <1>9, <1>b DEF MemberRemoved, MemberAdded, pool, lifecycle
<1>11. ASSUME NEW a \in Agents, HandleResult(a) PROVE SlotsExclusive' /\ Asleep'
  <2>1. task[a] # NoTask /\ circuit[a].respawn = "no" /\ poolReady
    BY <1>11, <1>a DEF HandleResult, SlotsExclusive, Asleep
  <2>2. /\ UNCHANGED <<life, poolReady>>
        /\ task' = [task EXCEPT ![a] = NoTask] /\ \E s : circuit' = [circuit EXCEPT ![a] = s]
    BY <1>11 DEF HandleResult, lifecycle
  <2>3. /\ task'[a] = NoTask
        /\ \A b \in Agents \ {a} : task'[b] = task[b] /\ circuit'[b] = circuit[b]
    BY <2>2, <1>a DEF Tasks
  <2>4. \/ idle' = idle /\ a \notin idle
        \/ idle' = idle \cup {a} /\ circuit'[a].respawn = "no"
    <3>1. CASE task[a].end.agent = "back"
      <4>1. circuit' = [circuit EXCEPT ![a] = circuit[a]]
        BY <1>11, <3>1 DEF HandleResult
      <4>2. idle' = idle \cup {a}
        BY <1>11, <3>1 DEF HandleResult
      <4> QED
        BY <4>1, <4>2, <1>a, <2>1
    <3>2. CASE task[a].end.agent # "back"
      BY <1>11, <3>2, <2>1, <1>a DEF HandleResult, SlotsExclusive
    <3> QED
      BY <3>1, <3>2
  <2> QED
    BY <2>1, <2>2, <2>3, <2>4, <1>a DEF SlotsExclusive, Asleep
<1>12. ASSUME NEW k \in acks, SteerAck(k) PROVE SlotsExclusive' /\ Asleep'
  <2>1. PICK c : c = ChannelOf[k.event]
    OBVIOUS
  <2>2. task' = task \/ \E t \in Signalled(task, c, "requeue") : task' = t
    BY <1>12, <2>1 DEF SteerAck
  <2>3. \A t \in Signalled(task, c, "requeue") : Busy(t) = Busy(task)
    BY <1>a, SignalledSame
  <2> QED
    BY <1>12, <2>2, <2>3, <1>b DEF SteerAck, lifecycle
<1>13. CASE WakeSucceeds
  <2>1. life = "waking" /\ life' = "listening" /\ poolReady' /\ UNCHANGED <<task, circuit>>
    BY <1>13 DEF WakeSucceeds
  <2> QED
    BY <2>1, <1>a DEF SlotsExclusive, Asleep
<1>14. CASE WakeFails \/ WakeRetry \/ TimerTick \/ WakeRetryDue
  <2>1. UNCHANGED <<idle, task, circuit, poolReady>> /\ (life' = life \/ life' # "waking")
    BY <1>14 DEF WakeFails, WakeRetry, TimerTick, WakeRetryDue, pool, lifecycle
  <2> QED
    BY <2>1, <1>a DEF SlotsExclusive, Asleep
<1>15. CASE IdleSleep
  <2>1. /\ idle' = {} /\ life' # "waking" /\ UNCHANGED <<task, circuit>>
        /\ \A a \in Agents : task[a] = NoTask /\ circuit[a].respawn = "no"
    BY <1>15 DEF IdleSleep, SleepDue, RespawnInFlight
  <2> QED
    BY <2>1 DEF SlotsExclusive, Asleep
<1>16. CASE HeartbeatTick
  <2>1. \/ UNCHANGED <<idle, task>>
        \/ \E a \in idle : idle' = idle \ {a} /\ \E u : task' = [task EXCEPT ![a] = u]
    BY <1>16 DEF HeartbeatTick
  <2>2. UNCHANGED <<circuit, life, poolReady>>
    BY <1>16 DEF HeartbeatTick, lifecycle
  <2>3. CASE UNCHANGED <<idle, task>>
    BY <2>2, <2>3, <1>b
  <2>4. CASE \E a \in idle : idle' = idle \ {a} /\ \E u : task' = [task EXCEPT ![a] = u]
    <3>1. PICK a \in idle : idle' = idle \ {a} /\ \E u : task' = [task EXCEPT ![a] = u]
      BY <2>4
    <3>2. a \in Agents /\ \A b \in Agents \ {a} : task'[b] = task[b]
      BY <1>a, <3>1 DEF Tasks
    <3>3. circuit[a].respawn = "no" /\ poolReady
      BY <1>a, <3>1, <3>2 DEF SlotsExclusive, Asleep
    <3> QED
      BY <3>1, <2>2, <3>2, <3>3, <1>a DEF SlotsExclusive, Asleep
  <2> QED
    BY <2>1, <2>3, <2>4
<1>17. ASSUME NEW a \in Agents, NEW i, NEW w, Alters(task', task, a, i, w), task[a] # NoTask,
              UNCHANGED <<idle, circuit, lifecycle>>
       PROVE  SlotsExclusive' /\ Asleep'
  <2>1. Busy(task') = Busy(task)
    BY <1>17 DEF Alters, Busy
  <2> QED
    BY <2>1, <1>17, <1>b DEF lifecycle
<1>18. ASSUME NEW a \in Agents,
              WriteSteer(a) \/ SteerAnswer(a) \/ \E x \in Ends : TurnEnds(a, x)
       PROVE  SlotsExclusive' /\ Asleep'
  <2>1. PICK t : t = task[a]
    OBVIOUS
  <2>2. a \in Busy(task) /\ task[a] # NoTask /\ UNCHANGED <<idle, circuit, lifecycle>>
    BY <1>18 DEF WriteSteer, SteerAnswer, TurnEnds, Running, Busy
  <2>3. NoEvent \in Events \cup {NoEvent} /\ t.inbox \in Events \cup {NoEvent}
    BY <1>a, <2>1, <2>2, TurnFields
  <2>4. /\ \A x \in Events \cup {NoEvent} :
              /\ Alters([task EXCEPT ![a].inbox = x], task, a, x, t.wire)
              /\ Alters([task EXCEPT ![a].wire = x], task, a, t.inbox, x)
              /\ Alters([task EXCEPT ![a].inbox = NoEvent, ![a].wire = x], task, a, NoEvent, x)
        /\ \A x \in Ends :
              Alters([task EXCEPT ![a].end = x, ![a].inbox = NoEvent, ![a].wire = NoEvent],
                     task, a, NoEvent, NoEvent)
    BY <1>a, <2>1, <2>2, AlteredBy
  <2>5. \/ task' = [task EXCEPT ![a].inbox = NoEvent]
        \/ task' = [task EXCEPT ![a].wire = NoEvent]
        \/ task' = [task EXCEPT ![a].inbox = NoEvent, ![a].wire = t.inbox]
        \/ \E x \in Ends :
             task' = [task EXCEPT ![a].end = x, ![a].inbox = NoEvent, ![a].wire = NoEvent]
    BY <1>18, <2>1 DEF WriteSteer, SteerAnswer, TurnEnds
  <2>6. \E i, w : Alters(task', task, a, i, w)
    <3>1. CASE task' = [task EXCEPT ![a].inbox = NoEvent]
      <4>1. Alters(task', task, a, NoEvent, t.wire)
        BY <2>3, <2>4, <3>1
      <4> QED
        BY <4>1
    <3>2. CASE task' = [task EXCEPT ![a].wire = NoEvent]
      <4>1. Alters(task', task, a, t.inbox, NoEvent)
        BY <2>3, <2>4, <3>2
      <4> QED
        BY <4>1
    <3>3. CASE task' = [task EXCEPT ![a].inbox = NoEvent, ![a].wire = t.inbox]
      <4>1. Alters(task', task, a, NoEvent, t.inbox)
        BY <2>3, <2>4, <3>3
      <4> QED
        BY <4>1
    <3>4. CASE \E x \in Ends :
                 task' = [task EXCEPT ![a].end = x, ![a].inbox = NoEvent, ![a].wire = NoEvent]
      <4>1. Alters(task', task, a, NoEvent, NoEvent)
        BY <2>4, <3>4
      <4> QED
        BY <4>1
    <3> QED
      BY <2>5, <3>1, <3>2, <3>3, <3>4
  <2> QED
    BY <2>2, <2>6, <1>17
<1>19. ASSUME NEW a \in Agents, NEW r \in {"ok", "failed"}, RespawnEnds(a, r)
       PROVE  SlotsExclusive' /\ Asleep'
  <2>1. UNCHANGED <<idle, task, life, poolReady>> /\ circuit[a].respawn = "running"
    BY <1>19 DEF RespawnEnds, lifecycle
  <2>2. \A b \in Agents \ {a} : circuit'[b] = circuit[b]
    BY <1>19, <1>a DEF RespawnEnds
  <2>3. a \notin idle /\ task[a] = NoTask /\ poolReady
    BY <2>1, <1>a DEF SlotsExclusive, Asleep
  <2> QED
    BY <2>1, <2>2, <2>3, <1>a DEF SlotsExclusive, Asleep
<1>20. ASSUME NEW c \in Channels, DeadlinePasses(c) \/ BackoffPasses(c)
       PROVE  SlotsExclusive' /\ Asleep'
  BY <1>20, <1>b DEF DeadlinePasses, BackoffPasses, pool, lifecycle
<1>21. ASSUME NEW a \in Agents, CircuitClock(a) PROVE SlotsExclusive' /\ Asleep'
  <2>1. UNCHANGED <<idle, task, life, poolReady>>
    BY <1>21 DEF CircuitClock, lifecycle
  <2>2. \A s \in Circuits : /\ [s EXCEPT !.open = "cooled"].respawn = s.respawn
                            /\ [s EXCEPT !.crashes = 0].respawn = s.respawn
    BY DEF Circuits
  <2>3. \A b \in Agents : circuit'[b].respawn = circuit[b].respawn
    BY <1>21, <1>a, <2>2 DEF CircuitClock
  <2> QED
    BY <2>1, <2>3, <1>a DEF SlotsExclusive, Asleep
<1>22. CASE UNCHANGED vars
  BY <1>22, <1>b DEF vars, pool, lifecycle
<1> QED
  BY <1>1, <1>2, <1>3, <1>4, <1>5, <1>7, <1>8, <1>9, <1>11, <1>12, <1>13, <1>14,
     <1>15, <1>16, <1>18, <1>19, <1>20, <1>21, <1>22 DEF Next, Exited

(* The invariant holds in every behaviour.                                 *)
THEOREM InductiveInvariant == Spec => []Inductive
<1>1. Inductive /\ [Next]_vars => Inductive'
  BY EventsStep, LoopStep, SlotsStep DEF Inductive
<1> QED
  BY Starts, <1>1, PTL DEF Spec


-----------------------------------------------------------------------------
(* What the invariant says of the properties of the runs.                  *)

(* The places where an event is, by the list or turn it is in, ...         *)
Places(A1, A2, A3, A4, A5) ==
    {<<y, 1>> : y \in A1} \cup {<<y, 2>> : y \in A2} \cup {<<y, 3>> : y \in A3}
    \cup {<<y, 4>> : y \in A4} \cup {<<y, 5>> : y \in A5}
Single(A1, A2, A3, A4, A5, x) ==
    \/ A1 = {x} /\ A2 = {} /\ A3 = {} /\ A4 = {} /\ A5 = {}
    \/ A1 = {} /\ A2 = {x} /\ A3 = {} /\ A4 = {} /\ A5 = {}
    \/ A1 = {} /\ A2 = {} /\ A3 = {x} /\ A4 = {} /\ A5 = {}
    \/ A1 = {} /\ A2 = {} /\ A3 = {} /\ A4 = {x} /\ A5 = {}
    \/ A1 = {} /\ A2 = {} /\ A3 = {} /\ A4 = {} /\ A5 = {x}

(* ... are one when one of the five sets has one element and the others    *)
(* have none.                                                              *)
LEMMA OnePlace ==
    ASSUME NEW A1, NEW A2, NEW A3, NEW A4, NEW A5, NEW x, Single(A1, A2, A3, A4, A5, x)
    PROVE  Cardinality(Places(A1, A2, A3, A4, A5)) = 1
<1> DEFINE P == Places(A1, A2, A3, A4, A5)
<1>1. \E p : P = {p}
  <2>1. CASE A1 = {x} /\ A2 = {} /\ A3 = {} /\ A4 = {} /\ A5 = {}
    <3>1. P = {<<x, 1>>}
      BY <2>1 DEF Places
    <3> QED
      BY <3>1
  <2>2. CASE A1 = {} /\ A2 = {x} /\ A3 = {} /\ A4 = {} /\ A5 = {}
    <3>1. P = {<<x, 2>>}
      BY <2>2 DEF Places
    <3> QED
      BY <3>1
  <2>3. CASE A1 = {} /\ A2 = {} /\ A3 = {x} /\ A4 = {} /\ A5 = {}
    <3>1. P = {<<x, 3>>}
      BY <2>3 DEF Places
    <3> QED
      BY <3>1
  <2>4. CASE A1 = {} /\ A2 = {} /\ A3 = {} /\ A4 = {x} /\ A5 = {}
    <3>1. P = {<<x, 4>>}
      BY <2>4 DEF Places
    <3> QED
      BY <3>1
  <2>5. CASE A1 = {} /\ A2 = {} /\ A3 = {} /\ A4 = {} /\ A5 = {x}
    <3>1. P = {<<x, 5>>}
      BY <2>5 DEF Places
    <3> QED
      BY <3>1
  <2> QED
    BY <2>1, <2>2, <2>3, <2>4, <2>5 DEF Single
<1> HIDE DEF P
<1>2. Cardinality(P) = 1
  BY <1>1, FS_Singleton
<1> QED
  BY <1>2 DEF P

(* Where an event is, for the invariant and for the properties.            *)
LEMMA HeldMeans ==
    ASSUME NEW e
    PROVE  /\ InQueue(e) <=> \E c \in Channels : e \in QueueHolds(q, c)
           /\ InTurn(e) <=> \E a \in Busy(task) : e \in Carries(task[a])
           /\ HeldBy(q, task, e) <=> InQueue(e) \/ InTurn(e)
BY DEF InQueue, InTurn, HeldBy, Busy, Carries

(* The types, of the invariant's parts.                                    *)
LEMMA TypesHold == Inductive => TypeOK
<1> SUFFICES ASSUME Inductive PROVE TypeOK
  OBVIOUS
<1>1. Loop /\ q \in QueueType /\ Lists(q) /\ task \in Tasks /\ acks \subseteq Acks
  BY DEF Inductive, Events_, EventInv, Typed
<1>2. \A c \in Channels : Len(q.queues[c]) <= MaxPending
  BY <1>1 DEF Lists, ListsFit
<1>3. \A a \in Agents : task[a] = NoTask \/ task[a] \in TaskType
  BY <1>1 DEF Tasks
<1> QED
  BY <1>1, <1>2, <1>3 DEF TypeOK, Loop, Circuits

(* An event is in one list of the queue or in one of one turn.             *)
LEMMA HeldInOne == Inductive => HeldOnce
<1> SUFFICES ASSUME Inductive, NEW e \in Held
             PROVE  LET places == {<<c, 1>> : c \in {c \in Channels : e \in ToSet(q.queues[c])}}
                         \cup {<<c, 2>> : c \in {c \in Channels : e \in ToSet(q.cancelled[c])}}
                         \cup {<<c, 3>> : c \in {c \in Channels : e \in ToSet(q.withheld[c])}}
                         \cup {<<a, 4>> : a \in {a \in Agents : task[a] # NoTask
                                                /\ e \in ToSet(task[a].events)}}
                         \cup {<<a, 5>> : a \in {a \in Agents : task[a] # NoTask
                                                /\ e \in ToSet(task[a].cancelled)}}
                    IN Cardinality(places) = 1
  BY DEF HeldOnce
<1> DEFINE A1 == {c \in Channels : e \in ToSet(q.queues[c])}
           A2 == {c \in Channels : e \in ToSet(q.cancelled[c])}
           A3 == {c \in Channels : e \in ToSet(q.withheld[c])}
           A4 == {a \in Agents : task[a] # NoTask /\ e \in ToSet(task[a].events)}
           A5 == {a \in Agents : task[a] # NoTask /\ e \in ToSet(task[a].cancelled)}
<1>1. Lists(q) /\ Turns(q, task)
  BY DEF Inductive, Events_, EventInv
<1>2. PICK c : c = ChannelOf[e]
  OBVIOUS
<1>3. \A d \in Channels : d # c => e \notin QueueHolds(q, d)
  BY <1>1, <1>2 DEF Lists, ListsFit, QueueHolds, Mine
<1>4. \A a, b \in Busy(task) : e \in Carries(task[a]) /\ e \in Carries(task[b]) => a = b
  BY <1>1 DEF Turns
<1>5. \A a \in Busy(task) : e \in Carries(task[a]) =>
         /\ \A d \in Channels : e \notin QueueHolds(q, d)
         /\ e \notin ToSet(task[a].events) \/ e \notin ToSet(task[a].cancelled)
  BY <1>1 DEF Turns, TurnFits
<1>6. c \in Channels => /\ e \notin ToSet(q.queues[c]) \/ e \notin ToSet(q.cancelled[c])
                        /\ e \notin ToSet(q.queues[c]) \/ e \notin ToSet(q.withheld[c])
                        /\ e \notin ToSet(q.cancelled[c]) \/ e \notin ToSet(q.withheld[c])
  BY <1>1 DEF Lists, ListsFit
<1>7. \E x : Single(A1, A2, A3, A4, A5, x)
  <2>1. CASE \E a \in Busy(task) : e \in Carries(task[a])
    <3>1. PICK a \in Busy(task) : e \in Carries(task[a])
      BY <2>1
    <3>2. A1 = {} /\ A2 = {} /\ A3 = {}
      BY <3>1, <1>5 DEF QueueHolds
    <3>3. CASE e \in ToSet(task[a].events)
      <4>1. A4 = {a} /\ A5 = {}
        BY <3>1, <3>3, <1>4, <1>5 DEF Carries, Busy
      <4> QED
        BY <3>2, <4>1 DEF Single
    <3>4. CASE e \in ToSet(task[a].cancelled)
      <4>1. A5 = {a} /\ A4 = {}
        BY <3>1, <3>4, <1>4, <1>5 DEF Carries, Busy
      <4> QED
        BY <3>2, <4>1 DEF Single
    <3> QED
      BY <3>1, <3>3, <3>4 DEF Carries
  <2>2. CASE ~\E a \in Busy(task) : e \in Carries(task[a])
    <3>1. A4 = {} /\ A5 = {}
      BY <2>2 DEF Busy, Carries
    <3>2. c \in Channels /\ e \in QueueHolds(q, c)
      <4>1. InQueue(e) \/ InTurn(e)
        BY DEF Held
      <4>2. InQueue(e)
        BY <4>1, <2>2, HeldMeans
      <4> QED
        BY <4>2, <1>3 DEF InQueue
    <3>3. A1 \subseteq {c} /\ A2 \subseteq {c} /\ A3 \subseteq {c}
      BY <1>3 DEF QueueHolds
    <3>4. CASE e \in ToSet(q.queues[c])
      <4>1. A1 = {c} /\ A2 = {} /\ A3 = {}
        BY <3>2, <3>3, <3>4, <1>6
      <4> QED
        BY <3>1, <4>1 DEF Single
    <3>5. CASE e \in ToSet(q.cancelled[c])
      <4>1. A1 = {} /\ A2 = {c} /\ A3 = {}
        BY <3>2, <3>3, <3>5, <1>6
      <4> QED
        BY <3>1, <4>1 DEF Single
    <3>6. CASE e \in ToSet(q.withheld[c])
      <4>1. A1 = {} /\ A2 = {} /\ A3 = {c}
        BY <3>2, <3>3, <3>6, <1>6
      <4> QED
        BY <3>1, <4>1 DEF Single
    <3> QED
      BY <3>2, <3>4, <3>5, <3>6 DEF QueueHolds
  <2> QED
    BY <2>1, <2>2
<1> HIDE DEF A1, A2, A3, A4, A5
<1>8. Cardinality(Places(A1, A2, A3, A4, A5)) = 1
  BY <1>7, OnePlace
<1> QED
  BY <1>8 DEF Places, A1, A2, A3, A4, A5

(* One turn, and its channel's mark.                                       *)
LEMMA OneTurnHolds == Inductive => OneTurnPerChannel
<1> SUFFICES ASSUME Inductive, NEW c \in Channels \ expired
             PROVE  /\ Cardinality(TasksOf(c)) <= 1
                    /\ (TasksOf(c) # {}) = (q.inFlight[c] # "no")
  BY DEF OneTurnPerChannel
<1>1. /\ \A a, b \in Busy(task) : task[a].chan = c /\ task[b].chan = c => a = b
      /\ (\E a \in Busy(task) : task[a].chan = c) <=> q.inFlight[c] # "no"
  BY DEF Inductive, Events_, EventInv, OneTurn
<1>2. \A a : a \in TasksOf(c) <=> a \in Busy(task) /\ task[a].chan = c
  BY DEF TasksOf, Busy
<1>3. Cardinality(TasksOf(c)) <= 1
  <2>1. CASE TasksOf(c) = {}
    BY <2>1, FS_EmptySet
  <2>2. CASE TasksOf(c) # {}
    <3>1. \E x : TasksOf(c) = {x}
      BY <1>1, <1>2, <2>2
    <3>2. Cardinality(TasksOf(c)) = 1
      BY <3>1, FS_Singleton
    <3> QED
      BY <3>2
  <2> QED
    BY <2>1, <2>2
<1>4. (TasksOf(c) # {}) <=> (q.inFlight[c] # "no")
  BY <1>1, <1>2
<1> QED
  BY <1>3, <1>4

(* Types, one place per event and one turn per channel, whatever the       *)
(* interleaving of events, results, steers, expiry, respawns and sleep.    *)
THEOREM HarnessInvariant == Spec => []HarnessInv
<1>1. Inductive => HarnessInv
  BY TypesHold, HeldInOne, OneTurnHolds DEF HarnessInv
<1> QED
  BY <1>1, InductiveInvariant, PTL

(* No accepted event is lost but with a merged batch: every handler that   *)
(* takes an event out of a list or ends its turn puts it elsewhere or      *)
(* settles it.                                                             *)
THEOREM NothingElseLost == Spec => []OnlyMergedLost
<1>1. Inductive => OnlyMergedLost
  <2> SUFFICES ASSUME Inductive, NEW e \in accepted, e \notin Held, e \notin resolved
               PROVE  e \in merged
    BY DEF OnlyMergedLost
  <2>1. e \in Events /\ (HeldBy(q, task, e) \/ e \in merged)
    BY DEF Inductive, Events_, EventInv, Typed, Accounted
  <2> QED
    BY <2>1, HeldMeans DEF Held
<1> QED
  BY <1>1, InductiveInvariant, PTL

(* A settled event, or one whose steer landed, is not prompted again while *)
(* the deadline of its channel has not fired: a steer's event is withheld  *)
(* from the moment it is offered until its ack is handled.                 *)
THEOREM NoneDeliveredTwice == Spec => []DeliveredOnce
<1>1. Inductive => DeliveredOnce
  <2> SUFFICES ASSUME Inductive, NEW e \in Steered \cup resolved, ChannelOf[e] \notin expired
               PROVE  /\ ~InTurn(e)
                      /\ \A c \in Channels : e \notin ToSet(q.queues[c]) \cup ToSet(q.cancelled[c])
    BY DEF DeliveredOnce
  <2>1. /\ Lists(q) /\ Turns(q, task) /\ Final(q, task, resolved, expired) /\ acks \subseteq Acks
        /\ HeldBack(q, task, acks, accepted, resolved, expired)
    BY DEF Inductive, Events_, EventInv, Typed
  <2>2. CASE e \in resolved
    <3>1. ~HeldBy(q, task, e)
      BY <2>1, <2>2 DEF Final
    <3> QED
      BY <3>1, HeldMeans DEF InQueue, QueueHolds
  <2>3. CASE e \notin resolved
    <3>1. PICK k \in acks : k.event = e
      BY <2>3 DEF Steered
    <3>2. e \in Events
      BY <2>1, <3>1 DEF Acks
    <3>3. Pending(task, acks, e)
      BY <3>1 DEF Pending
    <3>4. PICK c : c = ChannelOf[e]
      OBVIOUS
    <3>5. e \in ToSet(q.withheld[c]) /\ c \in Channels
      BY <2>1, <2>3, <3>2, <3>3, <3>4, HarnessAssumption DEF HeldBack
    <3>6. ~InTurn(e)
      <4>1. e \in QueueHolds(q, c)
        BY <3>5 DEF QueueHolds
      <4>2. ~\E a \in Busy(task) : e \in Carries(task[a])
        BY <2>1, <3>5, <4>1 DEF Turns
      <4> QED
        BY <4>2, HeldMeans
    <3>7. ASSUME NEW d \in Channels PROVE e \notin ToSet(q.queues[d]) \cup ToSet(q.cancelled[d])
      <4>1. CASE d = c
        BY <2>1, <3>5, <4>1 DEF Lists, ListsFit
      <4>2. CASE d # c
        BY <2>1, <3>4, <4>2 DEF Lists, ListsFit, Mine
      <4> QED
        BY <4>1, <4>2
    <3> QED
      BY <3>6, <3>7
  <2> QED
    BY <2>2, <2>3
<1> QED
  BY <1>1, InductiveInvariant, PTL

(* MAX_RETRIES bounds the failures in a row that put a batch back: the     *)
(* queue's own count, which throttle, maintenance and success may reset,   *)
(* is never behind the failures that really happened in a row.             *)
THEOREM RetriesBounded == Spec => []RetryBudget
<1>1. Inductive => RetryBudget
  <2> SUFFICES ASSUME Inductive, NEW c \in Channels \ expired PROVE strikes[c] <= MaxRetries
    BY DEF RetryBudget
  <2>1. /\ q \in QueueType /\ strikes \in [Channels -> Nat] /\ strikes[c] <= q.retryCounts[c]
    BY DEF Inductive, Events_, EventInv, Typed, Retries
  <2>2. q.retryCounts[c] \in 0..MaxRetries /\ strikes[c] \in Nat
    BY <2>1 DEF QueueType
  <2> QED
    BY <2>1, <2>2, QueueAssumption
<1> QED
  BY <1>1, InductiveInvariant, PTL

(* No agent is overwritten in its slot: what a respawn, a result or a wake *)
(* brings finds the slot empty.                                            *)
THEOREM SlotsAreExclusive == Spec => []SlotsExclusive
<1>1. Inductive => SlotsExclusive
  BY DEF Inductive
<1> QED
  BY <1>1, InductiveInvariant, PTL
=============================================================================
