------------------------ MODULE AttemptLimiterProofs ------------------------
(***************************************************************************)
(* Theorems about AttemptLimiter, for every policy and every set of keys.  *)
(***************************************************************************)
EXTENDS AttemptLimiter, FiniteSetTheorems, SequenceTheorems, WellFoundedInduction, TLAPS

-----------------------------------------------------------------------------
(***************************************************************************)
(* Lists.                                                                  *)
(***************************************************************************)

(* A nonempty set of list positions has a last one (FiniteSetsExt!Max).    *)
LEMMA MaxOfPositions ==
  ASSUME NEW n \in Nat, NEW I \in SUBSET (1..n), I # {}
  PROVE  Max(I) \in I /\ \A i \in I : i <= Max(I)
<1> DEFINE D == {d \in Nat : \E i \in I : d = n - i}
<1>1. PICK i0 \in I : TRUE
  OBVIOUS
<1>2. D \subseteq Nat /\ n - i0 \in D
  OBVIOUS
<1>3. PICK d \in D : \A e \in D : ~ (<<e, d>> \in OpToRel(<, Nat))
  <2> HIDE DEF D
  <2>1. D \subseteq Nat /\ D # {}
    BY <1>2
  <2> QED
    BY <2>1, NatLessThanWellFounded, WFMin
<1>4. \A e \in D : d <= e
  <2> SUFFICES ASSUME NEW e \in D PROVE ~ (e < d)
    OBVIOUS
  <2>1. e \in Nat /\ d \in Nat
    BY <1>2
  <2>2. e < d => <<e, d>> \in OpToRel(<, Nat)
    BY <2>1 DEF OpToRel
  <2> QED
    BY <1>3, <2>2
<1>5. PICK m \in I : d = n - m
  BY <1>3
<1>6. \A i \in I : m >= i
  <2> SUFFICES ASSUME NEW i \in I PROVE m >= i
    OBVIOUS
  <2>1. n - i \in D
    OBVIOUS
  <2> QED
    BY <1>4, <1>5, <2>1
<1>7. \E x \in I : \A y \in I : x >= y
  BY <1>6
<1>8. Max(I) \in I /\ \A y \in I : Max(I) >= y
  BY <1>7 DEF Max
<1> QED
  BY <1>8

(* Removing position i from a list of distinct elements.                    *)
LEMMA RemoveAtList ==
  ASSUME NEW S, NEW s \in Seq(S), IsInjective(s), NEW i \in 1..Len(s)
  PROVE  /\ RemoveAt(s, i) \in Seq(S)
         /\ Len(RemoveAt(s, i)) = Len(s) - 1
         /\ \A j \in 1..(Len(s) - 1) :
              RemoveAt(s, i)[j] = IF j < i THEN s[j] ELSE s[j + 1]
<1> DEFINE a == SubSeq(s, 1, i - 1)
           b == SubSeq(s, i + 1, Len(s))
<1>1. /\ a \in Seq(S) /\ Len(a) = i - 1
      /\ \A j \in 1..(i - 1) : a[j] = s[j]
  OBVIOUS
<1>2. /\ b \in Seq(S) /\ Len(b) = Len(s) - i
      /\ \A j \in 1..(Len(s) - i) : b[j] = s[i + j]
  OBVIOUS
<1>3. RemoveAt(s, i) = a \o b
  BY DEF RemoveAt
<1> HIDE DEF a, b
<1>4. /\ a \o b \in Seq(S) /\ Len(a \o b) = Len(a) + Len(b)
      /\ \A j \in 1..(Len(a) + Len(b)) :
            (a \o b)[j] = IF j <= Len(a) THEN a[j] ELSE b[j - Len(a)]
  BY <1>1, <1>2, ConcatProperties
<1>5. Len(a) + Len(b) = Len(s) - 1
  BY <1>1, <1>2
<1>6. ASSUME NEW j \in 1..(Len(s) - 1)
      PROVE  (a \o b)[j] = IF j < i THEN s[j] ELSE s[j + 1]
  <2>1. CASE j < i
    BY <2>1, <1>1, <1>4, <1>5
  <2>2. CASE ~ (j < i)
    <3>1. j - (i - 1) \in 1..(Len(s) - i) /\ i + (j - (i - 1)) = j + 1
      BY <2>2
    <3>2. b[j - (i - 1)] = s[j + 1]
      BY <3>1, <1>2
    <3> QED
      BY <2>2, <3>2, <1>1, <1>4, <1>5
  <2> QED
    BY <2>1, <2>2
<1> QED
  BY <1>3, <1>4, <1>5, <1>6

(* list.Remove on the element of k, in a list with no key twice.            *)
LEMMA ListRemove ==
  ASSUME NEW S, NEW s \in Seq(S), IsInjective(s), NEW k
  PROVE  /\ listRemove(s, k) \in Seq(S)
         /\ IsInjective(listRemove(s, k))
         /\ ToSet(listRemove(s, k)) = ToSet(s) \ {k}
         /\ \A a, b : Before(listRemove(s, k), a, b) => Before(s, a, b)
<1>1. CASE ~ \E i \in 1..Len(s) : s[i] = k
  <2>1. listRemove(s, k) = s
    BY <1>1 DEF listRemove, RemoveFirst
  <2>2. k \notin ToSet(s)
    BY <1>1 DEF ToSet
  <2> QED
    BY <2>1, <2>2
<1>2. ASSUME NEW i \in 1..Len(s), s[i] = k
      PROVE  /\ listRemove(s, k) \in Seq(S)
             /\ IsInjective(listRemove(s, k))
             /\ ToSet(listRemove(s, k)) = ToSet(s) \ {k}
             /\ \A a, b : Before(listRemove(s, k), a, b) => Before(s, a, b)
  <2> DEFINE I == {j \in 1..Len(s) : s[j] = k}
             t == RemoveAt(s, i)
  <2>1. I = {i}
    BY <1>2 DEF IsInjective
  <2>2. Min(I) = i
    BY <2>1 DEF Min
  <2>3. listRemove(s, k) = t
    BY <1>2, <2>1, <2>2 DEF listRemove, RemoveFirst, SelectInSeq
  <2> HIDE DEF t
  <2>4. /\ t \in Seq(S) /\ Len(t) = Len(s) - 1
        /\ \A j \in 1..(Len(s) - 1) : t[j] = IF j < i THEN s[j] ELSE s[j + 1]
    BY RemoveAtList DEF t
  <2>5. IsInjective(t)
    <3> SUFFICES ASSUME NEW p \in 1..(Len(s) - 1), NEW q \in 1..(Len(s) - 1),
                        t[p] = t[q]
                 PROVE  p = q
      BY <2>4 DEF IsInjective
    <3> DEFINE P == IF p < i THEN p ELSE p + 1
               Q == IF q < i THEN q ELSE q + 1
    <3>1. P \in 1..Len(s) /\ Q \in 1..Len(s) /\ s[P] = s[Q]
      BY <2>4
    <3>2. P = Q
      <4> HIDE DEF P, Q
      <4> QED BY <3>1 DEF IsInjective
    <3> QED
      BY <3>2
  <2>6. ToSet(t) = ToSet(s) \ {k}
    <3>1. ASSUME NEW x \in ToSet(t) PROVE x \in ToSet(s) \ {k}
      <4>1. PICK j \in 1..(Len(s) - 1) : x = t[j]
        BY <2>4 DEF ToSet
      <4>2. \E m \in 1..Len(s) : m # i /\ x = s[m]
        <5>1. CASE j < i
          BY <5>1, <4>1, <2>4
        <5>2. CASE ~ (j < i)
          BY <5>2, <4>1, <2>4
        <5> QED
          BY <5>1, <5>2
      <4> QED
        BY <4>2, <1>2 DEF ToSet, IsInjective
    <3>2. ASSUME NEW x \in ToSet(s) \ {k} PROVE x \in ToSet(t)
      <4>1. PICK m \in 1..Len(s) : x = s[m]
        BY DEF ToSet
      <4>2. m # i
        BY <4>1, <1>2
      <4>3. CASE m < i
        BY <4>3, <4>1, <2>4 DEF ToSet
      <4>4. CASE m > i
        <5>1. m - 1 \in 1..(Len(s) - 1) /\ t[m - 1] = s[m]
          BY <4>4, <2>4
        <5> QED
          BY <5>1, <4>1, <2>4 DEF ToSet
      <4> QED
        BY <4>2, <4>3, <4>4
    <3> QED
      BY <3>1, <3>2
  <2>7. ASSUME NEW a, NEW b, Before(t, a, b) PROVE Before(s, a, b)
    <3>1. PICK p, q \in 1..(Len(s) - 1) : p < q /\ t[p] = a /\ t[q] = b
      BY <2>4, <2>7 DEF Before
    <3> DEFINE P == IF p < i THEN p ELSE p + 1
               Q == IF q < i THEN q ELSE q + 1
    <3>2. P \in 1..Len(s) /\ Q \in 1..Len(s) /\ P < Q
      BY <3>1
    <3>3. s[P] = a /\ s[Q] = b
      BY <3>1, <2>4
    <3> QED
      BY <3>2, <3>3 DEF Before
  <2> QED
    BY <2>3, <2>4, <2>5, <2>6, <2>7
<1> QED
  BY <1>1, <1>2

(* list.PushFront of a key the list does not hold.                          *)
LEMMA ListPushFront ==
  ASSUME NEW S, NEW s \in Seq(S), IsInjective(s), NEW k \in S, k \notin ToSet(s)
  PROVE  /\ <<k>> \o s \in Seq(S)
         /\ IsInjective(<<k>> \o s)
         /\ ToSet(<<k>> \o s) = ToSet(s) \cup {k}
         /\ \A a, b : Before(<<k>> \o s, a, b) =>
                        \/ a = k /\ b \in ToSet(s)
                        \/ Before(s, a, b)
<1> DEFINE t == <<k>> \o s
<1>1. /\ t \in Seq(S) /\ Len(t) = Len(s) + 1
      /\ \A j \in 1..(Len(s) + 1) : t[j] = IF j = 1 THEN k ELSE s[j - 1]
  OBVIOUS
<1> HIDE DEF t
<1>2. \A j \in 1..Len(s) : s[j] # k
  BY DEF ToSet
<1>3. IsInjective(t)
  <2> SUFFICES ASSUME NEW p \in 1..(Len(s) + 1), NEW q \in 1..(Len(s) + 1),
                      t[p] = t[q]
               PROVE  p = q
    BY <1>1 DEF IsInjective
  <2>1. CASE p = 1 \/ q = 1
    BY <2>1, <1>1, <1>2
  <2>2. CASE p # 1 /\ q # 1
    <3>1. p - 1 \in 1..Len(s) /\ q - 1 \in 1..Len(s) /\ s[p - 1] = s[q - 1]
      BY <2>2, <1>1
    <3>2. p - 1 = q - 1
      BY <3>1 DEF IsInjective
    <3> QED
      BY <3>2
  <2> QED
    BY <2>1, <2>2
<1>4. ToSet(t) = ToSet(s) \cup {k}
  <2>1. ASSUME NEW x \in ToSet(t) PROVE x \in ToSet(s) \cup {k}
    <3>1. PICK j \in 1..(Len(s) + 1) : x = t[j]
      BY <1>1 DEF ToSet
    <3>2. CASE j = 1
      BY <3>1, <3>2, <1>1
    <3>3. CASE j # 1
      <4>1. j - 1 \in 1..Len(s) /\ x = s[j - 1]
        BY <3>1, <3>3, <1>1
      <4> QED
        BY <4>1 DEF ToSet
    <3> QED
      BY <3>2, <3>3
  <2>2. ASSUME NEW x \in ToSet(s) PROVE x \in ToSet(t)
    <3>1. PICK j \in 1..Len(s) : x = s[j]
      BY DEF ToSet
    <3>2. j + 1 \in 1..Len(t) /\ t[j + 1] = x
      BY <3>1, <1>1
    <3> QED
      BY <3>2, <1>1 DEF ToSet
  <2>3. k \in ToSet(t)
    <3>1. 1 \in 1..Len(t) /\ t[1] = k
      BY <1>1
    <3> QED
      BY <3>1, <1>1 DEF ToSet
  <2> QED
    BY <2>1, <2>2, <2>3
<1>5. ASSUME NEW a, NEW b, Before(t, a, b)
      PROVE  (a = k /\ b \in ToSet(s)) \/ Before(s, a, b)
  <2>1. PICK p, q \in 1..(Len(s) + 1) : p < q /\ t[p] = a /\ t[q] = b
    BY <1>1, <1>5 DEF Before
  <2>2. q - 1 \in 1..Len(s) /\ b = s[q - 1]
    BY <2>1, <1>1
  <2>3. CASE p = 1
    BY <2>1, <2>2, <2>3, <1>1 DEF ToSet
  <2>4. CASE p # 1
    <3>1. p - 1 \in 1..Len(s) /\ a = s[p - 1] /\ p - 1 < q - 1
      BY <2>1, <2>4, <1>1
    <3> QED
      BY <2>2, <3>1 DEF Before
  <2> QED
    BY <2>3, <2>4
<1> QED
  BY <1>1, <1>3, <1>4, <1>5 DEF t

(* Popping the back of a list down to its first n elements.                 *)
LEMMA ListPop ==
  ASSUME NEW S, NEW s \in Seq(S), IsInjective(s), NEW n \in 0..Len(s)
  PROVE  /\ SubSeq(s, 1, n) \in Seq(S)
         /\ IsInjective(SubSeq(s, 1, n))
         /\ ToSet(SubSeq(s, 1, n)) = {s[i] : i \in 1..n}
         /\ ToSet(SubSeq(s, n + 1, Len(s))) = {s[i] : i \in (n + 1)..Len(s)}
         /\ ToSet(SubSeq(s, 1, n)) = ToSet(s) \ ToSet(SubSeq(s, n + 1, Len(s)))
         /\ ToSet(SubSeq(s, n + 1, Len(s))) \subseteq ToSet(s)
         /\ \A a, b : Before(SubSeq(s, 1, n), a, b) => Before(s, a, b)
<1> DEFINE t == SubSeq(s, 1, n)
           u == SubSeq(s, n + 1, Len(s))
<1>1. /\ t \in Seq(S) /\ Len(t) = n /\ DOMAIN t = 1..n
      /\ \A i \in 1..n : t[i] = s[i]
  OBVIOUS
<1>2. /\ u \in Seq(S) /\ Len(u) = Len(s) - n /\ DOMAIN u = 1..(Len(s) - n)
      /\ \A i \in 1..(Len(s) - n) : u[i] = s[n + i]
  OBVIOUS
<1> HIDE DEF t, u
<1>3. IsInjective(t)
  BY <1>1 DEF IsInjective
<1>4. ToSet(t) = {s[i] : i \in 1..n}
  BY <1>1 DEF ToSet
<1>5. ToSet(u) = {s[i] : i \in (n + 1)..Len(s)}
  <2>1. ASSUME NEW x \in ToSet(u) PROVE x \in {s[i] : i \in (n + 1)..Len(s)}
    <3>1. PICK j \in 1..(Len(s) - n) : x = u[j]
      BY <1>2 DEF ToSet
    <3>2. n + j \in (n + 1)..Len(s) /\ x = s[n + j]
      BY <3>1, <1>2
    <3> QED
      BY <3>2
  <2>2. ASSUME NEW i \in (n + 1)..Len(s) PROVE s[i] \in ToSet(u)
    <3>1. i - n \in 1..(Len(s) - n) /\ u[i - n] = s[i]
      BY <1>2
    <3> QED
      BY <3>1, <1>2 DEF ToSet
  <2> QED
    BY <2>1, <2>2
<1>6. ToSet(s) = {s[i] : i \in 1..Len(s)}
  BY DEF ToSet
<1>7. ToSet(t) = ToSet(s) \ ToSet(u) /\ ToSet(u) \subseteq ToSet(s)
  BY <1>4, <1>5, <1>6 DEF IsInjective
<1>8. ASSUME NEW a, NEW b, Before(t, a, b) PROVE Before(s, a, b)
  BY <1>1, <1>8 DEF Before
<1> QED
  BY <1>1, <1>3, <1>4, <1>5, <1>7, <1>8 DEF t, u

-----------------------------------------------------------------------------
(***************************************************************************)
(* The helpers, one lemma each.                                            *)
(***************************************************************************)

(* removeLocked on a tracked key keeps the table's invariant and takes that *)
(* key, and nothing else, out of it.                                        *)
LEMMA RemoveLocked ==
  ASSUME NEW l, TableInv(l), NEW k \in Tracked(l)
  PROVE  /\ TableInv(removeLocked(l, k))
         /\ removeLocked(l, k).entries = [l.entries EXCEPT ![k] = NoEntry]
         /\ removeLocked(l, k).latest = l.latest
         /\ removeLocked(l, k).nextEpoch = l.nextEpoch
         /\ Tracked(removeLocked(l, k)) = Tracked(l) \ {k}
         /\ Size(removeLocked(l, k)) = Size(l) - 1
<1> DEFINE m == removeLocked(l, k)
<1> USE PolicyAssumption
<1>1. k \in Key /\ l \in LimiterState
  BY DEF Tracked, TableInv
<1>2. /\ m.entries = [l.entries EXCEPT ![k] = NoEntry]
      /\ m.latest = l.latest
      /\ m.nextEpoch = l.nextEpoch
      /\ m.counting = IF l.entries[k].locked THEN l.counting ELSE listRemove(l.counting, k)
      /\ m.locks = IF l.entries[k].locked THEN listRemove(l.locks, k) ELSE l.locks
  BY <1>1 DEF removeLocked, LimiterState
<1> HIDE DEF m
<1>3. NoEntry \in Entry /\ l.entries \in [Key -> Entry] /\ l.latest \in Nat
  BY <1>1 DEF NoEntry, Entry, LimiterState
<1>4. m.entries \in [Key -> Entry]
  BY <1>1, <1>2, <1>3
<1>5. OneListIn(l) /\ l.counting \in Seq(Key) /\ l.locks \in Seq(Key)
  BY <1>1 DEF TableInv, LimiterState
<1>5a. \A s \in {l.counting, l.locks} :
         /\ listRemove(s, k) \in Seq(Key)
         /\ IsInjective(listRemove(s, k))
         /\ ToSet(listRemove(s, k)) = ToSet(s) \ {k}
         /\ \A a, b : Before(listRemove(s, k), a, b) => Before(s, a, b)
  <2> SUFFICES ASSUME NEW s \in Seq(Key), IsInjective(s)
               PROVE  /\ listRemove(s, k) \in Seq(Key)
                      /\ IsInjective(listRemove(s, k))
                      /\ ToSet(listRemove(s, k)) = ToSet(s) \ {k}
                      /\ \A a, b : Before(listRemove(s, k), a, b) => Before(s, a, b)
    BY <1>5 DEF OneListIn
  <2> QED
    BY ListRemove
<1>6. /\ m.counting \in Seq(Key) /\ IsInjective(m.counting)
      /\ ToSet(m.counting) = IF l.entries[k].locked THEN ToSet(l.counting)
                                                     ELSE ToSet(l.counting) \ {k}
      /\ \A a, b : Before(m.counting, a, b) => Before(l.counting, a, b)
  BY <1>2, <1>5, <1>5a DEF OneListIn
<1>7. /\ m.locks \in Seq(Key) /\ IsInjective(m.locks)
      /\ ToSet(m.locks) = IF l.entries[k].locked THEN ToSet(l.locks) \ {k}
                                                  ELSE ToSet(l.locks)
      /\ \A a, b : Before(m.locks, a, b) => Before(l.locks, a, b)
  BY <1>2, <1>5, <1>5a DEF OneListIn
<1>8. m \in LimiterState
  <2>1. m \in [entries : [Key -> Entry], nextEpoch : Nat, latest : Nat,
               counting : Seq(Key), locks : Seq(Key)]
    BY <1>1, <1>3, <1>5, <1>5a DEF LimiterState, m, removeLocked
  <2> QED
    BY <2>1 DEF LimiterState
<1>9. Tracked(m) = Tracked(l) \ {k}
  BY <1>1, <1>2, <1>3 DEF Tracked, NoEntry
<1>10. OneListIn(m)
  BY <1>1, <1>2, <1>3, <1>5, <1>6, <1>7, <1>9 DEF OneListIn, Tracked
<1>11. \A a, b : /\ Before(m.counting, a, b) => a # k /\ b # k
                 /\ Before(m.locks, a, b) => a # k /\ b # k
  <2>1. k \notin ToSet(m.counting) /\ k \notin ToSet(m.locks)
    BY <1>9, <1>10 DEF OneListIn
  <2> QED
    BY <2>1, <1>6, <1>7 DEF ToSet, Before
<1>12. OrderedIn(m)
  BY <1>1, <1>2, <1>3, <1>6, <1>7, <1>11 DEF OrderedIn, TableInv
<1>13. StampedIn(m)
  BY <1>1, <1>2, <1>3 DEF StampedIn, TableInv, NoEntry
<1>14. IsFiniteSet(Tracked(m)) /\ Size(m) = Size(l) - 1 /\ Size(l) \in Nat
  BY <1>9, FS_RemoveElement, FS_CardinalityType DEF TableInv, Size
<1>15. TableInv(m)
  BY <1>8, <1>10, <1>12, <1>13, <1>14 DEF TableInv
<1> QED
  BY <1>2, <1>9, <1>14, <1>15 DEF m

(* What is behind the last position of s that satisfies a test.  (The test  *)
(* is the set of positions J, since the provers take no operator            *)
(* parameters.)                                                             *)
LEMMA LastPosition ==
  ASSUME NEW n \in Nat, NEW J \in SUBSET (1..n),
         NEW m, m = IF J # {} THEN Max(J) ELSE 0
  PROVE  /\ m \in 0..n
         /\ m # 0 => m \in J
         /\ \A i \in (m + 1)..n : i \notin J
<1>1. CASE J = {}
  BY <1>1
<1>2. CASE J # {}
  <2>1. m \in J /\ \A i \in J : i <= m
    BY <1>2, MaxOfPositions
  <2> QED
    BY <2>1
<1> QED
  BY <1>1, <1>2

(* k's entry has aged out at "now".                                         *)
Aged(l, k, now) ==
  k \in Tracked(l) /\ IF l.entries[k].locked THEN lockoutOver(l, k, now)
                                             ELSE idleForAWindow(l, k, now)

(* expireLocked forgets exactly what has aged out: the table keeps its      *)
(* invariant, nothing left is aged, and nothing in force is dropped.        *)
LEMMA ExpireLocked ==
  ASSUME NEW l, TableInv(l)
  PROVE  /\ TableInv(expireLocked(l, l.latest))
         /\ LiveIn(expireLocked(l, l.latest))
         /\ expireLocked(l, l.latest).latest = l.latest
         /\ expireLocked(l, l.latest).nextEpoch = l.nextEpoch
         /\ Tracked(expireLocked(l, l.latest)) \subseteq Tracked(l)
         /\ \A k \in Tracked(expireLocked(l, l.latest)) :
               expireLocked(l, l.latest).entries[k] = l.entries[k]
         /\ \A k \in Tracked(l) :
               l.entries[k].locked /\ l.latest < l.entries[k].lockedUntil
                 => k \in Tracked(expireLocked(l, l.latest))
         /\ \A k \in Key : \/ expireLocked(l, l.latest).entries[k] = l.entries[k]
                          \/ /\ expireLocked(l, l.latest).entries[k] = NoEntry
                             /\ Aged(l, k, l.latest)
<1> DEFINE now == l.latest
           liveC == SelectLastInSeq(l.counting, LAMBDA k : ~ idleForAWindow(l, k, now))
           liveL == SelectLastInSeq(l.locks, LAMBDA k : ~ lockoutOver(l, k, now))
           outC == ToSet(SubSeq(l.counting, liveC + 1, Len(l.counting)))
           outL == ToSet(SubSeq(l.locks, liveL + 1, Len(l.locks)))
           m == expireLocked(l, now)
<1>1. /\ l \in LimiterState /\ OneListIn(l) /\ OrderedIn(l) /\ StampedIn(l)
      /\ IsFiniteSet(Tracked(l)) /\ Size(l) <= MaxTrackedKeys
  BY DEF TableInv
<1>2. /\ l.counting \in Seq(Key) /\ l.locks \in Seq(Key) /\ now \in Nat
      /\ l.entries \in [Key -> Entry] /\ l.nextEpoch \in Nat
      /\ IsInjective(l.counting) /\ IsInjective(l.locks)
      /\ LockoutWindow \in Nat \ {0} /\ MaxTrackedKeys \in Nat \ {0}
  BY <1>1, PolicyAssumption DEF LimiterState, OneListIn
<1>3. /\ liveC \in 0..Len(l.counting)
      /\ liveC # 0 => ~ idleForAWindow(l, l.counting[liveC], now)
      /\ \A i \in (liveC + 1)..Len(l.counting) : idleForAWindow(l, l.counting[i], now)
  <2> DEFINE J == {i \in 1..Len(l.counting) : ~ idleForAWindow(l, l.counting[i], now)}
  <2>1. liveC = IF J # {} THEN Max(J) ELSE 0
    BY DEF SelectLastInSeq
  <2>2. J \in SUBSET (1..Len(l.counting)) /\ Len(l.counting) \in Nat
    BY <1>2
  <2>3. /\ liveC \in 0..Len(l.counting)
        /\ liveC # 0 => liveC \in J
        /\ \A i \in (liveC + 1)..Len(l.counting) : i \notin J
    <3> HIDE DEF J, liveC
    <3> QED BY <2>1, <2>2, LastPosition
  <2> HIDE DEF liveC
  <2> QED
    BY <2>3
<1>4. /\ liveL \in 0..Len(l.locks)
      /\ liveL # 0 => ~ lockoutOver(l, l.locks[liveL], now)
      /\ \A i \in (liveL + 1)..Len(l.locks) : lockoutOver(l, l.locks[i], now)
  <2> DEFINE J == {i \in 1..Len(l.locks) : ~ lockoutOver(l, l.locks[i], now)}
  <2>1. liveL = IF J # {} THEN Max(J) ELSE 0
    BY DEF SelectLastInSeq
  <2>2. J \in SUBSET (1..Len(l.locks)) /\ Len(l.locks) \in Nat
    BY <1>2
  <2>3. /\ liveL \in 0..Len(l.locks)
        /\ liveL # 0 => liveL \in J
        /\ \A i \in (liveL + 1)..Len(l.locks) : i \notin J
    <3> HIDE DEF J, liveL
    <3> QED BY <2>1, <2>2, LastPosition
  <2> HIDE DEF liveL
  <2> QED
    BY <2>3
<1>5. m = [l EXCEPT !.entries = [k \in Key |-> IF k \in outC \cup outL THEN NoEntry ELSE @[k]],
                    !.counting = SubSeq(@, 1, liveC),
                    !.locks = SubSeq(@, 1, liveL)]
  BY DEF expireLocked
<1> HIDE DEF liveC, liveL, outC, outL
<1>6. /\ m.entries = [k \in Key |-> IF k \in outC \cup outL THEN NoEntry ELSE l.entries[k]]
      /\ m.counting = SubSeq(l.counting, 1, liveC)
      /\ m.locks = SubSeq(l.locks, 1, liveL)
      /\ m.latest = l.latest
      /\ m.nextEpoch = l.nextEpoch
  BY <1>1, <1>5 DEF LimiterState
<1> DEFINE keptC == SubSeq(l.counting, 1, liveC)
           keptL == SubSeq(l.locks, 1, liveL)
<1>7. /\ keptC \in Seq(Key)
      /\ IsInjective(keptC)
      /\ ToSet(keptC) = {l.counting[i] : i \in 1..liveC}
      /\ outC = {l.counting[i] : i \in (liveC + 1)..Len(l.counting)}
      /\ ToSet(keptC) = ToSet(l.counting) \ outC
      /\ outC \subseteq ToSet(l.counting)
      /\ \A a, b : Before(keptC, a, b) => Before(l.counting, a, b)
  BY <1>2, <1>3, ListPop DEF outC
<1>8. /\ keptL \in Seq(Key)
      /\ IsInjective(keptL)
      /\ ToSet(keptL) = {l.locks[i] : i \in 1..liveL}
      /\ outL = {l.locks[i] : i \in (liveL + 1)..Len(l.locks)}
      /\ ToSet(keptL) = ToSet(l.locks) \ outL
      /\ outL \subseteq ToSet(l.locks)
      /\ \A a, b : Before(keptL, a, b) => Before(l.locks, a, b)
  BY <1>2, <1>4, ListPop DEF outL
<1>9. NoEntry \in Entry
  BY DEF NoEntry, Entry
<1>10. m \in LimiterState
  <2>1. [k \in Key |-> IF k \in outC \cup outL THEN NoEntry ELSE l.entries[k]] \in [Key -> Entry]
    BY <1>2, <1>9
  <2> QED
    BY <1>1, <1>5, <1>7, <1>8, <2>1 DEF LimiterState
<1> HIDE DEF m, keptC, keptL
<1>11. Tracked(m) = Tracked(l) \ (outC \cup outL)
  BY <1>6 DEF Tracked, NoEntry
<1>12. \A k \in Tracked(m) : m.entries[k] = l.entries[k]
  BY <1>6, <1>11 DEF Tracked
<1>13. /\ ToSet(l.counting) = {k \in Tracked(l) : ~ l.entries[k].locked}
       /\ ToSet(l.locks) = {k \in Tracked(l) : l.entries[k].locked}
  BY <1>1 DEF OneListIn
<1>14. /\ ToSet(m.counting) = {k \in Tracked(m) : ~ m.entries[k].locked}
       /\ ToSet(m.locks) = {k \in Tracked(m) : m.entries[k].locked}
  BY <1>6, <1>7, <1>8, <1>11, <1>12, <1>13 DEF keptC, keptL
<1>15. OneListIn(m)
  BY <1>6, <1>7, <1>8, <1>14 DEF OneListIn, keptC, keptL
<1>16. OrderedIn(m)
  <2> SUFFICES ASSUME NEW a \in Key, NEW b \in Key
               PROVE  /\ Before(m.counting, a, b)
                           => m.entries[b].lastActivity <= m.entries[a].lastActivity
                      /\ Before(m.locks, a, b)
                           => m.entries[b].lockedUntil <= m.entries[a].lockedUntil
    BY DEF OrderedIn
  <2>1. ASSUME Before(m.counting, a, b)
        PROVE  m.entries[b].lastActivity <= m.entries[a].lastActivity
    <3>1. a \in ToSet(m.counting) /\ b \in ToSet(m.counting)
      BY <2>1, <1>6, <1>7 DEF Before, ToSet, keptC
    <3>2. m.entries[a] = l.entries[a] /\ m.entries[b] = l.entries[b]
      BY <3>1, <1>12, <1>14
    <3> QED
      BY <2>1, <3>2, <1>1, <1>6, <1>7 DEF OrderedIn, keptC
  <2>2. ASSUME Before(m.locks, a, b)
        PROVE  m.entries[b].lockedUntil <= m.entries[a].lockedUntil
    <3>1. a \in ToSet(m.locks) /\ b \in ToSet(m.locks)
      BY <2>2, <1>6, <1>8 DEF Before, ToSet, keptL
    <3>2. m.entries[a] = l.entries[a] /\ m.entries[b] = l.entries[b]
      BY <3>1, <1>12, <1>14
    <3> QED
      BY <2>2, <3>2, <1>1, <1>6, <1>8 DEF OrderedIn, keptL
  <2> QED
    BY <2>1, <2>2
<1>17. StampedIn(m)
  BY <1>1, <1>2, <1>6 DEF StampedIn, NoEntry
<1>18. IsFiniteSet(Tracked(m)) /\ Size(m) <= MaxTrackedKeys
  <2>1. Tracked(m) \subseteq Tracked(l)
    BY <1>11
  <2>2. IsFiniteSet(Tracked(m)) /\ Cardinality(Tracked(m)) <= Cardinality(Tracked(l))
    BY <2>1, <1>1, FS_Subset
  <2>3. Cardinality(Tracked(m)) \in Nat /\ Cardinality(Tracked(l)) \in Nat
    BY <1>1, <2>2, FS_CardinalityType
  <2> QED
    BY <2>2, <2>3, <1>1, <1>2 DEF Size
<1>19. TableInv(m)
  BY <1>10, <1>15, <1>16, <1>17, <1>18 DEF TableInv
<1>20. LiveIn(m)
  <2> SUFFICES ASSUME NEW k \in Tracked(m)
               PROVE  IF m.entries[k].locked
                      THEN now < m.entries[k].lockedUntil
                      ELSE now - LockoutWindow < m.entries[k].lastActivity
    BY <1>6 DEF LiveIn
  <2>1. k \in Key /\ m.entries[k] = l.entries[k] /\ l.entries[k] \in Entry
    BY <1>2, <1>12 DEF Tracked
  <2>2. CASE ~ m.entries[k].locked
    <3>1. k \in ToSet(keptC)
      <4>1. k \in ToSet(m.counting)
        BY <2>2, <1>14
      <4> QED
        BY <4>1, <1>6 DEF keptC
    <3>2. PICK i \in 1..liveC : k = l.counting[i]
      BY <3>1, <1>7
    <3>3. liveC \in 1..Len(l.counting) /\ i \in 1..Len(l.counting)
      BY <1>2, <1>3
    <3> DEFINE z == l.counting[liveC]
    <3>4. z \in Key /\ ~ idleForAWindow(l, z, now)
      BY <1>2, <1>3, <3>3
    <3>5. k = z \/ Before(l.counting, k, z)
      BY <3>2, <3>3 DEF Before
    <3> HIDE DEF z
    <3>6. l.entries[z].lastActivity \in Int /\ l.entries[k].lastActivity \in Int
      BY <2>1, <3>4, <1>2 DEF Entry
    <3>7. l.entries[z].lastActivity <= l.entries[k].lastActivity
      <4>1. CASE k = z
        BY <4>1, <3>6
      <4>2. CASE Before(l.counting, k, z)
        BY <4>2, <2>1, <3>4, <1>1 DEF OrderedIn
      <4> QED
        BY <3>5, <4>1, <4>2
    <3>8. now - LockoutWindow < l.entries[z].lastActivity
      BY <3>4, <3>6, <1>2 DEF idleForAWindow
    <3>9. now - LockoutWindow < l.entries[k].lastActivity
      BY SMTT(30), <3>6, <3>7, <3>8, <1>2
    <3> QED
      BY <2>1, <2>2, <3>9
  <2>3. CASE m.entries[k].locked
    <3>1. k \in ToSet(keptL)
      <4>1. k \in ToSet(m.locks)
        BY <2>3, <1>14
      <4> QED
        BY <4>1, <1>6 DEF keptL
    <3>2. PICK i \in 1..liveL : k = l.locks[i]
      BY <3>1, <1>8
    <3>3. liveL \in 1..Len(l.locks) /\ i \in 1..Len(l.locks)
      BY <1>2, <1>4
    <3> DEFINE z == l.locks[liveL]
    <3>4. z \in Key /\ ~ lockoutOver(l, z, now)
      BY <1>2, <1>4, <3>3
    <3>5. k = z \/ Before(l.locks, k, z)
      BY <3>2, <3>3 DEF Before
    <3> HIDE DEF z
    <3>6. l.entries[z].lockedUntil \in Int /\ l.entries[k].lockedUntil \in Int
      BY <2>1, <3>4, <1>2 DEF Entry
    <3>7. l.entries[z].lockedUntil <= l.entries[k].lockedUntil
      <4>1. CASE k = z
        BY <4>1, <3>6
      <4>2. CASE Before(l.locks, k, z)
        BY <4>2, <2>1, <3>4, <1>1 DEF OrderedIn
      <4> QED
        BY <3>5, <4>1, <4>2
    <3>8. now < l.entries[z].lockedUntil
      BY <3>4, <3>6, <1>2 DEF lockoutOver
    <3>9. now < l.entries[k].lockedUntil
      BY <3>6, <3>7, <3>8, <1>2
    <3> QED
      BY <2>1, <2>3, <3>9
  <2> QED
    BY <2>2, <2>3
<1>21. ASSUME NEW k \in Tracked(l), l.entries[k].locked, now < l.entries[k].lockedUntil
       PROVE  k \in Tracked(m)
  <2>1. k \notin outC
    BY <1>7, <1>13, <1>21
  <2>2. k \notin outL
    BY <1>4, <1>8, <1>21 DEF lockoutOver
  <2> QED
    BY <2>1, <2>2, <1>11
<1>22. ASSUME NEW k \in Key, m.entries[k] # l.entries[k]
       PROVE  m.entries[k] = NoEntry /\ Aged(l, k, now)
  <2>1. k \in outC \cup outL /\ m.entries[k] = NoEntry
    BY <1>6, <1>22
  <2>2. ASSUME k \in outC
        PROVE  Aged(l, k, now)
    <3>1. k \in Tracked(l) /\ ~ l.entries[k].locked
      BY <2>2, <1>7, <1>13
    <3>2. idleForAWindow(l, k, now)
      BY <2>2, <1>3, <1>7
    <3> QED
      BY <3>1, <3>2 DEF Aged
  <2>3. ASSUME k \in outL
        PROVE  Aged(l, k, now)
    <3>1. k \in Tracked(l) /\ l.entries[k].locked
      BY <2>3, <1>8, <1>13
    <3>2. lockoutOver(l, k, now)
      BY <2>3, <1>4, <1>8
    <3> QED
      BY <3>1, <3>2 DEF Aged
  <2> QED
    BY <2>1, <2>2, <2>3
<1> QED
  BY <1>6, <1>11, <1>12, <1>19, <1>20, <1>21, <1>22 DEF m

(* observeLocked, called with a time no older than the newest one.           *)
LEMMA ObserveLocked ==
  ASSUME NEW l, TableInv(l), NEW now \in Nat, l.latest <= now
  PROVE  /\ TableInv(observeLocked(l, now))
         /\ LiveIn(observeLocked(l, now))
         /\ observeLocked(l, now).latest = now
         /\ observeLocked(l, now).nextEpoch = l.nextEpoch
         /\ Tracked(observeLocked(l, now)) \subseteq Tracked(l)
         /\ \A k \in Tracked(observeLocked(l, now)) :
               observeLocked(l, now).entries[k] = l.entries[k]
         /\ \A k \in Tracked(l) :
               l.entries[k].locked /\ now < l.entries[k].lockedUntil
                 => k \in Tracked(observeLocked(l, now))
         /\ \A k \in Key : \/ observeLocked(l, now).entries[k] = l.entries[k]
                          \/ /\ observeLocked(l, now).entries[k] = NoEntry
                             /\ Aged(l, k, now)
<1> DEFINE u == [l EXCEPT !.latest = IF now > @ THEN now ELSE @]
<1>1. /\ l \in LimiterState /\ OneListIn(l) /\ OrderedIn(l) /\ StampedIn(l)
      /\ IsFiniteSet(Tracked(l)) /\ Size(l) <= MaxTrackedKeys
  BY DEF TableInv
<1>2. l.latest \in Nat /\ l.entries \in [Key -> Entry] /\ LockoutWindow \in Nat
  BY <1>1, PolicyAssumption DEF LimiterState
<1>3. /\ u.latest = now /\ u.entries = l.entries /\ u.nextEpoch = l.nextEpoch
      /\ u.counting = l.counting /\ u.locks = l.locks
      /\ u \in LimiterState
  BY <1>1, <1>2 DEF LimiterState
<1>4. observeLocked(l, now) = expireLocked(u, u.latest)
  BY <1>3 DEF observeLocked
<1> HIDE DEF u
<1>5. Tracked(u) = Tracked(l) /\ Size(u) = Size(l)
  BY <1>3 DEF Tracked, Size
<1>6. OneListIn(u) /\ OrderedIn(u)
  BY <1>1, <1>3, <1>5 DEF OneListIn, OrderedIn
<1>7. StampedIn(u)
  <2> SUFFICES ASSUME NEW k \in Key
               PROVE  /\ l.entries[k].lastActivity <= now
                      /\ l.entries[k].lockedUntil <= now + LockoutWindow
    BY <1>3 DEF StampedIn
  <2>1. l.entries[k].lastActivity \in Int /\ l.entries[k].lockedUntil \in Int
    BY <1>2 DEF Entry
  <2>2. /\ l.entries[k].lastActivity <= l.latest
        /\ l.entries[k].lockedUntil <= l.latest + LockoutWindow
    BY <1>1 DEF StampedIn
  <2> QED
    BY <2>1, <2>2, <1>2
<1>8. TableInv(u)
  BY <1>1, <1>3, <1>5, <1>6, <1>7 DEF TableInv
<1>9. \A k \in Key : Aged(u, k, u.latest) <=> Aged(l, k, now)
  BY <1>3, <1>5 DEF Aged, lockoutOver, idleForAWindow
<1> QED
  BY <1>3, <1>4, <1>5, <1>8, <1>9, ExpireLocked

(* makeRoomLocked, when it does not report false, leaves a free slot and     *)
(* takes away at most one key, which was not locked.                         *)
LEMMA MakeRoomLocked ==
  ASSUME NEW l, TableInv(l), LiveIn(l), ~ saturatedLocked(l)
  PROVE  /\ TableInv(makeRoomLocked(l))
         /\ LiveIn(makeRoomLocked(l))
         /\ makeRoomLocked(l).latest = l.latest
         /\ makeRoomLocked(l).nextEpoch = l.nextEpoch
         /\ Size(makeRoomLocked(l)) < MaxTrackedKeys
         /\ Tracked(makeRoomLocked(l)) \subseteq Tracked(l)
         /\ \A k \in Tracked(makeRoomLocked(l)) :
               makeRoomLocked(l).entries[k] = l.entries[k]
         /\ \A k \in Tracked(l) :
               l.entries[k].locked => k \in Tracked(makeRoomLocked(l))
         /\ IF Size(l) < MaxTrackedKeys
            THEN makeRoomLocked(l) = l
            ELSE \E v \in Tracked(l) :
                   /\ ~ l.entries[v].locked
                   /\ makeRoomLocked(l).entries = [l.entries EXCEPT ![v] = NoEntry]
                   /\ \A w \in Tracked(l) :
                        ~ l.entries[w].locked =>
                          l.entries[v].lastActivity <= l.entries[w].lastActivity
<1> DEFINE m == makeRoomLocked(l)
<1>0. Size(l) \in Nat /\ MaxTrackedKeys \in Nat /\ Size(l) <= MaxTrackedKeys
  BY FS_CardinalityType, PolicyAssumption DEF TableInv, Size
<1>1. CASE Size(l) < MaxTrackedKeys
  <2>1. m = l
    BY <1>1 DEF makeRoomLocked
  <2> QED
    BY <2>1, <1>1
<1>2. CASE ~ (Size(l) < MaxTrackedKeys)
  <2> DEFINE v == Last(l.counting)
  <2>1. m = removeLocked(l, v)
    BY <1>2 DEF makeRoomLocked
  <2>2. l.counting \in Seq(Key) /\ Len(l.counting) # 0
    BY <1>0, <1>2 DEF saturatedLocked, TableInv, LimiterState
  <2>3. v \in ToSet(l.counting)
    BY <2>2 DEF Last, ToSet
  <2>4. v \in Tracked(l) /\ ~ l.entries[v].locked
    BY <2>3 DEF TableInv, OneListIn
  <2> HIDE DEF v
  <2>5. /\ TableInv(m)
        /\ m.entries = [l.entries EXCEPT ![v] = NoEntry]
        /\ m.latest = l.latest
        /\ m.nextEpoch = l.nextEpoch
        /\ Tracked(m) = Tracked(l) \ {v}
        /\ Size(m) = Size(l) - 1
    BY <2>1, <2>4, RemoveLocked
  <2> HIDE DEF m
  <2>6. \A k \in Tracked(m) : m.entries[k] = l.entries[k]
    BY <2>5 DEF Tracked, TableInv, LimiterState
  <2>7. LiveIn(m)
    BY <2>5, <2>6 DEF LiveIn
  <2>8. Size(m) < MaxTrackedKeys
    BY <2>5, <1>0
  <2>9. ASSUME NEW w \in Tracked(l), ~ l.entries[w].locked
        PROVE  l.entries[v].lastActivity <= l.entries[w].lastActivity
    <3>1. w \in ToSet(l.counting) /\ w \in Key /\ v \in Key
      BY <2>4, <2>9 DEF TableInv, OneListIn, Tracked
    <3>2. l.entries[w].lastActivity \in Int /\ l.entries[v].lastActivity \in Int
      BY <3>1 DEF TableInv, LimiterState, Entry
    <3>3. PICK i \in 1..Len(l.counting) : w = l.counting[i]
      BY <2>2, <3>1 DEF ToSet
    <3>4. Len(l.counting) \in 1..Len(l.counting) /\ v = l.counting[Len(l.counting)]
      BY <2>2 DEF v, Last
    <3>5. CASE i = Len(l.counting)
      BY <3>2, <3>3, <3>4, <3>5
    <3>6. CASE i # Len(l.counting)
      <4>1. Before(l.counting, w, v)
        BY <3>3, <3>4, <3>6 DEF Before
      <4> QED
        BY <3>1, <4>1 DEF TableInv, OrderedIn
    <3> QED
      BY <3>5, <3>6
  <2> QED
    BY <2>4, <2>5, <2>6, <2>7, <2>8, <2>9, <1>2 DEF m
<1> QED
  BY <1>1, <1>2

(* What holds of a table while k's entry is being changed: the invariant,    *)
(* but for the age and the place of k's entry.                               *)
ButForInv(l, k) ==
  /\ l \in LimiterState
  /\ OneListIn(l)
  /\ k \in Tracked(l)
  /\ \A a, b \in Key \ {k} :
        /\ Before(l.counting, a, b) => l.entries[b].lastActivity <= l.entries[a].lastActivity
        /\ Before(l.locks, a, b) => l.entries[b].lockedUntil <= l.entries[a].lockedUntil
  /\ StampedIn(l)
  /\ IsFiniteSet(Tracked(l))
  /\ Size(l) <= MaxTrackedKeys
  /\ \A j \in Tracked(l) \ {k} :
        IF l.entries[j].locked
        THEN l.latest < l.entries[j].lockedUntil
        ELSE l.latest - LockoutWindow < l.entries[j].lastActivity

(* It holds between the methods, of any tracked key.                         *)
LEMMA TableButFor ==
  ASSUME NEW l, TableInv(l), LiveIn(l), NEW k \in Tracked(l)
  PROVE  ButForInv(l, k)
BY DEF ButForInv, TableInv, OrderedIn, LiveIn

(* And of a fresh entry, given a free slot.                                  *)
LEMMA NewEntry ==
  ASSUME NEW l, TableInv(l), LiveIn(l), NEW k \in Key, k \notin Tracked(l),
         Size(l) < MaxTrackedKeys
  PROVE  /\ ButForInv(newEntry(l, k), k)
         /\ ~ newEntry(l, k).entries[k].locked
         /\ newEntry(l, k).latest = l.latest
         /\ newEntry(l, k).nextEpoch = l.nextEpoch + 1
         /\ newEntry(l, k).entries[k] =
              [epoch |-> l.nextEpoch + 1, attempts |-> 0, locked |-> FALSE,
               lockedUntil |-> 0, lastActivity |-> 0]
         /\ \A j \in Key \ {k} : newEntry(l, k).entries[j] = l.entries[j]
<1> DEFINE m == newEntry(l, k)
           e == [epoch |-> l.nextEpoch + 1, attempts |-> 0, locked |-> FALSE,
                 lockedUntil |-> 0, lastActivity |-> 0]
           n == l.nextEpoch + 1
<1>1. /\ l \in LimiterState /\ OneListIn(l) /\ OrderedIn(l) /\ StampedIn(l)
      /\ IsFiniteSet(Tracked(l)) /\ LockoutWindow \in Nat /\ MaxTrackedKeys \in Nat
  BY PolicyAssumption DEF TableInv
<1>2. /\ l.counting \in Seq(Key) /\ l.locks \in Seq(Key) /\ l.latest \in Nat
      /\ l.nextEpoch \in Nat /\ l.entries \in [Key -> Entry]
  BY <1>1 DEF LimiterState
<1>3. /\ e \in Entry /\ e.epoch = l.nextEpoch + 1 /\ e.epoch # 0 /\ ~ e.locked
      /\ e.lastActivity = 0 /\ e.lockedUntil = 0
  <2>1. n \in Nat /\ n # 0
    BY <1>2
  <2> QED
    BY <2>1 DEF Entry
<1> HIDE DEF e
<1>4. /\ m.entries = [l.entries EXCEPT ![k] = e]
      /\ m.counting = <<k>> \o l.counting
      /\ m.locks = l.locks
      /\ m.latest = l.latest
      /\ m.nextEpoch = l.nextEpoch + 1
  BY <1>1 DEF newEntry, LimiterState, e
<1>5. k \notin ToSet(l.counting) /\ k \notin ToSet(l.locks)
  BY <1>1 DEF OneListIn
<1>6. /\ <<k>> \o l.counting \in Seq(Key)
      /\ IsInjective(<<k>> \o l.counting)
      /\ ToSet(<<k>> \o l.counting) = ToSet(l.counting) \cup {k}
      /\ \A a, b : Before(<<k>> \o l.counting, a, b) =>
                     \/ a = k /\ b \in ToSet(l.counting)
                     \/ Before(l.counting, a, b)
  BY <1>1, <1>2, <1>5, ListPushFront DEF OneListIn
<1>7. m \in LimiterState
  <2>1. [l.entries EXCEPT ![k] = e] \in [Key -> Entry]
    BY <1>2, <1>3
  <2> DEFINE es == [l.entries EXCEPT ![k] = e]
             cs == <<k>> \o l.counting
  <2>2. m = [l EXCEPT !.nextEpoch = n, !.entries = es, !.counting = cs]
    BY <1>1 DEF newEntry, e, LimiterState
  <2>3. es \in [Key -> Entry] /\ cs \in Seq(Key) /\ n \in Nat
    BY <2>1, <1>2, <1>6 DEF es, cs
  <2> HIDE DEF m, es, cs, n
  <2> QED
    BY <1>1, <1>2, <2>2, <2>3 DEF LimiterState
<1> HIDE DEF m
<1>8. /\ m.entries[k] = e
      /\ \A j \in Key \ {k} : m.entries[j] = l.entries[j]
  BY <1>2, <1>4
<1>9. Tracked(m) = Tracked(l) \cup {k}
  BY <1>3, <1>8 DEF Tracked
<1>10. OneListIn(m)
  <2>1. ToSet(m.counting) = {j \in Tracked(m) : ~ m.entries[j].locked}
    BY <1>1, <1>3, <1>4, <1>6, <1>8, <1>9 DEF OneListIn, Tracked
  <2>2. ToSet(m.locks) = {j \in Tracked(m) : m.entries[j].locked}
    BY <1>1, <1>3, <1>4, <1>8, <1>9 DEF OneListIn, Tracked
  <2> QED
    BY <2>1, <2>2, <1>1, <1>4, <1>6 DEF OneListIn
<1>11. \A a, b \in Key \ {k} :
         /\ Before(m.counting, a, b) => m.entries[b].lastActivity <= m.entries[a].lastActivity
         /\ Before(m.locks, a, b) => m.entries[b].lockedUntil <= m.entries[a].lockedUntil
  BY <1>1, <1>4, <1>6, <1>8 DEF OrderedIn
<1>12. StampedIn(m)
  BY <1>1, <1>2, <1>3, <1>4, <1>8 DEF StampedIn
<1>13. IsFiniteSet(Tracked(m)) /\ Size(m) <= MaxTrackedKeys
  <2>1. IsFiniteSet(Tracked(m)) /\ Cardinality(Tracked(m)) = Cardinality(Tracked(l)) + 1
    BY <1>1, <1>9, FS_AddElement
  <2>2. Cardinality(Tracked(l)) \in Nat
    BY <1>1, FS_CardinalityType
  <2> QED
    BY <2>1, <2>2, <1>1 DEF Size
<1>14. \A j \in Tracked(m) \ {k} :
         IF m.entries[j].locked
         THEN m.latest < m.entries[j].lockedUntil
         ELSE m.latest - LockoutWindow < m.entries[j].lastActivity
  BY <1>4, <1>8, <1>9 DEF LiveIn, Tracked
<1>15. k \in Tracked(m) /\ ~ m.entries[k].locked
  BY <1>3, <1>8, <1>9
<1>16. ButForInv(m, k)
  BY <1>7, <1>10, <1>11, <1>12, <1>13, <1>14, <1>15 DEF ButForInv
<1> QED
  BY <1>3, <1>4, <1>8, <1>15, <1>16 DEF m, e

(* Removing a key that is not in the list changes nothing.                   *)
LEMMA ListRemoveAbsent ==
  ASSUME NEW s, NEW k, k \notin ToSet(s)
  PROVE  listRemove(s, k) = s
BY DEF listRemove, RemoveFirst, ToSet

(* m is l with k's entry restamped at l.latest and put at the front of the   *)
(* list its flag calls for: what countAttempt and unlockLocked amount to.    *)
Placed(l, k, m) ==
  LET e == m.entries[k]
  IN  /\ m \in LimiterState
      /\ m.latest = l.latest
      /\ \A j \in Key \ {k} : m.entries[j] = l.entries[j]
      /\ e.epoch # 0
      /\ e.lastActivity <= l.latest
      /\ e.lockedUntil <= l.latest + LockoutWindow
      /\ IF e.locked
         THEN /\ e.lockedUntil = l.latest + LockoutWindow
              /\ m.counting = listRemove(l.counting, k)
              /\ m.locks = <<k>> \o listRemove(l.locks, k)
         ELSE /\ e.lastActivity = l.latest
              /\ m.counting = <<k>> \o listRemove(l.counting, k)
              /\ m.locks = listRemove(l.locks, k)

(* Whatever its entry was before, that restores the invariant.               *)
LEMMA PlaceAtFront ==
  ASSUME NEW l, NEW k, ButForInv(l, k), NEW m, Placed(l, k, m)
  PROVE  TableInv(m) /\ LiveIn(m) /\ Tracked(m) = Tracked(l)
<1> DEFINE rc == listRemove(l.counting, k)
           rl == listRemove(l.locks, k)
           e == m.entries[k]
<1>0. /\ m \in LimiterState /\ m.latest = l.latest
      /\ \A j \in Key \ {k} : m.entries[j] = l.entries[j]
      /\ e.epoch # 0 /\ e.lastActivity <= l.latest
      /\ e.lockedUntil <= l.latest + LockoutWindow
  BY DEF Placed
<1>1. /\ l \in LimiterState /\ OneListIn(l) /\ StampedIn(l) /\ k \in Tracked(l)
      /\ IsFiniteSet(Tracked(l)) /\ Size(l) <= MaxTrackedKeys /\ k \in Key
      /\ LockoutWindow \in Nat /\ LockoutWindow > 0
  BY PolicyAssumption DEF ButForInv, Tracked
<1>2. /\ l.counting \in Seq(Key) /\ l.locks \in Seq(Key) /\ l.latest \in Nat
      /\ l.entries \in [Key -> Entry] /\ m.entries \in [Key -> Entry]
  BY <1>0, <1>1 DEF LimiterState
<1>3. /\ rc \in Seq(Key) /\ IsInjective(rc) /\ ToSet(rc) = ToSet(l.counting) \ {k}
      /\ \A a, b : Before(rc, a, b) => Before(l.counting, a, b)
  BY <1>1, <1>2, ListRemove DEF OneListIn
<1>4. /\ rl \in Seq(Key) /\ IsInjective(rl) /\ ToSet(rl) = ToSet(l.locks) \ {k}
      /\ \A a, b : Before(rl, a, b) => Before(l.locks, a, b)
  BY <1>1, <1>2, ListRemove DEF OneListIn
<1>5. /\ m.entries[k] = e
      /\ \A j \in Key \ {k} : m.entries[j] = l.entries[j]
  BY <1>0
<1>15. e.locked => /\ e.lockedUntil = l.latest + LockoutWindow
                  /\ m.counting = rc
                  /\ m.locks = <<k>> \o rl
  BY DEF Placed
<1>16. ~ e.locked => /\ e.lastActivity = l.latest
                    /\ m.counting = <<k>> \o rc
                    /\ m.locks = rl
  BY DEF Placed
<1> HIDE DEF rc, rl, e
<1>6. Tracked(m) = Tracked(l)
  BY <1>0, <1>1, <1>5 DEF Tracked
<1>7. \A j \in Key : /\ m.entries[j].lastActivity \in Int /\ m.entries[j].lockedUntil \in Int
                     /\ m.entries[j].lastActivity <= m.latest
                     /\ m.entries[j].lockedUntil <= m.latest + LockoutWindow
  <2> TAKE j \in Key
  <2>1. m.entries[j].lastActivity \in Int /\ m.entries[j].lockedUntil \in Int
    BY <1>2 DEF Entry
  <2> QED
    BY <2>1, <1>0, <1>1, <1>5 DEF StampedIn
<1>8. StampedIn(m)
  BY <1>7 DEF StampedIn
<1>9. LiveIn(m)
  <2> SUFFICES ASSUME NEW j \in Tracked(m)
               PROVE  IF m.entries[j].locked
                      THEN m.latest < m.entries[j].lockedUntil
                      ELSE m.latest - LockoutWindow < m.entries[j].lastActivity
    BY DEF LiveIn
  <2>1. CASE j = k
    BY <2>1, <1>0, <1>1, <1>2, <1>5, <1>15, <1>16
  <2>2. CASE j # k
    BY <2>2, <1>0, <1>5, <1>6 DEF ButForInv, Tracked
  <2> QED
    BY <2>1, <2>2
<1>10. /\ \A j \in ToSet(rc) : j # k /\ j \in Key
       /\ \A j \in ToSet(rl) : j # k /\ j \in Key
  BY <1>1, <1>3, <1>4 DEF OneListIn, Tracked
<1>11. \A a, b \in Key : /\ Before(rc, a, b) => a \in ToSet(rc) /\ b \in ToSet(rc)
                         /\ Before(rl, a, b) => a \in ToSet(rl) /\ b \in ToSet(rl)
  BY DEF Before, ToSet
<1>12. \A a, b \in Key :
         /\ Before(rc, a, b) => m.entries[b].lastActivity <= m.entries[a].lastActivity
         /\ Before(rl, a, b) => m.entries[b].lockedUntil <= m.entries[a].lockedUntil
  BY <1>3, <1>4, <1>5, <1>10, <1>11 DEF ButForInv
<1>13. CASE e.locked
  <2>1. m.counting = rc /\ m.locks = <<k>> \o rl /\ e.lockedUntil = m.latest + LockoutWindow
    BY <1>0, <1>13, <1>15
  <2>2. /\ IsInjective(m.locks)
        /\ ToSet(m.locks) = ToSet(rl) \cup {k}
        /\ \A a, b : Before(m.locks, a, b) =>
                       (a = k /\ b \in ToSet(rl)) \/ Before(rl, a, b)
    BY <2>1, <1>1, <1>4, <1>10, ListPushFront
  <2>3. OneListIn(m)
    <3>1. ToSet(m.counting) = {j \in Tracked(m) : ~ m.entries[j].locked}
      BY <1>1, <1>3, <1>5, <1>6, <1>13, <2>1 DEF OneListIn, Tracked
    <3>2. ToSet(m.locks) = {j \in Tracked(m) : m.entries[j].locked}
      BY <1>1, <1>4, <1>5, <1>6, <1>13, <2>2 DEF OneListIn, Tracked
    <3> QED
      BY <3>1, <3>2, <2>1, <2>2, <1>3 DEF OneListIn
  <2>4. OrderedIn(m)
    BY <2>1, <2>2, <1>5, <1>7, <1>10, <1>12 DEF OrderedIn
  <2> QED
    BY <2>3, <2>4, <1>0, <1>1, <1>6, <1>8, <1>9 DEF TableInv, Size
<1>14. CASE ~ e.locked
  <2>1. m.locks = rl /\ m.counting = <<k>> \o rc /\ e.lastActivity = m.latest
    BY <1>0, <1>14, <1>16
  <2>2. /\ IsInjective(m.counting)
        /\ ToSet(m.counting) = ToSet(rc) \cup {k}
        /\ \A a, b : Before(m.counting, a, b) =>
                       (a = k /\ b \in ToSet(rc)) \/ Before(rc, a, b)
    BY <2>1, <1>1, <1>3, <1>10, ListPushFront
  <2>3. OneListIn(m)
    <3>1. ToSet(m.counting) = {j \in Tracked(m) : ~ m.entries[j].locked}
      BY <1>1, <1>3, <1>5, <1>6, <1>14, <2>2 DEF OneListIn, Tracked
    <3>2. ToSet(m.locks) = {j \in Tracked(m) : m.entries[j].locked}
      BY <1>1, <1>4, <1>5, <1>6, <1>14, <2>1 DEF OneListIn, Tracked
    <3> QED
      BY <3>1, <3>2, <2>1, <2>2, <1>4 DEF OneListIn
  <2>4. OrderedIn(m)
    BY <2>1, <2>2, <1>5, <1>7, <1>10, <1>12 DEF OrderedIn
  <2> QED
    BY <2>3, <2>4, <1>0, <1>1, <1>6, <1>8, <1>9 DEF TableInv, Size
<1> QED
  BY <1>13, <1>14, <1>6

(* Counting an attempt against a key that is not locked, at the newest time. *)
LEMMA CountAttempt ==
  ASSUME NEW l, NEW k, ButForInv(l, k), ~ l.entries[k].locked, NEW now, now = l.latest
  PROVE  /\ TableInv(countAttempt(l, k, now))
         /\ LiveIn(countAttempt(l, k, now))
         /\ countAttempt(l, k, now).latest = l.latest
         /\ countAttempt(l, k, now).nextEpoch = l.nextEpoch
         /\ Tracked(countAttempt(l, k, now)) = Tracked(l)
         /\ \A j \in Key \ {k} : countAttempt(l, k, now).entries[j] = l.entries[j]
         /\ countAttempt(l, k, now).entries[k].epoch = l.entries[k].epoch
         /\ countAttempt(l, k, now).entries[k].attempts = l.entries[k].attempts + 1
         /\ countAttempt(l, k, now).entries[k].locked
              <=> ~ (l.entries[k].attempts + 1 < Threshold)
         /\ countAttempt(l, k, now).entries[k].lastActivity = now
         /\ countAttempt(l, k, now).entries[k].lockedUntil =
              IF l.entries[k].attempts + 1 < Threshold THEN l.entries[k].lockedUntil
                                                       ELSE now + LockoutWindow
<1> DEFINE m == countAttempt(l, k, now)
           e == l.entries[k]
           a == l.entries[k].attempts + 1
           c == [e EXCEPT !.attempts = a, !.lastActivity = now]
           lc == [l EXCEPT !.entries[k].attempts = @ + 1, !.entries[k].lastActivity = now]
           u == now + LockoutWindow
           d == [c EXCEPT !.locked = TRUE, !.lockedUntil = u]
<1>1. /\ l \in LimiterState /\ OneListIn(l) /\ StampedIn(l) /\ k \in Tracked(l) /\ k \in Key
      /\ LockoutWindow \in Nat
  BY PolicyAssumption DEF ButForInv, Tracked
<1>2. /\ l.counting \in Seq(Key) /\ l.locks \in Seq(Key) /\ l.latest \in Nat
      /\ l.entries \in [Key -> Entry] /\ l.entries[k] \in Entry
  BY <1>1 DEF LimiterState
<1>3. /\ l.entries[k].attempts \in Int /\ l.entries[k].epoch # 0
      /\ l.entries[k].lockedUntil <= l.latest + LockoutWindow
  BY <1>1, <1>2 DEF Entry, StampedIn, Tracked
<1>4. /\ c \in Entry /\ c.epoch = l.entries[k].epoch /\ ~ c.locked /\ c.lastActivity = l.latest
      /\ c.lockedUntil = l.entries[k].lockedUntil /\ c.attempts = l.entries[k].attempts + 1
  <2>1. e \in Entry /\ a \in Int /\ now \in Int /\ ~ e.locked
    BY <1>2, <1>3
  <2> HIDE DEF e, a
  <2>2. c = [e EXCEPT !.attempts = a, !.lastActivity = now]
    OBVIOUS
  <2> HIDE DEF c
  <2>3. /\ c \in Entry /\ c.epoch = e.epoch /\ c.locked = e.locked /\ c.attempts = a
        /\ c.lastActivity = now /\ c.lockedUntil = e.lockedUntil
    BY <2>1, <2>2 DEF Entry
  <2> QED
    BY <2>1, <2>3 DEF e, a
<1> HIDE DEF c
<1>5. /\ d \in Entry /\ d.epoch = l.entries[k].epoch /\ d.locked /\ d.lastActivity = l.latest
      /\ d.lockedUntil = l.latest + LockoutWindow /\ d.attempts = l.entries[k].attempts + 1
  <2>1. u \in Int
    BY <1>1, <1>2
  <2> HIDE DEF u
  <2>2. d = [c EXCEPT !.locked = TRUE, !.lockedUntil = u]
    OBVIOUS
  <2>4. c \in Entry
    BY <1>4
  <2> HIDE DEF d
  <2>3. /\ d \in Entry /\ d.epoch = c.epoch /\ d.locked /\ d.attempts = c.attempts
        /\ d.lastActivity = c.lastActivity /\ d.lockedUntil = u
    BY <2>1, <2>2, <2>4 DEF Entry
  <2> QED
    BY <2>3, <1>4 DEF u
<1> HIDE DEF d
<1>6. /\ lc.entries = [l.entries EXCEPT ![k] = c] /\ lc.entries[k] = c
      /\ lc.counting = l.counting /\ lc.locks = l.locks
      /\ lc.latest = l.latest /\ lc.nextEpoch = l.nextEpoch /\ lc \in LimiterState
  BY <1>1, <1>2, <1>4 DEF LimiterState, c
<1>7. /\ k \in ToSet(l.counting) /\ k \notin ToSet(l.locks)
      /\ Contains(l.counting, k)
  BY <1>1 DEF OneListIn, Contains, ToSet
<1>8. /\ listRemove(l.counting, k) \in Seq(Key)
      /\ listRemove(l.locks, k) = l.locks
  BY <1>1, <1>2, <1>7, ListRemove, ListRemoveAbsent DEF OneListIn
<1>9. CASE l.entries[k].attempts + 1 < Threshold
  <2> DEFINE cs == <<k>> \o listRemove(l.counting, k)
  <2>1. m = [lc EXCEPT !.counting = cs]
    BY <1>4, <1>6, <1>7, <1>9 DEF countAttempt, listMoveToFront
  <2>2. cs \in Seq(Key)
    BY <1>1, <1>8
  <2> HIDE DEF lc, c, cs
  <2>3. /\ m \in LimiterState /\ m.entries = [l.entries EXCEPT ![k] = c]
        /\ m.latest = l.latest /\ m.nextEpoch = l.nextEpoch
        /\ m.counting = cs /\ m.locks = l.locks
    BY <2>1, <2>2, <1>6 DEF LimiterState
  <2> HIDE DEF m
  <2>4. TableInv(m) /\ LiveIn(m) /\ Tracked(m) = Tracked(l)
    <3>1. /\ c.lastActivity <= l.latest /\ c.lockedUntil <= l.latest + LockoutWindow
          /\ c.epoch # 0
      BY <1>2, <1>3, <1>4
    <3>2. /\ ~ c.locked /\ c.lastActivity = l.latest /\ c \in Entry
          /\ m.counting = <<k>> \o listRemove(l.counting, k)
          /\ m.locks = listRemove(l.locks, k)
      BY <2>3, <1>4, <1>8 DEF cs
    <3>3. m.entries[k] = c /\ \A j \in Key \ {k} : m.entries[j] = l.entries[j]
      BY <2>3, <1>1, <1>2
    <3>4. Placed(l, k, m)
      BY <3>1, <3>2, <3>3, <2>3 DEF Placed
    <3> QED
      BY <3>4, PlaceAtFront
  <2> QED
    BY <2>3, <2>4, <1>1, <1>2, <1>4, <1>9 DEF m
<1>10. CASE ~ (l.entries[k].attempts + 1 < Threshold)
  <2> DEFINE cs == listRemove(l.counting, k)
             ks == <<k>> \o l.locks
             es == [l.entries EXCEPT ![k] = d]
  <2>1. m = lockLocked(lc, k, now)
    BY <1>4, <1>6, <1>10 DEF countAttempt
  <2>2. cs \in Seq(Key) /\ ks \in Seq(Key) /\ es \in [Key -> Entry]
    BY <1>1, <1>2, <1>5, <1>8
  <2>3. m = [l EXCEPT !.counting = cs, !.entries = es, !.locks = ks]
    <3> HIDE DEF lc
    <3>1. [lc.entries EXCEPT ![k] = d] = es
      BY <1>1, <1>2, <1>6
    <3>2. [lc.entries EXCEPT ![k].locked = TRUE, ![k].lockedUntil = u]
            = [lc.entries EXCEPT ![k] = d]
      BY <1>1, <1>6 DEF d, LimiterState
    <3>3. lockLocked(lc, k, now) = [lc EXCEPT !.counting = cs, !.entries = es, !.locks = ks]
      BY <3>1, <3>2, <1>6 DEF lockLocked, LimiterState
    <3>4. [lc EXCEPT !.counting = cs, !.entries = es, !.locks = ks]
            = [l EXCEPT !.counting = cs, !.entries = es, !.locks = ks]
      BY <1>1, <1>6 DEF LimiterState
    <3> QED
      BY <2>1, <3>3, <3>4
  <2> HIDE DEF cs, ks, es
  <2>4. /\ m \in LimiterState /\ m.entries = es
        /\ m.latest = l.latest /\ m.nextEpoch = l.nextEpoch
        /\ m.counting = cs /\ m.locks = ks
    BY <2>2, <2>3, <1>1 DEF LimiterState
  <2> HIDE DEF m
  <2>5. TableInv(m) /\ LiveIn(m) /\ Tracked(m) = Tracked(l)
    <3>1. d.lastActivity <= l.latest /\ d.lockedUntil <= l.latest + LockoutWindow /\ d.epoch # 0
      BY <1>1, <1>2, <1>3, <1>5
    <3>2. m.entries[k] = d /\ \A j \in Key \ {k} : m.entries[j] = l.entries[j]
      BY <2>4, <1>1, <1>2 DEF es
    <3>3. Placed(l, k, m)
      BY <3>1, <3>2, <2>4, <1>5, <1>8 DEF Placed, cs, ks
    <3> QED
      BY <3>3, PlaceAtFront
  <2> QED
    BY <2>4, <2>5, <1>1, <1>2, <1>5, <1>10 DEF m, es
<1> QED
  BY <1>9, <1>10

(* Giving an attempt back moves nothing.                                     *)
LEMMA GiveBack ==
  ASSUME NEW l, TableInv(l), NEW k \in Tracked(l)
  PROVE  /\ TableInv(giveBack(l, k))
         /\ LiveIn(l) => LiveIn(giveBack(l, k))
         /\ giveBack(l, k).latest = l.latest
         /\ giveBack(l, k).nextEpoch = l.nextEpoch
         /\ Tracked(giveBack(l, k)) = Tracked(l)
         /\ \A j \in Key : /\ giveBack(l, k).entries[j].epoch = l.entries[j].epoch
                           /\ giveBack(l, k).entries[j].locked = l.entries[j].locked
                           /\ giveBack(l, k).entries[j].lockedUntil = l.entries[j].lockedUntil
                           /\ giveBack(l, k).entries[j].lastActivity = l.entries[j].lastActivity
         /\ giveBack(l, k).entries[k].attempts = l.entries[k].attempts - 1
         /\ \A j \in Key \ {k} : giveBack(l, k).entries[j] = l.entries[j]
<1> DEFINE v == giveBack(l, k)
           e == l.entries[k]
           a == e.attempts - 1
           c == [e EXCEPT !.attempts = a]
           es == [l.entries EXCEPT ![k] = c]
<1>1. /\ l \in LimiterState /\ OneListIn(l) /\ OrderedIn(l) /\ StampedIn(l) /\ k \in Key
      /\ IsFiniteSet(Tracked(l)) /\ Size(l) <= MaxTrackedKeys
  BY DEF TableInv, Tracked
<1>2. l.entries \in [Key -> Entry] /\ e \in Entry /\ a \in Int
  BY <1>1 DEF LimiterState, Entry
<1> HIDE DEF a, e
<1>3. /\ c \in Entry /\ c.epoch = e.epoch /\ c.locked = e.locked
      /\ c.lockedUntil = e.lockedUntil /\ c.lastActivity = e.lastActivity
      /\ c.attempts = a
  BY <1>2 DEF Entry
<1>4. v = [l EXCEPT !.entries = es]
  BY <1>1, <1>2 DEF giveBack, LimiterState, a, e
<1>5. es \in [Key -> Entry] /\ es[k] = c /\ \A j \in Key \ {k} : es[j] = l.entries[j]
  BY <1>1, <1>2, <1>3
<1> HIDE DEF v, c, es
<1>6. /\ v \in LimiterState /\ v.entries = es /\ v.latest = l.latest
      /\ v.nextEpoch = l.nextEpoch /\ v.counting = l.counting /\ v.locks = l.locks
  BY <1>1, <1>4, <1>5 DEF LimiterState
<1>7. \A j \in Key : /\ v.entries[j].epoch = l.entries[j].epoch
                     /\ v.entries[j].locked = l.entries[j].locked
                     /\ v.entries[j].lockedUntil = l.entries[j].lockedUntil
                     /\ v.entries[j].lastActivity = l.entries[j].lastActivity
  BY <1>3, <1>5, <1>6 DEF e
<1>8. Tracked(v) = Tracked(l)
  BY <1>7 DEF Tracked
<1>9. OneListIn(v)
  BY <1>1, <1>6, <1>7, <1>8 DEF OneListIn, Tracked
<1>10. OrderedIn(v) /\ StampedIn(v)
  BY <1>1, <1>6, <1>7 DEF OrderedIn, StampedIn
<1>11. LiveIn(l) => LiveIn(v)
  BY <1>6, <1>7, <1>8 DEF LiveIn, Tracked
<1>12. TableInv(v)
  BY <1>1, <1>6, <1>8, <1>9, <1>10 DEF TableInv, Size
<1>13. v.entries[k].attempts = l.entries[k].attempts - 1
  BY <1>3, <1>5, <1>6 DEF a, e
<1> QED
  BY <1>5, <1>6, <1>7, <1>8, <1>11, <1>12, <1>13 DEF v

(* A lockout lifted early: the key counts again, as of the newest time.      *)
LEMMA UnlockLocked ==
  ASSUME NEW l, TableInv(l), LiveIn(l), NEW k \in Tracked(l), l.entries[k].locked
  PROVE  /\ TableInv(unlockLocked(l, k))
         /\ LiveIn(unlockLocked(l, k))
         /\ unlockLocked(l, k).latest = l.latest
         /\ unlockLocked(l, k).nextEpoch = l.nextEpoch
         /\ Tracked(unlockLocked(l, k)) = Tracked(l)
         /\ \A j \in Key \ {k} : unlockLocked(l, k).entries[j] = l.entries[j]
         /\ unlockLocked(l, k).entries[k].epoch = l.entries[k].epoch
         /\ unlockLocked(l, k).entries[k].attempts = l.entries[k].attempts
         /\ ~ unlockLocked(l, k).entries[k].locked
         /\ unlockLocked(l, k).entries[k].lockedUntil = 0
         /\ unlockLocked(l, k).entries[k].lastActivity = l.latest
<1> DEFINE m == unlockLocked(l, k)
           e == l.entries[k]
           t == l.latest
           c == [e EXCEPT !.locked = FALSE, !.lockedUntil = 0, !.lastActivity = t]
           es == [l.entries EXCEPT ![k] = c]
           cs == <<k>> \o l.counting
           ks == listRemove(l.locks, k)
<1>1. ButForInv(l, k) /\ k \in Key /\ l \in LimiterState /\ OneListIn(l) /\ LockoutWindow \in Nat
  BY TableButFor, PolicyAssumption DEF Tracked, TableInv
<1>2. /\ l.entries \in [Key -> Entry] /\ e \in Entry /\ l.latest \in Nat /\ e.epoch # 0
      /\ l.counting \in Seq(Key) /\ l.locks \in Seq(Key)
  BY <1>1 DEF LimiterState, Tracked
<1> HIDE DEF e
<1>3. /\ c \in Entry /\ c.epoch = e.epoch /\ c.attempts = e.attempts /\ ~ c.locked
      /\ c.lockedUntil = 0 /\ c.lastActivity = l.latest
  <2>1. e \in Entry /\ t \in Int
    BY <1>2
  <2> DEFINE z == 0
             b == [e EXCEPT !.locked = FALSE, !.lockedUntil = z]
  <2>2. z \in Int
    OBVIOUS
  <2>3. /\ b \in Entry /\ b.epoch = e.epoch /\ b.attempts = e.attempts
        /\ ~ b.locked /\ b.lockedUntil = 0
    <3> HIDE DEF z
    <3>1. b = [e EXCEPT !.locked = FALSE, !.lockedUntil = z]
      OBVIOUS
    <3> HIDE DEF b
    <3>2. /\ b \in Entry /\ b.epoch = e.epoch /\ b.attempts = e.attempts
          /\ ~ b.locked /\ b.lockedUntil = z
      BY <2>1, <2>2, <3>1 DEF Entry
    <3> QED
      BY <3>2 DEF z
  <2>4. c = [b EXCEPT !.lastActivity = t]
    OBVIOUS
  <2> HIDE DEF b, c, t
  <2>5. /\ c \in Entry /\ c.epoch = b.epoch /\ c.attempts = b.attempts /\ c.locked = b.locked
        /\ c.lockedUntil = b.lockedUntil /\ c.lastActivity = t
    BY <2>1, <2>3, <2>4 DEF Entry
  <2> QED
    BY <2>3, <2>5 DEF t
<1>4. k \notin ToSet(l.counting)
  BY <1>1 DEF OneListIn
<1>5. /\ cs \in Seq(Key) /\ ks \in Seq(Key) /\ listRemove(l.counting, k) = l.counting
      /\ es \in [Key -> Entry] /\ es[k] = c /\ \A j \in Key \ {k} : es[j] = l.entries[j]
  BY <1>1, <1>2, <1>3, <1>4, ListRemove, ListRemoveAbsent DEF OneListIn
<1>6. m = [l EXCEPT !.locks = ks, !.entries = es, !.counting = cs]
  <2>1. [l.entries EXCEPT ![k].locked = FALSE, ![k].lockedUntil = 0, ![k].lastActivity = l.latest]
          = es
    BY <1>1, <1>2 DEF e
  <2> QED
    BY <2>1, <1>1 DEF unlockLocked, LimiterState
<1> HIDE DEF m, c, es, cs, ks
<1>7. /\ m \in LimiterState /\ m.entries = es /\ m.latest = l.latest
      /\ m.nextEpoch = l.nextEpoch /\ m.counting = cs /\ m.locks = ks
  BY <1>1, <1>5, <1>6 DEF LimiterState
<1>8. /\ m.entries[k] = c /\ c.lastActivity <= l.latest
      /\ c.lockedUntil <= l.latest + LockoutWindow
      /\ \A j \in Key \ {k} : m.entries[j] = l.entries[j]
  BY <1>1, <1>2, <1>3, <1>5, <1>7
<1>9. Placed(l, k, m)
  BY <1>2, <1>3, <1>5, <1>7, <1>8 DEF Placed, cs, ks
<1> QED
  BY <1>1, <1>3, <1>7, <1>8, <1>9, PlaceAtFront DEF m, e

(* Cancel's effect: a lockout in force is lifted only for its engager.       *)
LEMMA CancelKeeps ==
  ASSUME NEW l, TableInv(l), LiveIn(l), NEW r \in Reservation
  PROVE  /\ TableInv(cancel(l, r))
         /\ LiveIn(cancel(l, r))
         /\ cancel(l, r).latest = l.latest
         /\ cancel(l, r).nextEpoch = l.nextEpoch
         /\ \A k \in Tracked(l) :
               l.entries[k].locked =>
                 \/ /\ cancel(l, r).entries[k].epoch = l.entries[k].epoch
                    /\ cancel(l, r).entries[k].locked
                    /\ cancel(l, r).entries[k].lockedUntil = l.entries[k].lockedUntil
                 \/ r.engaged /\ r.key = k /\ r.epoch = l.entries[k].epoch
<1> DEFINE g == giveBack(l, r.key)
           m == cancel(l, r)
           Stands(k) == /\ m.entries[k].epoch = l.entries[k].epoch
                        /\ m.entries[k].locked
                        /\ m.entries[k].lockedUntil = l.entries[k].lockedUntil
           Goal == /\ TableInv(m) /\ LiveIn(m) /\ m.latest = l.latest
                   /\ m.nextEpoch = l.nextEpoch
                   /\ \A k \in Tracked(l) :
                        l.entries[k].locked =>
                          Stands(k) \/ (r.engaged /\ r.key = k /\ r.epoch = l.entries[k].epoch)
<1> SUFFICES Goal
  OBVIOUS
<1>1. r.key \in Key /\ r.epoch \in Nat /\ \A k \in Tracked(l) : k \in Key
  BY DEF Reservation, Tracked
<1>2. CASE r.epoch = 0 \/ l.entries[r.key].epoch # r.epoch
  <2>1. m = l
    BY <1>2 DEF cancel
  <2> QED
    BY <2>1
<1>3. CASE ~ (r.epoch = 0 \/ l.entries[r.key].epoch # r.epoch)
  <2>1. r.key \in Tracked(l) /\ r.epoch = l.entries[r.key].epoch
    BY <1>1, <1>3 DEF Tracked
  <2>2. /\ TableInv(g) /\ LiveIn(g) /\ g.latest = l.latest /\ g.nextEpoch = l.nextEpoch
        /\ Tracked(g) = Tracked(l)
        /\ \A j \in Key : /\ g.entries[j].epoch = l.entries[j].epoch
                          /\ g.entries[j].locked = l.entries[j].locked
                          /\ g.entries[j].lockedUntil = l.entries[j].lockedUntil
    BY <2>1, GiveBack
  <2>3. g.entries \in [Key -> Entry]
    BY <2>2 DEF TableInv, LimiterState
  <2>4. m = IF g.entries[r.key].locked /\ ~ r.engaged THEN g
            ELSE IF g.entries[r.key].attempts = 0 THEN removeLocked(g, r.key)
            ELSE IF g.entries[r.key].locked THEN unlockLocked(g, r.key)
            ELSE g
    BY <1>3 DEF cancel
  <2> HIDE DEF g, m
  <2>5. CASE m = g
    BY <2>5, <2>2, <1>1
  <2>6. CASE m = removeLocked(g, r.key) /\ ~ (g.entries[r.key].locked /\ ~ r.engaged)
    <3>1. /\ TableInv(m) /\ m.entries = [g.entries EXCEPT ![r.key] = NoEntry]
          /\ m.latest = g.latest /\ m.nextEpoch = g.nextEpoch
          /\ Tracked(m) = Tracked(g) \ {r.key}
      BY <2>1, <2>2, <2>6, RemoveLocked
    <3>2. \A j \in Key \ {r.key} : m.entries[j] = g.entries[j]
      BY <3>1, <2>3
    <3>3. LiveIn(m)
      BY <3>1, <3>2, <2>2 DEF LiveIn, Tracked
    <3> QED
      BY <3>1, <3>2, <3>3, <2>1, <2>2, <2>6, <1>1
  <2>7. CASE m = unlockLocked(g, r.key) /\ g.entries[r.key].locked /\ r.engaged
    <3>1. /\ TableInv(m) /\ LiveIn(m) /\ m.latest = g.latest /\ m.nextEpoch = g.nextEpoch
          /\ \A j \in Key \ {r.key} : m.entries[j] = g.entries[j]
      BY <2>1, <2>2, <2>7, UnlockLocked
    <3> QED
      BY <3>1, <2>1, <2>2, <2>7, <1>1
  <2> QED
    BY <2>4, <2>5, <2>6, <2>7
<1> QED
  BY <1>2, <1>3 DEF m

-----------------------------------------------------------------------------
(***************************************************************************)
(* The actions.  Each keeps the invariant and the lockouts in force.       *)
(***************************************************************************)
LEMMA InitLists ==
  ASSUME Init
  PROVE  ListsInv
<1>1. limiter = [entries |-> [k \in Key |-> NoEntry], nextEpoch |-> 0, latest |-> 0,
                 counting |-> << >>, locks |-> << >>]
  BY DEF Init
<1>2. NoEntry \in Entry /\ NoEntry.epoch = 0 /\ NoEntry.lastActivity = 0 /\ NoEntry.lockedUntil = 0
  BY DEF NoEntry, Entry
<1> DEFINE f == [k \in Key |-> NoEntry]
<1>3. f \in [Key -> Entry] /\ \A k \in Key : f[k] = NoEntry
  BY <1>2
<1> HIDE DEF f
<1>4. /\ limiter.entries = f /\ limiter.latest = 0
      /\ limiter.counting = << >> /\ limiter.locks = << >>
      /\ limiter \in LimiterState
  BY <1>1, <1>3 DEF LimiterState, f
<1>5. Tracked(limiter) = {}
  BY <1>2, <1>3, <1>4 DEF Tracked
<1>6. IsFiniteSet(Tracked(limiter)) /\ Size(limiter) = 0
  BY <1>5, FS_EmptySet DEF Size
<1>7. OneListIn(limiter)
  BY <1>4, <1>5 DEF OneListIn, IsInjective, ToSet
<1>8. OrderedIn(limiter)
  BY <1>4 DEF OrderedIn, Before
<1>9. StampedIn(limiter)
  BY <1>2, <1>3, <1>4, PolicyAssumption DEF StampedIn
<1>10. reservations \in [Request -> Reservation]
  BY CallerAssumption DEF Init, ZeroReservation, Reservation
<1>11. \A r \in Request :
         reservations[r].epoch = 0 => reservations[r].key = EmptyKey /\ ~ reservations[r].engaged
  BY DEF Init, ZeroReservation
<1>12. TableInv(limiter) /\ LiveIn(limiter)
  BY <1>4, <1>5, <1>6, <1>7, <1>8, <1>9, PolicyAssumption DEF TableInv, LiveIn
<1> QED
  BY <1>4, <1>10, <1>12, <1>11 DEF ListsInv, TypeOK

(* What observeLocked does to the state a method finds.                      *)
LEMMA Observed ==
  ASSUME ListsInv, NEW now \in Time, limiter.latest <= now
  PROVE  LET l == observeLocked(limiter, now)
         IN  /\ TableInv(l) /\ LiveIn(l) /\ l.latest = now
             /\ \A k \in Key : InForce(k, now) =>
                    k \in Tracked(l) /\ l.entries[k] = limiter.entries[k]
<1>1. now \in Nat
  BY CallerAssumption
<1> QED
  BY <1>1, ObserveLocked DEF ListsInv, InForce

LEMMA LockedStep ==
  ASSUME ListsInv, NEW k \in Key, NEW now \in Time, limiter.latest <= now, Locked(k, now)
  PROVE  ListsInv' /\ LockoutKept
<1> DEFINE l == observeLocked(limiter, now)
<1>1. /\ TableInv(l) /\ LiveIn(l) /\ l.latest = now
      /\ \A j \in Key : InForce(j, now) => l.entries[j] = limiter.entries[j]
  BY Observed
<1>2. limiter' = l /\ reservations' = reservations
  BY DEF Locked
<1> HIDE DEF l
<1>3. limiter' \in LimiterState
  BY <1>1, <1>2 DEF TableInv
<1>4. ListsInv'
  BY <1>1, <1>2, <1>3 DEF ListsInv, TypeOK
<1>5. LockoutKept
  BY <1>1, <1>2 DEF LockoutKept, SameLockout, InForce
<1> QED
  BY <1>4, <1>5

LEMMA ReserveDeniedStep ==
  ASSUME ListsInv, NEW r \in Request, NEW k \in Key, NEW now \in Time,
         limiter.latest <= now, ReserveDenied(r, k, now)
  PROVE  ListsInv' /\ LockoutKept
<1> DEFINE l == observeLocked(limiter, now)
<1>1. /\ TableInv(l) /\ LiveIn(l) /\ l.latest = now
      /\ \A j \in Key : InForce(j, now) => l.entries[j] = limiter.entries[j]
  BY Observed
<1>2. limiter' = l
  BY DEF ReserveDenied
<1>3. /\ reservations' \in [Request -> Reservation]
      /\ \A q \in Request : reservations'[q].epoch = 0 =>
            reservations'[q].key = EmptyKey /\ ~ reservations'[q].engaged
  <2>1. /\ ZeroReservation("held") \in Reservation
        /\ ZeroReservation("held").key = EmptyKey /\ ~ ZeroReservation("held").engaged
    BY CallerAssumption DEF ZeroReservation, Reservation
  <2> QED
    BY <2>1 DEF ReserveDenied, ListsInv, TypeOK
<1> HIDE DEF l
<1>4. limiter' \in LimiterState
  BY <1>1, <1>2 DEF TableInv
<1>5. ListsInv'
  BY <1>1, <1>2, <1>3, <1>4 DEF ListsInv, TypeOK
<1>6. LockoutKept
  BY <1>1, <1>2 DEF LockoutKept, SameLockout, InForce
<1> QED
  BY <1>5, <1>6

LEMMA ReserveAdmittedStep ==
  ASSUME ListsInv, NEW r \in Request, NEW k \in Key, NEW now \in Time,
         limiter.latest <= now, ReserveAdmitted(r, k, now)
  PROVE  ListsInv' /\ LockoutKept
<1> DEFINE l == observeLocked(limiter, now)
           room == IF k \in Tracked(l) THEN l ELSE newEntry(makeRoomLocked(l), k)
           done == countAttempt(room, k, now)
<1>1. /\ TableInv(l) /\ LiveIn(l) /\ l.latest = now
      /\ \A j \in Key : InForce(j, now) =>
             j \in Tracked(l) /\ l.entries[j] = limiter.entries[j]
  BY Observed
<1>2. /\ limiter' = done /\ ~ deniedAt(l, k, now)
      /\ reservations' =
           [reservations EXCEPT ![r] =
              [state |-> "held", key |-> k, epoch |-> room.entries[k].epoch,
               engaged |-> ~ (done.entries[k].attempts < Threshold)]]
  BY DEF ReserveAdmitted
<1> HIDE DEF l
<1>3. /\ ButForInv(room, k) /\ ~ room.entries[k].locked /\ room.latest = now
      /\ \A j \in Key : j \in Tracked(l) /\ l.entries[j].locked =>
             j # k /\ room.entries[j] = l.entries[j]
  <2>1. CASE k \in Tracked(l)
    <3>1. room = l
      BY <2>1
    <3>2. ~ l.entries[k].locked
      BY <2>1, <1>1, <1>2 DEF deniedAt, LiveIn
    <3> QED
      BY <3>1, <3>2, <2>1, <1>1, TableButFor
  <2>2. CASE k \notin Tracked(l)
    <3> DEFINE m == makeRoomLocked(l)
    <3>1. room = newEntry(m, k)
      BY <2>2
    <3>2. ~ saturatedLocked(l)
      BY <2>2, <1>2 DEF deniedAt
    <3>3. /\ TableInv(m) /\ LiveIn(m) /\ m.latest = now /\ Size(m) < MaxTrackedKeys
          /\ k \notin Tracked(m)
          /\ \A j \in Tracked(l) : l.entries[j].locked =>
                 j \in Tracked(m) /\ m.entries[j] = l.entries[j]
      BY <3>2, <2>2, <1>1, MakeRoomLocked
    <3> HIDE DEF m, room
    <3>4. /\ ButForInv(room, k) /\ ~ room.entries[k].locked /\ room.latest = now
          /\ \A j \in Key \ {k} : room.entries[j] = m.entries[j]
      BY <3>1, <3>3, NewEntry
    <3> QED
      BY <3>3, <3>4, <2>2
  <2> QED
    BY <2>1, <2>2
<1> HIDE DEF room
<1>4. /\ TableInv(done) /\ LiveIn(done) /\ done.latest = now
      /\ \A j \in Key \ {k} : done.entries[j] = room.entries[j]
  BY <1>3, CountAttempt
<1> HIDE DEF done
<1>5. limiter' \in LimiterState
  BY <1>2, <1>4 DEF TableInv
<1>6. /\ reservations' \in [Request -> Reservation]
      /\ \A q \in Request : reservations'[q].epoch = 0 =>
            reservations'[q].key = EmptyKey /\ ~ reservations'[q].engaged
  <2>1. room.entries[k].epoch \in Nat /\ room.entries[k].epoch # 0
    BY <1>3 DEF ButForInv, LimiterState, Entry, Tracked
  <2> DEFINE x == [state |-> "held", key |-> k, epoch |-> room.entries[k].epoch,
                   engaged |-> ~ (done.entries[k].attempts < Threshold)]
  <2>2. x \in Reservation /\ x.epoch # 0
    BY <2>1 DEF Reservation
  <2>3. reservations' = [reservations EXCEPT ![r] = x]
    BY <1>2
  <2> HIDE DEF x
  <2> QED
    BY <2>2, <2>3 DEF ListsInv, TypeOK
<1>7. ListsInv'
  BY <1>2, <1>4, <1>5, <1>6 DEF ListsInv, TypeOK
<1>8. LockoutKept
  BY <1>1, <1>2, <1>3, <1>4 DEF LockoutKept, SameLockout, InForce
<1> QED
  BY <1>7, <1>8

LEMMA CancelStep ==
  ASSUME ListsInv, NEW r \in Request, Cancel(r)
  PROVE  ListsInv' /\ LockoutKept
<1> DEFINE l == expireLocked(limiter, limiter.latest)
           x == reservations[r]
           m == cancel(l, x)
<1>1. /\ TableInv(l) /\ LiveIn(l) /\ l.latest = limiter.latest
      /\ \A k \in Key : InForce(k, limiter.latest) =>
             k \in Tracked(l) /\ l.entries[k] = limiter.entries[k]
  BY ExpireLocked DEF ListsInv, InForce
<1>2. limiter' = m /\ reservations' = [reservations EXCEPT ![r].state = "cancelled"]
  BY DEF Cancel
<1>3. x \in Reservation
  BY DEF ListsInv, TypeOK
<1> HIDE DEF l
<1>4. /\ TableInv(m) /\ LiveIn(m) /\ m.latest = limiter.latest
      /\ \A k \in Tracked(l) : l.entries[k].locked =>
            \/ /\ m.entries[k].epoch = l.entries[k].epoch
               /\ m.entries[k].locked
               /\ m.entries[k].lockedUntil = l.entries[k].lockedUntil
            \/ x.engaged /\ x.key = k /\ x.epoch = l.entries[k].epoch
  BY <1>1, <1>3, CancelKeeps
<1> HIDE DEF m
<1>5. /\ reservations' \in [Request -> Reservation]
      /\ \A q \in Request : reservations'[q].epoch = 0 =>
            reservations'[q].key = EmptyKey /\ ~ reservations'[q].engaged
  BY <1>2 DEF ListsInv, TypeOK, Reservation
<1>6. ListsInv'
  <2>1. limiter' \in LimiterState
    BY <1>2, <1>4 DEF TableInv
  <2> QED
    BY <2>1, <1>2, <1>4, <1>5 DEF ListsInv, TypeOK
<1>7. LockoutKept
  <2> SUFFICES ASSUME NEW k \in Key, InForce(k, limiter'.latest)
               PROVE  SameLockout(k) \/ \E q \in Request : Cancel(q) /\ Engaged(q, k)
    BY DEF LockoutKept
  <2>1. /\ k \in Tracked(l) /\ l.entries[k] = limiter.entries[k] /\ l.entries[k].locked
    BY <1>1, <1>2, <1>4 DEF InForce
  <2>2. CASE x.engaged /\ x.key = k /\ x.epoch = l.entries[k].epoch
    <3>1. Cancel(r) /\ Engaged(r, k)
      BY <2>1, <2>2 DEF Engaged
    <3> QED
      BY <3>1
  <2>3. CASE /\ m.entries[k].epoch = l.entries[k].epoch
             /\ m.entries[k].locked
             /\ m.entries[k].lockedUntil = l.entries[k].lockedUntil
    BY <2>1, <2>3, <1>2 DEF SameLockout
  <2> QED
    BY <2>1, <2>2, <2>3, <1>4
<1> QED
  BY <1>6, <1>7

(* An entry taken away leaves the others as they were.                       *)
LEMMA RemovedLives ==
  ASSUME NEW l, TableInv(l), LiveIn(l), NEW k \in Tracked(l)
  PROVE  /\ TableInv(removeLocked(l, k)) /\ LiveIn(removeLocked(l, k))
         /\ removeLocked(l, k).latest = l.latest
         /\ \A j \in Key \ {k} : removeLocked(l, k).entries[j] = l.entries[j]
<1> DEFINE m == removeLocked(l, k)
<1>1. /\ TableInv(m) /\ m.entries = [l.entries EXCEPT ![k] = NoEntry]
      /\ m.latest = l.latest /\ Tracked(m) = Tracked(l) \ {k}
  BY RemoveLocked
<1> HIDE DEF m
<1>2. \A j \in Key \ {k} : m.entries[j] = l.entries[j]
  BY <1>1 DEF TableInv, LimiterState
<1>3. LiveIn(m)
  BY <1>1, <1>2 DEF LiveIn, Tracked
<1> QED
  BY <1>1, <1>2, <1>3 DEF m

LEMMA RefundStep ==
  ASSUME ListsInv, NEW r \in Request, Refund(r)
  PROVE  ListsInv' /\ LockoutKept
<1> DEFINE k == reservations[r].key
           e == limiter.entries[k]
<1>1. reservations' = [reservations EXCEPT ![r].state = "refunded"] /\ k \in Key
  BY DEF Refund, ListsInv, TypeOK, Reservation
<1>2. /\ reservations' \in [Request -> Reservation]
      /\ \A q \in Request : reservations'[q].epoch = 0 =>
            reservations'[q].key = EmptyKey /\ ~ reservations'[q].engaged
  BY <1>1 DEF ListsInv, TypeOK, Reservation
<1>3. limiter' = IF e.epoch = 0 \/ e.locked \/ e.attempts = 0 THEN limiter
                 ELSE IF e.attempts = 1 THEN removeLocked(limiter, k)
                 ELSE giveBack(limiter, k)
  BY DEF Refund
<1>4. TableInv(limiter) /\ LiveIn(limiter)
  BY DEF ListsInv
<1> HIDE DEF k
<1>5. /\ TableInv(limiter') /\ LiveIn(limiter') /\ limiter'.latest = limiter.latest
      /\ \A j \in Key : j \in Tracked(limiter) /\ limiter.entries[j].locked =>
             /\ limiter'.entries[j].epoch = limiter.entries[j].epoch
             /\ limiter'.entries[j].locked
             /\ limiter'.entries[j].lockedUntil = limiter.entries[j].lockedUntil
  <2>1. CASE limiter' = limiter
    BY <2>1, <1>4
  <2>2. CASE limiter' = removeLocked(limiter, k) /\ e.epoch # 0 /\ ~ e.locked
    <3>1. k \in Tracked(limiter)
      BY <2>2, <1>1 DEF Tracked
    <3> QED
      BY <3>1, <2>2, <1>4, RemovedLives
  <2>3. CASE limiter' = giveBack(limiter, k) /\ e.epoch # 0
    <3>1. k \in Tracked(limiter)
      BY <2>3, <1>1 DEF Tracked
    <3> QED
      BY <3>1, <2>3, <1>4, GiveBack
  <2> QED
    BY <1>3, <2>1, <2>2, <2>3
<1>6. ListsInv'
  <2>1. limiter' \in LimiterState
    BY <1>5 DEF TableInv
  <2> QED
    BY <2>1, <1>2, <1>5 DEF ListsInv, TypeOK, TableInv, LiveIn, OneListIn, OrderedIn, StampedIn,
                            Tracked, Size, Before
<1>7. LockoutKept
  BY <1>5 DEF LockoutKept, SameLockout, InForce
<1> QED
  BY <1>6, <1>7

LEMMA ResetStep ==
  ASSUME ListsInv, NEW k \in Key, Reset(k)
  PROVE  ListsInv' /\ LockoutKept
<1>1. TableInv(limiter) /\ LiveIn(limiter) /\ reservations' = reservations
  BY DEF ListsInv, Reset
<1> DEFINE m == IF k \in Tracked(limiter) THEN removeLocked(limiter, k) ELSE limiter
<1>2. limiter' = m
  BY DEF Reset
<1>3. TableInv(m) /\ LiveIn(m) /\ \A j \in Key \ {k} : m.entries[j] = limiter.entries[j]
  <2>1. CASE k \in Tracked(limiter)
    BY <2>1, <1>1, RemovedLives
  <2>2. CASE k \notin Tracked(limiter)
    BY <2>2, <1>1
  <2> QED
    BY <2>1, <2>2
<1> HIDE DEF m
<1>4. ListsInv'
  <2>1. limiter' \in LimiterState
    BY <1>2, <1>3 DEF TableInv
  <2> QED
    BY <2>1, <1>1, <1>2, <1>3 DEF ListsInv, TypeOK
<1>5. LockoutKept
  <2> SUFFICES ASSUME NEW j \in Key, InForce(j, limiter'.latest)
               PROVE  SameLockout(j) \/ Reset(j)
    BY DEF LockoutKept
  <2>1. CASE j = k
    BY <2>1
  <2>2. CASE j # k
    BY <2>2, <1>2, <1>3 DEF SameLockout, InForce
  <2> QED
    BY <2>1, <2>2
<1> QED
  BY <1>4, <1>5

LEMMA NextStep ==
  ASSUME ListsInv, Next
  PROVE  ListsInv' /\ LockoutKept
<1>1. ASSUME NEW k \in Key, NEW now \in Time, limiter.latest <= now, Locked(k, now)
      PROVE  ListsInv' /\ LockoutKept
  BY <1>1, LockedStep
<1>2. ASSUME NEW k \in Key, NEW now \in Time, limiter.latest <= now,
             NEW r \in Request, Reserve(r, k, now)
      PROVE  ListsInv' /\ LockoutKept
  BY <1>2, ReserveDeniedStep, ReserveAdmittedStep DEF Reserve
<1>3. ASSUME NEW r \in Request, Cancel(r)
      PROVE  ListsInv' /\ LockoutKept
  BY <1>3, CancelStep
<1>4. ASSUME NEW r \in Request, Refund(r)
      PROVE  ListsInv' /\ LockoutKept
  BY <1>4, RefundStep
<1>5. ASSUME NEW k \in Key, Reset(k)
      PROVE  ListsInv' /\ LockoutKept
  BY <1>5, ResetStep
<1> QED
  BY <1>1, <1>2, <1>3, <1>4, <1>5 DEF Next

-----------------------------------------------------------------------------
(***************************************************************************)
(* What the steps are to the table without lists, AttemptBudget.           *)
(***************************************************************************)
(* Forgetting what has aged out, found at the list backs, is forgetting all *)
(* that has elapsed.                                                        *)
LEMMA LiveTable ==
  ASSUME limiter \in LimiterState, CleanIn(limiter),
         NEW m, TableInv(m), LiveIn(m), NEW now, now = m.latest,
         \A k \in Key : \/ m.entries[k] = limiter.entries[k]
                        \/ m.entries[k] = NoEntry /\ Aged(limiter, k, now)
  PROVE  m.entries = Budget!Live(now) /\ CleanIn(m)
<1>1. /\ limiter.entries \in [Key -> Entry] /\ m.entries \in [Key -> Entry]
      /\ now \in Nat /\ LockoutWindow \in Nat
  BY PolicyAssumption DEF LimiterState, TableInv
<1>2. ASSUME NEW k \in Key
      PROVE  m.entries[k] = IF Budget!Elapsed(limiter.entries[k], now)
                            THEN NoEntry ELSE limiter.entries[k]
  <2>1. /\ limiter.entries[k].lastActivity \in Int /\ limiter.entries[k].lockedUntil \in Int
        /\ limiter.entries[k].locked \in BOOLEAN
    BY <1>1 DEF Entry
  <2>2. CASE m.entries[k] = NoEntry /\ Aged(limiter, k, now)
    <3>1. Budget!Elapsed(limiter.entries[k], now)
      BY <1>1, <2>1, <2>2 DEF Budget!Elapsed, Aged, lockoutOver, idleForAWindow
    <3> QED
      BY <2>2, <3>1
  <2>3. CASE m.entries[k] = limiter.entries[k] /\ limiter.entries[k].epoch = 0
    BY <2>3 DEF CleanIn
  <2>4. CASE m.entries[k] = limiter.entries[k] /\ limiter.entries[k].epoch # 0
    <3>1. k \in Tracked(m)
      BY <2>4 DEF Tracked
    <3>2. IF limiter.entries[k].locked THEN now < limiter.entries[k].lockedUntil
          ELSE now - LockoutWindow < limiter.entries[k].lastActivity
      BY <2>4, <3>1 DEF LiveIn
    <3>3. ~ Budget!Elapsed(limiter.entries[k], now)
      BY <1>1, <2>1, <3>2 DEF Budget!Elapsed
    <3> QED
      BY <2>4, <3>3
  <2> QED
    BY <2>2, <2>3, <2>4
<1>3. m.entries = Budget!Live(now)
  BY <1>1, <1>2 DEF Budget!Live, Budget!Forgotten, NoEntry
<1>4. CleanIn(m)
  BY DEF CleanIn, NoEntry
<1> QED
  BY <1>3, <1>4

(* Both modules count with the same Cardinality.                            *)
LEMMA SameCardinality == \A S : Budget!Cardinality(S) = Cardinality(S)
BY DEF Budget!Cardinality, Cardinality

(* The table's keys, counted or listed, are the same.                       *)
LEMMA SameKeys ==
  ASSUME NEW l, TableInv(l), CleanIn(l)
  PROVE  /\ Budget!Known(l.entries) = Tracked(l)
         /\ Budget!Cardinality(Budget!Known(l.entries)) = Size(l)
         /\ Budget!Counting(l.entries) = ToSet(l.counting)
         /\ Budget!Counting(l.entries) = {k \in Tracked(l) : ~ l.entries[k].locked}
         /\ saturatedLocked(l) <=> /\ Budget!Cardinality(Budget!Known(l.entries)) >= MaxTrackedKeys
                                   /\ Budget!Counting(l.entries) = {}
<1>1. Budget!Known(l.entries) = Tracked(l)
  BY DEF Budget!Known, Tracked
<1>2. Budget!Counting(l.entries) = {k \in Tracked(l) : ~ l.entries[k].locked}
  BY <1>1 DEF Budget!Counting
<1>3. Budget!Counting(l.entries) = ToSet(l.counting)
  BY <1>2 DEF TableInv, OneListIn
<1>4. ToSet(l.counting) = {} <=> Len(l.counting) = 0
  <2>1. l.counting \in Seq(Key)
    BY DEF TableInv, LimiterState
  <2>2. Len(l.counting) \in Nat /\ DOMAIN l.counting = 1..Len(l.counting)
    BY <2>1
  <2>3. ASSUME Len(l.counting) # 0
        PROVE  ToSet(l.counting) # {}
    <3>1. 1 \in DOMAIN l.counting
      BY <2>2, <2>3
    <3>2. l.counting[1] \in ToSet(l.counting)
      BY <3>1 DEF ToSet
    <3> QED
      BY <3>2
  <2>4. ASSUME Len(l.counting) = 0
        PROVE  ToSet(l.counting) = {}
    BY <2>2, <2>4 DEF ToSet
  <2> QED
    BY <2>3, <2>4
<1>5. Budget!Cardinality(Budget!Known(l.entries)) = Size(l)
  BY <1>1, SameCardinality DEF Size
<1> QED
  BY <1>1, <1>2, <1>3, <1>4, <1>5 DEF saturatedLocked

(* A call that only looks, or is denied.                                    *)
LEMMA ObservedIsLive ==
  ASSUME ListsInv, CleanIn(limiter), NEW now \in Time, limiter.latest <= now
  PROVE  LET l == observeLocked(limiter, now)
         IN  /\ TableInv(l) /\ LiveIn(l) /\ CleanIn(l)
             /\ l.latest = now /\ l.nextEpoch = limiter.nextEpoch
             /\ l.entries = Budget!Live(now)
<1> DEFINE l == observeLocked(limiter, now)
<1>1. now \in Nat /\ TableInv(limiter) /\ limiter \in LimiterState
  BY CallerAssumption DEF ListsInv, TableInv
<1>2. /\ TableInv(l) /\ LiveIn(l) /\ l.latest = now /\ l.nextEpoch = limiter.nextEpoch
      /\ \A k \in Key : \/ l.entries[k] = limiter.entries[k]
                        \/ l.entries[k] = NoEntry /\ Aged(limiter, k, now)
  BY <1>1, ObserveLocked
<1> HIDE DEF l
<1>3. l.entries = Budget!Live(now) /\ CleanIn(l)
  BY <1>1, <1>2, LiveTable
<1> QED
  BY <1>2, <1>3 DEF l

LEMMA LockedIsLook ==
  ASSUME ListsInv, CleanIn(limiter), NEW k \in Key, NEW now \in Time, limiter.latest <= now,
         Locked(k, now)
  PROVE  Budget!Look(now) /\ CleanIn(limiter')
BY ObservedIsLive DEF Locked, Budget!Look

(* An answer of Denied is one the table alone gives.                        *)
LEMMA DeniedIsDenies ==
  ASSUME NEW l, TableInv(l), LiveIn(l), CleanIn(l), NEW k \in Key
  PROVE  deniedAt(l, k, l.latest) <=> Budget!Denies(l.entries, k)
<1>1. CASE k \in Tracked(l)
  BY <1>1, SameKeys DEF deniedAt, Budget!Denies, LiveIn
<1>2. CASE k \notin Tracked(l)
  <2>1. ~ l.entries[k].locked
    BY <1>2 DEF CleanIn, Tracked, NoEntry
  <2>2. k \notin Budget!Known(l.entries)
    BY <1>2, SameKeys
  <2>3. deniedAt(l, k, l.latest) <=> saturatedLocked(l)
    BY <1>2 DEF deniedAt
  <2> QED
    BY <2>1, <2>2, <2>3, SameKeys DEF Budget!Denies
<1> QED
  BY <1>1, <1>2

LEMMA DeniedIsDeny ==
  ASSUME ListsInv, CleanIn(limiter), NEW r \in Request, NEW k \in Key, NEW now \in Time,
         limiter.latest <= now, ReserveDenied(r, k, now)
  PROVE  Budget!Deny(r, k, now) /\ CleanIn(limiter')
<1> DEFINE l == observeLocked(limiter, now)
<1>1. /\ TableInv(l) /\ LiveIn(l) /\ CleanIn(l)
      /\ l.latest = now /\ l.nextEpoch = limiter.nextEpoch
      /\ l.entries = Budget!Live(now)
  BY ObservedIsLive
<1>2. /\ reservations[r].state = "none" /\ deniedAt(l, k, now) /\ limiter' = l
      /\ reservations' = [reservations EXCEPT ![r] = ZeroReservation("held")]
  BY DEF ReserveDenied
<1> HIDE DEF l
<1>3. Budget!Denies(Budget!Live(now), k)
  BY <1>1, <1>2, DeniedIsDenies
<1> QED
  BY <1>1, <1>2, <1>3 DEF Budget!Deny, Budget!Nothing, ZeroReservation

(* A comparison has a truth value.                                          *)
LEMMA Decided ==
  ASSUME NEW a \in Int, NEW b \in Int
  PROVE  \E v \in BOOLEAN : v = (a >= b)
<1>1. CASE a >= b
  <2>1. TRUE = (a >= b)
    BY <1>1
  <2> QED
    BY Zenon, <2>1
<1>2. CASE ~ (a >= b)
  <2>1. FALSE = (a >= b)
    BY <1>2
  <2> QED
    BY Zenon, <2>1
<1> QED
  BY <1>1, <1>2

(* The entry an attempt leaves, as AttemptBudget writes it.                 *)
LEMMA CountedEntry ==
  ASSUME NEW d \in Entry, NEW n \in Int, NEW now,
         d.attempts = n, d.locked <=> ~ (n < Threshold), d.lastActivity = now,
         d.lockedUntil = IF n < Threshold THEN 0 ELSE now + LockoutWindow
  PROVE  d = [epoch |-> d.epoch, attempts |-> n, locked |-> n >= Threshold,
              lockedUntil |-> IF n >= Threshold THEN now + LockoutWindow ELSE 0,
              lastActivity |-> now]
<1>1. Threshold \in Int
  BY PolicyAssumption
<1>2. n >= Threshold <=> ~ (n < Threshold)
  BY <1>1
<1>3. PICK b \in BOOLEAN : b = (n >= Threshold)
  BY <1>1, Decided
<1>4. d.locked = b
  BY <1>2, <1>3 DEF Entry
<1>5. d.lockedUntil = IF b THEN now + LockoutWindow ELSE 0
  BY <1>2, <1>3
<1>6. d = [epoch |-> d.epoch, attempts |-> n, locked |-> b,
           lockedUntil |-> IF b THEN now + LockoutWindow ELSE 0, lastActivity |-> now]
  BY <1>4, <1>5 DEF Entry
<1> QED
  BY <1>3, <1>6

(* Making room is displacing one of the least recently active counting keys. *)
LEMMA RoomIsVictim ==
  ASSUME NEW l, TableInv(l), LiveIn(l), CleanIn(l), NEW k \in Key, k \notin Tracked(l),
         ~ saturatedLocked(l)
  PROVE  \E V \in Budget!Victims(l.entries, k) :
            makeRoomLocked(l).entries = Budget!Forget(l.entries, V)
<1> DEFINE m == makeRoomLocked(l)
<1>1. /\ TableInv(m)
      /\ IF Size(l) < MaxTrackedKeys
         THEN m = l
         ELSE \E v \in Tracked(l) :
                   /\ ~ l.entries[v].locked
                   /\ m.entries = [l.entries EXCEPT ![v] = NoEntry]
                   /\ \A w \in Tracked(l) :
                        ~ l.entries[w].locked =>
                          l.entries[v].lastActivity <= l.entries[w].lastActivity
  BY MakeRoomLocked
<1>2. l.entries \in [Key -> Entry] /\ m.entries \in [Key -> Entry]
  BY <1>1 DEF TableInv, LimiterState
<1> HIDE DEF m
<1>3. Size(l) \in Nat /\ MaxTrackedKeys \in Nat
  BY FS_CardinalityType, PolicyAssumption DEF TableInv, Size
<1>4. /\ Budget!Known(l.entries) = Tracked(l)
      /\ Budget!Cardinality(Budget!Known(l.entries)) = Size(l)
      /\ Budget!Counting(l.entries) = {j \in Tracked(l) : ~ l.entries[j].locked}
  BY SameKeys
<1>5. CASE Size(l) < MaxTrackedKeys
  <2>1. {} \in Budget!Victims(l.entries, k)
    BY <1>4, <1>5 DEF Budget!Victims
  <2>2. m.entries = Budget!Forget(l.entries, {})
    BY <1>1, <1>2, <1>5 DEF Budget!Forget
  <2> QED
    BY <2>1, <2>2 DEF m
<1>6. CASE ~ (Size(l) < MaxTrackedKeys)
  <2>1. PICK v \in Tracked(l) :
            /\ ~ l.entries[v].locked
            /\ m.entries = [l.entries EXCEPT ![v] = NoEntry]
            /\ \A w \in Tracked(l) :
                 ~ l.entries[w].locked =>
                   l.entries[v].lastActivity <= l.entries[w].lastActivity
    BY <1>1, <1>6
  <2>2. v \in {u \in Budget!Counting(l.entries) :
                 \A w \in Budget!Counting(l.entries) :
                   l.entries[u].lastActivity <= l.entries[w].lastActivity}
    BY <1>4, <2>1
  <2>3. {v} \in Budget!Victims(l.entries, k)
    BY <1>4, <1>6, <2>2 DEF Budget!Victims
  <2>4. m.entries = Budget!Forget(l.entries, {v})
    BY <1>2, <2>1 DEF Budget!Forget, Budget!Forgotten, NoEntry
  <2> QED
    BY <2>3, <2>4 DEF m
<1> QED
  BY <1>5, <1>6

(* An admitted attempt.                                                     *)
LEMMA AdmittedIsAdmit ==
  ASSUME ListsInv, CleanIn(limiter), NEW r \in Request, NEW k \in Key, NEW now \in Time,
         limiter.latest <= now, ReserveAdmitted(r, k, now)
  PROVE  Budget!Admit(r, k, now) /\ CleanIn(limiter')
<1> DEFINE l == observeLocked(limiter, now)
           room == IF k \in Tracked(l) THEN l ELSE newEntry(makeRoomLocked(l), k)
           done == countAttempt(room, k, now)
           live == Budget!Live(now)
           isNew == k \notin Budget!Known(live)
           epoch == IF isNew THEN limiter.nextEpoch + 1 ELSE live[k].epoch
           n == live[k].attempts + 1
           last == n >= Threshold
           rec == [epoch |-> epoch, attempts |-> n, locked |-> last,
                   lockedUntil |-> IF last THEN now + LockoutWindow ELSE 0,
                   lastActivity |-> now]
<1>1. /\ TableInv(l) /\ LiveIn(l) /\ CleanIn(l) /\ l.latest = now
      /\ l.nextEpoch = limiter.nextEpoch /\ l.entries = live
  BY ObservedIsLive
<1>2. /\ limiter' = done /\ ~ deniedAt(l, k, now) /\ reservations[r].state = "none"
      /\ reservations' =
           [reservations EXCEPT ![r] =
              [state |-> "held", key |-> k, epoch |-> room.entries[k].epoch,
               engaged |-> ~ (done.entries[k].attempts < Threshold)]]
  BY DEF ReserveAdmitted
<1> HIDE DEF l, live
<1>2a. isNew <=> k \notin Tracked(l)
  BY <1>1, SameKeys
<1> HIDE DEF isNew
<1>3. l.entries \in [Key -> Entry] /\ n \in Int /\ Threshold \in Int /\ limiter.nextEpoch \in Nat
  <2>1. limiter.nextEpoch \in Nat /\ Threshold \in Int
    BY PolicyAssumption DEF LimiterState, ListsInv, TypeOK
  <2>2. l.entries \in [Key -> Entry]
    BY <1>1 DEF TableInv, LimiterState
  <2>3. l.entries[k].attempts \in Int
    BY <2>2 DEF Entry
  <2> QED
    BY <1>1, <2>1, <2>2, <2>3
<1>4. \E V \in Budget!Victims(live, k) :
        /\ ButForInv(room, k) /\ ~ room.entries[k].locked /\ room.latest = now
        /\ room.nextEpoch = IF isNew THEN limiter.nextEpoch + 1 ELSE limiter.nextEpoch
        /\ room.entries[k].epoch = epoch /\ room.entries[k].attempts + 1 = n
        /\ room.entries[k].lockedUntil = 0
        /\ \A j \in Key \ {k} : room.entries[j] = Budget!Forget(live, V)[j]
  <2>1. CASE k \in Tracked(l)
    <3>1. room = l /\ ~ isNew
      BY <2>1, <1>2a
    <3>2. ~ l.entries[k].locked
      BY <2>1, <1>1, <1>2 DEF deniedAt, LiveIn
    <3>3. l.entries[k].lockedUntil = 0
      BY <1>1, <3>2 DEF CleanIn
    <3>4. {} \in Budget!Victims(live, k)
      BY <2>1, <1>1, SameKeys DEF Budget!Victims
    <3>5. \A j \in Key : l.entries[j] = Budget!Forget(live, {})[j]
      BY <1>1 DEF Budget!Forget
    <3>6. ButForInv(l, k)
      BY <2>1, <1>1, TableButFor
    <3> HIDE DEF room
    <3> QED
      BY <3>1, <3>2, <3>3, <3>4, <3>5, <3>6, <1>1
  <2>2. CASE k \notin Tracked(l)
    <3> DEFINE m == makeRoomLocked(l)
    <3>1. room = newEntry(m, k) /\ isNew
      BY <2>2, <1>2a
    <3>2. ~ saturatedLocked(l)
      BY <2>2, <1>2 DEF deniedAt
    <3>3. /\ TableInv(m) /\ LiveIn(m) /\ m.latest = now /\ Size(m) < MaxTrackedKeys
          /\ k \notin Tracked(m) /\ m.nextEpoch = limiter.nextEpoch
      BY <3>2, <2>2, <1>1, MakeRoomLocked
    <3>4. PICK V \in Budget!Victims(live, k) : m.entries = Budget!Forget(live, V)
      BY <3>2, <2>2, <1>1, RoomIsVictim
    <3>5. live[k].attempts = 0
      BY <2>2, <1>1 DEF CleanIn, Tracked, NoEntry
    <3> HIDE DEF m, room
    <3>6. /\ ButForInv(room, k) /\ ~ room.entries[k].locked /\ room.latest = now
          /\ room.nextEpoch = m.nextEpoch + 1
          /\ room.entries[k] = [epoch |-> m.nextEpoch + 1, attempts |-> 0, locked |-> FALSE,
                                lockedUntil |-> 0, lastActivity |-> 0]
          /\ \A j \in Key \ {k} : room.entries[j] = m.entries[j]
      BY <3>1, <3>3, NewEntry
    <3>7. /\ room.entries[k].epoch = limiter.nextEpoch + 1
          /\ room.entries[k].attempts = 0 /\ room.entries[k].lockedUntil = 0
      BY <3>3, <3>6
    <3> QED
      BY <3>1, <3>3, <3>4, <3>5, <3>6, <3>7
  <2> QED
    BY <2>1, <2>2
<1> HIDE DEF room, epoch, n
<1>5. PICK V \in Budget!Victims(live, k) :
        /\ ButForInv(room, k) /\ ~ room.entries[k].locked /\ room.latest = now
        /\ room.nextEpoch = IF isNew THEN limiter.nextEpoch + 1 ELSE limiter.nextEpoch
        /\ room.entries[k].epoch = epoch /\ room.entries[k].attempts + 1 = n
        /\ room.entries[k].lockedUntil = 0
        /\ \A j \in Key \ {k} : room.entries[j] = Budget!Forget(live, V)[j]
  BY <1>4
<1>6. /\ TableInv(done) /\ done.latest = now /\ done.nextEpoch = room.nextEpoch
      /\ \A j \in Key \ {k} : done.entries[j] = room.entries[j]
      /\ done.entries[k].epoch = epoch
      /\ done.entries[k].attempts = n
      /\ done.entries[k].locked <=> ~ (n < Threshold)
      /\ done.entries[k].lastActivity = now
      /\ done.entries[k].lockedUntil = IF n < Threshold THEN 0 ELSE now + LockoutWindow
  BY <1>5, CountAttempt
<1> HIDE DEF done
<1>7. done.entries \in [Key -> Entry]
  BY <1>6 DEF TableInv, LimiterState
<1> HIDE DEF last
<1>8. done.entries[k] = rec
  BY <1>3, <1>6, <1>7, CountedEntry DEF last
<1>9. done.entries = [Budget!Forget(live, V) EXCEPT ![k] = rec]
  <2> HIDE DEF rec
  <2>1. Budget!Forget(live, V) = [j \in Key |-> Budget!Forget(live, V)[j]]
    BY DEF Budget!Forget
  <2> QED
    BY <1>5, <1>6, <1>7, <1>8, <2>1
<1>10. CleanIn(done)
  <2>1. ASSUME NEW j \in Key \ {k}
        PROVE  /\ done.entries[j].epoch = 0 => done.entries[j] = NoEntry
               /\ ~ done.entries[j].locked => done.entries[j].lockedUntil = 0
    <3>1. done.entries[j] = Budget!Forget(live, V)[j]
      BY <1>5, <1>6
    <3>2. done.entries[j] = NoEntry \/ done.entries[j] = l.entries[j]
      BY <3>1, <1>1 DEF Budget!Forget, Budget!Forgotten, NoEntry
    <3>3. NoEntry.lockedUntil = 0
      BY DEF NoEntry
    <3> QED
      BY <3>2, <3>3, <1>1 DEF CleanIn
  <2>2. done.entries[k].epoch # 0
    BY <1>5, <1>6 DEF ButForInv, Tracked
  <2> QED
    BY <2>1, <2>2, <1>6 DEF CleanIn
<1>11. ~ Budget!Denies(live, k)
  BY <1>1, <1>2, DeniedIsDenies
<1>12. reservations' = [reservations EXCEPT ![r] =
                          [state |-> "held", key |-> k, epoch |-> epoch, engaged |-> last]]
  <2>1. PICK b \in BOOLEAN : b = last
    BY <1>3, Decided DEF last
  <2>2. (~ (done.entries[k].attempts < Threshold)) = b
    BY <1>3, <1>6, <2>1 DEF last
  <2> QED
    BY <1>2, <1>5, <2>1, <2>2
<1>13. limiter'.entries = done.entries /\ limiter'.nextEpoch = done.nextEpoch
       /\ limiter'.latest = now /\ CleanIn(limiter')
  BY <1>2, <1>6, <1>10
<1>14. \E W \in Budget!Victims(live, k) :
         limiter'.entries = [Budget!Forget(live, W) EXCEPT ![k] = rec]
  BY <1>5, <1>9, <1>13
<1>15. limiter'.nextEpoch = IF isNew THEN limiter.nextEpoch + 1 ELSE limiter.nextEpoch
  BY <1>5, <1>6, <1>13
<1>16. Budget!Admit(r, k, now)
  BY Zenon, <1>2, <1>11, <1>12, <1>13, <1>14, <1>15
     DEF Budget!Admit, live, isNew, epoch, n, last
<1> QED
  BY <1>13, <1>16

(* An entry is its fields.                                                  *)
LEMMA SameEntry ==
  ASSUME NEW a \in Entry, NEW b \in Entry, a.epoch = b.epoch, a.attempts = b.attempts,
         a.locked = b.locked, a.lockedUntil = b.lockedUntil, a.lastActivity = b.lastActivity
  PROVE  a = b
BY DEF Entry

(* An attempt less, and the lockout lifted.                                 *)
LEMMA LessEntry ==
  ASSUME NEW e \in Entry, NEW n \in Int
  PROVE  LET c == [e EXCEPT !.attempts = n]
         IN  /\ c \in Entry /\ c.epoch = e.epoch /\ c.attempts = n /\ c.locked = e.locked
             /\ c.lockedUntil = e.lockedUntil /\ c.lastActivity = e.lastActivity
BY DEF Entry

Lifted(e, n, t) ==
  [e EXCEPT !.attempts = n, !.locked = FALSE, !.lockedUntil = 0, !.lastActivity = t]

LEMMA LiftedEntry ==
  ASSUME NEW e \in Entry, NEW n \in Int, NEW t \in Int
  PROVE  /\ Lifted(e, n, t) \in Entry
         /\ Lifted(e, n, t).epoch = e.epoch
         /\ Lifted(e, n, t).attempts = n
         /\ ~ Lifted(e, n, t).locked
         /\ Lifted(e, n, t).lockedUntil = 0
         /\ Lifted(e, n, t).lastActivity = t
<1> DEFINE z == 0
           c == Lifted(e, n, t)
<1>1. /\ z \in Int
      /\ c = [e EXCEPT !.attempts = n, !.locked = FALSE, !.lockedUntil = z, !.lastActivity = t]
  BY DEF Lifted
<1> HIDE DEF c
<1> HIDE DEF z
<1>2. /\ c \in Entry /\ c.epoch = e.epoch /\ c.attempts = n /\ c.locked = FALSE
      /\ c.lockedUntil = z /\ c.lastActivity = t
  BY <1>1 DEF Entry
<1> QED
  BY <1>2 DEF z, c

(* What Cancel leaves of an entry.                                          *)
Cancelled(e, engaged, latest) ==
  IF e.locked /\ ~ engaged THEN [e EXCEPT !.attempts = e.attempts - 1]
  ELSE IF e.attempts - 1 = 0 THEN NoEntry
  ELSE Lifted(e, e.attempts - 1, IF e.locked THEN latest ELSE e.lastActivity)

(* What Cancel makes of the key it names, on a table whose aged entries are *)
(* gone.                                                                    *)
LEMMA CancelledEntry ==
  ASSUME NEW l, TableInv(l), LiveIn(l), CleanIn(l), NEW r \in Reservation,
         NEW e, e = l.entries[r.key], r.epoch # 0, e.epoch = r.epoch
  PROVE  /\ \A j \in Key \ {r.key} : cancel(l, r).entries[j] = l.entries[j]
         /\ cancel(l, r).entries[r.key] = Cancelled(e, r.engaged, l.latest)
         /\ CleanIn(cancel(l, r))
<1> DEFINE k == r.key
           n == e.attempts - 1
           g == giveBack(l, k)
           m == cancel(l, r)
           t == IF e.locked THEN l.latest ELSE e.lastActivity
           less == [e EXCEPT !.attempts = n]
           lifted == Lifted(e, n, t)
<1>1. k \in Key /\ k \in Tracked(l)
  BY DEF Reservation, Tracked
<1>2. /\ l.entries \in [Key -> Entry] /\ e \in Entry /\ n \in Int /\ t \in Int
      /\ l.latest \in Nat /\ e.epoch # 0
  BY <1>1 DEF TableInv, LimiterState, Entry
<1>3. /\ TableInv(g) /\ LiveIn(g) /\ g.latest = l.latest /\ Tracked(g) = Tracked(l)
      /\ g.entries[k].epoch = e.epoch /\ g.entries[k].locked = e.locked
      /\ g.entries[k].lockedUntil = e.lockedUntil
      /\ g.entries[k].lastActivity = e.lastActivity
      /\ g.entries[k].attempts = n
      /\ \A j \in Key \ {k} : g.entries[j] = l.entries[j]
  BY <1>1, GiveBack
<1>4. m = IF g.entries[k].locked /\ ~ r.engaged THEN g
          ELSE IF g.entries[k].attempts = 0 THEN removeLocked(g, k)
          ELSE IF g.entries[k].locked THEN unlockLocked(g, k)
          ELSE g
  BY DEF cancel
<1>5. CleanIn(l) /\ (~ e.locked => e.lockedUntil = 0)
  BY <1>1 DEF CleanIn
<1> HIDE DEF g, m, t, n
<1>6. /\ less \in Entry /\ less.epoch = e.epoch /\ less.attempts = n /\ less.locked = e.locked
      /\ less.lockedUntil = e.lockedUntil /\ less.lastActivity = e.lastActivity
  BY <1>2, LessEntry
<1>7. /\ lifted \in Entry /\ lifted.epoch = e.epoch /\ lifted.attempts = n
      /\ lifted.locked = FALSE /\ lifted.lockedUntil = 0 /\ lifted.lastActivity = t
  <2>1. /\ lifted \in Entry /\ lifted.epoch = e.epoch /\ lifted.attempts = n
        /\ ~ lifted.locked /\ lifted.lockedUntil = 0 /\ lifted.lastActivity = t
    BY <1>2, LiftedEntry
  <2> QED
    BY <2>1 DEF Entry
<1> HIDE DEF less, lifted
<1>8. g.entries \in [Key -> Entry] /\ g.entries[k] \in Entry
  BY <1>1, <1>3 DEF TableInv, LimiterState
<1>9. g.entries[k] = less
  BY <1>3, <1>6, <1>8, SameEntry
<1>10. NoEntry.lockedUntil = 0
  BY DEF NoEntry
<1>11. CASE e.locked /\ ~ r.engaged
  <2>1. m = g
    BY <1>3, <1>4, <1>11
  <2>2. CleanIn(m)
    BY <2>1, <1>2, <1>3, <1>5, <1>11 DEF CleanIn
  <2> QED
    BY <2>1, <2>2, <1>3, <1>9, <1>11 DEF m, less, Cancelled, n
<1>12. CASE ~ (e.locked /\ ~ r.engaged) /\ n = 0
  <2>1. m = removeLocked(g, k)
    BY <1>3, <1>4, <1>12
  <2>2. m.entries = [g.entries EXCEPT ![k] = NoEntry]
    BY <2>1, <1>1, <1>3, RemoveLocked
  <2>3. m.entries[k] = NoEntry /\ \A j \in Key \ {k} : m.entries[j] = l.entries[j]
    BY <2>2, <1>1, <1>3, <1>8
  <2>4. CleanIn(m)
    BY <2>3, <1>5, <1>10 DEF CleanIn
  <2> QED
    BY <2>3, <2>4, <1>12 DEF m, Cancelled, n
<1>13. CASE ~ (e.locked /\ ~ r.engaged) /\ n # 0 /\ e.locked
  <2>1. m = unlockLocked(g, k)
    BY <1>3, <1>4, <1>13
  <2>2. /\ TableInv(m)
        /\ \A j \in Key \ {k} : m.entries[j] = g.entries[j]
        /\ m.entries[k].epoch = e.epoch /\ m.entries[k].attempts = n
        /\ ~ m.entries[k].locked /\ m.entries[k].lockedUntil = 0
        /\ m.entries[k].lastActivity = l.latest
    <3>1. k \in Tracked(g) /\ g.entries[k].locked
      BY <1>1, <1>3, <1>13
    <3> QED
      BY <2>1, <3>1, <1>3, UnlockLocked
  <2>3. m.entries[k] \in Entry
    BY <2>2, <1>1 DEF TableInv, LimiterState
  <2>4. m.entries[k].locked = FALSE /\ t = l.latest
    BY <2>2, <2>3, <1>13 DEF Entry, t
  <2>5. m.entries[k] = lifted
    BY <2>2, <2>3, <2>4, <1>7, SameEntry
  <2>6. CleanIn(m)
    BY <2>2, <1>2, <1>3, <1>5 DEF CleanIn
  <2> QED
    BY <2>2, <2>5, <2>6, <1>3, <1>13 DEF m, lifted, t, Cancelled, n
<1>14. CASE ~ (e.locked /\ ~ r.engaged) /\ n # 0 /\ ~ e.locked
  <2>1. m = g
    BY <1>3, <1>4, <1>14
  <2>2. e.locked = FALSE /\ t = e.lastActivity
    BY <1>2, <1>14 DEF Entry, t
  <2>3. m.entries[k] = lifted
    BY <2>1, <2>2, <1>3, <1>5, <1>7, <1>8, <1>14, SameEntry
  <2>4. CleanIn(m)
    BY <2>1, <1>2, <1>3, <1>5, <1>14 DEF CleanIn
  <2> QED
    BY <2>1, <2>3, <2>4, <1>3, <1>14 DEF m, lifted, t, Cancelled, n
<1> QED
  BY <1>11, <1>12, <1>13, <1>14

LEMMA CancelIsTakeBack ==
  ASSUME ListsInv, CleanIn(limiter), NEW r \in Request, Cancel(r)
  PROVE  Budget!TakeBack(r) /\ CleanIn(limiter')
<1> DEFINE now == limiter.latest
           l == expireLocked(limiter, now)
           live == Budget!Live(now)
           v == reservations[r]
           e == live[v.key]
           n == e.attempts - 1
           m == cancel(l, v)
           after == IF e.locked /\ ~ v.engaged THEN [e EXCEPT !.attempts = n]
                    ELSE IF n = 0 THEN Budget!Forgotten
                    ELSE [e EXCEPT !.attempts = n, !.locked = FALSE, !.lockedUntil = 0,
                                   !.lastActivity = IF e.locked THEN limiter.latest ELSE @]
<1>1. /\ TableInv(l) /\ LiveIn(l) /\ l.latest = now /\ l.nextEpoch = limiter.nextEpoch
      /\ \A k \in Key : \/ l.entries[k] = limiter.entries[k]
                        \/ l.entries[k] = NoEntry /\ Aged(limiter, k, now)
  BY ExpireLocked DEF ListsInv
<1>2. /\ v.state = "held" /\ limiter' = m
      /\ reservations' = [reservations EXCEPT ![r].state = "cancelled"]
  BY DEF Cancel
<1>3. v \in Reservation /\ v.key \in Key
  BY DEF ListsInv, TypeOK, Reservation
<1> HIDE DEF l
<1>4. l.entries = live /\ CleanIn(l)
  <2>1. limiter \in LimiterState
    BY DEF ListsInv, TypeOK
  <2> HIDE DEF now
  <2> QED
    BY <1>1, <2>1, LiveTable
<1>5. m.latest = now /\ m.nextEpoch = limiter.nextEpoch /\ TableInv(m)
  BY <1>1, <1>3, CancelKeeps
<1> HIDE DEF live, v, m
<1>6. l.entries \in [Key -> Entry] /\ m.entries \in [Key -> Entry]
  BY <1>1, <1>5 DEF TableInv, LimiterState
<1>7. CASE v.epoch = 0 \/ e.epoch # v.epoch
  <2>1. m = l
    BY <1>4, <1>7 DEF cancel, m
  <2> QED
    BY <2>1, <1>1, <1>2, <1>4, <1>7 DEF Budget!TakeBack, live, v
<1>8. CASE ~ (v.epoch = 0 \/ e.epoch # v.epoch)
  <2>1. /\ \A j \in Key \ {v.key} : m.entries[j] = live[j]
        /\ m.entries[v.key] = after
        /\ CleanIn(m)
    <3>1. Budget!Forgotten = NoEntry
      BY DEF Budget!Forgotten, NoEntry
    <3>2. e = l.entries[v.key] /\ v.epoch # 0 /\ e.epoch = v.epoch
      BY <1>4, <1>8
    <3>3. after = Cancelled(e, v.engaged, l.latest)
      BY <3>1, <1>1 DEF Cancelled, Lifted
    <3> HIDE DEF e, after
    <3>4. /\ \A j \in Key \ {v.key} : m.entries[j] = l.entries[j]
          /\ m.entries[v.key] = Cancelled(e, v.engaged, l.latest)
          /\ CleanIn(m)
      BY <3>2, <1>1, <1>3, <1>4, CancelledEntry DEF m
    <3> QED
      BY <3>3, <3>4, <1>4
  <2> HIDE DEF after
  <2>2. m.entries = [live EXCEPT ![v.key] = after]
    BY <2>1, <1>3, <1>4, <1>6
  <2>3. limiter'.entries = [live EXCEPT ![v.key] = after] /\ limiter'.latest = limiter.latest
        /\ limiter'.nextEpoch = limiter.nextEpoch /\ CleanIn(limiter')
    BY <2>1, <2>2, <1>2, <1>5
  <2> QED
    BY <2>3, <1>2, <1>8 DEF Budget!TakeBack, live, v, after
<1> QED
  BY <1>7, <1>8

LEMMA RefundIsAnonymous ==
  ASSUME ListsInv, CleanIn(limiter), NEW r \in Request, Refund(r)
  PROVE  Budget!GiveBackAnonymously(r) /\ CleanIn(limiter')
<1> DEFINE k == reservations[r].key
           e == limiter.entries[k]
           less == [e EXCEPT !.attempts = @ - 1]
           after == IF e.epoch = 0 \/ e.locked \/ e.attempts = 0 THEN e
                    ELSE IF e.attempts = 1 THEN Budget!Forgotten
                    ELSE less
<1>1. /\ reservations[r].state = "held" /\ reservations[r].epoch # 0
      /\ reservations' = [reservations EXCEPT ![r].state = "refunded"] /\ k \in Key
  BY DEF Refund, ListsInv, TypeOK, Reservation
<1>2. limiter' = IF e.epoch = 0 \/ e.locked \/ e.attempts = 0 THEN limiter
                 ELSE IF e.attempts = 1 THEN removeLocked(limiter, k)
                 ELSE giveBack(limiter, k)
  BY DEF Refund
<1>3. TableInv(limiter) /\ limiter.entries \in [Key -> Entry] /\ e \in Entry
  BY <1>1 DEF ListsInv, TableInv, LimiterState
<1>4. Budget!Forgotten = NoEntry /\ NoEntry.lockedUntil = 0
  BY DEF Budget!Forgotten, NoEntry
<1> HIDE DEF k
<1>5. /\ limiter'.entries = [limiter.entries EXCEPT ![k] = after]
      /\ limiter'.latest = limiter.latest /\ limiter'.nextEpoch = limiter.nextEpoch
      /\ CleanIn(limiter')
  <2>1. CASE e.epoch = 0 \/ e.locked \/ e.attempts = 0
    <3>1. after = e /\ limiter' = limiter
      BY <2>1, <1>2
    <3> HIDE DEF after
    <3>2. [limiter.entries EXCEPT ![k] = after] = limiter.entries
      BY <3>1, <1>1, <1>3
    <3> QED
      BY <3>1, <3>2
  <2>2. CASE ~ (e.epoch = 0 \/ e.locked \/ e.attempts = 0) /\ e.attempts = 1
    <3>1. after = NoEntry /\ limiter' = removeLocked(limiter, k) /\ k \in Tracked(limiter)
      BY <2>2, <1>1, <1>2, <1>4 DEF Tracked
    <3> HIDE DEF after
    <3>2. /\ limiter'.entries = [limiter.entries EXCEPT ![k] = NoEntry]
          /\ limiter'.latest = limiter.latest /\ limiter'.nextEpoch = limiter.nextEpoch
      BY <3>1, <1>3, RemoveLocked
    <3>3. CleanIn(limiter')
      BY <3>2, <1>1, <1>3, <1>4 DEF CleanIn
    <3> QED
      BY <3>1, <3>2, <3>3
  <2>3. CASE ~ (e.epoch = 0 \/ e.locked \/ e.attempts = 0) /\ e.attempts # 1
    <3>1. after = less /\ limiter' = giveBack(limiter, k) /\ k \in Tracked(limiter)
      BY <2>3, <1>1, <1>2 DEF Tracked
    <3> HIDE DEF after
    <3> DEFINE n == e.attempts - 1
    <3>2. n \in Int
      BY <1>3 DEF Entry
    <3>3. /\ less \in Entry /\ less.epoch = e.epoch /\ less.attempts = n
          /\ less.locked = e.locked /\ less.lockedUntil = e.lockedUntil
          /\ less.lastActivity = e.lastActivity
      BY <1>3, <3>2, LessEntry
    <3> HIDE DEF less
    <3>4. /\ TableInv(limiter') /\ limiter'.latest = limiter.latest
          /\ limiter'.nextEpoch = limiter.nextEpoch
          /\ limiter'.entries[k].epoch = e.epoch /\ limiter'.entries[k].locked = e.locked
          /\ limiter'.entries[k].lockedUntil = e.lockedUntil
          /\ limiter'.entries[k].lastActivity = e.lastActivity
          /\ limiter'.entries[k].attempts = n
          /\ \A j \in Key \ {k} : limiter'.entries[j] = limiter.entries[j]
      BY <3>1, <1>1, <1>3, GiveBack
    <3>5. limiter'.entries \in [Key -> Entry] /\ limiter'.entries[k] \in Entry
      BY <3>4, <1>1 DEF TableInv, LimiterState
    <3>6. limiter'.entries[k] = less
      BY <3>3, <3>4, <3>5, SameEntry
    <3>7. limiter'.entries = [limiter.entries EXCEPT ![k] = less]
      BY <3>4, <3>5, <3>6, <1>1, <1>3
    <3>8. CleanIn(limiter')
      BY <3>4, <2>3, <1>1 DEF CleanIn
    <3> QED
      BY <3>1, <3>4, <3>7, <3>8
  <2> QED
    BY <2>1, <2>2, <2>3
<1> HIDE DEF after
<1> QED
  BY <1>1, <1>5 DEF Budget!GiveBackAnonymously, k, after

LEMMA ResetIsClear ==
  ASSUME ListsInv, CleanIn(limiter), NEW k \in Key, Reset(k)
  PROVE  Budget!Clear(k) /\ CleanIn(limiter')
<1>1. TableInv(limiter) /\ limiter.entries \in [Key -> Entry] /\ reservations' = reservations
  BY DEF ListsInv, TableInv, LimiterState, Reset
<1>2. Budget!Forgotten = NoEntry /\ NoEntry.lockedUntil = 0
  BY DEF Budget!Forgotten, NoEntry
<1>3. /\ limiter'.entries = [limiter.entries EXCEPT ![k] = NoEntry]
      /\ limiter'.latest = limiter.latest /\ limiter'.nextEpoch = limiter.nextEpoch
  <2>1. CASE k \in Tracked(limiter)
    BY <2>1, <1>1, RemoveLocked DEF Reset
  <2>2. CASE k \notin Tracked(limiter)
    <3>1. limiter.entries[k] = NoEntry
      BY <2>2 DEF CleanIn, Tracked
    <3> QED
      BY <2>2, <3>1, <1>1 DEF Reset
  <2> QED
    BY <2>1, <2>2
<1>4. limiter'.entries = Budget!Forget(limiter.entries, {k})
  BY <1>1, <1>2, <1>3 DEF Budget!Forget
<1>5. CleanIn(limiter')
  BY <1>1, <1>2, <1>3 DEF CleanIn
<1> QED
  BY <1>1, <1>3, <1>4, <1>5 DEF Budget!Clear

(* Every step of the limiter is one of the table's.                         *)
LEMMA StepIsBudgetStep ==
  ASSUME ListsInv, CleanIn(limiter), Next
  PROVE  Budget!Next /\ CleanIn(limiter')
<1>1. ASSUME NEW k \in Key, NEW now \in Time, limiter.latest <= now, Locked(k, now)
      PROVE  Budget!Next /\ CleanIn(limiter')
  BY <1>1, LockedIsLook DEF Budget!Next
<1>2. ASSUME NEW k \in Key, NEW now \in Time, limiter.latest <= now,
             NEW r \in Request, Reserve(r, k, now)
      PROVE  Budget!Next /\ CleanIn(limiter')
  BY <1>2, DeniedIsDeny, AdmittedIsAdmit DEF Reserve, Budget!Next
<1>3. ASSUME NEW r \in Request, Cancel(r)
      PROVE  Budget!Next /\ CleanIn(limiter')
  BY <1>3, CancelIsTakeBack DEF Budget!Next
<1>4. ASSUME NEW r \in Request, Refund(r)
      PROVE  Budget!Next /\ CleanIn(limiter')
  BY <1>4, RefundIsAnonymous DEF Budget!Next
<1>5. ASSUME NEW k \in Key, Reset(k)
      PROVE  Budget!Next /\ CleanIn(limiter')
  BY <1>5, ResetIsClear DEF Budget!Next
<1> QED
  BY <1>1, <1>2, <1>3, <1>4, <1>5 DEF Next

-----------------------------------------------------------------------------
(***************************************************************************)
(* The accounts.  What a step does to them is read off AttemptBudget.      *)
(***************************************************************************)
(* v is no attempt at the entry of k with this epoch.                       *)
Foreign(v, k, epoch) ==
  v.key # k \/ v.epoch # epoch \/ (v.epoch = 0 /\ ~ v.engaged)

(* A key without an entry has no accounts.                                  *)
LEMMA NoAccount ==
  ASSUME NEW m, NEW out, NEW k, m.entries[k].epoch = 0,
         \A q \in Request : out[q].epoch = 0 => ~ out[q].engaged
  PROVE  AccountedIn(m, out, k)
<1>1. StandingIn(m, out, k) = {} /\ EngagersIn(m, out, k) = {}
  BY DEF StandingIn, EngagersIn
<1> QED
  BY <1>1, FS_EmptySet DEF AccountedIn

(* The accounts of a key stand while its entry stays what it was, or is     *)
(* forgotten, and only reservations of other entries move.                  *)
LEMMA AccountFrame ==
  ASSUME NEW l, NEW m, NEW res, NEW out, NEW k, AccountedIn(l, res, k),
         m.entries[k] = l.entries[k] \/ m.entries[k].epoch = 0,
         \A q \in Request : out[q].epoch = 0 => ~ out[q].engaged,
         \A q \in Request : \/ out[q] = res[q]
                            \/ /\ Foreign(res[q], k, l.entries[k].epoch)
                               /\ Foreign(out[q], k, l.entries[k].epoch),
         NobodyRefunds(out) => NobodyRefunds(res)
  PROVE  AccountedIn(m, out, k)
<1>1. CASE m.entries[k].epoch = 0
  BY <1>1, NoAccount
<1>2. CASE m.entries[k] = l.entries[k]
  <2>1. StandingIn(m, out, k) = StandingIn(l, res, k)
    BY <1>2 DEF StandingIn, Foreign
  <2>2. EngagersIn(m, out, k) = EngagersIn(l, res, k)
    BY <1>2 DEF EngagersIn, Foreign
  <2> QED
    BY <1>2, <2>1, <2>2 DEF AccountedIn
<1> QED
  BY <1>1, <1>2

(* One more attempt at the entry of k, its first or its last included.      *)
LEMMA AccountGrows ==
  ASSUME NEW l, NEW m, NEW res, NEW out, NEW k, NEW r \in Request,
         AccountedIn(l, res, k),
         ~ l.entries[k].locked,
         l.entries[k].attempts \in Int,
         l.entries[k].epoch = 0 => l.entries[k].attempts = 0,
         m.entries[k].epoch # 0,
         \/ m.entries[k].epoch = l.entries[k].epoch
         \/ /\ l.entries[k].epoch = 0
            /\ \A q \in Request : res[q].epoch # m.entries[k].epoch,
         m.entries[k].attempts = l.entries[k].attempts + 1,
         res[r].epoch = 0, ~ res[r].engaged, res[r].state # "refunded",
         \A q \in Request \ {r} : out[q] = res[q],
         out[r].state = "held", out[r].key = k, out[r].epoch = m.entries[k].epoch,
         out[r].engaged <=> m.entries[k].locked
  PROVE  AccountedIn(m, out, k)
<1> DEFINE S == StandingIn(l, res, k)
           E == EngagersIn(l, res, k)
           S0 == IF l.entries[k].epoch = 0 THEN {} ELSE S
<1>1. NobodyRefunds(out) => NobodyRefunds(res)
  BY DEF NobodyRefunds
<1>2. /\ IsFiniteSet(S0) /\ r \notin S0
      /\ NobodyRefunds(res) => l.entries[k].attempts = Cardinality(S0)
  BY FS_EmptySet DEF AccountedIn, StandingIn
<1>3. StandingIn(m, out, k) = S0 \cup {r}
  BY DEF StandingIn
<1>4. EngagersIn(m, out, k) = IF m.entries[k].locked THEN {r} ELSE {}
  <2>1. CASE l.entries[k].epoch = 0
    BY <2>1 DEF EngagersIn
  <2>2. CASE l.entries[k].epoch # 0
    <3>1. E = {}
      BY <2>2, FS_EmptySet DEF AccountedIn
    <3> QED
      BY <2>2, <3>1 DEF EngagersIn
  <2> QED
    BY <2>1, <2>2
<1> HIDE DEF S0
<1>5. /\ IsFiniteSet(S0 \cup {r})
      /\ Cardinality(S0 \cup {r}) = Cardinality(S0) + 1
  BY SMTT(30), <1>2, FS_AddElement
<1>6. /\ IsFiniteSet(EngagersIn(m, out, k))
      /\ Cardinality(EngagersIn(m, out, k)) = IF m.entries[k].locked THEN 1 ELSE 0
  <2>1. CASE m.entries[k].locked
    <3>1. EngagersIn(m, out, k) = {r}
      BY <2>1, <1>4
    <3> QED
      BY <2>1, <3>1, FS_Singleton
  <2>2. CASE ~ m.entries[k].locked
    <3>1. EngagersIn(m, out, k) = {}
      BY <2>2, <1>4
    <3> QED
      BY <2>2, <3>1, FS_EmptySet
  <2> QED
    BY <2>1, <2>2
<1> QED
  BY <1>1, <1>2, <1>3, <1>5, <1>6 DEF AccountedIn

(* One attempt less: only the engager's cancellation may lift the lockout,  *)
(* and it must.                                                             *)
LEMMA AccountShrinks ==
  ASSUME NEW l, NEW m, NEW res, NEW out, NEW k, NEW r \in Request,
         AccountedIn(l, res, k),
         res[r].state = "held", res[r].key = k,
         res[r].epoch = l.entries[k].epoch, l.entries[k].epoch # 0,
         l.entries[k].attempts \in Int,
         m.entries[k].epoch = l.entries[k].epoch,
         m.entries[k].attempts = l.entries[k].attempts - 1,
         m.entries[k].locked <=> (l.entries[k].locked /\ ~ res[r].engaged),
         \A q \in Request \ {r} : out[q] = res[q],
         out[r].state = "cancelled"
  PROVE  AccountedIn(m, out, k)
<1> DEFINE S == StandingIn(l, res, k)
           E == EngagersIn(l, res, k)
<1>1. NobodyRefunds(out) => NobodyRefunds(res)
  BY DEF NobodyRefunds
<1>2. StandingIn(m, out, k) = S \ {r} /\ r \in S
  BY DEF StandingIn
<1>3. EngagersIn(m, out, k) = E \ {r} /\ (res[r].engaged <=> r \in E)
  BY DEF EngagersIn
<1>4. /\ IsFiniteSet(S) /\ IsFiniteSet(E)
      /\ NobodyRefunds(res) => l.entries[k].attempts = Cardinality(S)
      /\ Cardinality(E) = IF l.entries[k].locked THEN 1 ELSE 0
  BY DEF AccountedIn
<1> HIDE DEF S, E
<1>5. /\ IsFiniteSet(S \ {r}) /\ Cardinality(S \ {r}) = Cardinality(S) - 1
      /\ IsFiniteSet(E \ {r})
      /\ Cardinality(E \ {r}) = IF r \in E THEN Cardinality(E) - 1 ELSE Cardinality(E)
  BY <1>2, <1>4, FS_RemoveElement
<1>6. r \in E => l.entries[k].locked
  BY <1>4, FS_EmptySet
<1>7. Cardinality(E \ {r}) = IF m.entries[k].locked THEN 1 ELSE 0
  BY <1>3, <1>4, <1>5, <1>6
<1> QED
  BY <1>1, <1>2, <1>3, <1>4, <1>5, <1>7 DEF AccountedIn

(* After a Refund the count is nobody's account, and the engager is still    *)
(* the one it was.                                                           *)
LEMMA AccountWaived ==
  ASSUME NEW l, NEW m, NEW res, NEW out, NEW k, NEW r \in Request,
         AccountedIn(l, res, k),
         m.entries[k].epoch = l.entries[k].epoch,
         m.entries[k].locked = l.entries[k].locked,
         \A q \in Request \ {r} : out[q] = res[q],
         res[r].state = "held", out[r].state = "refunded", out[r].key = res[r].key,
         out[r].epoch = res[r].epoch, out[r].engaged = res[r].engaged
  PROVE  AccountedIn(m, out, k)
<1>1. ~ NobodyRefunds(out)
  BY DEF NobodyRefunds
<1>2. StandingIn(m, out, k) = StandingIn(l, res, k) \ {r}
  BY DEF StandingIn
<1>3. EngagersIn(m, out, k) = EngagersIn(l, res, k)
  BY DEF EngagersIn
<1>4. IsFiniteSet(StandingIn(l, res, k) \ {r})
  BY FS_RemoveElement DEF AccountedIn
<1> QED
  BY <1>1, <1>2, <1>3, <1>4 DEF AccountedIn

(* What the accounts say, of every key.                                      *)
Accounts ==
  /\ EpochsAreGiven
  /\ \A k \in Key : AccountedIn(limiter, reservations, k)

(* A request that has not made its attempt is foreign to every entry, and so *)
(* is a zero Reservation.                                                    *)
LEMMA NoneIsForeign ==
  ASSUME TypeOK, EpochsAreGiven, NEW r \in Request, reservations[r].state = "none",
         NEW k, NEW epoch
  PROVE  /\ Foreign(reservations[r], k, epoch)
         /\ reservations[r].epoch = 0 /\ ~ reservations[r].engaged
BY DEF TypeOK, EpochsAreGiven, Foreign

(* The table a call observes: entries as they were, or forgotten.            *)
LEMMA LiveOrForgotten ==
  ASSUME NEW now
  PROVE  /\ DOMAIN Budget!Live(now) = Key
         /\ \A k \in Key : \/ Budget!Live(now)[k] = limiter.entries[k]
                           \/ Budget!Live(now)[k] = NoEntry
BY DEF Budget!Live, Budget!Forgotten, NoEntry

LEMMA ForgottenHasNone ==
  /\ NoEntry.epoch = 0 /\ NoEntry.attempts = 0 /\ ~ NoEntry.locked
  /\ Budget!Forgotten = NoEntry
BY DEF NoEntry, Budget!Forgotten

(* Looking, and clearing a key: nothing is reserved.                         *)
LEMMA QuietAccounts ==
  ASSUME ListsInv, Accounts, reservations' = reservations,
         limiter'.nextEpoch = limiter.nextEpoch,
         \A k \in Key : \/ limiter'.entries[k] = limiter.entries[k]
                        \/ limiter'.entries[k] = NoEntry
  PROVE  Accounts'
<1>1. \A q \in Request : reservations[q].epoch = 0 => ~ reservations[q].engaged
  BY DEF ListsInv, TypeOK
<1>2. limiter.nextEpoch \in Nat
  BY DEF ListsInv, TypeOK, LimiterState
<1>3. EpochsAreGiven'
  BY <1>2, ForgottenHasNone DEF Accounts, EpochsAreGiven
<1>4. ASSUME NEW k \in Key
      PROVE  AccountedIn(limiter', reservations', k)
  <2>1. AccountedIn(limiter, reservations, k)
    BY DEF Accounts
  <2>2. limiter'.entries[k] = limiter.entries[k] \/ limiter'.entries[k].epoch = 0
    BY ForgottenHasNone
  <2> QED
    BY <1>1, <2>1, <2>2, AccountFrame
<1> QED
  BY <1>3, <1>4 DEF Accounts

LEMMA LookAccounts ==
  ASSUME ListsInv, Accounts, NEW now, Budget!Look(now)
  PROVE  Accounts'
BY LiveOrForgotten, QuietAccounts DEF Budget!Look

LEMMA ClearAccounts ==
  ASSUME ListsInv, Accounts, NEW k \in Key, Budget!Clear(k)
  PROVE  Accounts'
<1>1. \A j \in Key : \/ limiter'.entries[j] = limiter.entries[j]
                     \/ limiter'.entries[j] = NoEntry
  BY ForgottenHasNone DEF Budget!Clear, Budget!Forget
<1> QED
  BY <1>1, QuietAccounts DEF Budget!Clear

LEMMA DenyAccounts ==
  ASSUME ListsInv, Accounts, ListsInv', NEW r \in Request, NEW k \in Key, NEW now,
         Budget!Deny(r, k, now)
  PROVE  Accounts'
<1> DEFINE z == Budget!Nothing("held")
<1>1. /\ reservations[r].state = "none" /\ reservations' = [reservations EXCEPT ![r] = z]
      /\ limiter'.entries = Budget!Live(now) /\ limiter'.nextEpoch = limiter.nextEpoch
  BY DEF Budget!Deny
<1>2. z.epoch = 0 /\ ~ z.engaged /\ z.state = "held"
  BY DEF Budget!Nothing
<1> HIDE DEF z
<1>3. /\ reservations'[r] = z
      /\ \A q \in Request \ {r} : reservations'[q] = reservations[q]
  BY <1>1 DEF ListsInv, TypeOK
<1>4. limiter.nextEpoch \in Nat
  BY DEF ListsInv, TypeOK, LimiterState
<1>5. EpochsAreGiven'
  BY <1>1, <1>2, <1>3, <1>4, LiveOrForgotten, ForgottenHasNone DEF Accounts, EpochsAreGiven
<1>6. NobodyRefunds(reservations') => NobodyRefunds(reservations)
  BY <1>1, <1>3 DEF NobodyRefunds
<1>7. ASSUME NEW j \in Key
      PROVE  AccountedIn(limiter', reservations', j)
  <2>1. AccountedIn(limiter, reservations, j)
    BY DEF Accounts
  <2>2. limiter'.entries[j] = limiter.entries[j] \/ limiter'.entries[j].epoch = 0
    BY <1>1, LiveOrForgotten, ForgottenHasNone
  <2>3. \A q \in Request : reservations'[q].epoch = 0 => ~ reservations'[q].engaged
    BY DEF ListsInv, TypeOK
  <2>4. \A q \in Request :
          \/ reservations'[q] = reservations[q]
          \/ /\ Foreign(reservations[q], j, limiter.entries[j].epoch)
             /\ Foreign(reservations'[q], j, limiter.entries[j].epoch)
    <3>1. Foreign(reservations[r], j, limiter.entries[j].epoch)
      BY <1>1, NoneIsForeign DEF ListsInv, Accounts
    <3>2. Foreign(z, j, limiter.entries[j].epoch)
      BY <1>2 DEF Foreign
    <3> QED
      BY <3>1, <3>2, <1>3
  <2> QED
    BY <1>6, <2>1, <2>2, <2>3, <2>4, AccountFrame
<1> QED
  BY <1>5, <1>7 DEF Accounts

LEMMA AdmitAccounts ==
  ASSUME ListsInv, CleanIn(limiter), Accounts, ListsInv',
         NEW r \in Request, NEW k \in Key, NEW now, Budget!Admit(r, k, now)
  PROVE  Accounts'
<1> DEFINE live == Budget!Live(now)
           l == [entries |-> live]
           isNew == k \notin Budget!Known(live)
           epoch == IF isNew THEN limiter.nextEpoch + 1 ELSE live[k].epoch
           attempts == live[k].attempts + 1
           last == attempts >= Threshold
           until == IF last THEN now + LockoutWindow ELSE 0
           e == [epoch |-> epoch, attempts |-> attempts, locked |-> last,
                 lockedUntil |-> until, lastActivity |-> now]
           v == [state |-> "held", key |-> k, epoch |-> epoch, engaged |-> last]
<1>1. PICK V : limiter'.entries = [Budget!Forget(live, V) EXCEPT ![k] = e]
  BY DEF Budget!Admit
<1>2. /\ reservations[r].state = "none" /\ ~ Budget!Denies(live, k)
      /\ limiter'.nextEpoch = IF isNew THEN limiter.nextEpoch + 1 ELSE limiter.nextEpoch
      /\ reservations' = [reservations EXCEPT ![r] = v]
  BY DEF Budget!Admit
<1>3. /\ l.entries = live
      /\ e.epoch = epoch /\ e.attempts = attempts /\ e.locked = last
      /\ v.state = "held" /\ v.key = k /\ v.epoch = epoch /\ v.engaged = last
  OBVIOUS
<1>4. ~ live[k].locked /\ (isNew <=> live[k].epoch = 0)
  BY <1>2 DEF Budget!Denies, Budget!Known
<1>5. /\ \A j \in Key : live[j] = limiter.entries[j] \/ live[j] = NoEntry
      /\ DOMAIN live = Key
  BY LiveOrForgotten
<1>6. /\ limiter'.entries[k] = e
      /\ \A j \in Key \ {k} : limiter'.entries[j] = live[j] \/ limiter'.entries[j] = NoEntry
  BY <1>1, ForgottenHasNone DEF Budget!Forget
<1>7. /\ limiter.nextEpoch \in Nat /\ limiter.entries \in [Key -> Entry]
      /\ limiter.entries[k].epoch \in Nat /\ limiter.entries[k].attempts \in Int
      /\ \A q \in Request : reservations[q].epoch \in Nat
  BY DEF ListsInv, TypeOK, LimiterState, Entry, Reservation
<1>8. \A q \in Request : reservations'[q].epoch = 0 => ~ reservations'[q].engaged
  BY DEF ListsInv, TypeOK
<1>9. /\ live[k].epoch \in Nat /\ live[k].attempts \in Int
      /\ live[k].epoch <= limiter.nextEpoch
      /\ live[k].epoch = 0 => live[k].attempts = 0
  BY <1>5, <1>7, ForgottenHasNone DEF Accounts, EpochsAreGiven, CleanIn
<1> HIDE DEF live, l, e, v, isNew, last
<1>10. /\ epoch \in Nat /\ epoch # 0 /\ epoch <= limiter'.nextEpoch
       /\ limiter.nextEpoch <= limiter'.nextEpoch /\ limiter'.nextEpoch \in Nat
  BY <1>2, <1>4, <1>7, <1>9
<1>11. \/ epoch = live[k].epoch
       \/ live[k].epoch = 0 /\ \A q \in Request : reservations[q].epoch # epoch
  <2>1. CASE isNew
    BY <2>1, <1>4, <1>7 DEF Accounts, EpochsAreGiven
  <2>2. CASE ~ isNew
    BY <2>2
  <2> QED
    BY <2>1, <2>2
<1>12. /\ reservations'[r] = v
       /\ \A q \in Request \ {r} : reservations'[q] = reservations[q]
  BY <1>2 DEF ListsInv, TypeOK
<1>13. reservations[r].epoch = 0 /\ ~ reservations[r].engaged
  BY <1>2, NoneIsForeign DEF ListsInv, Accounts
<1> HIDE DEF epoch, attempts
<1>14. EpochsAreGiven'
  <2>1. ASSUME NEW j \in Key
        PROVE  limiter'.entries[j].epoch <= limiter'.nextEpoch
    <3>1. CASE j = k
      BY <3>1, <1>3, <1>6, <1>10
    <3>2. CASE j # k
      <4>1. limiter.entries[j].epoch \in Nat /\ limiter.entries[j].epoch <= limiter.nextEpoch
        BY <1>7 DEF Entry, Accounts, EpochsAreGiven
      <4>2. limiter'.entries[j] = limiter.entries[j] \/ limiter'.entries[j] = NoEntry
        BY <3>2, <1>5, <1>6
      <4> QED
        BY <4>1, <4>2, <1>7, <1>10, ForgottenHasNone
    <3> QED
      BY <3>1, <3>2
  <2>2. ASSUME NEW q \in Request
        PROVE  /\ reservations'[q].epoch <= limiter'.nextEpoch
               /\ reservations'[q].state = "none" => reservations'[q].epoch = 0
    <3>1. CASE q = r
      BY <3>1, <1>3, <1>10, <1>12
    <3>2. CASE q # r
      BY <3>2, <1>7, <1>10, <1>12 DEF Accounts, EpochsAreGiven
    <3> QED
      BY <3>1, <3>2
  <2> QED
    BY <2>1, <2>2 DEF EpochsAreGiven
<1>15. NobodyRefunds(reservations') => NobodyRefunds(reservations)
  BY <1>2, <1>12 DEF NobodyRefunds
<1>16. AccountedIn(limiter', reservations', k)
  <2>1. AccountedIn(l, reservations, k)
    <3>1. AccountedIn(limiter, reservations, k)
      BY DEF Accounts
    <3>2. l.entries[k] = limiter.entries[k] \/ l.entries[k].epoch = 0
      BY <1>3, <1>5, ForgottenHasNone
    <3>3. \A q \in Request : reservations[q].epoch = 0 => ~ reservations[q].engaged
      BY DEF ListsInv, TypeOK
    <3> QED
      BY <3>1, <3>2, <3>3, AccountFrame
  <2>2. /\ ~ l.entries[k].locked /\ l.entries[k].attempts \in Int
        /\ l.entries[k].epoch = 0 => l.entries[k].attempts = 0
    BY <1>3, <1>4, <1>9
  <2>3. /\ limiter'.entries[k].epoch # 0
        /\ \/ limiter'.entries[k].epoch = l.entries[k].epoch
           \/ /\ l.entries[k].epoch = 0
              /\ \A q \in Request : reservations[q].epoch # limiter'.entries[k].epoch
    BY <1>3, <1>6, <1>10, <1>11
  <2>4. limiter'.entries[k].attempts = l.entries[k].attempts + 1
    BY <1>3, <1>6 DEF attempts
  <2>5. /\ reservations'[r].state = "held" /\ reservations'[r].key = k
        /\ reservations'[r].epoch = limiter'.entries[k].epoch
        /\ reservations'[r].engaged <=> limiter'.entries[k].locked
    BY <1>3, <1>6, <1>12
  <2>6. reservations[r].state # "refunded"
    BY <1>2
  <2> QED
    BY <1>12, <1>13, <2>1, <2>2, <2>3, <2>4, <2>5, <2>6, AccountGrows
<1>17. ASSUME NEW j \in Key, j # k
       PROVE  AccountedIn(limiter', reservations', j)
  <2>1. AccountedIn(limiter, reservations, j)
    BY DEF Accounts
  <2>2. limiter'.entries[j] = limiter.entries[j] \/ limiter'.entries[j].epoch = 0
    BY <1>5, <1>6, <1>17, ForgottenHasNone
  <2>3. \A q \in Request :
          \/ reservations'[q] = reservations[q]
          \/ /\ Foreign(reservations[q], j, limiter.entries[j].epoch)
             /\ Foreign(reservations'[q], j, limiter.entries[j].epoch)
    BY <1>3, <1>12, <1>13, <1>17 DEF Foreign
  <2> QED
    BY <1>8, <1>15, <2>1, <2>2, <2>3, AccountFrame
<1> QED
  BY <1>14, <1>16, <1>17 DEF Accounts

LEMMA CancelledFields ==
  ASSUME NEW e \in Entry, NEW engaged \in BOOLEAN, NEW t \in Nat
  PROVE  LET c == Cancelled(e, engaged, t)
         IN  \/ c.epoch = 0
             \/ /\ c.epoch = e.epoch /\ c.attempts = e.attempts - 1
                /\ c.locked <=> (e.locked /\ ~ engaged)
<1> DEFINE n == e.attempts - 1
           a == IF e.locked THEN t ELSE e.lastActivity
<1>1. n \in Int /\ a \in Int /\ e.locked \in BOOLEAN
  BY DEF Entry
<1> HIDE DEF n, a
<1>2. CASE e.locked /\ ~ engaged
  <2>1. Cancelled(e, engaged, t) = [e EXCEPT !.attempts = n]
    BY <1>2 DEF Cancelled, n
  <2> QED
    BY <1>1, <1>2, <2>1, LessEntry DEF n
<1>3. CASE ~ (e.locked /\ ~ engaged) /\ n = 0
  BY <1>3, ForgottenHasNone DEF Cancelled, n
<1>4. CASE ~ (e.locked /\ ~ engaged) /\ n # 0
  <2>1. Cancelled(e, engaged, t) = Lifted(e, n, a)
    BY <1>4 DEF Cancelled, n, a
  <2> QED
    BY <1>1, <1>4, <2>1, LiftedEntry DEF n
<1> QED
  BY <1>2, <1>3, <1>4

(* r's state moves and its reservation stays what it is.                     *)
LEMMA StateMoves ==
  ASSUME TypeOK, NEW r \in Request, NEW s,
         reservations' = [reservations EXCEPT ![r].state = s]
  PROVE  /\ \A q \in Request \ {r} : reservations'[q] = reservations[q]
         /\ reservations'[r].state = s
         /\ reservations'[r].key = reservations[r].key
         /\ reservations'[r].epoch = reservations[r].epoch
         /\ reservations'[r].engaged = reservations[r].engaged
BY DEF TypeOK, Reservation

(* Giving back takes no epoch.                                               *)
LEMMA GivenBackEpochs ==
  ASSUME ListsInv, EpochsAreGiven, NEW r \in Request, NEW s, s # "none",
         reservations' = [reservations EXCEPT ![r].state = s],
         limiter'.nextEpoch = limiter.nextEpoch,
         \A k \in Key : limiter'.entries[k].epoch \in {limiter.entries[k].epoch, 0}
  PROVE  EpochsAreGiven'
<1>1. limiter.nextEpoch \in Nat
  BY DEF ListsInv, TypeOK, LimiterState
<1> QED
  BY <1>1, StateMoves DEF EpochsAreGiven, ListsInv

LEMMA TakeBackAccounts ==
  ASSUME ListsInv, CleanIn(limiter), Accounts, ListsInv', NEW r \in Request,
         Budget!TakeBack(r)
  PROVE  Accounts'
<1> DEFINE now == limiter.latest
           live == Budget!Live(now)
           l == [entries |-> live]
           v == reservations[r]
           e == live[v.key]
           n == e.attempts - 1
           after == IF e.locked /\ ~ v.engaged THEN [e EXCEPT !.attempts = n]
                    ELSE IF n = 0 THEN Budget!Forgotten
                    ELSE [e EXCEPT !.attempts = n, !.locked = FALSE, !.lockedUntil = 0,
                                   !.lastActivity = IF e.locked THEN limiter.latest ELSE @]
<1>1. /\ v.state = "held" /\ limiter'.nextEpoch = limiter.nextEpoch
      /\ reservations' = [reservations EXCEPT ![r].state = "cancelled"]
      /\ limiter'.entries = IF v.epoch = 0 \/ e.epoch # v.epoch THEN live
                            ELSE [live EXCEPT ![v.key] = after]
  BY DEF Budget!TakeBack
<1>2. after = Cancelled(e, v.engaged, now)
  BY ForgottenHasNone DEF Cancelled, Lifted
<1>3. /\ l.entries = live
      /\ \A j \in Key : live[j] = limiter.entries[j] \/ live[j] = NoEntry
      /\ DOMAIN live = Key
  BY LiveOrForgotten
<1>4. /\ limiter.entries \in [Key -> Entry] /\ now \in Nat /\ NoEntry \in Entry
      /\ v \in Reservation /\ v.key \in Key /\ v.engaged \in BOOLEAN
  <2>1. NoEntry \in Entry
    BY DEF Entry, NoEntry
  <2> QED
    BY <2>1 DEF ListsInv, TypeOK, LimiterState, Reservation
<1> HIDE DEF live, l, v, after, now
<1>5. e \in Entry /\ e.attempts \in Int
  BY <1>3, <1>4 DEF Entry
<1>6. \/ after.epoch = 0
      \/ /\ after.epoch = e.epoch /\ after.attempts = e.attempts - 1
         /\ after.locked <=> (e.locked /\ ~ v.engaged)
  <2> HIDE DEF e
  <2> QED
    BY <1>2, <1>4, <1>5, CancelledFields
<1>7. /\ \A q \in Request \ {r} : reservations'[q] = reservations[q]
      /\ reservations'[r].state = "cancelled" /\ reservations'[r].key = v.key
      /\ reservations'[r].epoch = v.epoch /\ reservations'[r].engaged = v.engaged
  <2>1. TypeOK
    BY DEF ListsInv
  <2> QED
    BY <2>1, <1>1, StateMoves DEF v
<1>8. /\ \A q \in Request : reservations'[q].epoch = 0 => ~ reservations'[q].engaged
      /\ \A q \in Request : reservations[q].epoch = 0 => ~ reservations[q].engaged
  BY DEF ListsInv, TypeOK
<1>9. NobodyRefunds(reservations') => NobodyRefunds(reservations)
  BY <1>1, <1>7 DEF NobodyRefunds, v
<1>10. \A j \in Key : j # v.key \/ v.epoch = 0 \/ e.epoch # v.epoch => limiter'.entries[j] = live[j]
  BY <1>1, <1>3
<1>11. ~ (v.epoch = 0 \/ e.epoch # v.epoch) => limiter'.entries[v.key] = after
  BY <1>1, <1>3, <1>4
<1>12. EpochsAreGiven'
  <2>1. \A j \in Key : limiter'.entries[j].epoch \in {limiter.entries[j].epoch, 0}
    BY <1>3, <1>6, <1>10, <1>11, ForgottenHasNone
  <2> QED
    BY <2>1, <1>1, GivenBackEpochs DEF Accounts
<1>13. \A j \in Key : AccountedIn(l, reservations, j)
  <2>1. \A j \in Key : l.entries[j] = limiter.entries[j] \/ l.entries[j].epoch = 0
    BY <1>3, ForgottenHasNone
  <2>2. \A j \in Key : AccountedIn(limiter, reservations, j)
    BY DEF Accounts
  <2> QED
    BY <1>8, <2>1, <2>2, AccountFrame
<1>14. ASSUME NEW j \in Key, j # v.key \/ v.epoch = 0 \/ e.epoch # v.epoch
       PROVE  AccountedIn(limiter', reservations', j)
  <2>1. AccountedIn(l, reservations, j)
    BY <1>13
  <2>2. limiter'.entries[j] = l.entries[j]
    BY <1>3, <1>10, <1>14
  <2>3. \A q \in Request :
          \/ reservations'[q] = reservations[q]
          \/ /\ Foreign(reservations[q], j, l.entries[j].epoch)
             /\ Foreign(reservations'[q], j, l.entries[j].epoch)
    BY <1>3, <1>7, <1>8, <1>14 DEF Foreign, v
  <2> QED
    BY <1>8, <1>9, <2>1, <2>2, <2>3, AccountFrame
<1>15. ASSUME ~ (v.epoch = 0 \/ e.epoch # v.epoch)
       PROVE  AccountedIn(limiter', reservations', v.key)
  <2>1. CASE after.epoch = 0
    BY <1>8, <1>11, <1>15, <2>1, NoAccount
  <2>2. CASE after.epoch # 0
    <3> DEFINE k == v.key
    <3>1. /\ limiter'.entries[k].epoch = l.entries[k].epoch
          /\ limiter'.entries[k].attempts = l.entries[k].attempts - 1
          /\ limiter'.entries[k].locked <=> (l.entries[k].locked /\ ~ reservations[r].engaged)
      BY <1>3, <1>6, <1>11, <1>15, <2>2 DEF v
    <3>2. /\ reservations[r].state = "held" /\ reservations[r].key = k
          /\ reservations[r].epoch = l.entries[k].epoch /\ l.entries[k].epoch # 0
          /\ l.entries[k].attempts \in Int
      BY <1>1, <1>3, <1>5, <1>15 DEF v
    <3>3. AccountedIn(l, reservations, k)
      BY <1>4, <1>13
    <3> HIDE DEF k
    <3>4. AccountedIn(limiter', reservations', k)
      BY <3>1, <3>2, <3>3, <1>7, AccountShrinks
    <3> QED
      BY <3>4 DEF k
  <2> QED
    BY <2>1, <2>2
<1> QED
  BY <1>12, <1>14, <1>15 DEF Accounts

LEMMA GiveBackAccounts ==
  ASSUME ListsInv, Accounts, ListsInv', NEW r \in Request, Budget!GiveBackAnonymously(r)
  PROVE  Accounts'
<1> DEFINE k == reservations[r].key
           e == limiter.entries[k]
           less == [e EXCEPT !.attempts = @ - 1]
           after == IF e.epoch = 0 \/ e.locked \/ e.attempts = 0 THEN e
                    ELSE IF e.attempts = 1 THEN Budget!Forgotten
                    ELSE less
<1>1. /\ reservations[r].state = "held" /\ limiter'.nextEpoch = limiter.nextEpoch
      /\ reservations' = [reservations EXCEPT ![r].state = "refunded"]
      /\ limiter'.entries = [limiter.entries EXCEPT ![k] = after]
  BY DEF Budget!GiveBackAnonymously
<1>2. limiter.entries \in [Key -> Entry] /\ k \in Key /\ e \in Entry
  BY DEF ListsInv, TypeOK, LimiterState, Reservation
<1>3. less.epoch = e.epoch /\ less.locked = e.locked
  BY <1>2 DEF Entry
<1>4. after.epoch = 0 \/ (after.epoch = e.epoch /\ after.locked = e.locked)
  <2> HIDE DEF less, e
  <2> QED
    BY <1>3, ForgottenHasNone
<1> HIDE DEF k, after
<1>5. /\ limiter'.entries[k] = after
      /\ \A j \in Key \ {k} : limiter'.entries[j] = limiter.entries[j]
  BY <1>1, <1>2
<1>6. /\ \A q \in Request \ {r} : reservations'[q] = reservations[q]
      /\ reservations'[r].state = "refunded" /\ reservations'[r].key = reservations[r].key
      /\ reservations'[r].epoch = reservations[r].epoch
      /\ reservations'[r].engaged = reservations[r].engaged
  <2>1. TypeOK
    BY DEF ListsInv
  <2> QED
    BY <2>1, <1>1, StateMoves
<1>7. EpochsAreGiven'
  <2>1. \A j \in Key : limiter'.entries[j].epoch \in {limiter.entries[j].epoch, 0}
    BY <1>4, <1>5
  <2> QED
    BY <2>1, <1>1, GivenBackEpochs DEF Accounts
<1>8. ASSUME NEW j \in Key
      PROVE  AccountedIn(limiter', reservations', j)
  <2>1. CASE limiter'.entries[j].epoch = 0
    <3>1. \A q \in Request : reservations'[q].epoch = 0 => ~ reservations'[q].engaged
      BY DEF ListsInv, TypeOK
    <3> QED
      BY <2>1, <3>1, NoAccount
  <2>2. CASE limiter'.entries[j].epoch # 0
    <3>1. /\ limiter'.entries[j].epoch = limiter.entries[j].epoch
          /\ limiter'.entries[j].locked = limiter.entries[j].locked
      BY <2>2, <1>4, <1>5
    <3>2. AccountedIn(limiter, reservations, j)
      BY DEF Accounts
    <3>3. reservations[r].state = "held"
      BY <1>1
    <3> QED
      BY <3>1, <3>2, <3>3, <1>6, AccountWaived
  <2> QED
    BY <2>1, <2>2
<1> QED
  BY <1>7, <1>8 DEF Accounts

(* Every step keeps the whole of the invariant.                              *)
LEMMA AccountsStep ==
  ASSUME IInv, Next
  PROVE  IInv'
<1>1. ListsInv /\ CleanIn(limiter) /\ Accounts
  BY DEF IInv, Accounts
<1>2. ListsInv'
  BY <1>1, NextStep
<1>3. CleanIn(limiter')
  BY <1>1, StepIsBudgetStep
<1>4. Accounts'
  <2>1. ASSUME NEW k \in Key, NEW now \in Time, limiter.latest <= now, Locked(k, now)
        PROVE  Accounts'
    BY <2>1, <1>1, LockedIsLook, LookAccounts
  <2>2. ASSUME NEW k \in Key, NEW now \in Time, limiter.latest <= now,
               NEW r \in Request, Reserve(r, k, now)
        PROVE  Accounts'
    <3>1. Budget!Deny(r, k, now) \/ Budget!Admit(r, k, now)
      BY <2>2, <1>1, DeniedIsDeny, AdmittedIsAdmit DEF Reserve
    <3> QED
      BY <3>1, <1>1, <1>2, DenyAccounts, AdmitAccounts
  <2>3. ASSUME NEW r \in Request, Cancel(r)
        PROVE  Accounts'
    BY <2>3, <1>1, <1>2, CancelIsTakeBack, TakeBackAccounts
  <2>4. ASSUME NEW r \in Request, Refund(r)
        PROVE  Accounts'
    BY <2>4, <1>1, <1>2, RefundIsAnonymous, GiveBackAccounts
  <2>5. ASSUME NEW k \in Key, Reset(k)
        PROVE  Accounts'
    BY <2>5, <1>1, ResetIsClear, ClearAccounts
  <2> QED
    BY <2>1, <2>2, <2>3, <2>4, <2>5 DEF Next
<1> QED
  BY <1>2, <1>3, <1>4 DEF IInv, Accounts

(* The empty table has no accounts, and it is AttemptBudget's.               *)
LEMMA InitAccounts ==
  ASSUME Init
  PROVE  IInv /\ Budget!Init
<1>1. /\ limiter.entries = [k \in Key |-> NoEntry] /\ limiter.nextEpoch = 0
      /\ limiter.latest = 0
      /\ reservations = [r \in Request |-> ZeroReservation("none")]
  BY DEF Init
<1>2. /\ ZeroReservation("none").epoch = 0 /\ ~ ZeroReservation("none").engaged
      /\ Budget!Nothing("none") = ZeroReservation("none")
  BY DEF ZeroReservation, Budget!Nothing
<1>3. NoEntry.lockedUntil = 0
  BY DEF NoEntry
<1>4. CleanIn(limiter) /\ EpochsAreGiven
  BY <1>1, <1>2, <1>3, ForgottenHasNone DEF CleanIn, EpochsAreGiven
<1>5. \A k \in Key : AccountedIn(limiter, reservations, k)
  <2>1. \A q \in Request : reservations[q].epoch = 0 => ~ reservations[q].engaged
    BY <1>1, <1>2
  <2>2. \A k \in Key : limiter.entries[k].epoch = 0
    BY <1>1, ForgottenHasNone
  <2> QED
    BY <2>1, <2>2, NoAccount
<1>6. Budget!Init
  BY <1>1, <1>2, ForgottenHasNone DEF Budget!Init
<1> QED
  BY <1>4, <1>5, <1>6, InitLists DEF IInv

-----------------------------------------------------------------------------
(***************************************************************************)
(* The theorems.                                                           *)
(***************************************************************************)
(* For every policy and any number of callers: the lists and the table agree *)
(* and are ordered, the cap holds, nothing outlives its window, and every    *)
(* entry's counter is the account of the attempts that stand against it.     *)
THEOREM Inductive == Spec => []IInv
<1>1. Init => IInv
  BY InitAccounts
<1>2. IInv /\ [Next]_vars => IInv'
  <2> SUFFICES ASSUME IInv, [Next]_vars
               PROVE  IInv'
    OBVIOUS
  <2>1. CASE Next
    BY <2>1, AccountsStep
  <2>2. CASE UNCHANGED vars
    <3>1. ListsInv'
      BY <2>2 DEF vars, IInv, ListsInv, TypeOK, TableInv, LiveIn, OneListIn, OrderedIn,
                  StampedIn, Tracked, Size, Before
    <3>2. (CleanIn(limiter) /\ EpochsAreGiven)'
      BY <2>2 DEF vars, IInv, CleanIn, EpochsAreGiven
    <3>3. \A k \in Key : AccountedIn(limiter', reservations', k)
      BY <2>2 DEF vars, IInv
    <3> QED
      BY <3>1, <3>2, <3>3 DEF IInv
  <2> QED
    BY <2>1, <2>2
<1> QED
  BY <1>1, <1>2, PTL DEF Spec

(* The limiter's fields and the reservations keep their types.               *)
THEOREM TypeCorrect == Spec => []TypeOK
<1>1. IInv => TypeOK
  BY DEF IInv, ListsInv
<1> QED
  BY <1>1, Inductive, PTL

(* An entry sits in exactly one of the two lists, once (entry's comment),    *)
(* while callers present non-decreasing times.                               *)
THEOREM ListsAgree == Spec => []OneList
<1>1. IInv => OneList
  BY DEF IInv, ListsInv, TableInv, OneList
<1> QED
  BY <1>1, Inductive, PTL

(* MaxTrackedKeys bounds the table (makeRoomLocked).                         *)
THEOREM CapacityHolds == Spec => []WithinCapacity
<1>1. IInv => WithinCapacity
  BY DEF IInv, ListsInv, TableInv, WithinCapacity
<1> QED
  BY <1>1, Inductive, PTL

(* expireLocked, looking only at the backs, misses nothing.                  *)
THEOREM ExpiryIsComplete == Spec => []NothingOutlivesItsWindow
<1>1. IInv => NothingOutlivesItsWindow
  BY DEF IInv, ListsInv, NothingOutlivesItsWindow
<1> QED
  BY <1>1, Inductive, PTL

(* A lockout in force ends early only by Reset or by its engager's Cancel.   *)
THEOREM LockoutsStand == Spec => LockoutStands
<1>1. IInv /\ [Next]_vars => [LockoutKept]_vars
  BY NextStep DEF IInv
<1> QED
  BY <1>1, Inductive, PTL DEF Spec, LockoutStands

(* While nobody uses the anonymous Refund, an entry counts exactly the       *)
(* attempts admitted into it and not cancelled, whatever the interleaving of *)
(* Reserve, Cancel, Reset, expiry and eviction ("concurrent cancels never    *)
(* leave strikes behind", Cancel's comment).                                 *)
THEOREM AccountsAreExact == Spec => []ExactAccounting
<1>1. IInv => ExactAccounting
  BY DEF IInv, AccountedIn, ExactAccounting, Tracked
<1> QED
  BY <1>1, Inductive, PTL

(* A lockout has exactly one engager not cancelled, and a counting key none: *)
(* AllowedLastAttempt is answered once per lockout.                          *)
THEOREM OneEngagerHolds == Spec => []OneEngagerPerLockout
<1>1. IInv => OneEngagerPerLockout
  BY DEF IInv, AccountedIn, OneEngagerPerLockout, Tracked
<1> QED
  BY <1>1, Inductive, PTL

(* The limiter, looking only at the backs of its two lists, is the table     *)
(* without lists: every behaviour of AttemptLimiter is one of AttemptBudget. *)
THEOREM BudgetIsImplemented == Spec => ImplementsBudget
<1>1. Init => Budget!Init
  BY InitAccounts
<1>2. IInv /\ [Next]_vars => [Budget!Next]_(Budget!vars)
  <2> SUFFICES ASSUME IInv, [Next]_vars
               PROVE  Budget!Next \/ UNCHANGED Budget!vars
    OBVIOUS
  <2>1. CASE Next
    BY <2>1, StepIsBudgetStep DEF IInv
  <2>2. CASE UNCHANGED vars
    BY <2>2 DEF vars, Budget!vars
  <2> QED
    BY <2>1, <2>2
<1> QED
  BY <1>1, <1>2, Inductive, PTL DEF Spec, Budget!Spec, ImplementsBudget
=============================================================================
