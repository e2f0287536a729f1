----------------------------- MODULE HealthProofs -----------------------------
(***************************************************************************)
(* Proofs about Health: for any metrics, lanes, sources, values, policies  *)
(* and budgets, and however long the registry has been at work.            *)
(***************************************************************************)
EXTENDS Health, SequenceTheorems, FunctionTheorems, FiniteSetTheorems, TLAPS

-----------------------------------------------------------------------------
(* Orders and places.                                                      *)

\* A finite set with a strict order, given as a set of pairs, has an element
\* that none precedes.
LEMMA Minimal ==
  ASSUME NEW S, IsFiniteSet(S), S # {}, NEW R,
         \A a \in S : <<a, a>> \notin R,
         \A a, b, c \in S : <<a, b>> \in R /\ <<b, c>> \in R => <<a, c>> \in R
  PROVE  \E a \in S : \A b \in S : <<b, a>> \notin R
<1> DEFINE below(a) == {b \in S : <<b, a>> \in R}
           T == {below(a) : a \in S}
<1>1. \A a \in S : below(a) \in FiniteSubsetsOf(S)
  BY FS_Subset DEF FiniteSubsetsOf
<1>2. T \subseteq FiniteSubsetsOf(S) /\ T # {}
  <2>1. PICK a \in S : TRUE  OBVIOUS
  <2>2. below(a) \in T  OBVIOUS
  <2> HIDE DEF below
  <2> QED  BY <1>1, <2>2
<1>3. IsWellFoundedOn(StrictSubsetOrdering(S), FiniteSubsetsOf(S))
  BY FS_StrictSubsetOrderingWellFounded
<1> HIDE DEF T
<1>4. PICK x \in T : \A y \in T : <<y, x>> \notin StrictSubsetOrdering(S)
  BY <1>2, <1>3, WFMin, Zenon
<1>5. PICK a \in S : x = below(a)
  BY DEF T
<1>6. ASSUME NEW b \in S, <<b, a>> \in R
      PROVE  FALSE
  <2>1. below(b) \subseteq below(a) /\ b \in below(a) /\ b \notin below(b)
    BY <1>6
  <2>2. below(b) \in T /\ below(b) \in SUBSET S /\ below(a) \in SUBSET S
    BY DEF T
  <2> HIDE DEF below
  <2>3. <<below(b), below(a)>> \in StrictSubsetOrdering(S)
    BY <2>1, <2>2 DEF StrictSubsetOrdering
  <2> QED  BY <1>4, <1>5, <2>2, <2>3
<1> QED  BY <1>6

\* A finite set of natural numbers that is not empty has a least element.
LEMMA Least ==
  ASSUME NEW S \in SUBSET Nat, IsFiniteSet(S), S # {}
  PROVE  \E i \in S : \A j \in S : i <= j
<1> DEFINE R == {p \in S \X S : p[1] < p[2]}
<1>1. \A a, b \in S : <<a, b>> \in R <=> a < b
  OBVIOUS
<1>2. /\ \A a \in S : <<a, a>> \notin R
      /\ \A a, b, c \in S : <<a, b>> \in R /\ <<b, c>> \in R => <<a, c>> \in R
  BY <1>1
<1> HIDE DEF R
<1>3. PICK a \in S : \A b \in S : <<b, a>> \notin R
  BY <1>2, Minimal
<1>4. ASSUME NEW b \in S PROVE a <= b
  <2>1. a \in Nat /\ b \in Nat /\ <<b, a>> \notin R
    BY <1>3
  <2>2. ~(b < a)
    BY <1>1, <2>1
  <2> QED  BY <2>1, <2>2
<1> QED  BY <1>4

\* sub is a subsequence of seq: its elements are those of seq at these places.
Picks(sub, seq, place) ==
    /\ place \in [1..Len(sub) -> 1..Len(seq)]
    /\ \A i, j \in 1..Len(sub) : i < j => place[i] < place[j]
    /\ \A i \in 1..Len(sub) : sub[i] = seq[place[i]]

\* As many records, or fewer, at the places of a subsequence.
LEMMA PicksCount ==
  ASSUME NEW X, NEW seq \in Seq(X), NEW sub \in Seq(X), NEW place, Picks(sub, seq, place),
         NEW A \in SUBSET (1..Len(sub)), NEW B \in SUBSET (1..Len(seq)),
         \A i \in A : place[i] \in B
  PROVE  IsFiniteSet(A) /\ IsFiniteSet(B) /\ Cardinality(A) <= Cardinality(B)
<1>1. Len(seq) \in Nat /\ Len(sub) \in Nat  OBVIOUS
<1>2. IsFiniteSet(1..Len(seq)) /\ IsFiniteSet(1..Len(sub))
  BY <1>1, FS_Interval
<1>3. IsFiniteSet(A) /\ IsFiniteSet(B)
  BY <1>2, FS_Subset
<1> DEFINE f == [i \in A |-> place[i]]
<1>4. f \in [A -> B] /\ \A a, b \in A : f[a] = f[b] => a = b
  <2>1. f \in [A -> B]  OBVIOUS
  <2>2. ASSUME NEW a \in A, NEW b \in A, f[a] = f[b] PROVE a = b
    <3>1. place[a] \in Nat /\ place[b] \in Nat /\ place[a] = place[b]
      BY <2>2 DEF Picks
    <3>2. a \in 1..Len(sub) /\ b \in 1..Len(sub) /\ a \in Nat /\ b \in Nat
      BY <1>1
    <3>3. ~(a < b) /\ ~(b < a)
      BY <3>1, <3>2 DEF Picks
    <3> QED  BY <3>2, <3>3
  <2> QED  BY <2>1, <2>2
<1> HIDE DEF f
<1>5. f \in Injection(A, B)
  BY <1>4, Fun_IsInj
<1> QED  BY <1>3, <1>5, FS_Injection

\* EraseFirst at a place: the records before and after it, in their order.
LEMMA EraseFacts ==
  ASSUME NEW X, NEW seq \in Seq(X), NEW S \in SUBSET (1..Len(seq)), S # {}
  PROVE  \E n \in S : \E place :
            /\ EraseFirst(seq, S) \in Seq(X)
            /\ Len(EraseFirst(seq, S)) = Len(seq) - 1
            /\ Picks(EraseFirst(seq, S), seq, place)
            /\ \A i \in 1..(Len(seq) - 1) : place[i] # n
<1> DEFINE len == Len(seq)
           n == CHOOSE i \in S : \A j \in S : i <= j
           sub == EraseFirst(seq, S)
           place == [i \in 1..(len - 1) |-> IF i < n THEN i ELSE i + 1]
<1>1. len \in Nat /\ seq \in [1..len -> X]
  BY LenProperties
<1>2. S \in SUBSET Nat /\ IsFiniteSet(S)
  <2>1. IsFiniteSet(1..len) /\ 1..len \subseteq Nat  BY <1>1, FS_Interval
  <2> HIDE DEF len
  <2>2. S \in SUBSET (1..len)  BY DEF len
  <2> QED  BY <2>1, <2>2, FS_Subset
<1>3. n \in S
  BY <1>2, Least
<1>4. sub = [i \in 1..(len - 1) |-> seq[IF i < n THEN i ELSE i + 1]]
  BY DEF EraseFirst
<1> HIDE DEF n, sub
<1>5. n \in 1..len  BY <1>3
<1>6. len - 1 \in Nat  BY <1>1, <1>5
<1>7. sub \in [1..(len - 1) -> X]
  <2>1. \A i \in 1..(len - 1) : (IF i < n THEN i ELSE i + 1) \in 1..len
    BY <1>1, <1>5
  <2> HIDE DEF len
  <2> QED  BY <1>1, <1>4, <2>1
<1>8. sub \in Seq(X) /\ Len(sub) = len - 1
  BY <1>6, <1>7, SeqDef, LenProperties
<1>9. place \in [1..(len - 1) -> 1..len] /\ \A i \in 1..(len - 1) : place[i] # n
  BY <1>1, <1>5
<1>10. \A i, j \in 1..(len - 1) : i < j => place[i] < place[j]
  BY <1>1, <1>5
<1>11. \A i \in 1..(len - 1) : sub[i] = seq[place[i]]
  BY <1>4
<1> HIDE DEF place, len
<1>12. Picks(sub, seq, place)
  BY <1>8, <1>9, <1>10, <1>11 DEF Picks, len
<1> QED  BY <1>3, <1>8, <1>9, <1>12 DEF sub, len

-----------------------------------------------------------------------------
(* Policies and zones.                                                     *)

\* select_threshold yields no policy or one that passed validation.
LEMMA PolicyFits ==
  ASSUME TypeOK, PoliciesValid, OneThreshold, NEW s \in Series
  PROVE  PolicyFor(s) # NoPolicy => PolicyFor(s) \in Policies /\ ValidPolicy(PolicyFor(s))
<1> DEFINE LiveFor(r) == {i \in OfSeries(thresholds, r) : thresholds[i].live}
           Latest(S)  == thresholds[CHOOSE i \in S : \A j \in S : j <= i].policy
<1>1. thresholds \in Seq(Threshold)  BY DEF TypeOK
<1>2. ASSUME NEW r, LiveFor(r) # {}
      PROVE  Latest(LiveFor(r)) \in Policies /\ ValidPolicy(Latest(LiveFor(r)))
  <2> DEFINE S == LiveFor(r)
             n == CHOOSE i \in S : \A j \in S : j <= i
  <2>1. \A i, j \in S : i \in DOMAIN thresholds /\ i = j
    BY <1>1 DEF OneThreshold, OfSeries
  <2>2. \A i \in S : i \in Nat
    BY <1>1, <2>1, LenProperties
  <2> HIDE DEF S
  <2>3. \E i \in S : \A j \in S : j <= i
    <3>1. PICK i \in S : TRUE  BY <1>2 DEF S
    <3>2. i <= i  BY <2>2
    <3> QED  BY <2>1, <3>2
  <2>4. n \in S  BY <2>3
  <2> HIDE DEF n
  <2>5. n \in DOMAIN thresholds  BY <2>1, <2>4
  <2>6. thresholds[n] \in Threshold  BY <1>1, <2>5, LenProperties, ElementOfSeq
  <2>7. thresholds[n].policy \in Policies  BY <2>6 DEF Threshold
  <2>8. ValidPolicy(thresholds[n].policy)  BY <2>5 DEF PoliciesValid
  <2> QED  BY <2>7, <2>8 DEF n, S
<1>3. PolicyFor(s) = IF LiveFor(s) # {} THEN Latest(LiveFor(s))
                     ELSE IF LiveFor(<<s[1], ModuleLane>>) # {}
                          THEN Latest(LiveFor(<<s[1], ModuleLane>>)) ELSE NoPolicy
  BY DEF PolicyFor
<1> HIDE DEF LiveFor, Latest
<1> QED  BY <1>2, <1>3

LEMMA ZoneType ==
  ASSUME NEW p, NEW state, NEW value
  PROVE  ZoneFrom(p, state, value) \in Zones
BY DEF ZoneFrom, Zones

\* A valid policy asks for at least one sample and for no more than are kept.
LEMMA NeededFacts ==
  ASSUME NEW p \in Policies, ValidPolicy(p), NEW from, NEW to
  PROVE  Needed(p, from, to) \in 1..LongestRun
<1>1. Terms[p] \in Policy  BY HealthAssumption
<1>2. /\ Terms[p].escalate_after \in 1..LongestRun
      /\ Terms[p].recover_after \in 1..LongestRun
  BY <1>1, HealthAssumption DEF Policy, ValidPolicy
<1> QED  BY <1>2 DEF Needed

-----------------------------------------------------------------------------
(* The latch and what it was shown.                                        *)

\* LatchesFit and LatchMovesOnRun of one series.
Fits(latch, shown) ==
    LET len == Len(shown)
    IN  IF latch.state \notin Zones THEN latch.consecutive = 0 /\ shown = <<>>
        ELSE /\ latch.consecutive < len
             /\ shown[len - latch.consecutive].zone = latch.state
             /\ \A k \in (len - latch.consecutive + 1)..len : shown[k].zone # latch.state
             /\ latch.consecutive > 0 =>
                  latch.consecutive < Needed(shown[len].policy, latch.state, shown[len].zone)

MovedOnRun(latch, shown) ==
    shown # <<>> =>
        LET len  == Len(shown)
            last == shown[len]
            n    == Needed(last.policy, last.from, latch.state)
        IN  last.from \in Zones /\ latch.state # last.from =>
              /\ len >= n
              /\ \A k \in (len - n + 1)..len : shown[k].zone # last.from

\* The history of one more measurement.
LEMMA RecentFacts ==
  ASSUME NEW seq \in Seq(Shown), NEW e \in Shown, LongestRun \in Nat \ {0}
  PROVE  LET r   == Recent(Append(seq, e))
             len == Len(r)
         IN  /\ r \in Seq(Shown)
             /\ len = IF Len(seq) + 1 > LongestRun THEN LongestRun ELSE Len(seq) + 1
             /\ r[len] = e
             /\ \A k \in 1..(len - 1) : r[k] = seq[Len(seq) + 1 + k - len]
<1> DEFINE a == Append(seq, e)
<1>1. /\ a \in Seq(Shown) /\ Len(a) = Len(seq) + 1 /\ Len(seq) \in Nat
      /\ a[Len(a)] = e /\ \A k \in 1..Len(seq) : a[k] = seq[k]
  BY AppendProperties, LenProperties
<1> HIDE DEF a
<1>2. CASE Len(a) > LongestRun
  <2> DEFINE m == Len(a) - LongestRun + 1
             r == SubSeq(a, m, Len(a))
  <2>1. m \in 1..Len(a) + 1 /\ m <= Len(a)  BY <1>1, <1>2
  <2>2. r \in Seq(Shown) /\ Len(r) = Len(a) - m + 1
        /\ \A i \in 1..(Len(a) - m + 1) : r[i] = a[m + i - 1]
    BY <1>1, <2>1, SubSeqProperties
  <2>3. Recent(a) = r  BY <1>2 DEF Recent
  <2> HIDE DEF r
  <2>4. Len(r) = LongestRun  BY <1>1, <1>2, <2>2
  <2>5. r[Len(r)] = e
    <3>1. LongestRun \in 1..(Len(a) - m + 1) /\ m + LongestRun - 1 = Len(a)  BY <1>1, <1>2
    <3> QED  BY <1>1, <2>2, <2>4, <3>1
  <2>6. ASSUME NEW k \in 1..(Len(r) - 1)
        PROVE  r[k] = seq[Len(seq) + 1 + k - Len(r)]
    <3>1. k \in 1..(Len(a) - m + 1) /\ m + k - 1 \in 1..Len(seq)
          /\ m + k - 1 = Len(seq) + 1 + k - Len(r)
      BY <1>1, <1>2, <2>4
    <3> QED  BY <1>1, <2>2, <3>1
  <2> QED  BY <1>1, <1>2, <2>2, <2>3, <2>4, <2>5, <2>6 DEF a
<1>3. CASE ~(Len(a) > LongestRun)
  <2>1. Recent(a) = a  BY <1>3 DEF Recent
  <2>2. \A k \in 1..(Len(a) - 1) : k \in 1..Len(seq) /\ Len(seq) + 1 + k - Len(a) = k
    BY <1>1
  <2> QED  BY <1>1, <1>3, <2>1, <2>2 DEF a
<1> QED  BY <1>2, <1>3

\* One more measurement: the latch and its history still fit, and if it moved
\* it moved on a run.
LEMMA LatchShown ==
  ASSUME NEW latch \in Latch, NEW shown \in Seq(Shown), Fits(latch, shown),
         NEW p \in Policies, ValidPolicy(p), NEW zone \in Zones
  PROVE  LET later == Recent(Append(shown, [from |-> latch.state, zone |-> zone, policy |-> p]))
             new   == AdvanceLatch(p, latch, zone)
         IN  later \in Seq(Shown) /\ new \in Latch /\ Fits(new, later) /\ MovedOnRun(new, later)
<1> DEFINE e == [from |-> latch.state, zone |-> zone, policy |-> p]
           later == Recent(Append(shown, e))
           new == AdvanceLatch(p, latch, zone)
           len == Len(shown)
           m == Len(later)
           c == latch.consecutive
           need == Needed(p, latch.state, zone)
<1>1. e \in Shown /\ c \in Nat /\ latch.state \in Zones \cup {"Unknown"}
  BY DEF Latch, Shown
<1>2. need \in 1..LongestRun /\ LongestRun \in Nat \ {0}
  BY NeededFacts, HealthAssumption
<1>3. /\ later \in Seq(Shown) /\ len \in Nat
      /\ m = IF len + 1 > LongestRun THEN LongestRun ELSE len + 1
      /\ later[m] = e
      /\ \A k \in 1..(m - 1) : later[k] = shown[len + 1 + k - m]
  <2>1. len \in Nat  BY LenProperties
  <2>2. shown \in Seq(Shown) /\ e \in Shown /\ LongestRun \in Nat \ {0}  BY <1>1, <1>2
  <2> HIDE DEF e, new, need, c
  <2>3. /\ later \in Seq(Shown)
        /\ Len(later) = IF Len(shown) + 1 > LongestRun THEN LongestRun ELSE Len(shown) + 1
        /\ later[Len(later)] = e
        /\ \A k \in 1..(Len(later) - 1) : later[k] = shown[Len(shown) + 1 + k - Len(later)]
    BY <2>2, RecentFacts
  <2> QED  BY <2>1, <2>3
<1>4. new = IF latch.state \notin Zones THEN [state |-> zone, consecutive |-> 0]
            ELSE IF zone = latch.state THEN [state |-> zone, consecutive |-> 0]
            ELSE IF c + 1 >= need THEN [state |-> zone, consecutive |-> 0]
            ELSE [state |-> latch.state, consecutive |-> c + 1]
  BY DEF AdvanceLatch
<1> HIDE DEF later, new, m, need, len
<1>5. new \in Latch
  BY <1>1, <1>4 DEF Latch
<1>6. m \in Nat \ {0} /\ later # <<>>
  BY <1>2, <1>3, LenProperties DEF m
<1>7. ASSUME new = [state |-> zone, consecutive |-> 0]
      PROVE  Fits(new, later)
  <2>1. later[m - 0].zone = zone /\ 0 < m  BY <1>3, <1>6
  <2>2. \A k \in (m - 0 + 1)..m : later[k].zone # zone  BY <1>6
  <2> QED  BY <1>7, <2>1, <2>2 DEF Fits, m
<1>8. CASE latch.state \notin Zones
  <2>1. Fits(new, later)  BY <1>4, <1>7, <1>8
  <2>2. MovedOnRun(new, later)  BY <1>3, <1>8 DEF MovedOnRun, m
  <2> QED  BY <1>3, <1>5, <2>1, <2>2 DEF later, new
<1>9. CASE latch.state \in Zones /\ zone = latch.state
  <2>1. Fits(new, later)  BY <1>4, <1>7, <1>9
  <2>2. MovedOnRun(new, later)  BY <1>3, <1>4, <1>9 DEF MovedOnRun, m
  <2> QED  BY <1>3, <1>5, <2>1, <2>2 DEF later, new
<1>10. CASE latch.state \in Zones /\ zone # latch.state
  <2>1. /\ c < len /\ shown[len - c].zone = latch.state
        /\ \A k \in (len - c + 1)..len : shown[k].zone # latch.state
    BY <1>10 DEF Fits, len
  <2>2. ASSUME NEW d \in Nat, d <= c + 1, d <= m, NEW k \in (m - d + 1)..m
        PROVE  later[k].zone # latch.state
    <3>1. CASE k = m  BY <1>3, <1>10, <3>1
    <3>2. CASE k # m
      <4>1. k \in 1..(m - 1)  BY <1>6, <2>2, <3>2
      <4>2. len + 1 + k - m \in (len - c + 1)..len  BY <1>1, <1>3, <1>6, <2>2, <3>2
      <4> QED  BY <1>3, <2>1, <4>1, <4>2
    <3> QED  BY <3>1, <3>2
  <2>3. CASE c + 1 >= need
    <3>1. new = [state |-> zone, consecutive |-> 0]  BY <1>4, <1>10, <2>3
    <3>2. need <= m /\ need \in Nat
      <4>1. c \in Nat /\ need \in Nat /\ need <= LongestRun /\ c + 1 >= need /\ c < len
        BY <1>1, <1>2, <2>1, <2>3
      <4> HIDE DEF c
      <4> QED  BY <1>2, <1>3, <4>1
    <3>3. \A k \in (m - need + 1)..m : later[k].zone # latch.state
      BY <2>2, <2>3, <3>2
    <3>4. MovedOnRun(new, later)
      BY <1>3, <3>1, <3>2, <3>3 DEF MovedOnRun, m, need
    <3> QED  BY <1>3, <1>5, <1>7, <3>1, <3>4 DEF later, new
  <2>4. CASE ~(c + 1 >= need)
    <3>1. new = [state |-> latch.state, consecutive |-> c + 1]  BY <1>4, <1>10, <2>4
    <3>2. c + 1 < m /\ c + 1 < need
      <4>1. c \in Nat /\ need \in Nat /\ need <= LongestRun /\ c + 1 < need /\ c < len
        BY <1>1, <1>2, <2>1, <2>4
      <4> HIDE DEF c
      <4> QED  BY <1>2, <1>3, <4>1
    <3>3. later[m - (c + 1)].zone = latch.state
      <4>1. m - (c + 1) \in 1..(m - 1) /\ len + 1 + (m - (c + 1)) - m = len - c
        <5>1. c \in Nat  BY <1>1
        <5> HIDE DEF c
        <5> QED  BY <1>3, <1>6, <3>2, <5>1
      <4> QED  BY <1>3, <2>1, <4>1
    <3>4. \A k \in (m - (c + 1) + 1)..m : later[k].zone # latch.state
      <4>1. c + 1 \in Nat /\ c + 1 <= m  BY <1>1, <1>6, <3>2
      <4> QED  BY <2>2, <4>1
    <3>5. Fits(new, later)
      BY <1>3, <1>10, <3>1, <3>2, <3>3, <3>4 DEF Fits, m, need
    <3>6. MovedOnRun(new, later)
      BY <1>3, <3>1 DEF MovedOnRun, m
    <3> QED  BY <1>3, <1>5, <3>5, <3>6 DEF later, new
  <2> QED  BY <2>3, <2>4
<1> QED  BY <1>8, <1>9, <1>10

-----------------------------------------------------------------------------
(* Counting records.                                                       *)

LEMMA OfSeriesFinite ==
  ASSUME NEW X, NEW seq \in Seq(X), NEW S \in SUBSET DOMAIN seq
  PROVE  IsFiniteSet(S) /\ Cardinality(S) \in Nat
<1>1. Len(seq) \in Nat /\ DOMAIN seq = 1..Len(seq)  BY LenProperties
<1>2. IsFiniteSet(1..Len(seq))  BY <1>1, FS_Interval
<1>3. IsFiniteSet(S)  BY <1>1, <1>2, FS_Subset
<1> QED  BY <1>3, FS_CardinalityType

\* A record more.
LEMMA AppendCount ==
  ASSUME NEW X, NEW seq \in Seq(X), NEW e \in X
  PROVE  /\ \A s : Cardinality(OfSeries(Append(seq, e), s)) =
                   Cardinality(OfSeries(seq, s)) + (IF e.series = s THEN 1 ELSE 0)
         /\ e.live \in BOOLEAN => Cardinality(LiveOf(Append(seq, e))) =
                Cardinality(LiveOf(seq)) + (IF e.live THEN 1 ELSE 0)
<1> DEFINE a == Append(seq, e)
           len == Len(seq)
<1>1. /\ a \in Seq(X) /\ len \in Nat /\ DOMAIN a = 1..(len + 1) /\ DOMAIN seq = 1..len
      /\ a[len + 1] = e /\ \A k \in 1..len : a[k] = seq[k]
  BY AppendProperties, LenProperties
<1> HIDE DEF a, len
<1>2. len + 1 \notin 1..len /\ 1..(len + 1) = (1..len) \cup {len + 1}
  BY <1>1
<1>3. ASSUME NEW S \in SUBSET (1..len)
      PROVE  Cardinality(S \cup {len + 1}) = Cardinality(S) + 1 /\ Cardinality(S) \in Nat
  <2>1. IsFiniteSet(S) /\ Cardinality(S) \in Nat  BY <1>1, OfSeriesFinite
  <2> QED  BY <1>2, <2>1, FS_AddElement
<1>4. ASSUME NEW s
      PROVE  Cardinality(OfSeries(a, s)) =
                Cardinality(OfSeries(seq, s)) + (IF e.series = s THEN 1 ELSE 0)
  <2>1. OfSeries(seq, s) \in SUBSET (1..len)  BY <1>1 DEF OfSeries
  <2>2. OfSeries(a, s) = OfSeries(seq, s) \cup (IF e.series = s THEN {len + 1} ELSE {})
    BY <1>1, <1>2 DEF OfSeries
  <2> DEFINE S == OfSeries(seq, s)
  <2>3. Cardinality(S) \in Nat /\ Cardinality(S \cup {len + 1}) = Cardinality(S) + 1
    BY <1>3, <2>1
  <2> HIDE DEF S
  <2>4. CASE e.series = s
    <3>1. OfSeries(a, s) = S \cup {len + 1}  BY <2>2, <2>4 DEF S
    <3> QED  BY <2>3, <2>4, <3>1 DEF S
  <2>5. CASE e.series # s
    <3>1. OfSeries(a, s) = S  BY <2>2, <2>5 DEF S
    <3> QED  BY <2>3, <2>5, <3>1 DEF S
  <2> QED  BY <2>4, <2>5
<1>5. ASSUME e.live \in BOOLEAN
      PROVE  Cardinality(LiveOf(a)) = Cardinality(LiveOf(seq)) + (IF e.live THEN 1 ELSE 0)
  <2>1. LiveOf(seq) \in SUBSET (1..len)  BY <1>1 DEF LiveOf
  <2>2. CASE e.live
    <3>1. LiveOf(a) = LiveOf(seq) \cup {len + 1}  BY <1>1, <1>2, <2>2 DEF LiveOf
    <3> QED  BY <1>3, <2>1, <2>2, <3>1
  <2>3. CASE ~e.live
    <3>1. LiveOf(a) = LiveOf(seq)  BY <1>1, <1>2, <2>3 DEF LiveOf
    <3>2. Cardinality(LiveOf(seq)) \in Nat  BY <1>3, <2>1
    <3> HIDE DEF LiveOf
    <3> QED  BY <2>3, <3>1, <3>2
  <2> QED  BY <1>5, <2>2, <2>3
<1> QED  BY <1>4, <1>5 DEF a

\* A subsequence has no more records of a series, and no more live ones.
LEMMA PicksFewer ==
  ASSUME NEW X, NEW seq \in Seq(X), NEW sub \in Seq(X), NEW place, Picks(sub, seq, place)
  PROVE  /\ \A s : Cardinality(OfSeries(sub, s)) <= Cardinality(OfSeries(seq, s))
         /\ Cardinality(LiveOf(sub)) <= Cardinality(LiveOf(seq))
<1>1. DOMAIN seq = 1..Len(seq) /\ DOMAIN sub = 1..Len(sub)  BY LenProperties
<1>2. \A i \in 1..Len(sub) : place[i] \in 1..Len(seq) /\ sub[i] = seq[place[i]]
  BY DEF Picks
<1>3. ASSUME NEW s
      PROVE  Cardinality(OfSeries(sub, s)) <= Cardinality(OfSeries(seq, s))
  <2> DEFINE A == OfSeries(sub, s)
             B == OfSeries(seq, s)
  <2>1. A \in SUBSET (1..Len(sub)) /\ B \in SUBSET (1..Len(seq)) /\ \A i \in A : place[i] \in B
    BY <1>1, <1>2 DEF OfSeries
  <2> HIDE DEF A, B
  <2>2. Cardinality(A) <= Cardinality(B)  BY <2>1, PicksCount
  <2> QED  BY <2>2 DEF A, B
<1>4. Cardinality(LiveOf(sub)) <= Cardinality(LiveOf(seq))
  <2> DEFINE A == LiveOf(sub)
             B == LiveOf(seq)
  <2>1. A \in SUBSET (1..Len(sub)) /\ B \in SUBSET (1..Len(seq)) /\ \A i \in A : place[i] \in B
    BY <1>1, <1>2 DEF LiveOf
  <2> HIDE DEF A, B
  <2>2. Cardinality(A) <= Cardinality(B)  BY <2>1, PicksCount
  <2> QED  BY <2>2 DEF A, B
<1> QED  BY <1>3, <1>4

\* Erasing a record of a series: one fewer of it, and what remains in its order.
LEMMA EraseCount ==
  ASSUME NEW X, NEW seq \in Seq(X), NEW s, NEW S \in SUBSET OfSeries(seq, s), S # {}
  PROVE  LET sub == EraseFirst(seq, S)
         IN  /\ sub \in Seq(X)
             /\ Cardinality(OfSeries(sub, s)) <= Cardinality(OfSeries(seq, s)) - 1
             /\ \E place : Picks(sub, seq, place)
<1> DEFINE sub == EraseFirst(seq, S)
           A == OfSeries(sub, s)
           B == OfSeries(seq, s)
<1>1. DOMAIN seq = 1..Len(seq)  BY LenProperties
<1>2. S \in SUBSET (1..Len(seq)) /\ B \in SUBSET (1..Len(seq))  BY <1>1 DEF OfSeries
<1>3. PICK n \in S : \E place :
         /\ sub \in Seq(X) /\ Len(sub) = Len(seq) - 1 /\ Picks(sub, seq, place)
         /\ \A i \in 1..(Len(seq) - 1) : place[i] # n
  BY <1>2, EraseFacts
<1>4. PICK place :
         /\ sub \in Seq(X) /\ Len(sub) = Len(seq) - 1 /\ Picks(sub, seq, place)
         /\ \A i \in 1..(Len(seq) - 1) : place[i] # n
  BY <1>3
<1> HIDE DEF sub
<1>5. DOMAIN sub = 1..Len(sub)  BY <1>4, LenProperties
<1>6. A \in SUBSET (1..Len(sub)) /\ \A i \in A : place[i] \in B \ {n}
  BY <1>1, <1>4, <1>5 DEF OfSeries, Picks
<1>7. IsFiniteSet(B) /\ Cardinality(B) \in Nat  BY <1>1, <1>2, OfSeriesFinite
<1>8. n \in B  OBVIOUS
<1> HIDE DEF A, B
<1>9. Cardinality(A) <= Cardinality(B \ {n})
  <2>1. B \ {n} \in SUBSET (1..Len(seq))  BY <1>2
  <2> QED  BY <1>4, <1>6, <2>1, PicksCount
<1>10. Cardinality(B \ {n}) = Cardinality(B) - 1
  BY <1>7, <1>8, FS_RemoveElement
<1>11. Cardinality(A) <= Cardinality(B) - 1
  BY <1>9, <1>10
<1> QED  BY <1>4, <1>11 DEF A, B, sub

LEMMA PicksSelf ==
  ASSUME NEW X, NEW seq \in Seq(X)
  PROVE  Picks(seq, seq, [i \in 1..Len(seq) |-> i])
BY DEF Picks

LEMMA PicksTrans ==
  ASSUME NEW X, NEW a \in Seq(X), NEW b \in Seq(X), NEW c \in Seq(X),
         NEW p, NEW q, Picks(b, a, p), Picks(c, b, q)
  PROVE  Picks(c, a, [i \in 1..Len(c) |-> p[q[i]]])
BY DEF Picks

\* The last elements of a sequence.
LEMMA PicksTail ==
  ASSUME NEW X, NEW seq \in Seq(X), NEW d \in 0..Len(seq)
  PROVE  LET sub == SubSeq(seq, d + 1, Len(seq))
         IN  /\ sub \in Seq(X) /\ Len(sub) = Len(seq) - d
             /\ Picks(sub, seq, [i \in 1..(Len(seq) - d) |-> i + d])
<1> DEFINE len == Len(seq)
           sub == SubSeq(seq, d + 1, len)
<1>1. len \in Nat /\ d \in Nat /\ d <= len  BY LenProperties
<1>2. \A i \in (d + 1)..len : seq[i] \in X  BY <1>1, ElementOfSeq
<1>3. /\ sub \in Seq(X) /\ Len(sub) = IF d + 1 <= len THEN len - (d + 1) + 1 ELSE 0
      /\ \A i \in 1..(len - (d + 1) + 1) : sub[i] = seq[d + 1 + i - 1]
  BY <1>1, <1>2, SubSeqProperties
<1> HIDE DEF sub, len
<1>4. Len(sub) = len - d  BY <1>1, <1>3
<1>5. ASSUME NEW i \in 1..(len - d)
      PROVE  sub[i] = seq[i + d] /\ i + d \in 1..len
  <2>1. i \in 1..(len - (d + 1) + 1) /\ d + 1 + i - 1 = i + d /\ i + d \in 1..len
    BY <1>1
  <2> QED  BY <1>3, <2>1
<1>6. Picks(sub, seq, [i \in 1..(len - d) |-> i + d])
  BY <1>1, <1>4, <1>5 DEF Picks, len
<1> QED  BY <1>3, <1>4, <1>6 DEF sub, len

-----------------------------------------------------------------------------
(* Samples.                                                                *)

\* Trimming after the counter of s has grown by one: both budgets hold again,
\* and what remains is in its order.
LEMMA TrimFacts ==
  ASSUME NEW ss \in Seq(Sample), NEW cs \in [Series -> Nat], NEW s \in Series,
         OfSeries(ss, s) # {}, cs[s] <= MaxSamplesPerSeries + 1,
         \A t \in Series : /\ Cardinality(OfSeries(ss, t)) <= cs[t]
                           /\ t # s => cs[t] <= MaxSamplesPerSeries
  PROVE  LET r == TrimSamples(ss, cs, s)
         IN  /\ r.samples \in Seq(Sample) /\ Len(r.samples) <= MaxSamplesPerModule
             /\ r.counts \in [Series -> Nat]
             /\ \A t \in Series : /\ Cardinality(OfSeries(r.samples, t)) <= r.counts[t]
                                  /\ r.counts[t] <= MaxSamplesPerSeries
             /\ \E place : Picks(r.samples, ss, place)
<1> DEFINE over == cs[s] > MaxSamplesPerSeries
           ring == IF over THEN EraseFirst(ss, OfSeries(ss, s)) ELSE ss
           len  == Len(ring)
           drop == IF len > MaxSamplesPerModule THEN len - MaxSamplesPerModule ELSE 0
           kept == SubSeq(ring, drop + 1, len)
           left == IF over THEN [cs EXCEPT ![s] = @ - 1] ELSE cs
<1>1. MaxSamplesPerSeries \in Nat \ {0} /\ MaxSamplesPerModule \in Nat \ {0}
  BY HealthAssumption
<1>2. /\ left \in [Series -> Nat]
      /\ \A t \in Series : /\ left[t] <= MaxSamplesPerSeries
                           /\ left[t] = IF over /\ t = s THEN cs[t] - 1 ELSE cs[t]
  <2>1. cs[s] \in Nat  OBVIOUS
  <2>2. CASE over
    <3>1. cs[s] - 1 \in Nat /\ cs[s] - 1 <= MaxSamplesPerSeries  BY <1>1, <2>1, <2>2
    <3>2. left = [cs EXCEPT ![s] = cs[s] - 1]  BY <2>2
    <3> HIDE DEF left
    <3>3. \A t \in Series : /\ left[t] = IF t = s THEN cs[t] - 1 ELSE cs[t]
                            /\ left[t] <= MaxSamplesPerSeries
      BY <3>1, <3>2
    <3>4. left \in [Series -> Nat]  BY <3>1, <3>2
    <3> QED  BY <2>2, <3>3, <3>4
  <2>3. CASE ~over
    <3>1. left = cs /\ cs[s] <= MaxSamplesPerSeries  BY <1>1, <2>1, <2>3
    <3> HIDE DEF left
    <3>2. \A t \in Series : left[t] = cs[t] /\ left[t] <= MaxSamplesPerSeries
      BY <3>1
    <3> QED  BY <2>3, <3>1, <3>2
  <2> QED  BY <2>2, <2>3
<1>3. /\ ring \in Seq(Sample)
      /\ \A t \in Series : Cardinality(OfSeries(ring, t)) <= left[t]
      /\ \E place : Picks(ring, ss, place)
  <2>1. CASE over
    <3> DEFINE sub == EraseFirst(ss, OfSeries(ss, s))
    <3>1. /\ sub \in Seq(Sample)
          /\ Cardinality(OfSeries(sub, s)) <= Cardinality(OfSeries(ss, s)) - 1
          /\ \E place : Picks(sub, ss, place)
      BY EraseCount
    <3>2. ring = sub  BY <2>1
    <3> HIDE DEF sub, ring
    <3>3. \A t : Cardinality(OfSeries(sub, t)) <= Cardinality(OfSeries(ss, t))
      BY <3>1, PicksFewer
    <3>4. ASSUME NEW t \in Series
          PROVE  Cardinality(OfSeries(sub, t)) <= left[t]
      <4> DEFINE a == Cardinality(OfSeries(sub, t))
                 b == Cardinality(OfSeries(ss, t))
      <4>1. a \in Nat /\ b \in Nat
        <5>1. OfSeries(sub, t) \in SUBSET DOMAIN sub /\ OfSeries(ss, t) \in SUBSET DOMAIN ss
          BY DEF OfSeries
        <5> QED  BY <3>1, <5>1, OfSeriesFinite
      <4>2. a <= b /\ b <= cs[t] /\ (t = s => a <= b - 1)
        <5>1. a <= b  BY <3>3
        <5>2. b <= cs[t]  OBVIOUS
        <5>3. t = s => a <= b - 1  BY <3>1
        <5> QED  BY <5>1, <5>2, <5>3
      <4>3. left[t] = (IF t = s THEN cs[t] - 1 ELSE cs[t]) /\ cs[t] \in Nat  BY <1>2, <2>1
      <4> HIDE DEF a, b, left
      <4>4. a <= left[t]  BY <4>1, <4>2, <4>3
      <4> QED  BY <4>4 DEF a
    <3> QED  BY <3>1, <3>2, <3>4
  <2>2. CASE ~over
    <3>1. ring = ss /\ \A t \in Series : left[t] = cs[t]  BY <1>2, <2>2
    <3> HIDE DEF ring, left
    <3>2. \E place : Picks(ss, ss, place)  BY PicksSelf
    <3>3. \A t \in Series : Cardinality(OfSeries(ss, t)) <= left[t]  BY <3>1
    <3> QED  BY <3>1, <3>2, <3>3
  <2> QED  BY <2>1, <2>2
<1> HIDE DEF ring, left
<1>4. len \in Nat /\ drop \in 0..len  BY <1>1, <1>3, LenProperties
<1>5. len - drop <= MaxSamplesPerModule  BY <1>1, <1>4
<1> HIDE DEF len, drop
<1>6. /\ kept \in Seq(Sample) /\ Len(kept) = len - drop
      /\ \E place : Picks(kept, ring, place)
  <2>1. drop \in 0..Len(ring)  BY <1>4 DEF len
  <2>2. /\ SubSeq(ring, drop + 1, Len(ring)) \in Seq(Sample)
        /\ Len(SubSeq(ring, drop + 1, Len(ring))) = Len(ring) - drop
        /\ \E place : Picks(SubSeq(ring, drop + 1, Len(ring)), ring, place)
    BY <1>3, <2>1, PicksTail
  <2> QED  BY <2>2 DEF len
<1> HIDE DEF kept
<1>7. ASSUME NEW t \in Series PROVE Cardinality(OfSeries(kept, t)) <= left[t]
  <2> DEFINE a == Cardinality(OfSeries(kept, t))
             b == Cardinality(OfSeries(ring, t))
  <2>1. a \in Nat /\ b \in Nat
    <3>1. OfSeries(kept, t) \in SUBSET DOMAIN kept /\ OfSeries(ring, t) \in SUBSET DOMAIN ring
      BY DEF OfSeries
    <3> QED  BY <1>3, <1>6, <3>1, OfSeriesFinite
  <2>2. a <= b  BY <1>3, <1>6, PicksFewer
  <2>3. b <= left[t] /\ left[t] \in Nat  BY <1>2, <1>3
  <2> HIDE DEF a, b
  <2>4. a <= left[t]  BY <2>1, <2>2, <2>3
  <2> QED  BY <2>4 DEF a
<1>8. \E place : Picks(kept, ss, place)
  BY <1>3, <1>6, PicksTrans
<1>9. TrimSamples(ss, cs, s) = [samples |-> kept, counts |-> left]
  BY DEF TrimSamples, kept, left, ring, drop, len
<1> QED  BY <1>2, <1>5, <1>6, <1>7, <1>8, <1>9

\* KeptInOrder of a sequence of samples.
InOrder(seq) ==
    \A j \in DOMAIN seq : \A i \in 1..(j - 1) :
        /\ seq[i].source = seq[j].source /\ seq[i].series = seq[j].series
        /\ seq[i].domain = seq[j].domain
        /\ seq[i].monotonic # 0 /\ seq[j].monotonic # 0
        => seq[i].monotonic < seq[j].monotonic

LEMMA PicksInOrder ==
  ASSUME NEW seq \in Seq(Sample), NEW sub \in Seq(Sample), NEW place,
         Picks(sub, seq, place), InOrder(seq)
  PROVE  InOrder(sub)
<1>1. /\ DOMAIN seq = 1..Len(seq) /\ DOMAIN sub = 1..Len(sub)
      /\ Len(seq) \in Nat /\ Len(sub) \in Nat
  BY LenProperties
<1>2. SUFFICES ASSUME NEW j \in DOMAIN sub, NEW i \in 1..(j - 1)
               PROVE  /\ sub[i].source = sub[j].source /\ sub[i].series = sub[j].series
                      /\ sub[i].domain = sub[j].domain
                      /\ sub[i].monotonic # 0 /\ sub[j].monotonic # 0
                      => sub[i].monotonic < sub[j].monotonic
  BY DEF InOrder
<1>3. j \in 1..Len(sub) /\ i \in 1..Len(sub) /\ i < j  BY <1>1
<1>4. /\ place[i] \in 1..Len(seq) /\ place[j] \in 1..Len(seq) /\ place[i] < place[j]
      /\ sub[i] = seq[place[i]] /\ sub[j] = seq[place[j]]
  BY <1>3 DEF Picks
<1>5. place[i] \in 1..(place[j] - 1) /\ place[j] \in DOMAIN seq
  BY <1>1, <1>4
<1> QED  BY <1>4, <1>5 DEF InOrder

\* A sample that replays none of those kept keeps the order.
LEMMA AppendInOrder ==
  ASSUME TypeOK, KeptInOrder, NEW x \in Sample,
         x.monotonic # 0 => ~Replayed(x.source, x.series, x.domain, x.monotonic)
  PROVE  InOrder(Append(samples, x))
<1> DEFINE a == Append(samples, x)
           len == Len(samples)
<1>1. /\ samples \in Seq(Sample) /\ a \in Seq(Sample) /\ len \in Nat
      /\ DOMAIN a = 1..(len + 1) /\ DOMAIN samples = 1..len
      /\ a[len + 1] = x /\ \A k \in 1..len : a[k] = samples[k] /\ samples[k] \in Sample
  BY AppendProperties, LenProperties, ElementOfSeq DEF TypeOK
<1> HIDE DEF a, len
<1>2. SUFFICES ASSUME NEW j \in DOMAIN a, NEW i \in 1..(j - 1),
                      a[i].source = a[j].source, a[i].series = a[j].series,
                      a[i].domain = a[j].domain,
                      a[i].monotonic # 0, a[j].monotonic # 0
               PROVE  a[i].monotonic < a[j].monotonic
  BY DEF InOrder, a
<1>3. i \in 1..len /\ a[i] = samples[i] /\ samples[i] \in Sample  BY <1>1
<1>4. CASE j = len + 1
  <2>1. a[j] = x  BY <1>1, <1>4
  <2>2. samples[i].monotonic \in Nat /\ x.monotonic \in Nat  BY <1>3 DEF Sample
  <2>3. ~(samples[i].monotonic >= x.monotonic)
    BY <1>1, <1>2, <1>3, <2>1 DEF Replayed
  <2> QED  BY <1>3, <2>1, <2>2, <2>3
<1>5. CASE j # len + 1
  <2>1. j \in 1..len /\ a[j] = samples[j]  BY <1>1, <1>5
  <2> QED  BY <1>1, <1>2, <1>3, <2>1 DEF KeptInOrder
<1> QED  BY <1>4, <1>5

-----------------------------------------------------------------------------
(* The steps.                                                              *)

LEMMA LatchesByPair ==
  /\ LatchesFit <=> \A s \in Series : Fits(latches[s], recent[s])
  /\ LatchMovesOnRun <=> \A s \in Series : MovedOnRun(latches[s], recent[s])
BY DEF LatchesFit, Fits, LatchMovesOnRun, MovedOnRun

LEMMA LatchesByPairNext ==
  /\ LatchesFit' <=> \A s \in Series : Fits(latches'[s], recent'[s])
  /\ LatchMovesOnRun' <=> \A s \in Series : MovedOnRun(latches'[s], recent'[s])
BY DEF LatchesFit, Fits, LatchMovesOnRun, MovedOnRun

\* HealthLatch{} and no history.
LEMMA NewLatchFits ==
  NewLatch \in Latch /\ Fits(NewLatch, <<>>) /\ MovedOnRun(NewLatch, <<>>)
BY DEF NewLatch, Latch, Fits, MovedOnRun, Zones

LEMMA InitInv == Init => Inv
<1> SUFFICES ASSUME Init PROVE Inv  OBVIOUS
<1> USE HealthAssumption DEF Init
<1>1. TypeOK
  <2>1. NewLatch \in Latch  BY NewLatchFits
  <2>2. <<>> \in Seq(Sample) /\ <<>> \in Seq(Threshold) /\ <<>> \in Seq(Shown)  OBVIOUS
  <2> QED  BY <2>1, <2>2 DEF TypeOK
<1>2. LatchesFit /\ LatchMovesOnRun
  BY NewLatchFits, LatchesByPair
<1>3. PoliciesValid /\ KeptInOrder
  BY DEF PoliciesValid, KeptInOrder
<1>4. Cardinality({}) = 0  BY FS_EmptySet
<1>5. (\A s : OfSeries(<<>>, s) = {}) /\ LiveOf(<<>>) = {}
  BY DEF OfSeries, LiveOf
<1>6. SampleBudgets
  <2>1. Len(samples) <= MaxSamplesPerModule  OBVIOUS
  <2>2. \A s \in Series : InSeries(s) = {} /\ counts[s] = 0  BY <1>5 DEF InSeries
  <2>3. 0 <= MaxSamplesPerSeries /\ 0 <= 0  OBVIOUS
  <2>4. \A s \in Series : Cardinality(InSeries(s)) = 0 /\ counts[s] = 0  BY <1>4, <2>2
  <2>5. \A s \in Series : Cardinality(InSeries(s)) <= counts[s] /\ counts[s] <= MaxSamplesPerSeries
    BY <2>3, <2>4
  <2> QED  BY <2>1, <2>5 DEF SampleBudgets
<1>7. OneThreshold
  <2>1. 0 <= MaxThresholds /\ 0 <= MaxClaimHistory  OBVIOUS
  <2>2. thresholds = <<>> /\ DOMAIN thresholds = {}  OBVIOUS
  <2>3. Cardinality(LiveOf(thresholds)) <= MaxThresholds
    BY <1>4, <1>5, <2>1, <2>2
  <2>4. \A s \in Series : Cardinality(OfSeries(thresholds, s)) <= MaxClaimHistory
    BY <1>4, <1>5, <2>1, <2>2
  <2> QED  BY <2>2, <2>3, <2>4 DEF OneThreshold
<1> QED  BY <1>1, <1>2, <1>3, <1>6, <1>7 DEF Inv

\* What ingest_health does to the samples and their counters.
LEMMA StoreStep ==
  ASSUME TypeOK, SampleBudgets, KeptInOrder, NEW x \in Sample, StoreSample(x),
         x.monotonic # 0 => ~Replayed(x.source, x.series, x.domain, x.monotonic)
  PROVE  /\ samples' \in Seq(Sample) /\ counts' \in [Series -> Nat]
         /\ SampleBudgets' /\ KeptInOrder'
<1> DEFINE s == x.series
           ss == Append(samples, x)
           cs == [counts EXCEPT ![s] = @ + 1]
           r == TrimSamples(ss, cs, s)
<1>1. samples' = r.samples /\ counts' = r.counts  BY DEF StoreSample
<1>2. s \in Series  BY DEF Sample
<1>3. samples \in Seq(Sample) /\ counts \in [Series -> Nat]  BY DEF TypeOK
<1>4. ss \in Seq(Sample) /\ OfSeries(ss, s) # {}
  <2>1. ss \in Seq(Sample) /\ Len(samples) + 1 \in DOMAIN ss /\ ss[Len(samples) + 1] = x
    BY <1>3, AppendProperties, LenProperties
  <2> HIDE DEF ss
  <2> QED  BY <2>1 DEF OfSeries
<1>5. \A t \in Series : Cardinality(OfSeries(ss, t)) =
                          Cardinality(OfSeries(samples, t)) + (IF s = t THEN 1 ELSE 0)
  BY <1>3, AppendCount
<1>6. \A t \in Series : /\ cs[t] = counts[t] + (IF s = t THEN 1 ELSE 0)
                        /\ counts[t] \in Nat
  BY <1>2, <1>3
<1>7. cs \in [Series -> Nat]  BY <1>2, <1>3
<1>8. \A t \in Series : /\ Cardinality(OfSeries(samples, t)) <= counts[t]
                        /\ counts[t] <= MaxSamplesPerSeries
  BY DEF SampleBudgets, InSeries
<1> HIDE DEF ss, cs, s
<1>9. MaxSamplesPerSeries \in Nat  BY HealthAssumption
<1>10. ASSUME NEW t \in Series
       PROVE  /\ Cardinality(OfSeries(ss, t)) <= cs[t]
              /\ t # s => cs[t] <= MaxSamplesPerSeries
  <2>1. Cardinality(OfSeries(samples, t)) \in Nat
    <3>1. OfSeries(samples, t) \in SUBSET DOMAIN samples  BY DEF OfSeries
    <3> QED  BY <1>3, <3>1, OfSeriesFinite
  <2> QED  BY <1>5, <1>6, <1>8, <2>1
<1>11. cs[s] <= MaxSamplesPerSeries + 1
  BY <1>2, <1>6, <1>8, <1>9
<1>12. /\ r.samples \in Seq(Sample) /\ Len(r.samples) <= MaxSamplesPerModule
       /\ r.counts \in [Series -> Nat]
       /\ \A t \in Series : /\ Cardinality(OfSeries(r.samples, t)) <= r.counts[t]
                            /\ r.counts[t] <= MaxSamplesPerSeries
       /\ \E place : Picks(r.samples, ss, place)
  BY <1>2, <1>4, <1>7, <1>10, <1>11, TrimFacts
<1> HIDE DEF r
<1>13. SampleBudgets'
  BY <1>1, <1>12 DEF SampleBudgets, InSeries, OfSeries
<1>14. InOrder(ss)  BY AppendInOrder DEF ss, s
<1>15. InOrder(r.samples)  BY <1>4, <1>12, <1>14, PicksInOrder
<1>16. KeptInOrder'  BY <1>1, <1>15 DEF KeptInOrder, InOrder
<1> QED  BY <1>1, <1>12, <1>13, <1>16

\* What ingest_health does to the latches.
LEMMA LatchStep ==
  ASSUME TypeOK, PoliciesValid, OneThreshold, LatchesFit, LatchMovesOnRun,
         NEW s \in Series, NEW reading, ShowLatch(s, reading)
  PROVE  /\ latches' \in [Series -> Latch] /\ recent' \in [Series -> Seq(Shown)]
         /\ LatchesFit' /\ LatchMovesOnRun'
<1> DEFINE p == PolicyFor(s)
           zone == ZoneFrom(p, latches[s].state, reading)
           later == Recent(Append(recent[s],
                        [from |-> latches[s].state, zone |-> zone, policy |-> p]))
           new == AdvanceLatch(p, latches[s], zone)
<1>1. latches \in [Series -> Latch] /\ recent \in [Series -> Seq(Shown)]  BY DEF TypeOK
<1>2. \A t \in Series : Fits(latches[t], recent[t]) /\ MovedOnRun(latches[t], recent[t])
  BY LatchesByPair
<1>3. CASE reading # Absent /\ p # NoPolicy
  <2>1. p \in Policies /\ ValidPolicy(p)  BY <1>3, PolicyFits
  <2>2. zone \in Zones  BY ZoneType
  <2>3. latches' = [latches EXCEPT ![s] = new] /\ recent' = [recent EXCEPT ![s] = later]
    BY <1>3 DEF ShowLatch
  <2> HIDE DEF zone, p
  <2>4. later \in Seq(Shown) /\ new \in Latch /\ Fits(new, later) /\ MovedOnRun(new, later)
    BY <1>1, <1>2, <2>1, <2>2, LatchShown
  <2> HIDE DEF later, new
  <2>5. latches' \in [Series -> Latch] /\ recent' \in [Series -> Seq(Shown)]
    BY <1>1, <2>3, <2>4
  <2>6. \A t \in Series : Fits(latches'[t], recent'[t]) /\ MovedOnRun(latches'[t], recent'[t])
    BY <1>1, <1>2, <2>3, <2>4
  <2> QED  BY <2>5, <2>6, LatchesByPairNext
<1>4. CASE ~(reading # Absent /\ p # NoPolicy)
  <2>1. latches' = latches /\ recent' = recent  BY <1>4 DEF ShowLatch
  <2> QED  BY <1>1, <1>2, <2>1, LatchesByPairNext
<1> QED  BY <1>3, <1>4

-----------------------------------------------------------------------------
(* Thresholds.                                                             *)

\* One live threshold per series, every policy valid.
Settled(ts) ==
    /\ \A i, j \in DOMAIN ts : ts[i].live /\ ts[j].live /\ ts[i].series = ts[j].series => i = j
    /\ \A i \in DOMAIN ts : ValidPolicy(ts[i].policy)

LEMMA PicksSettled ==
  ASSUME NEW seq \in Seq(Threshold), NEW sub \in Seq(Threshold), NEW place,
         Picks(sub, seq, place), Settled(seq)
  PROVE  Settled(sub)
<1>1. DOMAIN seq = 1..Len(seq) /\ DOMAIN sub = 1..Len(sub) /\ Len(sub) \in Nat
  BY LenProperties
<1>2. \A i \in DOMAIN sub : place[i] \in DOMAIN seq /\ place[i] \in Nat /\ sub[i] = seq[place[i]]
  BY <1>1 DEF Picks
<1>3. ASSUME NEW i \in DOMAIN sub, NEW j \in DOMAIN sub, place[i] = place[j]
      PROVE  i = j
  <2>1. ~(i < j) /\ ~(j < i)  BY <1>1, <1>2, <1>3 DEF Picks
  <2> QED  BY <1>1, <2>1
<1> QED  BY <1>2, <1>3 DEF Settled

\* Publishing: of the series only the new threshold is live; one dead one makes
\* room when there would be too many.
LEMMA ThresholdStep ==
  ASSUME TypeOK, PoliciesValid, OneThreshold, NEW s \in Series, NEW p \in Policies,
         PublishThreshold(s, p)
  PROVE  thresholds' \in Seq(Threshold) /\ PoliciesValid' /\ OneThreshold'
<1> DEFINE kept == Superseded(s)
           x == [series |-> s, policy |-> p, live |-> TRUE]
           all == Append(kept, x)
           ts == TrimThresholds(all, s)
           len == Len(thresholds)
<1>1. ValidPolicy(p) /\ Cardinality(LiveOf(kept)) < MaxThresholds /\ thresholds' = ts
  BY DEF PublishThreshold
<1>2. /\ thresholds \in Seq(Threshold) /\ len \in Nat /\ DOMAIN thresholds = 1..len
      /\ \A i \in 1..len : thresholds[i] \in Threshold
  BY LenProperties, ElementOfSeq DEF TypeOK
<1>3. /\ kept \in [1..len -> Threshold]
      /\ \A i \in 1..len :
            /\ kept[i].series = thresholds[i].series /\ kept[i].policy = thresholds[i].policy
            /\ kept[i].live <=> thresholds[i].live /\ thresholds[i].series # s
  BY <1>2 DEF Superseded, Threshold
<1>4. kept \in Seq(Threshold) /\ Len(kept) = len /\ DOMAIN kept = 1..len
  BY <1>2, <1>3, SeqDef, LenProperties
<1> HIDE DEF kept
<1>5. x \in Threshold /\ x.series = s /\ x.policy = p /\ x.live  BY DEF Threshold
<1> HIDE DEF x
<1>6. /\ all \in Seq(Threshold) /\ DOMAIN all = 1..(len + 1) /\ all[len + 1] = x
      /\ \A i \in 1..len : all[i] = kept[i]
  BY <1>4, <1>5, AppendProperties, LenProperties
<1>7. /\ \A t : Cardinality(OfSeries(all, t)) =
                 Cardinality(OfSeries(kept, t)) + (IF x.series = t THEN 1 ELSE 0)
      /\ Cardinality(LiveOf(all)) = Cardinality(LiveOf(kept)) + (IF x.live THEN 1 ELSE 0)
  <2>1. x.live \in BOOLEAN  BY <1>5 DEF Threshold
  <2> QED  BY <1>4, <1>5, <2>1, AppendCount
<1>8. \A t : OfSeries(kept, t) = OfSeries(thresholds, t)
  BY <1>2, <1>3, <1>4 DEF OfSeries
<1> HIDE DEF all
<1>9. Settled(all)
  <2>1. ASSUME NEW i \in DOMAIN all PROVE ValidPolicy(all[i].policy)
    <3>1. CASE i = len + 1  BY <1>1, <1>5, <1>6, <3>1
    <3>2. CASE i # len + 1
      <4>1. i \in 1..len  BY <1>2, <1>6, <3>2
      <4> QED  BY <1>2, <1>3, <1>6, <4>1 DEF PoliciesValid
    <3> QED  BY <3>1, <3>2
  <2>2. ASSUME NEW i \in DOMAIN all, NEW j \in DOMAIN all, all[i].live, all[j].live,
               all[i].series = all[j].series
        PROVE  i = j
    <3>1. \A k \in DOMAIN all : k = len + 1 \/ k \in 1..len  BY <1>2, <1>6
    <3>2. \A k \in 1..len : all[k].live => all[k].series # s /\ thresholds[k].live
                                          /\ all[k].series = thresholds[k].series
      BY <1>3, <1>6
    <3>3. all[len + 1].series = s  BY <1>5, <1>6
    <3> QED  BY <1>2, <2>2, <3>1, <3>2, <3>3 DEF OneThreshold
  <2> QED  BY <2>1, <2>2 DEF Settled
<1>10. ASSUME NEW t
       PROVE  Cardinality(OfSeries(all, t)) \in Nat /\ Cardinality(OfSeries(kept, t)) \in Nat
  <2>1. OfSeries(all, t) \in SUBSET DOMAIN all /\ OfSeries(kept, t) \in SUBSET DOMAIN kept
    BY DEF OfSeries
  <2> QED  BY <1>4, <1>6, <2>1, OfSeriesFinite
<1>11. Cardinality(LiveOf(all)) \in Nat /\ Cardinality(LiveOf(kept)) \in Nat
  <2>1. LiveOf(all) \in SUBSET DOMAIN all /\ LiveOf(kept) \in SUBSET DOMAIN kept
    BY DEF LiveOf
  <2> QED  BY <1>4, <1>6, <2>1, OfSeriesFinite
<1>12. MaxClaimHistory \in Nat \ {0} /\ MaxThresholds \in Nat  BY HealthAssumption
<1>13. Cardinality(LiveOf(all)) <= MaxThresholds
  BY <1>1, <1>5, <1>7, <1>11, <1>12
<1>14. /\ ts \in Seq(Threshold) /\ \E place : Picks(ts, all, place)
       /\ Cardinality(OfSeries(ts, s)) <= MaxClaimHistory
  <2>1. CASE Cardinality(OfSeries(all, s)) > MaxClaimHistory
    <3> DEFINE S == OfSeries(all, s) \ LiveOf(all)
    <3>1. OfSeries(kept, s) # {}
      <4>1. SUFFICES ASSUME OfSeries(kept, s) = {} PROVE FALSE  OBVIOUS
      <4>2. Cardinality(OfSeries(kept, s)) = 0  BY <4>1, FS_EmptySet
      <4>3. Cardinality(OfSeries(all, s)) = 1  BY <1>5, <1>7, <4>2
      <4> QED  BY <1>12, <2>1, <4>3
    <3>2. PICK i \in 1..len : kept[i].series = s  BY <1>4, <3>1 DEF OfSeries
    <3>3. i \in DOMAIN all /\ all[i].series = s /\ ~all[i].live
      BY <1>2, <1>3, <1>6, <3>2
    <3>4. S # {} /\ S \in SUBSET OfSeries(all, s)
      BY <3>3 DEF OfSeries, LiveOf
    <3>5. ts = EraseFirst(all, S)  BY <2>1 DEF TrimThresholds
    <3> HIDE DEF S
    <3>6. /\ ts \in Seq(Threshold) /\ \E place : Picks(ts, all, place)
          /\ Cardinality(OfSeries(ts, s)) <= Cardinality(OfSeries(all, s)) - 1
      BY <1>6, <3>4, <3>5, EraseCount
    <3> HIDE DEF ts
    <3>7. OfSeries(ts, s) \in SUBSET DOMAIN ts  BY DEF OfSeries
    <3>8. Cardinality(OfSeries(ts, s)) \in Nat  BY <3>6, <3>7, OfSeriesFinite
    <3>9. Cardinality(OfSeries(kept, s)) <= MaxClaimHistory
      BY <1>8 DEF OneThreshold
    <3>10. Cardinality(OfSeries(all, s)) = Cardinality(OfSeries(kept, s)) + 1
      BY <1>5, <1>7
    <3>11. Cardinality(OfSeries(ts, s)) <= MaxClaimHistory
      BY <1>10, <1>12, <3>6, <3>8, <3>9, <3>10
    <3> QED  BY <3>6, <3>11
  <2>2. CASE ~(Cardinality(OfSeries(all, s)) > MaxClaimHistory)
    <3>1. ts = all  BY <2>2 DEF TrimThresholds
    <3> HIDE DEF ts
    <3>2. \E place : Picks(all, all, place)  BY <1>6, PicksSelf
    <3>3. Cardinality(OfSeries(all, s)) <= MaxClaimHistory  BY <1>10, <1>12, <2>2
    <3> QED  BY <1>6, <3>1, <3>2, <3>3
  <2> QED  BY <2>1, <2>2
<1> HIDE DEF ts
<1>15. Settled(ts)  BY <1>6, <1>9, <1>14, PicksSettled
<1>16. ASSUME NEW t \in Series PROVE Cardinality(OfSeries(ts, t)) <= MaxClaimHistory
  <2>1. CASE t = s  BY <1>14, <2>1
  <2>2. CASE t # s
    <3>1. Cardinality(OfSeries(ts, t)) <= Cardinality(OfSeries(all, t))
      BY <1>6, <1>14, PicksFewer
    <3>2. Cardinality(OfSeries(all, t)) = Cardinality(OfSeries(kept, t))
      BY <1>5, <1>7, <1>10, <2>2
    <3>3. Cardinality(OfSeries(kept, t)) <= MaxClaimHistory  BY <1>8 DEF OneThreshold
    <3>4. OfSeries(ts, t) \in SUBSET DOMAIN ts  BY DEF OfSeries
    <3>5. Cardinality(OfSeries(ts, t)) \in Nat  BY <1>14, <3>4, OfSeriesFinite
    <3> QED  BY <1>10, <1>12, <3>1, <3>2, <3>3, <3>5
  <2> QED  BY <2>1, <2>2
<1>17. Cardinality(LiveOf(ts)) <= MaxThresholds
  <2>1. Cardinality(LiveOf(ts)) <= Cardinality(LiveOf(all))  BY <1>6, <1>14, PicksFewer
  <2>2. LiveOf(ts) \in SUBSET DOMAIN ts  BY DEF LiveOf
  <2>3. Cardinality(LiveOf(ts)) \in Nat  BY <1>14, <2>2, OfSeriesFinite
  <2> QED  BY <1>11, <1>12, <1>13, <2>1, <2>3
<1>18. PoliciesValid'  BY <1>1, <1>15 DEF PoliciesValid, Settled
<1>19. OneThreshold'
  BY <1>1, <1>15, <1>16, <1>17 DEF OneThreshold, Settled, OfSeries, LiveOf
<1> QED  BY <1>1, <1>14, <1>18, <1>19

-----------------------------------------------------------------------------
(* The invariant.                                                          *)

LEMMA LoadStep ==
  ASSUME Inv, Load
  PROVE  /\ counts' \in [Series -> Nat] /\ latches' \in [Series -> Latch]
         /\ recent' \in [Series -> Seq(Shown)]
         /\ SampleBudgets' /\ LatchesFit' /\ LatchMovesOnRun'
<1>1. TypeOK  BY DEF Inv
<1>2. /\ samples' = samples /\ counts' = [s \in Series |-> Cardinality(InSeries(s))]
      /\ latches' = [s \in Series |-> IF EvidenceHolds(s) THEN latches[s] ELSE NewLatch]
      /\ recent' = [s \in Series |-> IF EvidenceHolds(s) THEN recent[s] ELSE <<>>]
  BY DEF Load
<1>3. ASSUME NEW s \in Series PROVE Cardinality(InSeries(s)) \in Nat
  <2>1. InSeries(s) \in SUBSET DOMAIN samples  BY DEF InSeries, OfSeries
  <2> QED  BY <1>1, <2>1, OfSeriesFinite DEF TypeOK
<1>4. counts' \in [Series -> Nat]  BY <1>2, <1>3
<1>5. SampleBudgets'
  <2>1. MaxSamplesPerSeries \in Nat  BY HealthAssumption
  <2>2. \A s \in Series : /\ InSeries(s)' = InSeries(s)
                          /\ counts'[s] = Cardinality(InSeries(s))
    BY <1>2 DEF InSeries
  <2>3. ASSUME NEW s \in Series
        PROVE  /\ Cardinality(InSeries(s)) <= Cardinality(InSeries(s))
               /\ Cardinality(InSeries(s)) <= MaxSamplesPerSeries
    <3>1. Cardinality(InSeries(s)) <= counts[s] /\ counts[s] <= MaxSamplesPerSeries
      BY DEF Inv, SampleBudgets
    <3>2. counts[s] \in Nat  BY <1>1 DEF TypeOK
    <3> QED  BY <1>3, <2>1, <3>1, <3>2
  <2>4. Len(samples') <= MaxSamplesPerModule  BY <1>2 DEF Inv, SampleBudgets
  <2> QED  BY <2>2, <2>3, <2>4 DEF SampleBudgets
<1> DEFINE holds(s) == EvidenceHolds(s)
<1>6. \A s \in Series :
         /\ latches'[s] = IF holds(s) THEN latches[s] ELSE NewLatch
         /\ recent'[s] = IF holds(s) THEN recent[s] ELSE <<>>
  BY <1>2
<1>7. \A s \in Series : Fits(latches[s], recent[s]) /\ MovedOnRun(latches[s], recent[s])
  BY LatchesByPair DEF Inv
<1> HIDE DEF holds
<1>8. \A s \in Series : Fits(latches'[s], recent'[s]) /\ MovedOnRun(latches'[s], recent'[s])
  BY <1>6, <1>7, NewLatchFits
<1>9. latches' \in [Series -> Latch] /\ recent' \in [Series -> Seq(Shown)]
  <2>1. <<>> \in Seq(Shown)  OBVIOUS
  <2>2. \A s \in Series : latches'[s] \in Latch /\ recent'[s] \in Seq(Shown)
    BY <1>1, <1>6, <2>1, NewLatchFits DEF TypeOK
  <2> QED  BY <1>2, <2>2
<1> QED  BY <1>4, <1>5, <1>8, <1>9, LatchesByPairNext

LEMMA InvStep == Inv /\ [Next]_vars => Inv'
<1> SUFFICES ASSUME Inv, [Next]_vars PROVE Inv'
  OBVIOUS
<1>0. /\ TypeOK /\ PoliciesValid /\ LatchesFit /\ SampleBudgets /\ KeptInOrder
      /\ OneThreshold /\ LatchMovesOnRun
  BY DEF Inv
<1>1. ASSUME NEW pair \in Published, PublishThreshold(pair[1], pair[2])
      PROVE  Inv'
  <2>1. pair[1] \in Series /\ pair[2] \in Policies  BY HealthAssumption
  <2>2. thresholds' \in Seq(Threshold) /\ PoliciesValid' /\ OneThreshold'
    BY <1>0, <1>1, <2>1, ThresholdStep
  <2>3. generation' \in Nat /\ UNCHANGED <<now, steady, boot, epochs, incarnation, samples,
                                           counts, latches, recent>>
    BY <1>0, <1>1 DEF PublishThreshold, Publish, TypeOK
  <2>4. TypeOK'  BY <1>0, <2>2, <2>3 DEF TypeOK
  <2>5. LatchesFit' /\ LatchMovesOnRun'  BY <1>0, <2>3 DEF LatchesFit, LatchMovesOnRun
  <2>6. SampleBudgets' /\ KeptInOrder'
    BY <1>0, <2>3 DEF SampleBudgets, InSeries, OfSeries, KeptInOrder
  <2> QED  BY <2>2, <2>4, <2>5, <2>6 DEF Inv
<1>2. ASSUME NEW source \in Sources, NEW s \in Sampled, NEW reading \in Values \cup {Absent},
             IngestHealth(source, s, reading)
      PROVE  Inv'
  <2>1. s \in Series  BY HealthAssumption
  <2>2. PICK delay \in 0..MaxDelay, ahead \in 0..MaxFutureSkew, domain \in 1..boot :
          \E monotonic \in {steady - delay} \cup (IF domain = boot THEN {} ELSE {0}) :
            /\ monotonic # 0 => ~Replayed(source, s, domain, monotonic)
            /\ StoreSample([series |-> s, reading |-> reading, observed |-> now + ahead - delay,
                            monotonic |-> monotonic, domain |-> domain, source |-> source,
                            epoch |-> epochs[source], incarnation |-> incarnation])
    BY <1>2 DEF IngestHealth
  <2>3. PICK monotonic \in {steady - delay} \cup (IF domain = boot THEN {} ELSE {0}) :
            /\ monotonic # 0 => ~Replayed(source, s, domain, monotonic)
            /\ StoreSample([series |-> s, reading |-> reading, observed |-> now + ahead - delay,
                            monotonic |-> monotonic, domain |-> domain, source |-> source,
                            epoch |-> epochs[source], incarnation |-> incarnation])
    BY <2>2
  <2> DEFINE x == [series |-> s, reading |-> reading, observed |-> now + ahead - delay,
                   monotonic |-> monotonic, domain |-> domain, source |-> source,
                   epoch |-> epochs[source], incarnation |-> incarnation]
  <2>4. x \in Sample
    <3>1. MaxDelay \in Nat /\ MaxFutureSkew \in Nat  BY HealthAssumption
    <3>2. now + ahead - delay \in Nat /\ steady - delay \in Nat /\ domain \in Nat
      BY <1>0, <3>1 DEF TypeOK
    <3>3. monotonic \in Nat  BY <3>2
    <3>4. epochs[source] \in Nat /\ incarnation \in Nat  BY <1>0 DEF TypeOK
    <3> QED  BY <2>1, <3>2, <3>3, <3>4 DEF Sample
  <2>5. /\ StoreSample(x)
        /\ x.monotonic # 0 => ~Replayed(x.source, x.series, x.domain, x.monotonic)
    BY <2>3
  <2> HIDE DEF x
  <2>6. samples' \in Seq(Sample) /\ counts' \in [Series -> Nat] /\ SampleBudgets' /\ KeptInOrder'
    BY <1>0, <2>4, <2>5, StoreStep
  <2>7. ShowLatch(s, reading)  BY <1>2 DEF IngestHealth
  <2>8. /\ latches' \in [Series -> Latch] /\ recent' \in [Series -> Seq(Shown)]
        /\ LatchesFit' /\ LatchMovesOnRun'
    BY <1>0, <2>1, <2>7, LatchStep
  <2>9. generation' \in Nat /\ UNCHANGED <<now, steady, boot, epochs, incarnation, thresholds>>
    BY <1>0, <1>2 DEF IngestHealth, Publish, TypeOK
  <2>10. TypeOK'  BY <1>0, <2>6, <2>8, <2>9 DEF TypeOK
  <2>11. PoliciesValid' /\ OneThreshold'
    BY <1>0, <2>9 DEF PoliciesValid, OneThreshold, OfSeries, LiveOf
  <2> QED  BY <2>6, <2>8, <2>10, <2>11 DEF Inv
<1>3. ASSUME TypeOK', UNCHANGED <<samples, counts, latches, thresholds, recent>>
      PROVE  Inv'
  <2>1. LatchesFit' /\ LatchMovesOnRun'  BY <1>0, <1>3 DEF LatchesFit, LatchMovesOnRun
  <2>2. SampleBudgets' /\ KeptInOrder'
    BY <1>0, <1>3 DEF SampleBudgets, InSeries, OfSeries, KeptInOrder
  <2>3. PoliciesValid' /\ OneThreshold'
    BY <1>0, <1>3 DEF PoliciesValid, OneThreshold, OfSeries, LiveOf
  <2> QED  BY <1>3, <2>1, <2>2, <2>3 DEF Inv
<1>4. ASSUME NEW source \in Sources, AdvanceEpoch(source)
      PROVE  Inv'
  <2>1. epochs' \in [Sources -> Nat] /\ generation' \in Nat
    BY <1>0, <1>4 DEF AdvanceEpoch, Publish, TypeOK
  <2>2. UNCHANGED <<now, steady, boot, incarnation, samples, counts, latches, thresholds, recent>>
    BY <1>4 DEF AdvanceEpoch
  <2>3. TypeOK'  BY <1>0, <2>1, <2>2 DEF TypeOK
  <2> QED  BY <1>3, <2>2, <2>3
<1>5. ASSUME NewIncarnation
      PROVE  Inv'
  <2>1. /\ incarnation' = incarnation + 1 /\ generation' = generation + 1
        /\ latches' = [s \in Series |-> NewLatch] /\ recent' = [s \in Series |-> <<>>]
        /\ UNCHANGED <<now, steady, boot, epochs, samples, counts, thresholds>>
    BY <1>5 DEF NewIncarnation, Publish
  <2>2. <<>> \in Seq(Shown)  OBVIOUS
  <2>3. latches' \in [Series -> Latch] /\ recent' \in [Series -> Seq(Shown)]
    BY <2>1, <2>2, NewLatchFits
  <2>4. TypeOK'  BY <1>0, <2>1, <2>3 DEF TypeOK
  <2>5. LatchesFit' /\ LatchMovesOnRun'
    BY <2>1, NewLatchFits, LatchesByPairNext
  <2>6. SampleBudgets' /\ KeptInOrder'
    BY <1>0, <2>1 DEF SampleBudgets, InSeries, OfSeries, KeptInOrder
  <2>7. PoliciesValid' /\ OneThreshold'
    BY <1>0, <2>1 DEF PoliciesValid, OneThreshold, OfSeries, LiveOf
  <2> QED  BY <2>4, <2>5, <2>6, <2>7 DEF Inv
<1>6. ASSUME Tick PROVE Inv'
  <2>1. TypeOK'  BY <1>0, <1>6, HealthAssumption DEF Tick, TypeOK
  <2> QED  BY <1>3, <1>6, <2>1 DEF Tick
<1>7. ASSUME SetBack PROVE Inv'
  <2>1. TypeOK'  BY <1>0, <1>7, HealthAssumption DEF SetBack, TypeOK
  <2> QED  BY <1>3, <1>7, <2>1 DEF SetBack
<1>8. ASSUME Load PROVE Inv'
  <2>1. /\ counts' \in [Series -> Nat] /\ latches' \in [Series -> Latch]
        /\ recent' \in [Series -> Seq(Shown)]
        /\ SampleBudgets' /\ LatchesFit' /\ LatchMovesOnRun'
    BY <1>8, LoadStep
  <2>2. /\ boot' = boot + 1 /\ generation' = generation + 1
        /\ UNCHANGED <<now, steady, epochs, incarnation, samples, thresholds>>
    BY <1>8 DEF Load, Publish
  <2>3. TypeOK'  BY <1>0, <2>1, <2>2 DEF TypeOK
  <2>4. KeptInOrder' /\ PoliciesValid' /\ OneThreshold'
    BY <1>0, <2>2 DEF KeptInOrder, PoliciesValid, OneThreshold, OfSeries, LiveOf
  <2> QED  BY <2>1, <2>3, <2>4 DEF Inv
<1>9. ASSUME UNCHANGED vars PROVE Inv'
  <2>1. TypeOK'  BY <1>0, <1>9 DEF TypeOK, vars
  <2> QED  BY <1>3, <1>9, <2>1 DEF vars
<1> QED  BY <1>1, <1>2, <1>4, <1>5, <1>6, <1>7, <1>8, <1>9 DEF Next

LEMMA Invariance == Spec => []Inv
BY InitInv, InvStep, PTL DEF Spec

\* trim_samples: no series and no module keeps more samples than its budget,
\* although it erases by counters that drift.
THEOREM BudgetsHold == Spec => []SampleBudgets
<1>1. Inv => SampleBudgets  BY DEF Inv
<1> QED  BY <1>1, Invariance, PTL

\* ingest_health: what is kept of one source, series and clock domain has
\* arrived in the order of its monotonic times.
THEOREM OrderKept == Spec => []KeptInOrder
<1>1. Inv => KeptInOrder  BY DEF Inv
<1> QED  BY <1>1, Invariance, PTL

\* publish_threshold: at most one live threshold per series, and the budgets of
\* live and of remembered ones hold.
THEOREM ThresholdUnique == Spec => []OneThreshold
<1>1. Inv => OneThreshold  BY DEF Inv
<1> QED  BY <1>1, Invariance, PTL

\* advance_latch: a latch leaves a zone only on a run of samples outside it.
THEOREM LatchNeedsRun == Spec => []LatchMovesOnRun
<1>1. Inv => LatchMovesOnRun  BY DEF Inv
<1> QED  BY <1>1, Invariance, PTL

\* advance_latch: a latch that counts fewer samples outside Ok than the policy
\* asks for was shown one inside Ok among that many.
LEMMA FaultLatched == Inv => SustainedFaultLatched
<1> SUFFICES ASSUME Inv, NEW s \in Series, PolicyFor(s) # NoPolicy,
                    Len(recent[s]) >= Terms[PolicyFor(s)].escalate_after,
                    \A k \in (Len(recent[s]) - Terms[PolicyFor(s)].escalate_after + 1)
                              ..Len(recent[s]) :
                      recent[s][k].policy = PolicyFor(s) /\ recent[s][k].zone # "Ok",
                    latches[s].state = "Ok"
             PROVE  FALSE
  BY DEF SustainedFaultLatched
<1> DEFINE p == PolicyFor(s)
           len == Len(recent[s])
           need == Terms[p].escalate_after
           c == latches[s].consecutive
<1>1. TypeOK /\ PoliciesValid /\ OneThreshold /\ LatchesFit  BY DEF Inv
<1>2. p \in Policies /\ ValidPolicy(p)  BY <1>1, PolicyFits
<1>3. need \in Nat \ {0}
  <2>1. Terms[p] \in Policy  BY <1>2, HealthAssumption
  <2> QED  BY <1>2, <2>1 DEF Policy, ValidPolicy
<1>4. recent[s] \in Seq(Shown) /\ len \in Nat /\ c \in Nat
  BY <1>1, LenProperties DEF TypeOK, Latch
<1>5. /\ c < len /\ recent[s][len - c].zone = "Ok"
      /\ c > 0 => c < Needed(recent[s][len].policy, "Ok", recent[s][len].zone)
  BY <1>1 DEF LatchesFit, Zones
<1>6. \A k \in (len - need + 1)..len : recent[s][k].policy = p /\ recent[s][k].zone # "Ok"
  OBVIOUS
<1>7. recent[s][len] \in Shown
  BY <1>4, <1>5, ElementOfSeq
<1> HIDE DEF p, len, need, c
<1>8. len \in (len - need + 1)..len  BY <1>3, <1>4
<1>9. c > 0
  <2>1. c # 0
    <3>1. SUFFICES ASSUME c = 0 PROVE FALSE  OBVIOUS
    <3>2. len - c = len  BY <1>4, <3>1
    <3> QED  BY <1>5, <1>6, <1>8, <3>2
  <2> QED  BY <1>4, <2>1
<1>10. Needed(recent[s][len].policy, "Ok", recent[s][len].zone) = need
  <2>1. recent[s][len].zone \in {"Degraded", "Critical"} /\ recent[s][len].policy = p
    BY <1>6, <1>7, <1>8 DEF Shown, Zones
  <2> QED  BY <2>1 DEF Needed, Rank, need
<1>11. len - c \in (len - need + 1)..len
  BY <1>3, <1>4, <1>5, <1>9, <1>10
<1> QED  BY <1>5, <1>6, <1>11

\* advance_latch: a fault that lasts as many samples in a row as the policy asks
\* for is never hidden behind a latch that still says Ok.
THEOREM FaultShows == Spec => []SustainedFaultLatched
BY Invariance, FaultLatched, PTL

-----------------------------------------------------------------------------
(* The report.                                                             *)

\* A zone is given only to a series with a policy and a fresh measurement, and
\* only while its sources agree.
LEMMA ZoneIsFounded ==
  ASSUME TypeOK, NEW s, ClassifySeries(s) \in Zones
  PROVE  /\ PolicyFor(s) # NoPolicy /\ Fresh(s, PolicyFor(s)) # {}
         /\ ~Disagree(Fresh(s, PolicyFor(s)), Terms[PolicyFor(s)].tolerance)
BY DEF ClassifySeries, Zones

\* What Fresh says of a sample.
LEMMA FreshFacts ==
  ASSUME TypeOK, NEW s \in Series, NEW p \in Policies, NEW i \in Fresh(s, p)
  PROVE  /\ i \in InSeries(s) /\ Live(samples[i]) /\ samples[i].reading # Absent
         /\ samples[i] \in Sample /\ Age(samples[i]) <= Terms[p].max_age
         /\ now <= samples[i].observed + Terms[p].max_age
<1>1. /\ i \in InSeries(s) /\ Live(samples[i]) /\ samples[i].reading # Absent
      /\ Age(samples[i]) <= Terms[p].max_age
  BY DEF Fresh, Measured, NewestBySource
<1>2. samples[i] \in Sample
  <2>1. samples \in Seq(Sample) /\ i \in DOMAIN samples  BY <1>1 DEF TypeOK, InSeries, OfSeries
  <2> QED  BY <2>1, LenProperties, ElementOfSeq
<1>3. now \in Nat /\ samples[i].observed \in Nat /\ Terms[p].max_age \in Nat
  <2>1. Terms[p] \in Policy  BY HealthAssumption
  <2> QED  BY <1>2, <2>1 DEF TypeOK, Sample, Policy
<1>4. now <= samples[i].observed + Terms[p].max_age
  BY <1>1, <1>3 DEF Age
<1> QED  BY <1>1, <1>2, <1>4

LEMMA RowsFit ==
  ASSUME TypeOK
  PROVE  Rows \subseteq Series
<1>1. \A i \in LiveOf(thresholds) : thresholds[i] \in Threshold
  BY LenProperties, ElementOfSeq DEF LiveOf, TypeOK
<1>2. \A i \in DOMAIN samples : samples[i] \in Sample
  BY LenProperties, ElementOfSeq DEF TypeOK
<1>3. Declared \subseteq Series  BY HealthAssumption DEF Series
<1> QED  BY <1>1, <1>2, <1>3 DEF Rows, Threshold, Sample

LEMMA HealthyFounded == Inv => HealthyIsEarned
<1> SUFFICES ASSUME Inv, Healthy PROVE HealthyIsEarned
  BY DEF HealthyIsEarned
<1>1. TypeOK /\ PoliciesValid /\ OneThreshold  BY DEF Inv
<1>2. Rows # {} /\ \A s \in Rows : MetricState(s) = "Ok"
  BY DEF Healthy, Outcome, RowsIn
<1>3. ASSUME NEW s \in Rows
      PROVE  LET p == PolicyFor(s)
             IN  /\ p # NoPolicy
                 /\ \E i \in InSeries(s) :
                      /\ samples[i].reading # Absent
                      /\ samples[i].incarnation = incarnation
                      /\ samples[i].epoch = epochs[samples[i].source]
                      /\ now <= samples[i].observed + Terms[p].max_age
                 /\ ~Disagree(Fresh(s, p), Terms[p].tolerance)
  <2>1. s \in Series  BY <1>1, RowsFit
  <2>2. ClassifySeries(s) \in Zones
    BY <1>2 DEF MetricState, Zones
  <2>3. /\ PolicyFor(s) # NoPolicy /\ Fresh(s, PolicyFor(s)) # {}
        /\ ~Disagree(Fresh(s, PolicyFor(s)), Terms[PolicyFor(s)].tolerance)
    BY <1>1, <2>2, ZoneIsFounded
  <2>4. PolicyFor(s) \in Policies  BY <1>1, <2>1, <2>3, PolicyFits
  <2>5. PICK i \in Fresh(s, PolicyFor(s)) : TRUE  BY <2>3
  <2>6. /\ i \in InSeries(s) /\ Live(samples[i]) /\ samples[i].reading # Absent
        /\ now <= samples[i].observed + Terms[PolicyFor(s)].max_age
    BY <1>1, <2>1, <2>4, FreshFacts
  <2> QED  BY <2>3, <2>6 DEF Live
<1> QED  BY <1>2, <1>3 DEF HealthyIsEarned

\* HealthReport::healthy: only on live, fresh and undisputed measurements.
THEOREM HealthyEarned == Spec => []HealthyIsEarned
BY Invariance, HealthyFounded, PTL

-----------------------------------------------------------------------------
(* A load.                                                                 *)

\* Among some samples there is a newest, of equally new ones the first.
LEMMA NewestExists ==
  ASSUME TypeOK, NEW S \in SUBSET DOMAIN samples, S # {}
  PROVE  \E i \in S : \A j \in S :
            \/ samples[j].observed < samples[i].observed
            \/ samples[j].observed = samples[i].observed /\ i <= j
<1> DEFINE later(i, j) == \/ samples[j].observed < samples[i].observed
                          \/ samples[j].observed = samples[i].observed /\ i < j
           R == {p \in S \X S : later(p[1], p[2])}
<1>1. /\ samples \in Seq(Sample) /\ DOMAIN samples = 1..Len(samples) /\ Len(samples) \in Nat
      /\ \A i \in DOMAIN samples : samples[i] \in Sample
  BY LenProperties, ElementOfSeq DEF TypeOK
<1>2. ASSUME NEW i \in S PROVE i \in Nat /\ samples[i].observed \in Nat
  <2>1. i \in DOMAIN samples  OBVIOUS
  <2>2. i \in Nat  BY <1>1, <2>1
  <2>3. samples[i] \in Sample  BY <1>1, <2>1
  <2> QED  BY <2>2, <2>3 DEF Sample
<1>3. IsFiniteSet(S)  BY <1>1, OfSeriesFinite
<1>4. \A i, j \in S : <<i, j>> \in R <=> later(i, j)
  OBVIOUS
<1>5. /\ \A a \in S : <<a, a>> \notin R
      /\ \A a, b, c \in S : <<a, b>> \in R /\ <<b, c>> \in R => <<a, c>> \in R
  BY <1>2, <1>4
<1> HIDE DEF R
<1>6. PICK i \in S : \A j \in S : <<j, i>> \notin R
  BY <1>3, <1>5, Minimal
<1>7. ASSUME NEW j \in S
      PROVE  \/ samples[j].observed < samples[i].observed
             \/ samples[j].observed = samples[i].observed /\ i <= j
  <2> DEFINE x == samples[i].observed
             y == samples[j].observed
  <2>1. ~(x < y) /\ ~(x = y /\ j < i)
    <3>1. <<j, i>> \notin R  BY <1>6
    <3>2. ~later(j, i)  BY <1>4, <3>1
    <3> QED  BY <3>2
  <2>2. x \in Nat /\ y \in Nat /\ i \in Nat /\ j \in Nat  BY <1>2
  <2> HIDE DEF x, y
  <2>3. y < x \/ (y = x /\ i <= j)  BY <2>1, <2>2
  <2> QED  BY <2>3 DEF x, y
<1> QED  BY <1>7

\* revalidate_evidence keeps the latch of a series classify_series gives a zone
\* to, unless one of its live samples measured nothing.
LEMMA VerdictHolds ==
  ASSUME Inv, NEW s \in Series, ClassifySeries(s) \in Zones,
         \A i \in InSeries(s) : Live(samples[i]) => samples[i].reading # Absent
  PROVE  EvidenceHolds(s)
<1> DEFINE p == PolicyFor(s)
           live == {i \in InSeries(s) : Live(samples[i])}
           IsNewest(i) == \A j \in live :
                            \/ samples[j].observed < samples[i].observed
                            \/ samples[j].observed = samples[i].observed /\ i <= j
           newest == CHOOSE i \in live : IsNewest(i)
<1>1. TypeOK /\ PoliciesValid /\ OneThreshold  BY DEF Inv
<1>2. p # NoPolicy /\ Fresh(s, p) # {}  BY <1>1, ZoneIsFounded
<1>3. p \in Policies  BY <1>1, <1>2, PolicyFits
<1>4. PICK f \in Fresh(s, p) : TRUE  BY <1>2
<1>5. f \in live /\ Age(samples[f]) <= Terms[p].max_age
  BY <1>1, <1>3, FreshFacts
<1>6. live \in SUBSET DOMAIN samples  BY DEF InSeries, OfSeries
<1>7. newest \in live /\ IsNewest(newest)
  <2>1. live # {}  BY <1>5
  <2> HIDE DEF live
  <2>2. \E i \in live : IsNewest(i)  BY <1>1, <1>6, <2>1, NewestExists
  <2> HIDE DEF IsNewest
  <2> QED  BY <2>2
<1> HIDE DEF newest
<1>8. samples[newest].reading # Absent  BY <1>7
<1>9. Age(samples[newest]) <= Terms[p].max_age
  <2>1. \A i \in live : samples[i] \in Sample
    BY <1>1, <1>6, LenProperties, ElementOfSeq DEF TypeOK
  <2>2. samples[newest].observed \in Nat /\ samples[f].observed \in Nat
    BY <1>5, <1>7, <2>1 DEF Sample
  <2>3. samples[f].observed <= samples[newest].observed
    BY <1>5, <1>7, <2>2
  <2>4. now \in Nat /\ Terms[p].max_age \in Nat
    <3>1. Terms[p] \in Policy  BY <1>3, HealthAssumption
    <3> QED  BY <1>1, <3>1 DEF TypeOK, Policy
  <2> HIDE DEF p
  <2> QED  BY <1>5, <2>2, <2>3, <2>4 DEF Age
<1>10. EvidenceHolds(s) <=> /\ p # NoPolicy /\ live # {}
                            /\ samples[newest].reading # Absent
                            /\ Age(samples[newest]) <= Terms[p].max_age
  BY DEF EvidenceHolds, newest
<1>11. live # {}  BY <1>5
<1> QED  BY <1>2, <1>8, <1>9, <1>10, <1>11

LEMMA VerdictsStep ==
  Inv /\ [Next]_vars =>
    (boot' # boot =>
       \A s \in Series :
          (/\ ClassifySeries(s) \in Zones
           /\ \A i \in InSeries(s) : Live(samples[i]) => samples[i].reading # Absent)
          => MetricState(s)' = MetricState(s))
<1> SUFFICES ASSUME Inv, [Next]_vars, boot' # boot, NEW s \in Series,
                    ClassifySeries(s) \in Zones,
                    \A i \in InSeries(s) : Live(samples[i]) => samples[i].reading # Absent
             PROVE  MetricState(s)' = MetricState(s)
  OBVIOUS
<1>1. Load
  <2>1. ASSUME NEW r, NEW p, PublishThreshold(r, p) PROVE FALSE  BY <2>1 DEF PublishThreshold
  <2>2. ASSUME NEW n, NEW r, NEW v, IngestHealth(n, r, v) PROVE FALSE  BY <2>2 DEF IngestHealth
  <2>3. ASSUME NEW n, AdvanceEpoch(n) PROVE FALSE  BY <2>3 DEF AdvanceEpoch
  <2>4. ~NewIncarnation /\ ~Tick /\ ~SetBack /\ ~UNCHANGED vars
    BY DEF NewIncarnation, Tick, SetBack, vars
  <2> QED  BY <2>1, <2>2, <2>3, <2>4 DEF Next
<1>2. EvidenceHolds(s)  BY VerdictHolds
<1>3. latches'[s] = latches[s]  BY <1>1, <1>2 DEF Load
<1>4. UNCHANGED <<now, epochs, incarnation, samples, thresholds>>  BY <1>1 DEF Load
<1>5. ClassifySeries(s)' = ClassifySeries(s)
  <2>1. PolicyFor(s)' = PolicyFor(s)  BY <1>4 DEF PolicyFor, OfSeries
  <2>2. InSeries(s)' = InSeries(s)  BY <1>4 DEF InSeries, OfSeries
  <2>3. NewestBySource(s)' = NewestBySource(s)  BY <1>4, <2>2 DEF NewestBySource, Live
  <2>4. Measured(s)' = Measured(s)  BY <1>4, <2>3 DEF Measured
  <2>5. Fresh(s, PolicyFor(s))' = Fresh(s, PolicyFor(s))  BY <1>4, <2>1, <2>4 DEF Fresh, Age
  <2> DEFINE F == Fresh(s, PolicyFor(s))
  <2>6. Reported(F)' = Reported(F)  BY <1>4, <2>5 DEF Reported
  <2>7. Disagree(F, Terms[PolicyFor(s)].tolerance)' = Disagree(F, Terms[PolicyFor(s)].tolerance)
    BY <1>4, <2>1, <2>5 DEF Disagree
  <2>8. samples' = samples  BY <1>4
  <2> QED  BY <2>1, <2>2, <2>3, <2>4, <2>5, <2>6, <2>7, <2>8 DEF ClassifySeries
<1> QED  BY <1>3, <1>5 DEF MetricState

\* revalidate_evidence: a load changes no zone the report gives for a series
\* whose live samples are all measurements.
THEOREM VerdictsKept == Spec => LoadKeepsVerdicts
<1>1. Inv /\ [Next]_vars =>
        [boot' # boot =>
           \A s \in Series :
              (/\ ClassifySeries(s) \in Zones
               /\ \A i \in InSeries(s) : Live(samples[i]) => samples[i].reading # Absent)
              => MetricState(s)' = MetricState(s)]_vars
  BY VerdictsStep
<1> QED  BY <1>1, Invariance, PTL DEF Spec, LoadKeepsVerdicts
=============================================================================
