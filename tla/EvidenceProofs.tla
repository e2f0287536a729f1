--------------------------- MODULE EvidenceProofs ---------------------------
(***************************************************************************)
(* Proofs about Evidence: for any sources, attributes, values and budgets, *)
(* and however long the registry has been at work.                         *)
(***************************************************************************)
EXTENDS Evidence, FunctionTheorems, FiniteSetTheorems, TLAPS

-----------------------------------------------------------------------------
(* Counting along an order.                                                *)

\* In a finite set with a strict total order, given as a set of pairs, as many
\* elements have fewer than n predecessors as one would think.
LEMMA Ranking ==
  ASSUME NEW S, IsFiniteSet(S), NEW R,
         \A a, b \in S : a # b => <<a, b>> \in R \/ <<b, a>> \in R,
         \A a \in S : <<a, a>> \notin R,
         \A a, b, c \in S : <<a, b>> \in R /\ <<b, c>> \in R => <<a, c>> \in R,
         NEW n \in Nat
  PROVE  Cardinality({s \in S : Cardinality({t \in S : <<t, s>> \in R}) < n}) =
            IF n <= Cardinality(S) THEN n ELSE Cardinality(S)
<1> DEFINE below(s) == {t \in S : <<t, s>> \in R}
           rank == [s \in S |-> Cardinality(below(s))]
           c == Cardinality(S)
           first == {s \in S : Cardinality(below(s)) < n}
<1>1. c \in Nat /\ \A T \in SUBSET S : /\ IsFiniteSet(T) /\ Cardinality(T) \in Nat
                                       /\ Cardinality(T) <= c
  BY FS_CardinalityType, FS_Subset
<1>2. ASSUME NEW s \in S
      PROVE  rank[s] = Cardinality(below(s)) /\ rank[s] \in 0..c - 1
  <2>1. below(s) \in SUBSET (S \ {s})  OBVIOUS
  <2>2. IsFiniteSet(S \ {s}) /\ Cardinality(S \ {s}) = c - 1  BY FS_RemoveElement
  <2>3. Cardinality(below(s)) \in Nat  BY <1>1
  <2> HIDE DEF below, c
  <2>4. Cardinality(below(s)) <= c - 1  BY <2>1, <2>2, FS_Subset
  <2>5. rank[s] = Cardinality(below(s))  OBVIOUS
  <2> QED  BY <1>1, <2>3, <2>4, <2>5
<1>3. ASSUME NEW a \in S, NEW b \in S, <<a, b>> \in R
      PROVE  rank[a] # rank[b]
  <2>1. below(a) \subseteq below(b) /\ a \in below(b) /\ a \notin below(a)
    BY <1>3
  <2>2. IsFiniteSet(below(b))  BY <1>1
  <2>3. Cardinality(below(a)) # Cardinality(below(b))
    BY <2>1, <2>2, FS_Subset
  <2> QED  BY <1>2, <2>3
<1>4. rank \in [S -> 0..c - 1] /\ \A a, b \in S : rank[a] = rank[b] => a = b
  BY <1>2, <1>3
<1>5. first = {s \in S : rank[s] < n}
  BY <1>2
<1>6. \A s \in S : rank[s] \in 0..c - 1
  BY <1>2
<1> HIDE DEF rank, c, first
<1>7. IsFiniteSet(first)  BY <1>1, <1>5
<1> DEFINE part == [s \in first |-> rank[s]]
<1>8. part \in Injection(first, 0..n - 1)
  <2>1. part \in [first -> 0..n - 1]  BY <1>5, <1>6
  <2>2. \A a, b \in first : part[a] = part[b] => a = b  BY <1>4, <1>5
  <2> HIDE DEF part
  <2> QED  BY <2>1, <2>2, Fun_IsInj
<1>9. IsFiniteSet(0..n - 1) /\ Cardinality(0..n - 1) = n  BY FS_Interval
<1>10. ASSUME n <= c PROVE Cardinality(first) = n
  <2>0. c \in Nat /\ c - 1 \in Int  BY <1>1
  <2>1. IsFiniteSet(0..c - 1) /\ Cardinality(0..c - 1) = c  BY <2>0, FS_Interval
  <2>2. rank \in Injection(S, 0..c - 1)  BY <1>4, Fun_IsInj
  <2>3. rank \in Surjection(S, 0..c - 1)  BY <2>1, <2>2, FS_Injection DEF c
  <2>4. \A k \in 0..c - 1 : \E s \in S : rank[s] = k  BY <2>3 DEF Surjection
  <2>5. \A k \in 0..n - 1 : \E s \in first : part[s] = k
    <3>1. SUFFICES ASSUME NEW k \in 0..n - 1 PROVE \E s \in first : part[s] = k
      OBVIOUS
    <3>2. k \in 0..c - 1 /\ k < n  BY <1>1, <1>10
    <3>3. PICK s \in S : rank[s] = k  BY <2>4, <3>2
    <3> QED  BY <1>5, <3>2, <3>3
  <2>6. part \in Surjection(first, 0..n - 1)
    <3>1. part \in [first -> 0..n - 1]  BY <1>8, Fun_InjectionProperties
    <3> HIDE DEF part
    <3> QED  BY <2>5, <3>1, Fun_IsSurj
  <2> QED  BY <1>7, <1>8, <1>9, <2>6, FS_Injection
<1>11. ASSUME ~(n <= c) PROVE Cardinality(first) = c
  <2>1. first = S  BY <1>1, <1>5, <1>6, <1>11
  <2> QED  BY <2>1 DEF c
<1> QED  BY <1>10, <1>11 DEF first, c

\* Seq identifies a statement in a set.
Distinct(set) == \A s, t \in set : s.seq = t.seq => s = t

\* There are as many oldest statements as were asked for.
LEMMA OldestCount ==
  ASSUME NEW S \in SUBSET Statement, IsFiniteSet(S), Distinct(S),
         NEW n \in Nat
  PROVE  Cardinality(Oldest(n, S)) = IF n <= Cardinality(S) THEN n ELSE Cardinality(S)
<1> DEFINE R == {st \in S \X S : st[1].seq < st[2].seq}
           first == {s \in S : Cardinality({t \in S : <<t, s>> \in R}) < n}
<1>1. \A s \in S : s.seq \in Nat  BY DEF Statement
<1>2. \A s, t \in S : <<s, t>> \in R <=> s.seq < t.seq  OBVIOUS
<1>3. \A s \in S : {t \in S : <<t, s>> \in R} = {t \in S : t.seq < s.seq}  BY <1>2
<1>4. first = Oldest(n, S)  BY <1>3 DEF Oldest
<1>5. /\ \A a, b \in S : a # b => <<a, b>> \in R \/ <<b, a>> \in R
      /\ \A a \in S : <<a, a>> \notin R
      /\ \A a, b, c \in S : <<a, b>> \in R /\ <<b, c>> \in R => <<a, c>> \in R
  BY <1>1, <1>2 DEF Distinct
<1> HIDE DEF R
<1>6. Cardinality(first) = IF n <= Cardinality(S) THEN n ELSE Cardinality(S)
  BY <1>5, Ranking
<1> QED  BY <1>4, <1>6

\* Not more statements than n have fewer than n later ones beside them.
LEMMA NewestCount ==
  ASSUME NEW S \in SUBSET Statement, IsFiniteSet(S), Distinct(S), NEW n \in Nat
  PROVE  Cardinality({s \in S : Cardinality({t \in S : t.seq > s.seq}) < n}) <= n
<1> DEFINE R == {st \in S \X S : st[1].seq > st[2].seq}
           first == {s \in S : Cardinality({t \in S : <<t, s>> \in R}) < n}
<1>1. \A s \in S : s.seq \in Nat  BY DEF Statement
<1>2. \A s, t \in S : <<s, t>> \in R <=> s.seq > t.seq  OBVIOUS
<1>3. \A s \in S : {t \in S : <<t, s>> \in R} = {t \in S : t.seq > s.seq}  BY <1>2
<1>4. first = {s \in S : Cardinality({t \in S : t.seq > s.seq}) < n}  BY <1>3
<1>5. /\ \A a, b \in S : a # b => <<a, b>> \in R \/ <<b, a>> \in R
      /\ \A a \in S : <<a, a>> \notin R
      /\ \A a, b, c \in S : <<a, b>> \in R /\ <<b, c>> \in R => <<a, c>> \in R
  BY <1>1, <1>2 DEF Distinct
<1> HIDE DEF R
<1>6. Cardinality(first) = IF n <= Cardinality(S) THEN n ELSE Cardinality(S)
  BY <1>5, Ranking
<1>7. Cardinality(S) \in Nat  BY FS_CardinalityType
<1> HIDE DEF first
<1>8. Cardinality(first) <= n  BY <1>6, <1>7
<1> QED  BY <1>4, <1>8

-----------------------------------------------------------------------------
(* Stores.                                                                 *)

\* No statement of a set is about the same matter and later.
IsNewest(set, s) == \A t \in set : SameMatter(s, t) => t.seq <= s.seq

\* When room can be made, the store is within its budget, and only statements
\* that another one supersedes have gone.
LEMMA RoomFacts ==
  ASSUME NEW store \in SUBSET Statement, IsFiniteSet(store), Distinct(store),
         NEW max \in Nat, MakeRoom(store, max).fits
  PROVE  LET kept == MakeRoom(store, max).store
         IN  /\ kept \in SUBSET store /\ IsFiniteSet(kept) /\ Cardinality(kept) <= max
             /\ \A s \in store : IsNewest(store, s) => s \in kept
<1> DEFINE c == Cardinality(store)
           excess == IF c > max THEN c - max ELSE 0
           spare == {s \in store : IsSuperseded(store, s)}
           gone == Oldest(excess, spare)
           kept == MakeRoom(store, max).store
<1>1. kept = store \ gone /\ Cardinality(spare) >= excess
  BY DEF MakeRoom
<1>2. c \in Nat /\ excess \in Nat  BY FS_CardinalityType
<1>3. spare \in SUBSET store /\ gone \in SUBSET spare  BY DEF Oldest
<1>4. IsFiniteSet(spare) /\ Distinct(spare) /\ spare \in SUBSET Statement
  BY <1>3, FS_Subset DEF Distinct
<1> HIDE DEF spare, excess
<1>5. Cardinality(gone) = excess
  <2>1. Cardinality(spare) \in Nat  BY <1>4, FS_CardinalityType
  <2>2. excess <= Cardinality(spare)  BY <1>1, <1>2, <2>1
  <2>3. Cardinality(Oldest(excess, spare)) =
           IF excess <= Cardinality(spare) THEN excess ELSE Cardinality(spare)
    BY <1>2, <1>4, OldestCount
  <2> QED  BY <2>2, <2>3
<1> HIDE DEF gone
<1>6. store \cap gone = gone  BY <1>3
<1>7. IsFiniteSet(kept) /\ Cardinality(kept) = c - excess
  <2>1. IsFiniteSet(store \ gone) /\ Cardinality(store \ gone) = c - Cardinality(store \cap gone)
    BY FS_Difference
  <2> HIDE DEF c, kept
  <2> QED  BY <1>1, <1>5, <1>6, <2>1
<1>8. Cardinality(kept) <= max
  BY <1>2, <1>7 DEF excess
<1>9. ASSUME NEW s \in store, IsNewest(store, s)
      PROVE  s \in kept
  <2>1. \A t \in store : t.seq \in Nat  BY DEF Statement
  <2>2. ~IsSuperseded(store, s)
    BY <1>9, <2>1 DEF IsSuperseded, Revises, IsNewest, SameMatter
  <2> QED  BY <1>1, <1>3, <2>2 DEF spare
<1> HIDE DEF kept
<1>10. kept \in SUBSET store  BY <1>1
<1> QED  BY <1>7, <1>8, <1>9, <1>10 DEF kept

\* Bounding the history leaves at most MaxHistory statements of one source, in
\* one epoch, of one attribute, and always the newest.
LEMMA HistoryFacts ==
  ASSUME NEW store \in SUBSET Statement, IsFiniteSet(store), Distinct(store)
  PROVE  LET kept == BoundHistory(store)
         IN  /\ kept \in SUBSET store
             /\ \A s \in kept :
                   Cardinality({t \in kept : SameMatter(t, s) /\ t.epoch = s.epoch}) <= MaxHistory
             /\ \A s \in store : IsNewest(store, s) => s \in kept
<1> USE EvidenceAssumption
<1> DEFINE group(s) == {t \in store : /\ t.source = s.source /\ t.epoch = s.epoch
                                      /\ t.attribute = s.attribute}
           later(s) == {t \in group(s) : t.seq > s.seq}
           kept == BoundHistory(store)
<1>1. kept = {s \in store : Cardinality(later(s)) < MaxHistory}
  BY DEF BoundHistory
<1> HIDE DEF kept
<1>2. kept \in SUBSET store  BY <1>1
<1>3. ASSUME NEW s \in kept
      PROVE  Cardinality({t \in kept : SameMatter(t, s) /\ t.epoch = s.epoch}) <= MaxHistory
  <2> DEFINE G == group(s)
  <2>1. s \in store  BY <1>2
  <2>2. \A t \in G : t \in store /\ group(t) = G  OBVIOUS
  <2>3. \A t \in G : later(t) = {u \in G : u.seq > t.seq}  BY <2>2
  <2>4. {t \in kept : SameMatter(t, s) /\ t.epoch = s.epoch} =
           {t \in G : t \in kept}
    BY <1>2 DEF SameMatter
  <2>5. G \in SUBSET store  OBVIOUS
  <2>6. \A t \in G : t \in kept <=> Cardinality({u \in G : u.seq > t.seq}) < MaxHistory
    BY <1>1, <2>2, <2>3
  <2> HIDE DEF G
  <2>7. {t \in G : t \in kept} =
           {t \in G : Cardinality({u \in G : u.seq > t.seq}) < MaxHistory}
    BY <2>6
  <2>8. G \in SUBSET Statement /\ IsFiniteSet(G) /\ Distinct(G)
    BY <2>5, FS_Subset DEF Distinct
  <2>9. Cardinality({t \in G : Cardinality({u \in G : u.seq > t.seq}) < MaxHistory})
           <= MaxHistory
    BY <2>8, NewestCount
  <2> QED  BY <2>4, <2>7, <2>9
<1>4. ASSUME NEW s \in store, IsNewest(store, s)
      PROVE  s \in kept
  <2>1. \A t \in store : t.seq \in Nat  BY DEF Statement
  <2>2. later(s) = {}
    BY <1>4, <2>1 DEF IsNewest, SameMatter
  <2>3. Cardinality(later(s)) = 0  BY <2>2, FS_EmptySet
  <2> QED  BY <1>1, <2>3
<1> QED  BY <1>2, <1>3, <1>4 DEF kept

\* A module's store after a statement that was not refused.
LEMMA TrimFacts ==
  ASSUME NEW store \in SUBSET Statement, NEW new \in SUBSET Statement,
         IsFiniteSet(store), IsFiniteSet(new), Distinct(store \cup new),
         NEW max \in Nat, Trim(store, new, max).fits
  PROVE  LET kept == Trim(store, new, max).store
         IN  /\ kept \in SUBSET (store \cup new) /\ Bounded(kept, max)
             /\ \A s \in store \cup new : IsNewest(store \cup new, s) => s \in kept
<1> DEFINE all == store \cup new
           room == MakeRoom(all, max)
           kept == Trim(store, new, max).store
<1>1. all \in SUBSET Statement /\ IsFiniteSet(all) /\ Distinct(all)
  BY FS_Union
<1>2. room.fits /\ kept = BoundHistory(room.store)
  BY DEF Trim
<1> HIDE DEF all, kept
<1>3. /\ room.store \in SUBSET all /\ IsFiniteSet(room.store) /\ Cardinality(room.store) <= max
      /\ \A s \in all : IsNewest(all, s) => s \in room.store
  BY <1>1, <1>2, RoomFacts
<1> DEFINE r == room.store
<1> HIDE DEF room, r
<1>4. r \in SUBSET all /\ IsFiniteSet(r) /\ Cardinality(r) <= max /\ kept = BoundHistory(r)
      /\ \A s \in all : IsNewest(all, s) => s \in r
  BY <1>2, <1>3 DEF r
<1>5. r \in SUBSET Statement /\ Distinct(r)
  BY <1>1, <1>4 DEF Distinct
<1>6. /\ kept \in SUBSET r
      /\ \A s \in kept :
            Cardinality({t \in kept : SameMatter(t, s) /\ t.epoch = s.epoch}) <= MaxHistory
      /\ \A s \in r : IsNewest(r, s) => s \in kept
  BY <1>4, <1>5, HistoryFacts
<1>7. IsFiniteSet(kept) /\ Cardinality(kept) <= max
  <2>1. IsFiniteSet(kept) /\ Cardinality(kept) <= Cardinality(r)  BY <1>4, <1>6, FS_Subset
  <2>2. Cardinality(kept) \in Nat /\ Cardinality(r) \in Nat  BY <1>4, <2>1, FS_CardinalityType
  <2> QED  BY <1>4, <2>1, <2>2
<1>8. \A s \in all : IsNewest(all, s) => s \in kept
  BY <1>4, <1>6 DEF IsNewest
<1>9. kept \in SUBSET all /\ Bounded(kept, max)
  BY <1>4, <1>6, <1>7 DEF Bounded
<1> QED  BY <1>8, <1>9 DEF kept, all

\* A port's store after a statement that was not refused.
LEMMA PortTrimFacts ==
  ASSUME NEW store \in SUBSET Statement, NEW n \in Statement,
         IsFiniteSet(store), Distinct(store \cup {n}),
         PortTrim(store, {n}).fits
  PROVE  LET kept == PortTrim(store, {n}).store
         IN  /\ kept \in SUBSET (store \cup {n}) /\ kept # {}
             /\ IsFiniteSet(kept) /\ Cardinality(kept) <= MaxPortDeclarations
             /\ \A s \in store \cup {n} : IsNewest(store \cup {n}, s) => s \in kept
<1> USE EvidenceAssumption
<1> DEFINE max == MaxPortDeclarations
           kept == PortTrim(store, {n}).store
           all == store \cup {n}
<1>1. max \in Nat \ {0} /\ max - 1 \in Nat  OBVIOUS
<1>2. PICK r \in SUBSET store :
         /\ kept = r \cup {n} /\ IsFiniteSet(r) /\ Cardinality(r) <= max - 1
         /\ \A s \in store : IsNewest(store, s) => s \in r
  <2>1. CASE Cardinality(store) < max
    <3>1. Cardinality(store) \in Nat  BY FS_CardinalityType
    <3>2. kept = store \cup {n}  BY <2>1 DEF PortTrim
    <3> QED  BY <1>1, <2>1, <3>1, <3>2
  <2>2. CASE ~(Cardinality(store) < max)
    <3> DEFINE room == MakeRoom(store, max - 1)
    <3>1. room.fits /\ kept = room.store \cup {n}  BY <2>2 DEF PortTrim
    <3>2. Distinct(store)  BY DEF Distinct
    <3>3. /\ room.store \in SUBSET store /\ IsFiniteSet(room.store)
          /\ Cardinality(room.store) <= max - 1
          /\ \A s \in store : IsNewest(store, s) => s \in room.store
      BY <1>1, <3>1, <3>2, RoomFacts
    <3> QED  BY <3>1, <3>3
  <2> QED  BY <2>1, <2>2
<1> HIDE DEF kept, max
<1>3. IsFiniteSet(kept) /\ Cardinality(kept) <= max
  <2>1. /\ IsFiniteSet(r \cup {n})
        /\ Cardinality(r \cup {n}) = IF n \in r THEN Cardinality(r) ELSE Cardinality(r) + 1
    BY <1>2, FS_AddElement
  <2>2. Cardinality(r) \in Nat  BY <1>2, FS_CardinalityType
  <2> QED  BY <1>1, <1>2, <2>1, <2>2
<1>4. \A s \in all : IsNewest(all, s) => s \in kept
  BY <1>2 DEF IsNewest
<1>5. kept \in SUBSET all /\ kept # {}  BY <1>2
<1> QED  BY <1>3, <1>4, <1>5 DEF kept, max

-----------------------------------------------------------------------------
(* A subject's store and what was accepted about it.                       *)

\* What was accepted, after new statements (Remember).
Revised(told, new) ==
    {o \in told : ~\E n \in new : o.source = n.source /\ o.attribute = n.attribute} \cup new

\* New statements, one per matter, of the sources' current epochs and of an
\* incarnation not lower than the one shown, into a store that keeps the newest.
\* (Without new statements: seq and incarnation may move on.)
LEMMA AccountedGrows ==
  ASSUME NEW store \in SUBSET Statement, NEW told \in SUBSET Statement,
         NEW new \in SUBSET Statement,
         NEW n \in Nat, NEW m \in Nat, n <= m, NEW epochs \in [Sources -> Nat],
         NEW shown \in Nat, NEW later \in Nat, shown <= later,
         Accounted(store, told, n, epochs, shown),
         \A s \in new : /\ s.seq \in n..m - 1
                        /\ s.epoch = epochs[s.source] /\ s.incarnation = later,
         Distinct(new), \A s, t \in new : SameMatter(s, t) => s = t,
         n >= 1,
         NEW kept \in SUBSET (store \cup new),
         \A s \in store \cup new : IsNewest(store \cup new, s) => s \in kept
  PROVE  Accounted(kept, Revised(told, new), m, epochs, later)
<1> DEFINE now == Revised(told, new)
<1>0. \A s \in store \cup told \cup new :
         /\ s.seq \in Nat /\ s.epoch \in Nat /\ s.incarnation \in Nat /\ s.source \in Sources
         /\ epochs[s.source] \in Nat
  BY DEF Statement
<1>1. /\ now \in SUBSET (told \cup new) /\ new \subseteq now
      /\ \A o \in told : \/ o \in now
                         \/ \E s \in new : SameMatter(o, s)
      /\ \A o \in now : \/ o \in new
                        \/ o \in told /\ \A s \in new : ~SameMatter(o, s)
  BY DEF Revised, SameMatter
<1> HIDE DEF now
<1>2. /\ \A s \in store \cup told :
            s.seq \in 1..n - 1 /\ s.epoch <= epochs[s.source] /\ s.incarnation <= shown
      /\ \A s, t \in store \cup told : s.seq = t.seq => s = t
      /\ \A o, p \in told : SameMatter(o, p) => o = p
      /\ \A s \in store : \E o \in told :
            /\ SameMatter(s, o) /\ s.seq <= o.seq
            /\ s.epoch <= o.epoch /\ s.incarnation <= o.incarnation
      /\ \A o \in told : o.epoch = epochs[o.source] /\ o.incarnation = shown => o \in store
  BY DEF Accounted
<1>3. \A s \in kept \cup now :
         s.seq \in 1..m - 1 /\ s.epoch <= epochs[s.source] /\ s.incarnation <= later
  BY <1>0, <1>1, <1>2
<1>4. \A s, t \in kept \cup now : s.seq = t.seq => s = t
  BY <1>0, <1>1, <1>2 DEF Distinct
<1>5. \A o, p \in now : SameMatter(o, p) => o = p
  BY <1>1, <1>2 DEF SameMatter
<1>6. ASSUME NEW s \in kept
      PROVE  \E o \in now : /\ SameMatter(s, o) /\ s.seq <= o.seq
                            /\ s.epoch <= o.epoch /\ s.incarnation <= o.incarnation
  <2>1. CASE s \in new
    BY <1>0, <1>1, <2>1 DEF SameMatter
  <2>2. CASE s \in store
    <3>1. PICK o \in told : /\ SameMatter(s, o) /\ s.seq <= o.seq
                            /\ s.epoch <= o.epoch /\ s.incarnation <= o.incarnation
      BY <1>2, <2>2
    <3>2. CASE o \in now  BY <3>1, <3>2
    <3>3. CASE o \notin now
      <4>1. PICK q \in new : SameMatter(o, q)  BY <1>1, <3>3
      <4>2. SameMatter(s, q)  BY <3>1, <4>1 DEF SameMatter
      <4>3. s.seq <= q.seq /\ s.incarnation <= q.incarnation
        BY <1>0, <1>2, <2>2
      <4>4. s.epoch <= q.epoch
        BY <1>0, <1>2, <2>2, <4>2 DEF SameMatter
      <4> QED  BY <1>1, <4>2, <4>3, <4>4
    <3> QED  BY <3>2, <3>3
  <2> QED  BY <2>1, <2>2
<1>7. ASSUME NEW o \in now, o.epoch = epochs[o.source], o.incarnation = later
      PROVE  o \in kept
  <2>1. CASE o \in new
    <3>1. ASSUME NEW t \in store \cup new, SameMatter(o, t) PROVE t.seq <= o.seq
      BY <1>0, <1>2, <2>1, <3>1
    <3> QED  BY <2>1, <3>1 DEF IsNewest
  <2>2. CASE o \in told /\ \A s \in new : ~SameMatter(o, s)
    <3>1. o \in store  BY <1>0, <1>2, <1>7, <2>2
    <3>2. ASSUME NEW t \in store \cup new, SameMatter(o, t) PROVE t.seq <= o.seq
      <4>1. t \in store  BY <2>2, <3>2
      <4>2. PICK p \in told : SameMatter(t, p) /\ t.seq <= p.seq  BY <1>2, <4>1
      <4>3. p = o  BY <1>2, <2>2, <3>2, <4>2 DEF SameMatter
      <4> QED  BY <4>2, <4>3
    <3> QED  BY <3>1, <3>2 DEF IsNewest
  <2> QED  BY <1>1, <2>1, <2>2
<1> QED  BY <1>3, <1>4, <1>5, <1>6, <1>7 DEF Accounted, now

\* A source enters a new epoch: what it had said no longer has to be on record.
LEMMA AccountedEpoch ==
  ASSUME NEW store \in SUBSET Statement, NEW told \in SUBSET Statement, NEW n \in Nat,
         NEW epochs \in [Sources -> Nat], NEW s \in Sources, NEW shown \in Nat,
         Accounted(store, told, n, epochs, shown)
  PROVE  Accounted(store, told, n, [epochs EXCEPT ![s] = @ + 1], shown)
<1> DEFINE new == [epochs EXCEPT ![s] = @ + 1]
<1>1. \A t \in store \cup told :
         /\ t.source \in Sources /\ t.epoch \in Nat /\ epochs[t.source] \in Nat
         /\ new[t.source] = IF t.source = s THEN epochs[s] + 1 ELSE epochs[t.source]
  BY DEF Statement
<1> HIDE DEF new
<1> QED  BY <1>1 DEF Accounted, new

-----------------------------------------------------------------------------
(* Every step.                                                             *)

\* Which store is behind which subject.
LEMMA Subject ==
  /\ Store("identity") = claims /\ Store("capability") = declarations
  /\ Shown("identity") = incarnation /\ Shown("capability") = incarnation
  /\ \A p \in Ports : Store(p) = ports[p] /\ Shown(p) = 0
  /\ \A x \in Subjects : x = "identity" \/ x = "capability" \/ x \in Ports
  BY EvidenceAssumption DEF Store, Shown, Subjects

LEMMA SubjectNext ==
  /\ Store("identity")' = claims' /\ Store("capability")' = declarations'
  /\ Shown("identity")' = incarnation' /\ Shown("capability")' = incarnation'
  /\ \A p \in Ports : Store(p)' = ports'[p] /\ Shown(p)' = 0
  BY EvidenceAssumption DEF Store, Shown

LEMMA StoreTypes ==
  ASSUME TypeOK
  PROVE  \A x \in Subjects :
            Store(x) \in SUBSET Statement /\ said[x] \in SUBSET Statement /\ Shown(x) \in Nat
  BY Subject DEF TypeOK

LEMMA InitInv == Init => Inv
<1> SUFFICES ASSUME Init PROVE Inv
  OBVIOUS
<1> USE EvidenceAssumption
<1>1. TypeOK
  BY DEF Init, TypeOK
<1>2. \A p \in Ports : ports[p] = {}
  BY DEF Init
<1>3. StoresFit
  <2>1. {p \in Ports : ports[p] # {}} = {}  BY <1>2
  <2>2. IsFiniteSet({}) /\ Cardinality({}) = 0  BY FS_EmptySet
  <2>3. \A max \in Nat : Bounded({}, max)  BY <2>2 DEF Bounded
  <2>4. claims = {} /\ declarations = {}  BY DEF Init
  <2>5. /\ Bounded(claims, MaxClaims) /\ Bounded(declarations, MaxDeclarations)
        /\ \A p \in Ports : IsFiniteSet(ports[p]) /\ Cardinality(ports[p]) <= MaxPortDeclarations
    BY <1>2, <2>2, <2>3, <2>4
  <2> QED  BY <2>1, <2>2, <2>5 DEF StoresFit
<1>4. \A x \in Subjects : Store(x) = {} /\ said[x] = {}
  BY <1>2, Subject DEF Init
<1>5. \A x \in Subjects : Accounted(Store(x), said[x], next, epoch, Shown(x))
  BY <1>4 DEF Accounted
<1> QED  BY <1>1, <1>3, <1>5 DEF Inv

\* A mutation that states something of one subject, and nothing of the others.
LEMMA SaidOf ==
  ASSUME Inv, NEW x \in Subjects, NEW new \in SUBSET Statement,
         next' \in Nat, next <= next', epoch' = epoch,
         incarnation' \in Nat, incarnation <= incarnation',
         \A s \in new : /\ s.seq \in next..next' - 1
                        /\ s.epoch = epoch[s.source] /\ s.incarnation = Shown(x)',
         Distinct(new), \A s, t \in new : SameMatter(s, t) => s = t,
         Store(x)' \in SUBSET (Store(x) \cup new),
         \A s \in Store(x) \cup new : IsNewest(Store(x) \cup new, s) => s \in Store(x)',
         \A y \in Subjects \ {x} : Store(y)' = Store(y),
         Remember(x, new)
  PROVE  /\ said' \in [Subjects -> SUBSET Statement]
         /\ \A y \in Subjects : Accounted(Store(y), said[y], next, epoch, Shown(y))'
<1>0. /\ next \in Nat /\ next >= 1 /\ epoch \in [Sources -> Nat]
      /\ said \in [Subjects -> SUBSET Statement]
      /\ \A y \in Subjects : Accounted(Store(y), said[y], next, epoch, Shown(y))
      /\ \A y \in Subjects : Store(y) \in SUBSET Statement /\ Shown(y) \in Nat
  BY StoreTypes DEF Inv, TypeOK
<1>1. said' = [said EXCEPT ![x] = Revised(@, new)]
  BY DEF Remember, Revised
<1>2. \A y \in Subjects : Shown(y)' \in Nat /\ Shown(y) <= Shown(y)'
  BY <1>0, Subject, SubjectNext
<1>3. Revised(said[x], new) \in SUBSET Statement
  BY <1>0 DEF Revised
<1>4. said' \in [Subjects -> SUBSET Statement] /\ said'[x] = Revised(said[x], new)
      /\ \A y \in Subjects \ {x} : said'[y] = said[y]
  BY <1>0, <1>1, <1>3
<1>5. Accounted(Store(x)', said'[x], next', epoch', Shown(x)')
  <2>1. Accounted(Store(x)', Revised(said[x], new), next', epoch, Shown(x)')
    BY <1>0, <1>2, AccountedGrows
  <2> QED  BY <1>4, <2>1
<1>6. ASSUME NEW y \in Subjects \ {x}
      PROVE  Accounted(Store(y)', said'[y], next', epoch', Shown(y)')
  <2>1. Revised(said[y], {}) = said[y]  BY DEF Revised
  <2>2. Distinct({}) /\ Store(y) \cup {} = Store(y)  BY DEF Distinct
  <2>3. Accounted(Store(y), Revised(said[y], {}), next', epoch, Shown(y)')
    BY <1>0, <1>2, <2>2, AccountedGrows
  <2> QED  BY <1>4, <2>1, <2>3
<1>7. \A y \in Subjects : Accounted(Store(y)', said'[y], next', epoch', Shown(y)')
  BY <1>5, <1>6
<1> QED  BY <1>4, <1>7

\* What a source may be made to state.
LEMMA SayFacts ==
  ASSUME TypeOK, NEW s \in Sources, NEW a \in Attributes, NEW v \in Values,
         NEW n \in Nat, NEW inc \in Nat
  PROVE  LET say == Say(s, a, v, n, inc)
         IN  /\ say \in Statement /\ say.seq = n /\ say.epoch = epoch[say.source]
             /\ say.incarnation = inc /\ say.attribute = a /\ say.source = s
  BY DEF Say, Statement, TypeOK

\* register_source.
LEMMA SourceStep ==
  ASSUME Inv, NEW s \in Sources, RegisterSource(s)
  PROVE  Inv'
<1>1. /\ epoch' = [epoch EXCEPT ![s] = @ + 1]
      /\ UNCHANGED <<incarnation, claims, declarations, ports, next, said>>
  BY DEF RegisterSource
<1>2. TypeOK'  BY <1>1 DEF Inv, TypeOK
<1>3. StoresFit'  BY <1>1 DEF Inv, StoresFit, Bounded
<1>4. \A x \in Subjects : Store(x)' = Store(x) /\ Shown(x)' = Shown(x)
  BY <1>1, Subject, SubjectNext
<1>5. ASSUME NEW x \in Subjects
      PROVE  Accounted(Store(x)', said'[x], next', epoch', Shown(x)')
  <2>1. /\ Store(x) \in SUBSET Statement /\ said[x] \in SUBSET Statement /\ Shown(x) \in Nat
        /\ next \in Nat /\ epoch \in [Sources -> Nat]
        /\ Accounted(Store(x), said[x], next, epoch, Shown(x))
    BY StoreTypes DEF Inv, TypeOK
  <2>2. Accounted(Store(x), said[x], next, [epoch EXCEPT ![s] = @ + 1], Shown(x))
    BY <2>1, AccountedEpoch
  <2> QED  BY <1>1, <1>4, <2>2
<1> QED  BY <1>2, <1>3, <1>5 DEF Inv

\* Seq still identifies a statement when new ones come in.
LEMMA StillDistinct ==
  ASSUME Inv, NEW x \in Subjects, NEW new \in SUBSET Statement, Distinct(new),
         \A s \in new : s.seq >= next
  PROVE  Distinct(Store(x) \cup new)
<1>1. next \in Nat /\ Accounted(Store(x), said[x], next, epoch, Shown(x))
  BY DEF Inv, TypeOK
<1>2. \A s \in new : s.seq \in Nat  BY DEF Statement
<1>3. /\ \A s \in Store(x) : s.seq \in 1..next - 1
      /\ \A s, t \in Store(x) : s.seq = t.seq => s = t
  BY <1>1 DEF Accounted
<1> QED  BY <1>1, <1>2, <1>3 DEF Distinct

\* register_module and update_identity: the claims take some statements, none
\* or a few.
LEMMA ClaimsStep ==
  ASSUME Inv, NEW new \in SUBSET Statement, IsFiniteSet(new),
         next' \in next..MaxStatements + 1, incarnation' \in Nat, incarnation <= incarnation',
         UNCHANGED <<epoch, declarations, ports>>,
         \A s \in new : /\ s.seq \in next..next' - 1
                        /\ s.epoch = epoch[s.source] /\ s.incarnation = incarnation',
         Distinct(new), \A s, t \in new : SameMatter(s, t) => s = t,
         Trim(claims, new, MaxClaims).fits, claims' = Trim(claims, new, MaxClaims).store,
         Remember("identity", new)
  PROVE  Inv'
<1> USE EvidenceAssumption
<1>0. next \in Nat /\ "identity" \in Subjects  BY DEF Inv, TypeOK, Subjects
<1>1. claims \in SUBSET Statement /\ IsFiniteSet(claims)
  BY DEF Inv, TypeOK, StoresFit, Bounded
<1>2. Distinct(claims \cup new)
  <2>1. \A s \in new : s.seq >= next  OBVIOUS
  <2> QED  BY <1>0, <2>1, StillDistinct, Subject
<1>3. MaxClaims \in Nat  OBVIOUS
<1>4. /\ claims' \in SUBSET (claims \cup new) /\ Bounded(claims', MaxClaims)
      /\ \A s \in claims \cup new : IsNewest(claims \cup new, s) => s \in claims'
  BY <1>1, <1>2, <1>3, TrimFacts
<1>5. \A y \in Subjects \ {"identity"} : Store(y)' = Store(y)
  BY Subject, SubjectNext
<1>6. /\ said' \in [Subjects -> SUBSET Statement]
      /\ \A y \in Subjects : Accounted(Store(y), said[y], next, epoch, Shown(y))'
  <2>1. next' \in Nat /\ next <= next' /\ epoch' = epoch  BY <1>0
  <2>2. /\ \A s \in new : /\ s.seq \in next..next' - 1
                          /\ s.epoch = epoch[s.source] /\ s.incarnation = Shown("identity")'
        /\ Store("identity")' \in SUBSET (Store("identity") \cup new)
        /\ \A s \in Store("identity") \cup new :
              IsNewest(Store("identity") \cup new, s) => s \in Store("identity")'
    BY <1>4, Subject, SubjectNext
  <2> QED  BY <1>0, <1>5, <2>1, <2>2, SaidOf
<1>7. TypeOK'
  <2>1. next' \in 1..MaxStatements + 1  BY DEF Inv, TypeOK
  <2>2. claims' \in SUBSET Statement  BY <1>1, <1>4
  <2> QED  BY <1>6, <2>1, <2>2 DEF Inv, TypeOK
<1>8. StoresFit'
  BY <1>4 DEF Inv, StoresFit, Bounded
<1> QED  BY <1>6, <1>7, <1>8 DEF Inv

LEMMA IdentityStep ==
  ASSUME Inv, NEW s \in Sources, NEW a \in Attributes, NEW v \in Values,
         UpdateIdentity(s, a, v)
  PROVE  Inv'
<1> DEFINE say == Say(s, a, v, next, incarnation)
<1>1. next \in Nat /\ incarnation \in Nat /\ next <= MaxStatements /\ MaxStatements \in Nat
  BY EvidenceAssumption DEF UpdateIdentity, Inv, TypeOK
<1>2. /\ say \in Statement /\ say.seq = next /\ say.epoch = epoch[say.source]
      /\ say.incarnation = incarnation
  BY <1>1, SayFacts DEF Inv
<1>3. /\ Trim(claims, {say}, MaxClaims).fits /\ claims' = Trim(claims, {say}, MaxClaims).store
      /\ next' = next + 1 /\ Remember("identity", {say})
      /\ UNCHANGED <<epoch, incarnation, declarations, ports>>
  BY DEF UpdateIdentity
<1> HIDE DEF say
<1>4. IsFiniteSet({say}) /\ {say} \in SUBSET Statement /\ Distinct({say})
  BY <1>2, FS_Singleton DEF Distinct
<1>5. /\ \A t \in {say} : /\ t.seq \in next..next' - 1
                          /\ t.epoch = epoch[t.source] /\ t.incarnation = incarnation'
      /\ \A t, u \in {say} : SameMatter(t, u) => t = u
  BY <1>1, <1>2, <1>3
<1>6. next' \in next..MaxStatements + 1 /\ incarnation' \in Nat /\ incarnation <= incarnation'
  BY <1>1, <1>3
<1> QED  BY <1>3, <1>4, <1>5, <1>6, ClaimsStep

LEMMA ModuleStep ==
  ASSUME Inv, NEW s \in Sources, RegisterModule(s)
  PROVE  Inv'
<1>1. PICK intent \in {"EnsureCurrent", "NewIncarnation"}, identity \in Identities :
         LET inc == IF incarnation = 0 \/ intent = "NewIncarnation"
                    THEN incarnation + 1 ELSE incarnation
             new == {Say(s, identity[i][1], identity[i][2], next + i - 1, inc) :
                       i \in 1..Len(identity)}
             trimmed == Trim(claims, new, MaxClaims)
         IN  /\ inc <= MaxIncarnation
             /\ next + Len(identity) <= MaxStatements + 1
             /\ inc # incarnation \/ new # {}
             /\ trimmed.fits
             /\ incarnation' = inc
             /\ claims' = trimmed.store
             /\ next' = next + Len(identity)
             /\ Remember("identity", new)
  BY DEF RegisterModule
<1> DEFINE new == {Say(s, identity[i][1], identity[i][2], next + i - 1, incarnation') :
                     i \in 1..Len(identity)}
<1>2. /\ next + Len(identity) <= MaxStatements + 1 /\ next' = next + Len(identity)
      /\ incarnation' = (IF incarnation = 0 \/ intent = "NewIncarnation"
                         THEN incarnation + 1 ELSE incarnation)
      /\ Trim(claims, new, MaxClaims).fits /\ claims' = Trim(claims, new, MaxClaims).store
      /\ Remember("identity", new)
  BY <1>1
<1>3. UNCHANGED <<epoch, declarations, ports>>  BY DEF RegisterModule
<1>4. /\ next \in Nat /\ incarnation \in Nat /\ MaxStatements \in Nat
      /\ incarnation' \in Nat /\ incarnation <= incarnation'
  BY <1>2, EvidenceAssumption DEF Inv, TypeOK
<1>5. /\ new \in SUBSET Statement /\ IsFiniteSet(new) /\ Distinct(new)
      /\ \A t \in new : /\ t.seq \in next..next' - 1
                        /\ t.epoch = epoch[t.source] /\ t.incarnation = incarnation'
      /\ \A t, u \in new : SameMatter(t, u) => t = u
      /\ next' \in next..MaxStatements + 1
  <2>1. CASE identity = <<>>
    <3>1. Len(identity) = 0 /\ new = {}  BY <2>1
    <3> HIDE DEF new
    <3>2. IsFiniteSet(new)  BY <3>1, FS_EmptySet
    <3> QED  BY <1>2, <1>4, <3>1, <3>2 DEF Distinct
  <2>2. CASE identity # <<>>
    <3>1. PICK f \in Attributes \X Values, g \in Attributes \X Values :
             identity = <<f, g>> /\ f[1] # g[1]
      BY <2>2 DEF Identities
    <3> DEFINE x == Say(s, f[1], f[2], next, incarnation')
               y == Say(s, g[1], g[2], next + 1, incarnation')
    <3>2. Len(identity) = 2  BY <3>1
    <3>3. new = {x, y}
      <4>1. \A i \in 1..Len(identity) : i = 1 \/ i = 2  BY <3>2
      <4>2. identity[1] = f /\ identity[2] = g /\ 1 \in 1..Len(identity) /\ 2 \in 1..Len(identity)
        BY <3>1, <3>2
      <4>3. next + 1 - 1 = next /\ next + 2 - 1 = next + 1  BY <1>4
      <4>4. /\ Say(s, identity[1][1], identity[1][2], next + 1 - 1, incarnation') = x
            /\ Say(s, identity[2][1], identity[2][2], next + 2 - 1, incarnation') = y
        BY <4>2, <4>3
      <4> HIDE DEF x, y
      <4> QED  BY <4>1, <4>2, <4>4
    <3>4. /\ x \in Statement /\ x.seq = next /\ x.epoch = epoch[x.source]
          /\ x.incarnation = incarnation' /\ x.attribute = f[1]
      BY <1>4, <3>1, SayFacts DEF Inv
    <3>5. /\ y \in Statement /\ y.seq = next + 1 /\ y.epoch = epoch[y.source]
          /\ y.incarnation = incarnation' /\ y.attribute = g[1]
      BY <1>4, <3>1, SayFacts DEF Inv
    <3> HIDE DEF new, x, y
    <3>6. IsFiniteSet(new)
      <4>1. IsFiniteSet({x})  BY FS_Singleton
      <4>2. IsFiniteSet({x} \cup {y})  BY <4>1, FS_AddElement
      <4>3. new = {x} \cup {y}  BY <3>3
      <4> QED  BY <4>2, <4>3
    <3>7. \A t, u \in new : SameMatter(t, u) => t = u
      BY <3>1, <3>3, <3>4, <3>5 DEF SameMatter
    <3>8. Distinct(new)  BY <1>4, <3>3, <3>4, <3>5 DEF Distinct
    <3>9. next' = next + 2 /\ next' <= MaxStatements + 1  BY <1>2, <3>2
    <3>10. \A t \in new : /\ t.seq \in next..next' - 1
                          /\ t.epoch = epoch[t.source] /\ t.incarnation = incarnation'
      BY <1>4, <3>3, <3>4, <3>5, <3>9
    <3> QED  BY <1>4, <3>3, <3>4, <3>5, <3>6, <3>7, <3>8, <3>9, <3>10
  <2> QED  BY <2>1, <2>2
<1> HIDE DEF new
<1> QED  BY <1>2, <1>3, <1>4, <1>5, ClaimsStep

\* publish_capability.
LEMMA CapabilityStep ==
  ASSUME Inv, NEW s \in Sources, NEW a \in Attributes, NEW v \in Values,
         PublishCapability(s, a, v)
  PROVE  Inv'
<1> DEFINE say == Say(s, a, v, next, incarnation)
<1>0. TypeOK  BY DEF Inv
<1>1. /\ next \in Nat /\ incarnation \in Nat /\ next <= MaxStatements /\ MaxStatements \in Nat
      /\ MaxDeclarations \in Nat /\ "capability" \in Subjects
  BY EvidenceAssumption DEF PublishCapability, Inv, TypeOK, Subjects
<1>2. /\ say \in Statement /\ say.seq = next /\ say.epoch = epoch[say.source]
      /\ say.incarnation = incarnation
  BY <1>0, <1>1, SayFacts
<1>3. /\ Trim(declarations, {say}, MaxDeclarations).fits
      /\ declarations' = Trim(declarations, {say}, MaxDeclarations).store
      /\ next' = next + 1 /\ Remember("capability", {say})
      /\ UNCHANGED <<epoch, incarnation, claims, ports>>
  BY DEF PublishCapability
<1> HIDE DEF say
<1>4. IsFiniteSet({say}) /\ {say} \in SUBSET Statement /\ Distinct({say})
  BY <1>2, FS_Singleton DEF Distinct
<1>5. declarations \in SUBSET Statement /\ IsFiniteSet(declarations)
  BY DEF Inv, TypeOK, StoresFit, Bounded
<1>6. Distinct(declarations \cup {say})
  <2>1. \A t \in {say} : t.seq >= next  BY <1>1, <1>2
  <2> QED  BY <1>1, <1>4, <2>1, StillDistinct, Subject
<1>7. /\ declarations' \in SUBSET (declarations \cup {say})
      /\ Bounded(declarations', MaxDeclarations)
      /\ \A t \in declarations \cup {say} :
            IsNewest(declarations \cup {say}, t) => t \in declarations'
  BY <1>1, <1>3, <1>4, <1>5, <1>6, TrimFacts
<1>8. /\ said' \in [Subjects -> SUBSET Statement]
      /\ \A y \in Subjects : Accounted(Store(y), said[y], next, epoch, Shown(y))'
  <2>1. /\ next' \in Nat /\ next <= next' /\ epoch' = epoch
        /\ incarnation' \in Nat /\ incarnation <= incarnation'
    BY <1>1, <1>3
  <2>2. /\ \A t \in {say} : /\ t.seq \in next..next' - 1
                            /\ t.epoch = epoch[t.source] /\ t.incarnation = Shown("capability")'
        /\ \A t, u \in {say} : SameMatter(t, u) => t = u
    BY <1>1, <1>2, <1>3, SubjectNext
  <2>3. /\ Store("capability")' \in SUBSET (Store("capability") \cup {say})
        /\ \A t \in Store("capability") \cup {say} :
              IsNewest(Store("capability") \cup {say}, t) => t \in Store("capability")'
        /\ \A y \in Subjects \ {"capability"} : Store(y)' = Store(y)
    BY <1>3, <1>7, Subject, SubjectNext
  <2> QED  BY <1>1, <1>3, <1>4, <2>1, <2>2, <2>3, SaidOf
<1>9. TypeOK'
  <2>1. next' \in 1..MaxStatements + 1  BY <1>1, <1>3
  <2>2. declarations' \in SUBSET Statement  BY <1>2, <1>5, <1>7
  <2> QED  BY <1>3, <1>8, <2>1, <2>2 DEF Inv, TypeOK
<1>10. StoresFit'
  BY <1>3, <1>7 DEF Inv, StoresFit, Bounded
<1> QED  BY <1>8, <1>9, <1>10 DEF Inv

\* publish_port_capability, with the port's record if it is the first.
LEMMA PortStep ==
  ASSUME Inv, NEW s \in Sources, NEW p \in Ports, NEW a \in Attributes, NEW v \in Values,
         PublishPortCapability(s, p, a, v)
  PROVE  Inv'
<1> DEFINE say == Say(s, a, v, next, 0)
<1>0. TypeOK  BY DEF Inv
<1>1. /\ next \in Nat /\ incarnation \in Nat /\ next <= MaxStatements /\ MaxStatements \in Nat
      /\ MaxPorts \in Nat /\ p \in Subjects
  BY EvidenceAssumption DEF PublishPortCapability, Inv, TypeOK, Subjects
<1>2. /\ say \in Statement /\ say.seq = next /\ say.epoch = epoch[say.source]
      /\ say.incarnation = 0
  BY <1>0, <1>1, SayFacts
<1>3. /\ ports[p] = {} => Cardinality({q \in Ports : ports[q] # {}}) < MaxPorts
      /\ PortTrim(ports[p], {say}).fits
      /\ ports' = [ports EXCEPT ![p] = PortTrim(ports[p], {say}).store]
      /\ next' = next + 1 /\ Remember(p, {say})
      /\ UNCHANGED <<epoch, incarnation, claims, declarations>>
  BY DEF PublishPortCapability
<1> HIDE DEF say
<1>4. {say} \in SUBSET Statement /\ Distinct({say})
  BY <1>2 DEF Distinct
<1>5. ports \in [Ports -> SUBSET Statement] /\ IsFiniteSet(ports[p])
  BY DEF Inv, TypeOK, StoresFit
<1>6. Distinct(ports[p] \cup {say})
  <2>1. \A t \in {say} : t.seq >= next  BY <1>1, <1>2
  <2> QED  BY <1>1, <1>4, <2>1, StillDistinct, Subject
<1> DEFINE kept == PortTrim(ports[p], {say}).store
<1>7. /\ kept \in SUBSET (ports[p] \cup {say}) /\ kept # {}
      /\ IsFiniteSet(kept) /\ Cardinality(kept) <= MaxPortDeclarations
      /\ \A t \in ports[p] \cup {say} : IsNewest(ports[p] \cup {say}, t) => t \in kept
  BY <1>2, <1>3, <1>5, <1>6, PortTrimFacts
<1>8. ports'[p] = kept /\ \A q \in Ports \ {p} : ports'[q] = ports[q]
  BY <1>3, <1>5
<1> HIDE DEF kept
<1>9. /\ said' \in [Subjects -> SUBSET Statement]
      /\ \A y \in Subjects : Accounted(Store(y), said[y], next, epoch, Shown(y))'
  <2>1. /\ next' \in Nat /\ next <= next' /\ epoch' = epoch
        /\ incarnation' \in Nat /\ incarnation <= incarnation'
    BY <1>1, <1>3
  <2>2. /\ \A t \in {say} : /\ t.seq \in next..next' - 1
                            /\ t.epoch = epoch[t.source] /\ t.incarnation = Shown(p)'
        /\ \A t, u \in {say} : SameMatter(t, u) => t = u
    BY <1>1, <1>2, <1>3, SubjectNext
  <2>3. /\ Store(p)' \in SUBSET (Store(p) \cup {say})
        /\ \A t \in Store(p) \cup {say} : IsNewest(Store(p) \cup {say}, t) => t \in Store(p)'
        /\ \A y \in Subjects \ {p} : Store(y)' = Store(y)
    BY <1>3, <1>7, <1>8, Subject, SubjectNext
  <2> QED  BY <1>1, <1>3, <1>4, <2>1, <2>2, <2>3, SaidOf
<1>10. TypeOK'
  <2>1. next' \in 1..MaxStatements + 1  BY <1>1, <1>3
  <2>2. kept \in SUBSET Statement  BY <1>2, <1>5, <1>7
  <2>3. ports' \in [Ports -> SUBSET Statement]  BY <1>3, <1>5, <2>2 DEF kept
  <2> QED  BY <1>3, <1>9, <2>1, <2>3 DEF Inv, TypeOK
<1>11. StoresFit'
  <2> DEFINE named == {q \in Ports : ports[q] # {}}
             namedNext == {q \in Ports : ports'[q] # {}}
  <2>1. IsFiniteSet(named) /\ Cardinality(named) <= MaxPorts
    BY DEF Inv, StoresFit
  <2>2. namedNext = named \cup {p}  BY <1>7, <1>8
  <2>3. p \in named <=> ports[p] # {}  OBVIOUS
  <2>4. p \notin named => Cardinality(named) < MaxPorts  BY <1>3
  <2> HIDE DEF named
  <2>5. IsFiniteSet(namedNext) /\ Cardinality(namedNext) <= MaxPorts
    <3>1. /\ IsFiniteSet(named \cup {p}) /\ Cardinality(named) \in Nat
          /\ Cardinality(named \cup {p}) =
                IF p \in named THEN Cardinality(named) ELSE Cardinality(named) + 1
      BY <2>1, FS_AddElement, FS_CardinalityType
    <3> HIDE DEF namedNext
    <3> QED  BY <1>1, <2>1, <2>2, <2>4, <3>1
  <2>6. \A q \in Ports : IsFiniteSet(ports'[q]) /\ Cardinality(ports'[q]) <= MaxPortDeclarations
    BY <1>7, <1>8 DEF Inv, StoresFit
  <2>7. Bounded(claims, MaxClaims)' /\ Bounded(declarations, MaxDeclarations)'
    BY <1>3 DEF Inv, StoresFit, Bounded
  <2> QED  BY <2>5, <2>6, <2>7 DEF StoresFit
<1> QED  BY <1>9, <1>10, <1>11 DEF Inv

\* Every mutation keeps what the stores hold accounted for.
LEMMA InvStep == Inv /\ [Next]_vars => Inv'
<1> SUFFICES ASSUME Inv, [Next]_vars PROVE Inv'
  OBVIOUS
<1>1. CASE UNCHANGED vars
  <2>1. /\ UNCHANGED <<epoch, incarnation, claims, declarations, ports, next, said>>
        /\ \A x \in Subjects : Store(x)' = Store(x) /\ Shown(x)' = Shown(x)
    BY <1>1, Subject, SubjectNext DEF vars
  <2>2. TypeOK' /\ StoresFit'
    BY <2>1 DEF Inv, TypeOK, StoresFit, Bounded
  <2>3. \A x \in Subjects : Accounted(Store(x)', said'[x], next', epoch', Shown(x)')
    BY <2>1 DEF Inv
  <2> QED  BY <2>2, <2>3 DEF Inv
<1> QED
  BY <1>1, SourceStep, ModuleStep, IdentityStep, CapabilityStep, PortStep DEF Next

-----------------------------------------------------------------------------
(* What follows.                                                           *)

\* Every store stays within its budget, and no source fills a module's store
\* with revisions of one attribute (trim_claims, trim_declarations,
\* publish_port_capability), whatever is stated in which order.
THEOREM BudgetsHold == Spec => []StoreBudgets
<1> USE EvidenceAssumption
<1>1. Inv => StoreBudgets
  <2> SUFFICES ASSUME Inv PROVE StoreBudgets
    OBVIOUS
  <2>1. ASSUME NEW store \in {claims, declarations}, NEW s \in claims \cup declarations
        PROVE  Cardinality({t \in store : /\ t.source = s.source /\ t.epoch = s.epoch
                                          /\ t.attribute = s.attribute}) <= MaxHistory
    <3> DEFINE G == {t \in store : /\ t.source = s.source /\ t.epoch = s.epoch
                                   /\ t.attribute = s.attribute}
    <3>1. CASE G = {}
      <4>1. Cardinality(G) = 0  BY <3>1, FS_EmptySet
      <4> QED  BY <4>1
    <3>2. CASE G # {}
      <4>1. PICK t \in G : TRUE  BY <3>2
      <4>2. G = {u \in store : SameMatter(u, t) /\ u.epoch = t.epoch}
        BY <4>1 DEF SameMatter
      <4>3. t \in store  BY <4>1
      <4>4. \A v \in store :
               Cardinality({u \in store : SameMatter(u, v) /\ u.epoch = v.epoch}) <= MaxHistory
        BY DEF Inv, StoresFit, Bounded
      <4> HIDE DEF G
      <4>5. Cardinality(G) <= MaxHistory  BY <4>2, <4>3, <4>4
      <4> QED  BY <4>5 DEF G
    <3> QED  BY <3>1, <3>2
  <2> QED  BY <2>1 DEF Inv, StoresFit, Bounded, StoreBudgets
<1> QED  BY <1>1, InitInv, InvStep, PTL DEF Spec

\* A source can always revise what it said of the module: a full store never
\* refuses a statement that supersedes one it holds (trim_claims,
\* trim_declarations).
THEOREM RevisionsFit == Spec => []RevisionFits
<1>1. Inv => RevisionFits
  <2> SUFFICES ASSUME Inv, NEW x \in {"identity", "capability"}, NEW s \in Store(x),
                      s.epoch = epoch[s.source], s.incarnation = incarnation
               PROVE  Trim(Store(x),
                           {Say(s.source, s.attribute, s.value, next, incarnation)},
                           IF x = "identity" THEN MaxClaims ELSE MaxDeclarations).fits
    BY DEF RevisionFits
  <2> DEFINE max == IF x = "identity" THEN MaxClaims ELSE MaxDeclarations
             say == Say(s.source, s.attribute, s.value, next, incarnation)
             store == Store(x)
             all == store \cup {say}
             excess == IF Cardinality(all) > max THEN Cardinality(all) - max ELSE 0
             spare == {t \in all : IsSuperseded(all, t)}
  <2>1. TypeOK /\ x \in Subjects /\ next \in Nat /\ incarnation \in Nat
    BY DEF Inv, TypeOK, Subjects
  <2>2. store \in SUBSET Statement /\ Bounded(store, max) /\ max \in Nat
    BY <2>1, StoreTypes, Subject, EvidenceAssumption DEF Inv, StoresFit
  <2>3. s \in Statement /\ s.seq \in 1..next - 1
    BY <2>1, <2>2 DEF Inv, Accounted
  <2>4. /\ say.seq = next /\ say.source = s.source /\ say.attribute = s.attribute
        /\ say.epoch = epoch[s.source] /\ say.incarnation = incarnation
    BY DEF Say
  <2> HIDE DEF say, store, max
  <2>5. Revises(say, s)  BY <2>1, <2>3, <2>4 DEF Revises
  <2>6. s \in spare  BY <2>5 DEF IsSuperseded, store
  <2>7. /\ IsFiniteSet(all) /\ Cardinality(all) <= Cardinality(store) + 1
        /\ Cardinality(store) \in Nat /\ Cardinality(all) \in Nat
    <3>1. IsFiniteSet(store)  BY <2>2 DEF Bounded
    <3>2. /\ IsFiniteSet(all)
          /\ Cardinality(all) = IF say \in store THEN Cardinality(store) ELSE Cardinality(store) + 1
      BY <3>1, FS_AddElement
    <3>3. Cardinality(store) \in Nat  BY <3>1, FS_CardinalityType
    <3> HIDE DEF all
    <3> QED  BY <3>2, <3>3
  <2>8. IsFiniteSet(spare) /\ Cardinality(spare) \in Nat /\ Cardinality(spare) # 0
    <3>1. spare \in SUBSET all  OBVIOUS
    <3>2. IsFiniteSet(spare)  BY <2>7, <3>1, FS_Subset
    <3> HIDE DEF spare
    <3>3. Cardinality(spare) = 0 <=> spare = {}  BY <3>2, FS_EmptySet
    <3> QED  BY <2>6, <3>2, <3>3, FS_CardinalityType
  <2>9. Cardinality(store) <= max  BY <2>2 DEF Bounded
  <2> HIDE DEF spare, all
  <2>10. Cardinality(spare) >= excess  BY <2>2, <2>7, <2>8, <2>9
  <2>11. Trim(store, {say}, max).fits = (Cardinality(spare) >= excess)
    BY DEF Trim, MakeRoom, all, spare
  <2> QED  BY <2>10, <2>11 DEF store, say, max
<1> QED  BY <1>1, InitInv, InvStep, PTL DEF Spec

\* What was accepted of a subject in the epochs and of the incarnation that
\* count now.
Valid(x) == {o \in said[x] : o.epoch = epoch[o.source] /\ o.incarnation = Shown(x)}

\* It is what the store holds as live, one statement of each source and
\* attribute, and there are fewer than were ever made.
LEMMA LiveIsValid ==
  ASSUME Inv, NEW x \in Subjects
  PROVE  /\ Valid(x) = {s \in Store(x) : IsLive(x, s)}
         /\ \A o, p \in Valid(x) : SameMatter(o, p) => o = p
         /\ Valid(x) \in SUBSET Statement /\ IsFiniteSet(Valid(x)) /\ Distinct(Valid(x))
         /\ \A s \in Valid(x) : s.seq \in 1..MaxStatements
<1>1. /\ Accounted(Store(x), said[x], next, epoch, Shown(x))
      /\ Store(x) \in SUBSET Statement /\ said[x] \in SUBSET Statement /\ Shown(x) \in Nat
      /\ next \in 1..MaxStatements + 1 /\ MaxStatements \in Nat
      /\ epoch \in [Sources -> Nat]
  BY StoreTypes, EvidenceAssumption DEF Inv, TypeOK
<1>2. /\ \A s \in Store(x) \cup said[x] :
            /\ s.seq \in 1..next - 1 /\ s.epoch <= epoch[s.source] /\ s.incarnation <= Shown(x)
            /\ s.seq \in Nat /\ s.epoch \in Nat /\ s.incarnation \in Nat
            /\ epoch[s.source] \in Nat
      /\ \A s, t \in Store(x) \cup said[x] : s.seq = t.seq => s = t
      /\ \A o, p \in said[x] : SameMatter(o, p) => o = p
      /\ \A s \in Store(x) : \E o \in said[x] :
            /\ SameMatter(s, o) /\ s.seq <= o.seq
            /\ s.epoch <= o.epoch /\ s.incarnation <= o.incarnation
      /\ \A o \in said[x] :
            o.epoch = epoch[o.source] /\ o.incarnation = Shown(x) => o \in Store(x)
  BY <1>1 DEF Accounted, Statement
<1>3. ASSUME NEW o \in Valid(x)
      PROVE  o \in Store(x) /\ IsLive(x, o)
  <2>1. o \in said[x] /\ o \in Store(x) /\ o.epoch = epoch[o.source] /\ o.incarnation = Shown(x)
    BY <1>2 DEF Valid
  <2>2. ASSUME NEW t \in Store(x), Revises(t, o) PROVE FALSE
    <3>1. SameMatter(t, o) /\ o.seq < t.seq  BY <2>2 DEF Revises, SameMatter
    <3>2. PICK p \in said[x] : SameMatter(t, p) /\ t.seq <= p.seq  BY <1>2
    <3>3. p = o  BY <1>2, <2>1, <3>1, <3>2 DEF SameMatter
    <3> QED  BY <1>2, <2>1, <3>1, <3>2, <3>3
  <2> QED  BY <2>1, <2>2 DEF IsLive, IsSuperseded
<1>4. ASSUME NEW s \in Store(x), IsLive(x, s)
      PROVE  s \in Valid(x)
  <2>1. s.epoch = epoch[s.source] /\ s.incarnation = Shown(x) /\ ~IsSuperseded(Store(x), s)
    BY <1>4 DEF IsLive
  <2>2. PICK o \in said[x] : /\ SameMatter(s, o) /\ s.seq <= o.seq
                             /\ s.epoch <= o.epoch /\ s.incarnation <= o.incarnation
    BY <1>2
  <2>3. o.source = s.source /\ o.attribute = s.attribute  BY <2>2 DEF SameMatter
  <2>4. o.epoch = s.epoch /\ o.incarnation = s.incarnation
    BY <1>2, <2>1, <2>2, <2>3
  <2>5. o \in Store(x)  BY <1>2, <2>1, <2>3, <2>4
  <2>6. ~(s.seq < o.seq)  BY <2>1, <2>3, <2>4, <2>5 DEF IsSuperseded, Revises
  <2>7. s = o  BY <1>2, <2>2, <2>6
  <2> QED  BY <2>1, <2>7 DEF Valid
<1>5. Valid(x) = {s \in Store(x) : IsLive(x, s)}
  BY <1>3, <1>4
<1>6. IsFiniteSet(Store(x))
  BY Subject DEF Inv, StoresFit, Bounded
<1>7. Valid(x) \in SUBSET Store(x) /\ Valid(x) \in SUBSET said[x]
  BY <1>5 DEF Valid
<1>8. IsFiniteSet(Valid(x))  BY <1>6, <1>7, FS_Subset
<1>9. /\ \A o, p \in Valid(x) : SameMatter(o, p) => o = p
      /\ Valid(x) \in SUBSET Statement /\ Distinct(Valid(x))
      /\ \A s \in Valid(x) : s.seq \in 1..MaxStatements
  BY <1>1, <1>2, <1>7 DEF Distinct
<1> QED  BY <1>5, <1>8, <1>9

\* A consensus has a value where there is one, which is that of all who spoke,
\* and is in conflict where there are several.
LEMMA OutcomeFacts ==
  ASSUME NEW set, IsFiniteSet(set), NEW superseded \in BOOLEAN
  PROVE  LET values == {s.value : s \in set}
             c == Outcome(set, superseded)
         IN  /\ Established(c) <=> Cardinality(values) = 1
             /\ Established(c) => c.value \in values
             /\ c.outcome = "Conflicting" <=> Cardinality(values) > 1
<1> DEFINE values == {s.value : s \in set}
           c == Outcome(set, superseded)
           f == [s \in set |-> s.value]
<1>1. IsFiniteSet(values)
  <2>1. f \in [set -> values] /\ \A v \in values : \E s \in set : f[s] = v  OBVIOUS
  <2> HIDE DEF f, values
  <2>2. f \in Surjection(set, values)  BY <2>1, Fun_IsSurj
  <2> QED  BY <2>2, FS_Surjection
<1>2. set = {} <=> values = {}  OBVIOUS
<1>3. c = IF set = {}
          THEN [outcome |-> IF superseded THEN "Superseded" ELSE "Unknown", value |-> NoValue]
          ELSE IF Cardinality(values) = 1
          THEN [outcome |-> IF Cardinality(set) = 1 THEN "SingleSource" ELSE "Agreed",
                value |-> CHOOSE v \in values : TRUE]
          ELSE [outcome |-> "Conflicting", value |-> NoValue]
  BY DEF Outcome
<1> HIDE DEF values, c
<1>4. Cardinality(values) \in Nat /\ (Cardinality(values) = 0 <=> values = {})
  BY <1>1, FS_CardinalityType, FS_EmptySet
<1>5. CASE set = {}
  <2>1. c.outcome \in {"Superseded", "Unknown"}  BY <1>3, <1>5
  <2> QED  BY <1>2, <1>4, <1>5, <2>1 DEF Established, values, c
<1>6. CASE set # {} /\ Cardinality(values) = 1
  <2>1. c.outcome \in {"SingleSource", "Agreed"} /\ c.value = CHOOSE v \in values : TRUE
    BY <1>3, <1>6
  <2>2. (CHOOSE v \in values : TRUE) \in values  BY <1>2, <1>6
  <2>3. Established(c) /\ c.value \in values /\ c.outcome # "Conflicting"
    BY <2>1, <2>2 DEF Established
  <2> QED  BY <1>6, <2>3 DEF values, c
<1>7. CASE set # {} /\ Cardinality(values) # 1
  <2>1. c.outcome = "Conflicting" /\ ~Established(c)  BY <1>3, <1>7 DEF Established
  <2>2. Cardinality(values) > 1  BY <1>2, <1>4, <1>7
  <2> QED  BY <1>7, <2>1, <2>2 DEF values, c
<1> QED  BY <1>5, <1>6, <1>7

\* What the registry shows is what the sources last got accepted in their
\* current epoch about the current incarnation (identity, capabilities,
\* port_capabilities, claim_history, declaration_history, evidence_summary),
\* whatever the bounded stores have dropped, which epochs and incarnations came
\* between and what was refused.
THEOREM LatestShown == Spec => []ViewIsLatest
<1>1. Inv => ViewIsLatest
  <2> SUFFICES ASSUME Inv, NEW x \in Subjects
               PROVE  /\ \A a \in Attributes :
                           LET values == {o.value : o \in {v \in Valid(x) : v.attribute = a}}
                               c == ConsensusOn(x, a)
                           IN  /\ Established(c) <=> Cardinality(values) = 1
                               /\ Established(c) => c.value \in values
                               /\ c.outcome = "Conflicting" <=> Cardinality(values) > 1
                      /\ x \notin Ports =>
                           /\ History(x, incarnation, FALSE, MaxStatements) = Valid(x)
                           /\ EvidenceSummary(x).live = Cardinality(Valid(x))
    BY DEF ViewIsLatest, Valid
  <2>1. /\ Valid(x) = {s \in Store(x) : IsLive(x, s)}
        /\ \A o, p \in Valid(x) : SameMatter(o, p) => o = p
        /\ Valid(x) \in SUBSET Statement /\ IsFiniteSet(Valid(x)) /\ Distinct(Valid(x))
        /\ \A s \in Valid(x) : s.seq \in 1..MaxStatements
    BY LiveIsValid
  <2>2. \A s \in Store(x) : IsLive(x, s) => s.incarnation = Shown(x)
    BY DEF IsLive
  <2>3. ASSUME NEW a \in Attributes
        PROVE  LET values == {o.value : o \in {v \in Valid(x) : v.attribute = a}}
                   c == ConsensusOn(x, a)
               IN  /\ Established(c) <=> Cardinality(values) = 1
                   /\ Established(c) => c.value \in values
                   /\ c.outcome = "Conflicting" <=> Cardinality(values) > 1
    <3> DEFINE all == {s \in Store(x) : s.attribute = a /\ s.incarnation = Shown(x)}
               live == {s \in all : IsLive(x, s)}
               newest == {s \in live : ~\E t \in live : t.source = s.source /\ t.seq > s.seq}
               heard == {v \in Valid(x) : v.attribute = a}
               superseded == all # newest
    <3>1. ConsensusOn(x, a) = Outcome(newest, superseded)
      BY DEF ConsensusOn
    <3>2. live = heard  BY <2>1, <2>2
    <3>3. newest = heard
      <4>1. ASSUME NEW s \in heard, NEW t \in heard, t.source = s.source PROVE ~(t.seq > s.seq)
        <5>1. t = s  BY <2>1, <4>1 DEF SameMatter
        <5>2. s.seq \in Nat  BY <2>1 DEF Statement
        <5> QED  BY <5>1, <5>2
      <4> HIDE DEF live, heard
      <4> QED  BY <3>2, <4>1
    <3>4. IsFiniteSet(heard)
      <4>1. heard \in SUBSET Valid(x)  OBVIOUS
      <4> QED  BY <2>1, <4>1, FS_Subset
    <3>5. superseded \in BOOLEAN  OBVIOUS
    <3> HIDE DEF heard, superseded, newest
    <3>6. LET values == {o.value : o \in heard}
              c == Outcome(heard, superseded)
          IN  /\ Established(c) <=> Cardinality(values) = 1
              /\ Established(c) => c.value \in values
              /\ c.outcome = "Conflicting" <=> Cardinality(values) > 1
      BY <3>4, <3>5, OutcomeFacts
    <3>7. ConsensusOn(x, a) = Outcome(heard, superseded)  BY <3>1, <3>3
    <3> QED  BY <3>6, <3>7 DEF heard
  <2>4. ASSUME x \notin Ports
        PROVE  /\ History(x, incarnation, FALSE, MaxStatements) = Valid(x)
               /\ EvidenceSummary(x).live = Cardinality(Valid(x))
    <3>1. Shown(x) = incarnation  BY <2>4, Subject
    <3>2. {s \in {t \in Store(x) : t.incarnation = incarnation} : IsLive(x, s)} = Valid(x)
      BY <2>1, <2>2, <3>1
    <3>3. EvidenceSummary(x).live = Cardinality(Valid(x))
      BY <3>2 DEF EvidenceSummary
    <3>4. History(x, incarnation, FALSE, MaxStatements) =
             {s \in Valid(x) : Cardinality({t \in Valid(x) : t.seq > s.seq}) < MaxStatements}
      <4>1. {s \in Store(x) : s.incarnation = incarnation /\ (FALSE \/ IsLive(x, s))} = Valid(x)
        BY <2>1, <2>2, <3>1
      <4> QED  BY <4>1 DEF History
    <3> DEFINE V == Valid(x)
    <3> HIDE DEF V
    <3>5. V \in SUBSET Statement /\ IsFiniteSet(V) /\ Distinct(V)
          /\ \A s \in V : s.seq \in 1..MaxStatements
      BY <2>1 DEF V
    <3>6. MaxStatements \in Nat  BY EvidenceAssumption
    <3>7. Cardinality(V) <= MaxStatements /\ Cardinality(V) \in Nat
      <4> DEFINE f == [s \in V |-> s.seq]
      <4>1. f \in [V -> 1..MaxStatements] /\ \A s, t \in V : f[s] = f[t] => s = t
        BY <3>5 DEF Distinct
      <4> HIDE DEF f
      <4>2. f \in Injection(V, 1..MaxStatements)  BY <4>1, Fun_IsInj
      <4>3. IsFiniteSet(1..MaxStatements) /\ Cardinality(1..MaxStatements) = MaxStatements
        BY <3>6, FS_Interval
      <4> QED  BY <3>5, <4>2, <4>3, FS_Injection, FS_CardinalityType
    <3>8. ASSUME NEW s \in V
          PROVE  Cardinality({t \in V : t.seq > s.seq}) < MaxStatements
      <4> DEFINE later == {t \in V : t.seq > s.seq}
      <4>1. later \in SUBSET (V \ {s})
        <5>1. s.seq \in Nat  BY <3>5
        <5> QED  BY <5>1
      <4>2. IsFiniteSet(V \ {s}) /\ Cardinality(V \ {s}) = Cardinality(V) - 1
        BY <3>5, FS_RemoveElement
      <4> HIDE DEF later
      <4>3. IsFiniteSet(later) /\ Cardinality(later) <= Cardinality(V) - 1
        BY <4>1, <4>2, FS_Subset
      <4>4. Cardinality(later) \in Nat  BY <4>3, FS_CardinalityType
      <4>5. Cardinality(later) < MaxStatements  BY <3>6, <3>7, <4>3, <4>4
      <4> QED  BY <4>5 DEF later
    <3>9. {s \in V : Cardinality({t \in V : t.seq > s.seq}) < MaxStatements} = V
      BY <3>8
    <3> QED  BY <3>3, <3>4, <3>9 DEF V
  <2> QED  BY <2>3, <2>4
<1> QED  BY <1>1, InitInv, InvStep, PTL DEF Spec
=============================================================================
