--------------------------- MODULE ClientData_proofs ---------------------------
(***************************************************************************)
(* Proofs about the parts of MCClientData besides the names and the locks: *)
(* the state cache and its events (StateCache), the push mask and the      *)
(* report (TroubleFrames), the control calls (ControlCommands).            *)
(***************************************************************************)
EXTENDS StateCache, TroubleFrames, ControlCommands, SequenceTheorems, FiniteSetTheorems,
        WellFoundedInduction, TLAPS

-----------------------------------------------------------------------------
(* Numbers in their order. *)

\* A set of numbers that is not empty has a least one.
LEMMA LeastNumber ==
    ASSUME NEW T, T \subseteq Nat, T # {}
    PROVE  \E x \in T : \A y \in T : x <= y
<1> DEFINE R == OpToRel(<, Nat)
<1>1. R = {ss \in Nat \X Nat : ss[1] < ss[2]}
  BY Zenon DEF OpToRel
<1>2. IsWellFoundedOn(R, Nat)
  BY NatLessThanWellFounded
<1> HIDE DEF R
<1>3. PICK x \in T : \A y \in T : ~ (<<y, x>> \in R)
  BY <1>2, WFMin
<1>4. ASSUME NEW y \in T PROVE x <= y
  <2>1. y < x => <<y, x>> \in {ss \in Nat \X Nat : ss[1] < ss[2]}
    OBVIOUS
  <2>2. ~(y < x)
    BY <1>1, <1>3, <2>1
  <2>3. QED
    BY <2>2
<1>5. QED
  BY <1>4

\* Numbers and a greater one are in their order with the greater one last.
LEMMA OneMore ==
    ASSUME NEW L, L \subseteq Nat, IsFiniteSet(L), NEW x \in Nat, \A y \in L : y < x,
           NEW s \in [1..Cardinality(L) -> L], InOrder(s, L)
    PROVE  \E t \in [1..Cardinality(L \cup {x}) -> L \cup {x}] : InOrder(t, L \cup {x})
<1> DEFINE n == Cardinality(L)
           t == [i \in 1..(n + 1) |-> IF i <= n THEN s[i] ELSE x]
<1>1. n \in Nat /\ Cardinality(L \cup {x}) = n + 1
  <2>1. x \notin L
    BY SMT
  <2>2. n \in Nat
    BY FS_CardinalityType
  <2>3. Cardinality(L \cup {x}) = IF x \in L THEN n ELSE n + 1
    BY FS_AddElement
  <2>4. QED
    BY <2>1, <2>2, <2>3
<1> HIDE DEF n
<1>2. s \in [1..n -> L]
  BY DEF n
<1>3. t \in [1..(n + 1) -> L \cup {x}]
  <2>1. \A i \in 1..(n + 1) : i <= n => i \in 1..n
    BY <1>1
  <2>2. \A i \in 1..(n + 1) : (IF i <= n THEN s[i] ELSE x) \in L \cup {x}
    BY <1>2, <2>1
  <2>3. QED
    BY <2>2
<1>4. \A i, j \in DOMAIN t : i < j => t[i] < t[j]
  <2> SUFFICES ASSUME NEW i \in 1..(n + 1), NEW j \in 1..(n + 1), i < j PROVE t[i] < t[j]
    OBVIOUS
  <2>1. i \in 1..n /\ t[i] = s[i] /\ s[i] \in L
    <3>1. i \in 1..n /\ i <= n
      BY <1>1
    <3>2. QED
      BY <1>2, <3>1
  <2>2. CASE j <= n
    BY <1>1, <1>2, <2>1, <2>2 DEF InOrder
  <2>3. CASE j > n
    <3>1. t[j] = x
      BY <1>1, <2>3
    <3>2. QED
      BY <2>1, <3>1
  <2>4. QED
    BY <1>1, <2>2, <2>3
<1>5. L \cup {x} = {t[i] : i \in DOMAIN t}
  <2>1. L = {s[i] : i \in 1..n}
    BY <1>2 DEF InOrder
  <2>2. \A y \in L : \E i \in 1..(n + 1) : t[i] = y
    <3> SUFFICES ASSUME NEW y \in L PROVE \E i \in 1..(n + 1) : t[i] = y
      BY SMTT(30)
    <3>1. PICK i \in 1..n : s[i] = y
      BY <2>1, Zenon
    <3>2. i \in 1..(n + 1) /\ t[i] = y
      BY <1>1, <3>1
    <3>3. QED
      BY <3>2
  <2>3. n + 1 \in 1..(n + 1) /\ t[n + 1] = x
    BY <1>1
  <2>4. DOMAIN t = 1..(n + 1)
    OBVIOUS
  <2> HIDE DEF t
  <2>5. QED
    BY <1>3, <2>2, <2>3, <2>4
<1>6. QED
  BY <1>1, <1>3, <1>4, <1>5 DEF InOrder

\* The numbers of the positions have an order, and Ordered is it.
LEMMA OrderedIsInOrder ==
    ASSUME NEW S, S \subseteq 1..256
    PROVE  /\ IsFiniteSet(S) /\ Cardinality(S) \in Nat
           /\ Ordered(S) \in [1..Cardinality(S) -> S] /\ InOrder(Ordered(S), S)
<1> DEFINE Low(n) == S \cap (1..n)
           Has(n) == \E s \in [1..Cardinality(Low(n)) -> Low(n)] : InOrder(s, Low(n))
           Bad == {n \in Nat : ~Has(n)}
<1>1. ASSUME NEW n \in Nat PROVE IsFiniteSet(Low(n)) /\ Low(n) \subseteq Nat
  <2>1. IsFiniteSet(1..n)
    BY FS_Interval
  <2>2. Low(n) \in SUBSET (1..n)
    OBVIOUS
  <2>3. QED
    BY <2>1, <2>2, FS_Subset
<1>2. Has(0)
  <2>1. Low(0) = {} /\ Cardinality(Low(0)) = 0
    BY FS_EmptySet
  <2>2. [i \in 1..0 |-> i] \in [1..0 -> {}] /\ InOrder([i \in 1..0 |-> i], {})
    BY DEF InOrder
  <2> HIDE DEF Low
  <2>3. QED
    BY <2>1, <2>2
<1>3. ASSUME NEW n \in Nat, Has(n) PROVE Has(n + 1)
  <2>1. CASE n + 1 \notin S
    <3>1. Low(n + 1) = Low(n)
      BY <2>1
    <3> HIDE DEF Low
    <3>2. QED
      BY <1>3, <3>1
  <2>2. CASE n + 1 \in S
    <3>1. Low(n + 1) = Low(n) \cup {n + 1} /\ \A y \in Low(n) : y < n + 1
      BY <2>2
    <3> HIDE DEF Low
    <3>2. PICK s \in [1..Cardinality(Low(n)) -> Low(n)] : InOrder(s, Low(n))
      BY <1>3
    <3>3. IsFiniteSet(Low(n)) /\ Low(n) \subseteq Nat /\ n + 1 \in Nat
      BY <1>1
    <3>4. QED
      BY <3>1, <3>2, <3>3, OneMore
  <2>3. QED
    BY <2>1, <2>2
<1>4. Bad = {}
  <2> SUFFICES ASSUME Bad # {} PROVE FALSE
    OBVIOUS
  <2> HIDE DEF Has
  <2>1. PICK m \in Bad : \A n \in Bad : m <= n
    BY LeastNumber
  <2>2. m # 0 /\ m \in Nat /\ m - 1 \in Nat /\ m - 1 \notin Bad
    BY <1>2, <2>1
  <2>3. Has(m - 1) /\ (m - 1) + 1 = m
    BY <2>2
  <2>4. Has(m)
    BY <1>3, <2>2, <2>3
  <2>5. QED
    BY <2>1, <2>4
<1>5. Low(256) = S /\ Has(256)
  <2>1. Low(256) = S
    OBVIOUS
  <2> HIDE DEF Has, Low
  <2>2. Has(256)
    BY <1>4
  <2>3. QED
    BY <2>1, <2>2
<1>6. \E s \in [1..Cardinality(S) -> S] : InOrder(s, S)
  <2> HIDE DEF Low
  <2>1. QED
    BY <1>5
<1>7. IsFiniteSet(S) /\ Cardinality(S) \in Nat
  <2> HIDE DEF Low
  <2>1. IsFiniteSet(Low(256))
    BY <1>1
  <2>2. QED
    BY <1>5, <2>1, FS_CardinalityType
<1>8. QED
  BY <1>6, <1>7 DEF Ordered

-----------------------------------------------------------------------------
(* The last event of a key. *)

Events == [key : Keys, value : States]

\* Latest, for any events ahead of any view.
LatestIn(evs, v, k) ==
    LET at == {i \in DOMAIN evs : evs[i].key = k}
    IN  IF at = {} THEN v[k] ELSE evs[CHOOSE i \in at : \A j \in at : j <= i].value

LastOf(evs, k, i) ==
    /\ i \in 1..Len(evs) /\ evs[i].key = k
    /\ \A j \in 1..Len(evs) : evs[j].key = k => j <= i

\* Among events that tell of a key one is the last.
LEMMA LastExists ==
    ASSUME NEW evs \in Seq(Events), NEW k \in Told(evs)
    PROVE  \E i : LastOf(evs, k, i)
<1> DEFINE at == {i \in 1..Len(evs) : evs[i].key = k}
           T == {Len(evs) - i : i \in at}
<1>1. Len(evs) \in Nat /\ DOMAIN evs = 1..Len(evs)
  BY LenProperties
<1>2. at # {}
  BY <1>1 DEF Told
<1>3. T \subseteq Nat /\ T # {}
  BY <1>1, <1>2
<1>4. PICK x \in T : \A y \in T : x <= y
  BY <1>3, LeastNumber
<1>5. PICK i \in at : x = Len(evs) - i
  BY <1>4
<1>6. \A j \in at : Len(evs) - i <= Len(evs) - j
  BY <1>4, <1>5
<1>7. \A j \in at : j <= i
  BY <1>1, <1>5, <1>6
<1>8. QED
  BY <1>5, <1>7 DEF LastOf

\* It decides what the subscriber will believe.
LEMMA LastDecides ==
    ASSUME NEW evs \in Seq(Events), NEW v, NEW k, NEW i, LastOf(evs, k, i)
    PROVE  LatestIn(evs, v, k) = evs[i].value
<1> DEFINE at == {j \in DOMAIN evs : evs[j].key = k}
           last == CHOOSE x \in at : \A j \in at : j <= x
<1>1. DOMAIN evs = 1..Len(evs) /\ Len(evs) \in Nat
  BY LenProperties
<1>2. i \in at /\ \A j \in at : j <= i
  BY <1>1 DEF LastOf
<1>3. last \in at /\ \A j \in at : j <= last
  BY <1>2
<1>4. at \subseteq Nat
  BY <1>1
<1> HIDE DEF at, last
<1>5. last = i
  BY <1>2, <1>3, <1>4
<1>6. at # {}
  BY <1>2
<1>7. QED
  BY <1>5, <1>6 DEF LatestIn, at, last

\* Without an event it believes what it did.
LEMMA NotTold ==
    ASSUME NEW evs, NEW v, NEW k, k \notin Told(evs)
    PROVE  LatestIn(evs, v, k) = v[k]
BY DEF Told, LatestIn

IsConcat(all, old, new) == all = old \o new

\* Of events after others, the later ones decide, and the others if they say nothing.
LEMMA LatestAppended ==
    ASSUME NEW old \in Seq(Events), NEW new \in Seq(Events), NEW v, NEW k,
           NEW all, IsConcat(all, old, new)
    PROVE  /\ k \in Told(new) => LatestIn(all, v, k) = LatestIn(new, v, k)
           /\ k \notin Told(new) => LatestIn(all, v, k) = LatestIn(old, v, k)
           /\ Told(all) = Told(old) \cup Told(new)
<1>1. /\ all \in Seq(Events) /\ Len(all) = Len(old) + Len(new)
      /\ \A i \in 1..(Len(old) + Len(new)) : all[i] = IF i <= Len(old) THEN old[i] ELSE new[i - Len(old)]
  BY ConcatProperties DEF IsConcat
<1>2. /\ Len(old) \in Nat /\ DOMAIN old = 1..Len(old)
      /\ Len(new) \in Nat /\ DOMAIN new = 1..Len(new) /\ DOMAIN all = 1..Len(all)
  BY <1>1, LenProperties
<1>3. /\ \A i \in 1..Len(old) : i \in 1..Len(all) /\ all[i] = old[i]
      /\ \A i \in 1..Len(new) : Len(old) + i \in 1..Len(all) /\ all[Len(old) + i] = new[i]
      /\ \A i \in 1..Len(all) : i \notin 1..Len(old) => i - Len(old) \in 1..Len(new)
                                                      /\ all[i] = new[i - Len(old)]
  <2> DEFINE m == Len(old)
             n == Len(new)
  <2>1. m \in Nat /\ n \in Nat /\ Len(all) = m + n
    BY <1>1, <1>2
  <2>2. \A i \in 1..(m + n) : all[i] = IF i <= m THEN old[i] ELSE new[i - m]
    BY <1>1
  <2> HIDE DEF m, n
  <2>3. \A i \in 1..m : i \in 1..(m + n) /\ all[i] = old[i]
    BY <2>1, <2>2
  <2>4. ASSUME NEW i \in 1..n PROVE m + i \in 1..(m + n) /\ all[m + i] = new[i]
    <3>1. m + i \in 1..(m + n) /\ ~(m + i <= m) /\ (m + i) - m = i
      BY <2>1
    <3>2. QED
      BY <2>2, <3>1
  <2>5. \A i \in 1..(m + n) : i \notin 1..m => i - m \in 1..n /\ all[i] = new[i - m]
    BY <2>1, <2>2
  <2>6. QED
    BY <2>1, <2>3, <2>4, <2>5 DEF m, n
<1>4. Told(all) = Told(old) \cup Told(new)
  <2>1. \A x \in Told(all) : x \in Told(old) \cup Told(new)
    <3> SUFFICES ASSUME NEW i \in 1..Len(all) PROVE all[i].key \in Told(old) \cup Told(new)
      BY <1>2 DEF Told
    <3>1. CASE i \in 1..Len(old)
      <4>1. all[i] = old[i]
        BY <1>3, <3>1
      <4>2. QED
        BY <1>2, <3>1, <4>1 DEF Told
    <3>2. CASE i \notin 1..Len(old)
      <4>1. i - Len(old) \in 1..Len(new) /\ all[i] = new[i - Len(old)]
        BY <1>3, <3>2
      <4>2. QED
        BY <1>2, <4>1 DEF Told
    <3>3. QED
      BY <3>1, <3>2
  <2>2. \A x \in Told(old) : x \in Told(all)
    BY <1>2, <1>3 DEF Told
  <2>3. \A x \in Told(new) : x \in Told(all)
    <3> SUFFICES ASSUME NEW i \in 1..Len(new) PROVE new[i].key \in Told(all)
      BY <1>2 DEF Told
    <3>1. Len(old) + i \in DOMAIN all /\ all[Len(old) + i].key = new[i].key
      BY <1>2, <1>3
    <3>2. QED
      BY <3>1 DEF Told
  <2>4. QED
    BY <2>1, <2>2, <2>3
<1>5. ASSUME k \in Told(new) PROVE LatestIn(all, v, k) = LatestIn(new, v, k)
  <2>1. PICK i : LastOf(new, k, i)
    BY <1>5, LastExists
  <2>2. LatestIn(new, v, k) = new[i].value
    BY <2>1, LastDecides
  <2>3. Len(old) + i \in 1..Len(all) /\ all[Len(old) + i] = new[i] /\ i \in 1..Len(new)
    BY <1>3, <2>1 DEF LastOf
  <2>4. ASSUME NEW j \in 1..Len(all), all[j].key = k PROVE j <= Len(old) + i
    <3>1. CASE j \in 1..Len(old)
      BY <1>2, <2>3, <3>1
    <3>2. CASE j \notin 1..Len(old)
      <4>1. j - Len(old) \in 1..Len(new) /\ new[j - Len(old)].key = k
        BY <1>3, <2>4, <3>2
      <4>2. j - Len(old) <= i
        BY <2>1, <4>1 DEF LastOf
      <4>3. QED
        BY <1>2, <2>3, <4>2
    <3>3. QED
      BY <3>1, <3>2
  <2>5. LastOf(all, k, Len(old) + i)
    BY <2>1, <2>3, <2>4 DEF LastOf
  <2>6. LatestIn(all, v, k) = all[Len(old) + i].value
    BY <1>1, <2>5, LastDecides
  <2>7. QED
    BY <2>2, <2>3, <2>6
<1>6. ASSUME k \notin Told(new), k \in Told(old) PROVE LatestIn(all, v, k) = LatestIn(old, v, k)
  <2>1. PICK i : LastOf(old, k, i)
    BY <1>6, LastExists
  <2>2. \A j \in 1..Len(all) : all[j].key = k => j \in 1..Len(old) /\ old[j].key = k
    <3>1. \A j \in 1..Len(new) : new[j].key # k
      BY <1>2, <1>6 DEF Told
    <3>2. QED
      BY <1>3, <3>1
  <2>3. LastOf(all, k, i) /\ all[i] = old[i]
    BY <1>3, <2>1, <2>2 DEF LastOf
  <2>4. LatestIn(all, v, k) = all[i].value /\ LatestIn(old, v, k) = old[i].value
    BY <1>1, <2>1, <2>3, LastDecides
  <2>5. QED
    BY <2>3, <2>4
<1>7. ASSUME k \notin Told(new), k \notin Told(old) PROVE LatestIn(all, v, k) = LatestIn(old, v, k)
  BY <1>4, <1>7, NotTold
<1>8. QED
  BY <1>4, <1>5, <1>6, <1>7

\* Events tell of keys.
LEMMA ToldKeys ==
    ASSUME NEW s \in Seq(Events)
    PROVE  Told(s) \subseteq Keys
<1> SUFFICES ASSUME NEW i \in DOMAIN s PROVE s[i].key \in Keys
  BY DEF Told
<1>1. i \in 1..Len(s)
  BY LenProperties
<1>2. s[i] \in Events
  BY <1>1, ElementOfSeq
<1>3. QED
  BY <1>2 DEF Events

IsCut(all, e, dropped, kept) ==
    dropped = SubSeq(all, 1, e) /\ kept = SubSeq(all, e + 1, Len(all))

\* Events are those dropped and those kept.
LEMMA CutAll ==
    ASSUME NEW all \in Seq(Events), NEW e \in 0..Len(all),
           NEW kept, NEW dropped, IsCut(all, e, dropped, kept)
    PROVE  /\ kept \in Seq(Events) /\ Len(kept) = Len(all) - e
           /\ dropped \in Seq(Events) /\ Len(dropped) = e
           /\ IsConcat(all, dropped, kept) /\ Told(all) = Told(dropped) \cup Told(kept)
<1>1. Len(all) \in Nat /\ e \in Nat /\ e <= Len(all) /\ \A i \in 1..Len(all) : all[i] \in Events
  BY LenProperties, ElementOfSeq
<1>2. kept \in Seq(Events) /\ Len(kept) = Len(all) - e
  <2>1. \A i \in (e + 1)..Len(all) : all[i] \in Events
    BY <1>1
  <2>2. /\ SubSeq(all, e + 1, Len(all)) \in Seq(Events)
        /\ Len(SubSeq(all, e + 1, Len(all))) = IF e + 1 <= Len(all) THEN Len(all) - (e + 1) + 1 ELSE 0
    BY <1>1, <2>1, SubSeqProperties
  <2>3. QED
    BY <1>1, <2>2 DEF IsCut
<1>3. dropped \in Seq(Events) /\ Len(dropped) = e
  <2>1. \A i \in 1..e : all[i] \in Events
    BY <1>1
  <2>2. /\ SubSeq(all, 1, e) \in Seq(Events)
        /\ Len(SubSeq(all, 1, e)) = IF 1 <= e THEN e - 1 + 1 ELSE 0
    BY <1>1, <2>1, SubSeqProperties
  <2>3. QED
    BY <1>1, <2>2 DEF IsCut
<1>4. IsConcat(all, dropped, kept)
  <2>1. 1 \in 1..(Len(all) + 1) /\ e \in (1 - 1)..Len(all) /\ Len(all) \in e..Len(all)
    BY <1>1
  <2>2. SubSeq(all, 1, e) \o SubSeq(all, e + 1, Len(all)) = SubSeq(all, 1, Len(all))
    BY <2>1, ConcatAdjacentSubSeq
  <2>3. QED
    BY <2>2, SubSeqFull DEF IsCut, IsConcat
<1>5. Told(all) = Told(dropped) \cup Told(kept)
  BY <1>2, <1>3, <1>4, LatestAppended
<1>6. QED
  BY <1>2, <1>3, <1>4, <1>5

\* A lagging subscriber believes the same of what it is still told of, and of what it
\* has not lost.
LEMMA LatestKept ==
    ASSUME NEW all \in Seq(Events), NEW e \in 0..Len(all), NEW v, NEW k,
           NEW kept, NEW dropped, IsCut(all, e, dropped, kept),
           k \in Told(kept) \/ k \notin Told(dropped)
    PROVE  LatestIn(kept, v, k) = LatestIn(all, v, k)
<1>1. /\ kept \in Seq(Events) /\ dropped \in Seq(Events)
      /\ IsConcat(all, dropped, kept) /\ Told(all) = Told(dropped) \cup Told(kept)
  BY CutAll
<1>2. CASE k \in Told(kept)
  BY <1>1, <1>2, LatestAppended
<1>3. CASE k \notin Told(kept) /\ k \notin Told(dropped)
  BY <1>1, <1>3, NotTold
<1>4. QED
  BY <1>2, <1>3

\* What is still told is told.
LEMMA KeptTold ==
    ASSUME NEW all \in Seq(Events), NEW e \in 0..Len(all), NEW kept, NEW dropped,
           IsCut(all, e, dropped, kept), NEW n \in (e + 1)..Len(all)
    PROVE  all[n].key \in Told(kept)
<1>1. Len(all) \in Nat /\ e \in Nat /\ e <= Len(all) /\ \A i \in (e + 1)..Len(all) : all[i] \in Events
  BY LenProperties, ElementOfSeq
<1>2. /\ Len(SubSeq(all, e + 1, Len(all))) = IF e + 1 <= Len(all) THEN Len(all) - (e + 1) + 1 ELSE 0
      /\ SubSeq(all, e + 1, Len(all)) \in Seq(Events)
      /\ \A i \in 1..(Len(all) - (e + 1) + 1) : SubSeq(all, e + 1, Len(all))[i] = all[(e + 1) + i - 1]
  BY <1>1, SubSeqProperties
<1>3. n - e \in 1..(Len(all) - (e + 1) + 1) /\ (e + 1) + (n - e) - 1 = n
  BY <1>1
<1>4. kept[n - e] = all[n] /\ n - e \in 1..Len(kept) /\ kept \in Seq(Events)
  <2>1. SubSeq(all, e + 1, Len(all))[n - e] = all[n]
    <3>1. SubSeq(all, e + 1, Len(all))[n - e] = all[(e + 1) + (n - e) - 1]
      BY <1>2, <1>3
    <3>2. QED
      BY <1>3, <3>1
  <2>2. n - e \in 1..Len(SubSeq(all, e + 1, Len(all)))
    <3>1. e + 1 <= Len(all)
      BY <1>1
    <3>2. Len(SubSeq(all, e + 1, Len(all))) = Len(all) - (e + 1) + 1
      BY <1>2, <3>1
    <3>3. QED
      BY <1>3, <3>2
  <2>3. kept = SubSeq(all, e + 1, Len(all))
    BY DEF IsCut
  <2>4. QED
    BY <1>2, <2>1, <2>2, <2>3
<1>5. n - e \in DOMAIN kept
  BY <1>4, LenProperties
<1>6. QED
  BY <1>4, <1>5 DEF Told

\* Receiving an event changes nothing in what the subscriber will believe.
LEMMA LatestReceived ==
    ASSUME NEW evs \in Seq(Events), evs # <<>>, NEW v, NEW D, v = [x \in D |-> v[x]], NEW k \in D
    PROVE  LatestIn(Tail(evs), [v EXCEPT ![Head(evs).key] = Head(evs).value], k) = LatestIn(evs, v, k)
<1> DEFINE h == Head(evs)
           t == Tail(evs)
           one == <<h>>
           w == [v EXCEPT ![h.key] = h.value]
<1>1. Len(evs) \in Nat \ {0} /\ h \in Events /\ t \in Seq(Events) /\ h = evs[1]
  BY EmptySeq, HeadTailProperties
<1>2. IsConcat(evs, one, t)
  <2>1. 1 \in 1..Len(evs) /\ Len(evs) \in 1..Len(evs)
    BY <1>1
  <2>2. SubSeq(evs, 1, Len(evs)) = <<evs[1]>> \o SubSeq(evs, 1 + 1, Len(evs))
    BY <2>1, SubSeqRecursiveFirst
  <2>3. QED
    BY <1>1, <2>2, SubSeqFull, TailIsSubSeq DEF IsConcat
<1>3. one \in Seq(Events) /\ Len(one) = 1 /\ one[1] = h
  BY <1>1
<1>4. w[k] = IF k = h.key THEN h.value ELSE v[k]
  OBVIOUS
<1> HIDE DEF h, t, one, w
<1>5. /\ k \in Told(t) => LatestIn(evs, v, k) = LatestIn(t, v, k)
      /\ k \notin Told(t) => LatestIn(evs, v, k) = LatestIn(one, v, k)
  BY <1>1, <1>2, <1>3, LatestAppended
<1>6. CASE k \in Told(t)
  <2>1. PICK i : LastOf(t, k, i)
    BY <1>1, <1>6, LastExists
  <2>2. LatestIn(t, w, k) = t[i].value /\ LatestIn(t, v, k) = t[i].value
    BY <1>1, <2>1, LastDecides
  <2>3. QED
    BY <1>5, <1>6, <2>2 DEF h, t, w
<1>7. CASE k \notin Told(t)
  <2>1. LatestIn(evs, v, k) = LatestIn(one, v, k)
    BY <1>5, <1>7
  <2>2. LatestIn(t, w, k) = w[k]
    BY <1>7, NotTold
  <2>3. CASE k = h.key
    <3>1. LastOf(one, k, 1)
      BY <1>3, <2>3 DEF LastOf
    <3>2. LatestIn(one, v, k) = one[1].value
      BY <1>3, <3>1, LastDecides
    <3>3. QED
      BY <1>3, <1>4, <2>1, <2>2, <2>3, <3>2 DEF h, t, w
  <2>4. CASE k # h.key
    <3>1. k \notin Told(one)
      BY <1>3, <2>4 DEF Told
    <3>2. LatestIn(one, v, k) = v[k]
      BY <3>1, NotTold
    <3>3. QED
      BY <1>4, <2>1, <2>2, <2>4, <3>2 DEF h, t, w
  <2>5. QED
    BY <2>3, <2>4
<1>8. QED
  BY <1>6, <1>7

-----------------------------------------------------------------------------
(* The types of the cache. *)

Values   == States \cup {Unread}
Versions == {"version", "report"}

\* Only a status is refreshed, and only a version is told after the lock is released.
UpdateTyped(w) ==
    /\ w = [at |-> w.at, category |-> w.category, states |-> w.states, emit_all |-> w.emit_all]
    /\ w.at \in {"idle", "parsed", "tell"} /\ w.emit_all \in BOOLEAN
    /\ w.at = "idle" => ~w.emit_all
    /\ w.at # "idle" => /\ w.category \in Categories
                        /\ DOMAIN w.states \subseteq PositionsOf[w.category]
                        /\ \A i \in DOMAIN w.states : w.states[i] \in States
    /\ w.at # "idle" /\ w.emit_all => w.category \in StatusCategories
    /\ w.at = "tell" => w.category \in Versions

WorkTyped ==
    /\ work = [t \in Updaters |-> work[t]]
    /\ \A t \in Updaters : UpdateTyped(work[t])

ChannelTyped ==
    /\ events \in Seq(Events) /\ Len(events) <= EventCap
    /\ view \in [Keys -> Values] /\ missed \subseteq Keys /\ subscribed \in BOOLEAN

CacheTyped ==
    /\ cache \in [Keys -> Values]
    /\ inverted \subseteq 1..256 /\ emit_unchanged \in BOOLEAN
    /\ WorkTyped /\ ChannelTyped
    /\ crossed \in BOOLEAN /\ reloads \in 0..MaxReloads /\ frames \in 0..MaxFrames

\* The key of a position of a category.
LEMMA KeyOf ==
    ASSUME NEW cat \in Categories, NEW i \in PositionsOf[cat]
    PROVE  <<cat, i>> \in Keys /\ i \in 1..256
BY CacheAssumption DEF Keys

\* The events of some positions tell of each, once, and say its state.
LEMMA EventsTell ==
    ASSUME NEW cat \in Categories, NEW P, P \subseteq PositionsOf[cat], NEW st,
           \A i \in P : st[i] \in States
    PROVE  /\ EventsFor(cat, P, st) \in Seq(Events)
           /\ Len(EventsFor(cat, P, st)) = Cardinality(P) /\ Cardinality(P) \in Nat
           /\ Told(EventsFor(cat, P, st)) = {<<cat, i>> : i \in P}
           /\ \A n \in 1..Len(EventsFor(cat, P, st)) :
                  \E i \in P : EventsFor(cat, P, st)[n] = [key |-> <<cat, i>>, value |-> st[i]]
<1> DEFINE o == Ordered(P)
           m == Cardinality(P)
           evs == EventsFor(cat, P, st)
<1>1. P \subseteq 1..256
  BY CacheAssumption
<1>2. m \in Nat /\ o \in [1..m -> P] /\ P = {o[n] : n \in 1..m}
  <2>1. m \in Nat /\ o \in [1..m -> P] /\ InOrder(o, P)
    BY <1>1, OrderedIsInOrder, Zenon
  <2> HIDE DEF o, m
  <2>2. P = {o[n] : n \in DOMAIN o} /\ DOMAIN o = 1..m
    BY <2>1 DEF InOrder
  <2>3. QED
    BY <2>1, <2>2
<1>3. evs = [n \in 1..m |-> [key |-> <<cat, o[n]>>, value |-> st[o[n]]]]
  BY <1>2 DEF EventsFor
<1> HIDE DEF o, m, evs
<1>4. \A n \in 1..m : evs[n] = [key |-> <<cat, o[n]>>, value |-> st[o[n]]] /\ o[n] \in P
  BY <1>2, <1>3
<1>5. evs \in Seq(Events) /\ Len(evs) = m
  <2>1. \A i \in P : [key |-> <<cat, i>>, value |-> st[i]] \in Events
    BY KeyOf DEF Events
  <2>2. \A n \in 1..m : evs[n] \in Events
    BY <1>4, <2>1
  <2>3. evs \in [1..m -> Events]
    BY <1>3, <2>2
  <2>4. QED
    BY <1>2, <2>3
<1>6. Told(evs) = {<<cat, i>> : i \in P}
  <2>1. DOMAIN evs = 1..m
    BY <1>3
  <2>2. \A x \in Told(evs) : x \in {<<cat, i>> : i \in P}
    BY <1>4, <2>1 DEF Told
  <2>3. \A i \in P : <<cat, i>> \in Told(evs)
    <3> SUFFICES ASSUME NEW i \in P PROVE <<cat, i>> \in Told(evs)
      OBVIOUS
    <3>1. PICK n \in 1..m : i = o[n]
      BY <1>2
    <3>2. evs[n].key = <<cat, i>> /\ n \in DOMAIN evs
      BY <1>4, <2>1, <3>1
    <3>3. QED
      BY <3>2 DEF Told
  <2>4. QED
    BY <2>2, <2>3
<1>7. QED
  BY <1>2, <1>4, <1>5, <1>6 DEF evs, m

\* What a subscriber believes once it is told, and what it misses.
LEMMA BroadcastTells ==
    ASSUME ChannelTyped, subscribed, missed \cap Told(events) = {},
           NEW cat \in Categories, NEW P, P \subseteq PositionsOf[cat], NEW st,
           \A i \in P : st[i] \in States, Broadcast(EventsFor(cat, P, st))
    PROVE  /\ ChannelTyped' /\ subscribed' /\ missed' \cap Told(events') = {}
           /\ \A k \in Keys \ missed' :
                 /\ \A i \in P : k = <<cat, i>> => Latest(k)' = st[i]
                 /\ k \notin {<<cat, i>> : i \in P} => k \notin missed /\ Latest(k)' = Latest(k)
           /\ Cardinality(P) <= EventCap => \A i \in P : <<cat, i>> \notin missed'
<1> DEFINE evs == EventsFor(cat, P, st)
           all == events \o evs
           e == IF Len(all) > EventCap THEN Len(all) - EventCap ELSE 0
           kept == SubSeq(all, e + 1, Len(all))
           dropped == SubSeq(all, 1, e)
<1>1. /\ events' = kept /\ missed' = (missed \cup Told(dropped)) \ Told(kept)
      /\ UNCHANGED <<subscribed, view>>
  BY DEF Broadcast
<1>2. /\ evs \in Seq(Events) /\ Len(evs) = Cardinality(P) /\ Cardinality(P) \in Nat
      /\ Told(evs) = {<<cat, i>> : i \in P}
      /\ \A n \in 1..Len(evs) : \E i \in P : evs[n] = [key |-> <<cat, i>>, value |-> st[i]]
  BY EventsTell, SMTT(30)
<1>3. events \in Seq(Events) /\ EventCap \in Nat /\ Len(events) \in Nat
  BY CacheAssumption, LenProperties DEF ChannelTyped
<1>4. all \in Seq(Events) /\ Len(all) = Len(events) + Len(evs) /\ IsConcat(all, events, evs)
  <2> HIDE DEF evs
  <2>1. QED
    BY <1>2, <1>3, ConcatProperties DEF IsConcat
<1>5. IsCut(all, e, dropped, kept)
  BY DEF IsCut
<1> HIDE DEF evs, all, kept, dropped
<1>6. e \in 0..Len(all) /\ (Cardinality(P) <= EventCap => e <= Len(events)) /\ Len(all) - e <= EventCap
  BY <1>2, <1>3, <1>4, SMTT(30)
<1> HIDE DEF e
<1>7. /\ kept \in Seq(Events) /\ Len(kept) = Len(all) - e
      /\ Told(all) = Told(dropped) \cup Told(kept)
  <2>1. all \in Seq(Events) /\ e \in 0..Len(all)
    BY <1>4, <1>6
  <2>2. QED
    BY <1>5, <2>1, CutAll
<1>8. Told(all) = Told(events) \cup Told(evs)
  BY <1>2, <1>3, <1>4, LatestAppended
<1>9. ChannelTyped'
  <2>1. Told(all) \subseteq Keys
    BY <1>4, ToldKeys
  <2>2. missed' \subseteq Keys
    <3>1. missed \subseteq Keys
      BY DEF ChannelTyped
    <3>2. QED
      BY <1>1, <1>4, <1>7, <2>1, <3>1
  <2>3. Len(kept) <= EventCap
    BY <1>6, <1>7
  <2>4. QED
    BY <1>1, <1>7, <2>2, <2>3 DEF ChannelTyped
<1>10. missed' \cap Told(events') = {}
  BY <1>1
<1>11. ASSUME NEW k \in Keys \ missed'
       PROVE  /\ \A i \in P : k = <<cat, i>> => Latest(k)' = st[i]
              /\ k \notin {<<cat, i>> : i \in P} => k \notin missed /\ Latest(k)' = Latest(k)
  <2>1. Latest(k) = LatestIn(events, view, k) /\ Latest(k)' = LatestIn(kept, view, k)
    BY <1>1 DEF Latest, LatestIn
  <2>2. LatestIn(kept, view, k) = LatestIn(all, view, k)
    <3>1. k \in Told(kept) \/ k \notin Told(dropped)
      BY <1>1
    <3>2. all \in Seq(Events) /\ e \in 0..Len(all)
      BY <1>4, <1>6
    <3>3. QED
      BY <1>5, <3>1, <3>2, LatestKept
  <2>3. /\ k \in Told(evs) => LatestIn(all, view, k) = LatestIn(evs, view, k)
        /\ k \notin Told(evs) => LatestIn(all, view, k) = LatestIn(events, view, k)
    BY <1>2, <1>3, <1>4, LatestAppended
  <2>4. ASSUME NEW i \in P, k = <<cat, i>> PROVE Latest(k)' = st[i]
    <3>1. k \in Told(evs)
      BY <1>2, <2>4
    <3>2. PICK n : LastOf(evs, k, n)
      BY <1>2, <3>1, LastExists
    <3>3. LatestIn(evs, view, k) = evs[n].value
      BY <1>2, <3>2, LastDecides
    <3>4. PICK j \in P : evs[n] = [key |-> <<cat, j>>, value |-> st[j]]
      BY <1>2, <3>2 DEF LastOf
    <3>5. i = j
      BY <2>4, <3>2, <3>4 DEF LastOf
    <3>6. QED
      BY <2>1, <2>2, <2>3, <3>1, <3>3, <3>4, <3>5
  <2>5. ASSUME k \notin {<<cat, i>> : i \in P} PROVE k \notin missed /\ Latest(k)' = Latest(k)
    <3>1. k \notin Told(evs)
      BY <1>2, <2>5
    <3>2. k \notin missed
      BY <1>1, <1>7, <1>8, <3>1
    <3>3. QED
      BY <2>1, <2>2, <2>3, <3>1, <3>2
  <2>6. QED
    BY <2>4, <2>5
<1>12. ASSUME Cardinality(P) <= EventCap, NEW i \in P PROVE <<cat, i>> \notin missed'
  <2>1. PICK n \in 1..Len(evs) : evs[n].key = <<cat, i>>
    <3>1. <<cat, i>> \in Told(evs) /\ DOMAIN evs = 1..Len(evs)
      BY <1>2, LenProperties
    <3>2. QED
      BY <3>1 DEF Told
  <2>2. all[Len(events) + n] = evs[n] /\ Len(events) + n \in (e + 1)..Len(all)
    <3>1. /\ Len(events) + n \in 1..(Len(events) + Len(evs)) /\ ~(Len(events) + n <= Len(events))
          /\ (Len(events) + n) - Len(events) = n
      BY <1>2, <1>3
    <3>2. all[Len(events) + n] = evs[(Len(events) + n) - Len(events)]
      BY <1>2, <1>3, <1>4, <3>1, ConcatProperties DEF IsConcat
    <3>3. Len(events) + n \in (e + 1)..Len(all)
      BY <1>2, <1>3, <1>4, <1>6, <1>12, <3>1
    <3>4. QED
      BY <3>1, <3>2, <3>3
  <2>3. <<cat, i>> \in Told(kept)
    BY <1>4, <1>5, <1>6, <2>1, <2>2, KeptTold
  <2>4. QED
    BY <1>1, <2>3
<1>13. QED
  BY <1>1, <1>9, <1>10, <1>11, <1>12

-----------------------------------------------------------------------------
(* The invariant of the cache. *)

Apart == missed \cap Told(events) = {}

Fresh == ~subscribed => events = <<>> /\ \A k \in Keys : view[k] = Untold(k)

\* A version that is still to be told stands in the cache, unless updates overlapped.
Telling ==
    ~crossed => \A t \in Updaters : work[t].at = "tell" =>
        \A i \in DOMAIN work[t].states : cache[<<work[t].category, i>>] = work[t].states[i]

PendingTell(k) ==
    \E t \in Updaters : /\ work[t].at = "tell" /\ work[t].category = k[1]
                        /\ k[2] \in DOMAIN work[t].states

\* Told at the position itself: an update of a smaller frame leaves the others out.
Followed(k) == (k[1] \in Versions => ~crossed /\ ~PendingTell(k)) => Latest(k) = cache[k]

Following == subscribed => \A k \in Keys \ missed : Followed(k)

CacheInv == CacheTyped /\ Apart /\ Fresh /\ Telling /\ Following

\* The parts of a key.
LEMMA PartsOf ==
    ASSUME NEW k \in Keys
    PROVE  k = <<k[1], k[2]>> /\ k[1] \in Categories /\ k[2] \in PositionsOf[k[1]]
BY DEF Keys

\* What an update writes.
LEMMA WrittenAt ==
    ASSUME CacheTyped, NEW t \in Updaters, work[t].at # "idle", cache' = Written(t)
    PROVE  /\ cache' \in [Keys -> Values]
           /\ \A k \in Keys : cache'[k] = IF k[1] = work[t].category /\ k[2] \in DOMAIN work[t].states
                                          THEN work[t].states[k[2]] ELSE cache[k]
<1> DEFINE w == work[t]
<1>1. /\ cache \in [Keys -> Values]
      /\ \A i \in DOMAIN w.states : w.states[i] \in States
  BY DEF CacheTyped, WorkTyped, UpdateTyped
<1>2. cache' = [k \in Keys |-> IF k[1] = w.category /\ k[2] \in DOMAIN w.states
                               THEN w.states[k[2]] ELSE cache[k]]
  BY DEF Written
<1> HIDE DEF w
<1>3. cache' \in [Keys -> Values]
  BY <1>1, <1>2 DEF Values
<1>4. QED
  BY <1>2, <1>3 DEF w

\* A task that gives its update up, and the others that keep theirs.
LEMMA Given ==
    ASSUME WorkTyped, NEW t \in Updaters, work' = [work EXCEPT ![t] = NoUpdate]
    PROVE  /\ WorkTyped'
           /\ work'[t] = NoUpdate
           /\ \A u \in Updaters \ {t} : work'[u] = work[u]
<1>1. work = [u \in Updaters |-> work[u]]
  BY DEF WorkTyped
<1>2. work' = [u \in Updaters |-> IF u = t THEN NoUpdate ELSE work[u]]
  BY <1>1
<1>3. UpdateTyped(NoUpdate)
  BY DEF UpdateTyped, NoUpdate
<1>4. \A u \in Updaters : UpdateTyped(work'[u])
  BY <1>2, <1>3 DEF WorkTyped
<1>5. work' = [u \in Updaters |-> work'[u]]
  BY <1>2
<1>6. QED
  BY <1>2, <1>4, <1>5 DEF WorkTyped

\* An update that is over, told of some of its positions: those hold what it says, the
\* others what they held.
LEMMA Settled ==
    ASSUME CacheInv, NEW t \in Updaters, work[t].at # "idle", NEW P,
           P \subseteq DOMAIN work[t].states, cache' \in [Keys -> Values],
           Broadcast(EventsFor(work[t].category, P, work[t].states)),
           work' = [work EXCEPT ![t] = NoUpdate], crossed' = crossed,
           \A i \in P : (work[t].category \in Versions => ~crossed)
                            => cache'[<<work[t].category, i>>] = work[t].states[i],
           \A k \in Keys : k \notin {<<work[t].category, i>> : i \in P}
                            => cache'[k] = cache[k] /\ (PendingTell(k) => PendingTell(k)')
    PROVE  WorkTyped' /\ ChannelTyped' /\ Apart' /\ Fresh' /\ Following'
<1> DEFINE cat == work[t].category
           st == work[t].states
           told == {<<cat, i>> : i \in P}
<1>1. /\ cat \in Categories /\ P \subseteq PositionsOf[cat] /\ \A i \in P : st[i] \in States
      /\ WorkTyped /\ ChannelTyped /\ subscribed \in BOOLEAN
  BY DEF CacheInv, CacheTyped, WorkTyped, UpdateTyped, ChannelTyped
<1>2. WorkTyped'
  BY <1>1, Given
<1>3. CASE ~subscribed
  <2>1. UNCHANGED Subscriber
    BY <1>3 DEF Broadcast
  <2>2. UNCHANGED <<events, subscribed, view, missed>>
    BY <2>1 DEF Subscriber
  <2>3. ChannelTyped' /\ Apart' /\ Fresh' /\ Following'
    BY <1>1, <1>3, <2>2 DEF ChannelTyped, Apart, Fresh, Following, CacheInv, Untold
  <2>4. QED
    BY <1>2, <2>3
<1>4. CASE subscribed
  <2>1. missed \cap Told(events) = {}
    BY DEF CacheInv, Apart
  <2>2. Broadcast(EventsFor(cat, P, st))
    OBVIOUS
  <2> HIDE DEF cat, st
  <2>3. /\ ChannelTyped' /\ subscribed' /\ missed' \cap Told(events') = {}
        /\ \A k \in Keys \ missed' :
              /\ \A i \in P : k = <<cat, i>> => Latest(k)' = st[i]
              /\ k \notin told => k \notin missed /\ Latest(k)' = Latest(k)
    BY <1>1, <1>4, <2>1, <2>2, BroadcastTells, SMTT(30)
  <2>4. ASSUME NEW k \in Keys \ missed', k[1] \in Versions => ~crossed' /\ ~PendingTell(k)'
        PROVE  Latest(k)' = cache'[k]
    <3>1. CASE k \in told
      <4>1. PICK i \in P : k = <<cat, i>>
        BY <3>1
      <4>2. k[1] = cat
        BY <4>1
      <4>3. cat \in Versions => ~crossed
        BY <2>4, <4>2
      <4>4. cache'[<<cat, i>>] = st[i]
        BY <4>3 DEF cat, st
      <4>5. Latest(k)' = st[i]
        BY <2>3, <4>1
      <4>6. QED
        BY <4>1, <4>4, <4>5
    <3>2. CASE k \notin told
      <4>1. cache'[k] = cache[k] /\ (PendingTell(k) => PendingTell(k)')
        BY <3>2 DEF cat
      <4>2. k \notin missed /\ Latest(k)' = Latest(k)
        BY <2>3, <3>2
      <4>3. k[1] \in Versions => ~crossed /\ ~PendingTell(k)
        BY <2>4, <4>1
      <4>4. Latest(k) = cache[k]
        BY <1>4, <4>2, <4>3 DEF CacheInv, Following, Followed
      <4>5. QED
        BY <4>1, <4>2, <4>4
    <3>3. QED
      BY <3>1, <3>2
  <2>5. Following'
    BY <2>4 DEF Following, Followed
  <2>6. QED
    BY <1>2, <2>3, <2>5 DEF Apart, Fresh
<1>5. QED
  BY <1>1, <1>3, <1>4

\* Who has a version to tell, when one task has given its update up.
LEMMA StillPending ==
    ASSUME WorkTyped, NEW t \in Updaters, work' = [work EXCEPT ![t] = NoUpdate], NEW k,
           PendingTell(k),
           work[t].at = "tell" /\ work[t].category = k[1] => k[2] \notin DOMAIN work[t].states
    PROVE  PendingTell(k)'
<1>1. PICK u \in Updaters : /\ work[u].at = "tell" /\ work[u].category = k[1]
                            /\ k[2] \in DOMAIN work[u].states
  BY DEF PendingTell
<1>2. u # t
  BY <1>1
<1>3. work'[u] = work[u]
  BY <1>2, Given
<1>4. QED
  BY <1>1, <1>3 DEF PendingTell

\* An update told under the lock: all that has changed, or more.
LEMMA UpdateStep ==
    ASSUME CacheInv, NEW t \in Updaters, work[t].at = "parsed", work[t].category \notin Versions,
           NEW P, Changed(t) \subseteq P, P \subseteq DOMAIN work[t].states,
           cache' = Written(t), Broadcast(EventsFor(work[t].category, P, work[t].states)),
           work' = [work EXCEPT ![t] = NoUpdate], UNCHANGED <<Settings, crossed, frames>>
    PROVE  CacheInv'
<1> DEFINE cat == work[t].category
           st == work[t].states
           told == {<<cat, i>> : i \in P}
<1>1. /\ CacheTyped /\ WorkTyped /\ cat \in Categories /\ DOMAIN st \subseteq PositionsOf[cat]
  BY DEF CacheInv, CacheTyped, WorkTyped, UpdateTyped
<1>2. /\ cache' \in [Keys -> Values]
      /\ \A k \in Keys : cache'[k] = IF k[1] = cat /\ k[2] \in DOMAIN st
                                     THEN st[k[2]] ELSE cache[k]
  BY <1>1, WrittenAt
<1>3. \A i \in DOMAIN st : <<cat, i>> \in Keys
  BY <1>1, KeyOf
<1>4. \A i \in P : cache'[<<cat, i>>] = st[i]
  <2> SUFFICES ASSUME NEW i \in P PROVE cache'[<<cat, i>>] = st[i]
    OBVIOUS
  <2> HIDE DEF cat, st
  <2>1. i \in DOMAIN st
    BY DEF st
  <2>2. QED
    BY <1>2, <1>3, <2>1
<1>5. ASSUME NEW k \in Keys, k \notin told
      PROVE  cache'[k] = cache[k] /\ (PendingTell(k) => PendingTell(k)')
  <2>1. PendingTell(k) => PendingTell(k)'
    BY <1>1, StillPending
  <2>2. CASE k[1] = cat /\ k[2] \in DOMAIN st
    <3>1. k = <<cat, k[2]>>
      BY <2>2, PartsOf
    <3>2. k[2] \notin P
      BY <1>5, <3>1
    <3>3. cache[<<cat, k[2]>>] = st[k[2]]
      BY <2>2, <3>2 DEF Changed
    <3>4. QED
      BY <1>2, <2>1, <2>2, <3>1, <3>3
  <2>3. CASE ~(k[1] = cat /\ k[2] \in DOMAIN st)
    BY <1>2, <2>1, <2>3
  <2>4. QED
    BY <2>2, <2>3
<1>6. WorkTyped' /\ ChannelTyped' /\ Apart' /\ Fresh' /\ Following'
  <2>1. work[t].at # "idle" /\ crossed' = crossed
    OBVIOUS
  <2>2. QED
    BY <1>2, <1>4, <1>5, <2>1, Settled
<1>7. CacheTyped'
  BY <1>1, <1>2, <1>6 DEF CacheTyped, Settings
<1>8. Telling'
  <2> SUFFICES ASSUME ~crossed', NEW u \in Updaters, work'[u].at = "tell", NEW i \in DOMAIN work'[u].states
               PROVE  cache'[<<work'[u].category, i>>] = work'[u].states[i]
    BY DEF Telling
  <2>1. u # t
    BY <1>1, Given DEF NoUpdate
  <2>2. work'[u] = work[u]
    BY <1>1, <2>1, Given
  <2> DEFINE key == <<work[u].category, i>>
  <2>3. /\ work[u].category \in Versions /\ work[u].category \in Categories
        /\ i \in PositionsOf[work[u].category]
    BY <1>1, <2>2 DEF WorkTyped, UpdateTyped
  <2>4. key \in Keys /\ key[1] = work[u].category
    BY <2>3, KeyOf
  <2>5. key[1] # cat
    BY <2>3, <2>4
  <2>6. cache[key] = work[u].states[i]
    BY <2>2 DEF CacheInv, Telling
  <2> HIDE DEF key, cat
  <2>7. cache'[key] = cache[key]
    BY <1>2, <2>4, <2>5
  <2>8. QED
    BY <2>2, <2>6, <2>7 DEF key
<1>9. QED
  BY <1>6, <1>7, <1>8 DEF CacheInv

\* A version told after the lock was released.
LEMMA TellStep ==
    ASSUME CacheInv, NEW t \in Updaters, TellVersion(t)
    PROVE  CacheInv'
<1> DEFINE cat == work[t].category
           st == work[t].states
           told == {<<cat, i>> : i \in DOMAIN st}
<1>1. /\ work[t].at = "tell" /\ Broadcast(EventsFor(cat, DOMAIN st, st))
      /\ work' = [work EXCEPT ![t] = NoUpdate] /\ UNCHANGED <<cache, Settings, crossed, frames>>
  BY DEF TellVersion
<1>2. /\ CacheTyped /\ WorkTyped /\ cat \in Versions /\ cache \in [Keys -> Values]
  BY <1>1 DEF CacheInv, CacheTyped, WorkTyped, UpdateTyped
<1>3. ASSUME NEW i \in DOMAIN st, cat \in Versions => ~crossed PROVE cache'[<<cat, i>>] = st[i]
  <2>1. ~crossed
    BY <1>2, <1>3
  <2>2. cache[<<cat, i>>] = st[i]
    BY <1>1, <2>1 DEF CacheInv, Telling
  <2>3. cache' = cache
    BY <1>1
  <2>4. QED
    BY <2>2, <2>3
<1>4. ASSUME NEW k \in Keys, k \notin told
      PROVE  cache'[k] = cache[k] /\ (PendingTell(k) => PendingTell(k)')
  <2>1. cat = k[1] => k[2] \notin DOMAIN st
    <3> SUFFICES ASSUME cat = k[1], k[2] \in DOMAIN st PROVE FALSE
      OBVIOUS
    <3>1. k = <<cat, k[2]>>
      BY PartsOf
    <3>2. QED
      BY <1>4, <3>1
  <2>2. PendingTell(k) => PendingTell(k)'
    BY <1>1, <1>2, <2>1, StillPending
  <2>3. QED
    BY <1>1, <2>2
<1>5. WorkTyped' /\ ChannelTyped' /\ Apart' /\ Fresh' /\ Following'
  <2>1. work[t].at # "idle" /\ crossed' = crossed /\ cache' \in [Keys -> Values]
    BY <1>1, <1>2
  <2>2. QED
    BY <1>1, <1>3, <1>4, <2>1, Settled
<1>6. CacheTyped'
  BY <1>1, <1>2, <1>5 DEF CacheTyped, Settings
<1>7. Telling'
  <2> SUFFICES ASSUME ~crossed', NEW u \in Updaters, work'[u].at = "tell", NEW i \in DOMAIN work'[u].states
               PROVE  cache'[<<work'[u].category, i>>] = work'[u].states[i]
    BY DEF Telling
  <2>1. u # t
    <3>1. work'[t] = NoUpdate
      BY <1>1, <1>2, Given
    <3>2. work'[t].at = "idle"
      BY <3>1 DEF NoUpdate
    <3>3. QED
      BY <3>2
  <2>2. work'[u] = work[u] /\ cache' = cache /\ ~crossed
    BY <1>1, <1>2, <2>1, Given
  <2>3. QED
    BY <2>2 DEF CacheInv, Telling
<1>8. QED
  BY <1>5, <1>6, <1>7 DEF CacheInv

\* A version written: it has still to be told.
LEMMA WriteStep ==
    ASSUME CacheInv, NEW t \in Updaters, WriteVersion(t)
    PROVE  CacheInv'
<1> DEFINE cat == work[t].category
           st == work[t].states
<1>1. /\ work[t].at = "parsed" /\ cat \in Versions /\ cache' = Written(t)
      /\ work' = [work EXCEPT ![t].at = "tell"]
      /\ crossed' = (crossed \/ \E u \in Updaters \ {t} :
                         work[u].at = "tell" /\ work[u].category = cat)
      /\ UNCHANGED <<Settings, Subscriber, frames>>
  BY DEF WriteVersion, Versions
<1>2. /\ CacheTyped /\ WorkTyped /\ cat \in Categories /\ DOMAIN st \subseteq PositionsOf[cat]
      /\ work = [u \in Updaters |-> work[u]] /\ UpdateTyped(work[t])
  BY <1>1 DEF CacheInv, CacheTyped, WorkTyped, UpdateTyped
<1>3. /\ cache' \in [Keys -> Values]
      /\ \A k \in Keys : cache'[k] = IF k[1] = cat /\ k[2] \in DOMAIN st
                                     THEN st[k[2]] ELSE cache[k]
  BY <1>1, <1>2, WrittenAt
<1>4. /\ work'[t].at = "tell" /\ work'[t].category = cat /\ work'[t].states = st
      /\ work'[t] = [at |-> "tell", category |-> cat, states |-> st, emit_all |-> work[t].emit_all]
      /\ \A u \in Updaters \ {t} : work'[u] = work[u]
      /\ work' = [u \in Updaters |-> work'[u]]
  <2>1. work[t] = [at |-> work[t].at, category |-> cat, states |-> st, emit_all |-> work[t].emit_all]
    BY <1>2 DEF UpdateTyped
  <2>2. work' = [u \in Updaters |-> IF u = t THEN [work[t] EXCEPT !.at = "tell"] ELSE work[u]]
    BY <1>1, <1>2
  <2>3. QED
    BY <2>1, <2>2
<1>5. WorkTyped'
  <2>1. UpdateTyped(work'[t])
    BY <1>1, <1>2, <1>4 DEF UpdateTyped
  <2>2. \A u \in Updaters : UpdateTyped(work'[u])
    BY <1>2, <1>4, <2>1 DEF WorkTyped
  <2>3. QED
    BY <1>4, <2>2 DEF WorkTyped
<1>6. UNCHANGED <<events, subscribed, view, missed>> /\ crossed' \in BOOLEAN
  BY <1>1, <1>2 DEF Subscriber, CacheTyped
<1>7. CacheTyped' /\ Apart' /\ Fresh'
  <2>1. ChannelTyped' /\ Apart' /\ Fresh'
    BY <1>2, <1>6 DEF CacheInv, CacheTyped, ChannelTyped, Apart, Fresh, Untold
  <2>2. UNCHANGED <<inverted, emit_unchanged, reloads, frames>>
    BY <1>1 DEF Settings
  <2>3. QED
    BY <1>2, <1>3, <1>5, <1>6, <2>1, <2>2 DEF CacheTyped
<1>8. Telling'
  <2> SUFFICES ASSUME ~crossed', NEW u \in Updaters, work'[u].at = "tell", NEW i \in DOMAIN work'[u].states
               PROVE  cache'[<<work'[u].category, i>>] = work'[u].states[i]
    BY DEF Telling
  <2>1. CASE u = t
    <3>1. i \in DOMAIN st /\ work'[u].category = cat /\ work'[u].states[i] = st[i]
      BY <1>4, <2>1
    <3>2. <<cat, i>> \in Keys
      BY <1>2, <3>1, KeyOf
    <3> HIDE DEF cat, st
    <3>3. cache'[<<cat, i>>] = st[i]
      BY <1>3, <3>1, <3>2
    <3>4. QED
      BY <3>1, <3>3
  <2>2. CASE u # t
    <3>1. work'[u] = work[u] /\ ~crossed /\ work[u].category # cat
      BY <1>1, <1>4, <2>2
    <3> DEFINE key == <<work[u].category, i>>
    <3>2. work[u].category \in Categories /\ i \in PositionsOf[work[u].category]
      BY <1>2, <3>1 DEF WorkTyped, UpdateTyped
    <3>3. key \in Keys /\ key[1] # cat
      BY <3>1, <3>2, KeyOf
    <3>4. cache[key] = work[u].states[i]
      BY <3>1 DEF CacheInv, Telling
    <3> HIDE DEF key, cat
    <3>5. cache'[key] = cache[key]
      BY <1>3, <3>3
    <3>6. QED
      BY <3>1, <3>4, <3>5 DEF key
  <2>3. QED
    BY <2>1, <2>2
<1>9. Following'
  <2> SUFFICES ASSUME subscribed, NEW k \in Keys \ missed,
                      k[1] \in Versions => ~crossed' /\ ~PendingTell(k)'
               PROVE  Latest(k)' = cache'[k]
    BY <1>6 DEF Following, Followed
  <2>1. Latest(k)' = Latest(k)
    BY <1>6 DEF Latest
  <2>2. k[1] \in Versions => ~crossed /\ ~PendingTell(k)
    <3> SUFFICES ASSUME k[1] \in Versions, PendingTell(k) PROVE FALSE
      BY <1>1
    <3>1. PICK u \in Updaters : /\ work[u].at = "tell" /\ work[u].category = k[1]
                                /\ k[2] \in DOMAIN work[u].states
      BY DEF PendingTell
    <3>2. work'[u] = work[u]
      BY <1>1, <1>4, <3>1
    <3>3. PendingTell(k)'
      BY <3>1, <3>2 DEF PendingTell
    <3>4. QED
      BY <3>3
  <2>3. ~(k[1] = cat /\ k[2] \in DOMAIN st)
    <3> SUFFICES ASSUME k[1] = cat, k[2] \in DOMAIN st PROVE FALSE
      OBVIOUS
    <3>1. PendingTell(k)'
      BY <1>4 DEF PendingTell
    <3>2. QED
      BY <1>1, <3>1
  <2>4. cache'[k] = cache[k]
    BY <1>3, <2>3
  <2>5. Latest(k) = cache[k]
    BY <2>2 DEF CacheInv, Following, Followed
  <2>6. QED
    BY <2>1, <2>4, <2>5
<1>10. QED
  BY <1>7, <1>8, <1>9 DEF CacheInv

\* What a frame is parsed to.
LEMMA ParsedTyped ==
    ASSUME NEW cat \in Categories, NEW st \in Parsed(cat)
    PROVE  DOMAIN st \subseteq PositionsOf[cat] /\ \A i \in DOMAIN st : st[i] \in States
<1> DEFINE low == {i \in PositionsOf[cat] : i <= 128}
<1>1. CASE cat \in ZoneCategories
  <2>1. st \in ZonesParsed(cat)
    <3>1. cat \notin OutputCategories
      BY <1>1 DEF ZoneCategories, OutputCategories
    <3>2. QED
      BY <1>1, <3>1 DEF Parsed
  <2>2. PICK covered \in {PositionsOf[cat], low} : st \in {BitStates(bits) : bits \in [covered -> States]}
    BY <2>1 DEF ZonesParsed
  <2>3. PICK bits \in [covered -> States] : st = BitStates(bits)
    BY <2>2
  <2>4. covered \subseteq PositionsOf[cat]
    OBVIOUS
  <2>5. st = [i \in covered |-> IF i \in inverted THEN Flipped(bits[i]) ELSE bits[i]]
    BY <2>3 DEF BitStates
  <2>6. \A b \in States : Flipped(b) \in States
    BY DEF Flipped, States
  <2>7. \A i \in covered : st[i] \in States
    BY <2>5, <2>6
  <2>8. QED
    BY <2>4, <2>5, <2>7
<1>2. CASE cat \notin ZoneCategories
  <2>1. st \in [PositionsOf[cat] -> States] \/ st \in [low -> States]
    BY <1>2 DEF Parsed, PartitionsParsed, OutputsParsed
  <2>2. QED
    BY <2>1
<1>3. QED
  BY <1>1, <1>2

\* A frame parsed: only a status is refreshed.
LEMMA ParseStep ==
    ASSUME CacheInv, NEW t \in Updaters, NEW cat \in Categories, NEW emit_all \in BOOLEAN,
           emit_all => cat \in StatusCategories, Parse(t, cat, emit_all)
    PROVE  CacheInv'
<1>1. PICK st \in Parsed(cat) :
          work' = [work EXCEPT ![t] = [at |-> "parsed", category |-> cat,
                                       states |-> st, emit_all |-> emit_all]]
  BY DEF Parse
<1> DEFINE w == [at |-> "parsed", category |-> cat, states |-> st, emit_all |-> emit_all]
<1>2. /\ work[t].at = "idle" /\ frames < MaxFrames /\ frames' = frames + 1
      /\ UNCHANGED <<cache, inverted, emit_unchanged, reloads, events, subscribed, view, missed, crossed>>
  BY DEF Parse, Settings, Subscriber
<1>3. CacheTyped /\ WorkTyped /\ work = [u \in Updaters |-> work[u]]
  BY DEF CacheInv, CacheTyped, WorkTyped
<1>4. UpdateTyped(w)
  BY ParsedTyped DEF UpdateTyped
<1>5. /\ work' = [u \in Updaters |-> IF u = t THEN w ELSE work[u]]
      /\ \A u \in Updaters : work'[u] = IF u = t THEN w ELSE work[u]
  BY <1>1, <1>3
<1>6. WorkTyped'
  <2>1. \A u \in Updaters : UpdateTyped(work'[u])
    <3> HIDE DEF w
    <3>1. QED
      BY <1>3, <1>4, <1>5 DEF WorkTyped
  <2>2. work' = [u \in Updaters |-> work'[u]]
    <3> HIDE DEF w
    <3>1. QED
      BY <1>5
  <2>3. QED
    BY <2>1, <2>2 DEF WorkTyped
<1>7. frames' \in 0..MaxFrames
  BY <1>2, <1>3, CacheAssumption DEF CacheTyped
<1>8. CacheTyped' /\ Apart' /\ Fresh'
  BY <1>2, <1>3, <1>6, <1>7 DEF CacheInv, CacheTyped, ChannelTyped, Apart, Fresh, Untold
<1>9. \A u \in Updaters : work[u].at = "tell" \/ work'[u].at = "tell" => work'[u] = work[u]
  <2>1. w.at = "parsed"
    OBVIOUS
  <2> HIDE DEF w
  <2>2. QED
    BY <1>2, <1>5, <2>1
<1>10. Telling'
  <2> SUFFICES ASSUME ~crossed, NEW u \in Updaters, work'[u].at = "tell", NEW i \in DOMAIN work'[u].states
               PROVE  cache[<<work'[u].category, i>>] = work'[u].states[i]
    BY <1>2 DEF Telling
  <2>1. work'[u] = work[u]
    BY <1>9
  <2>2. QED
    BY <2>1 DEF CacheInv, Telling
<1>11. Following'
  <2> SUFFICES ASSUME subscribed, NEW k \in Keys \ missed,
                      k[1] \in Versions => ~crossed' /\ ~PendingTell(k)'
               PROVE  Latest(k)' = cache'[k]
    BY <1>2 DEF Following, Followed
  <2>1. PendingTell(k) => PendingTell(k)'
    <3> SUFFICES ASSUME NEW u \in Updaters, work[u].at = "tell", work[u].category = k[1],
                        k[2] \in DOMAIN work[u].states
                 PROVE  PendingTell(k)'
      BY DEF PendingTell
    <3>1. work'[u] = work[u]
      BY <1>9
    <3>2. QED
      BY <3>1 DEF PendingTell
  <2>2. Latest(k) = cache[k]
    BY <1>2, <2>1 DEF CacheInv, Following, Followed
  <2>3. Latest(k)' = Latest(k) /\ cache' = cache
    BY <1>2 DEF Latest
  <2>4. QED
    BY <2>2, <2>3
<1>12. QED
  BY <1>8, <1>10, <1>11 DEF CacheInv

\* A subscriber comes: what it was not told of it misses.
LEMMA SubscribeStep ==
    ASSUME CacheInv, Subscribe
    PROVE  CacheInv'
<1>1. /\ ~subscribed /\ subscribed' = TRUE /\ missed' = {k \in Keys : cache[k] # Untold(k)}
      /\ UNCHANGED <<cache, inverted, emit_unchanged, reloads, work, events, view, crossed, frames>>
  BY DEF Subscribe, Settings
<1>2. events = <<>> /\ \A k \in Keys : view[k] = Untold(k)
  BY <1>1 DEF CacheInv, Fresh
<1>3. Told(events) = {}
  BY <1>2 DEF Told
<1>4. CacheTyped' /\ Apart' /\ Fresh' /\ Telling'
  <2>1. WorkTyped' /\ Telling'
    BY <1>1 DEF CacheInv, CacheTyped, WorkTyped, Telling
  <2>2. ChannelTyped'
    BY <1>1 DEF CacheInv, CacheTyped, ChannelTyped
  <2>3. Told(events)' = {}
    BY <1>1, <1>3 DEF Told
  <2>4. CacheTyped'
    BY <1>1, <2>1, <2>2 DEF CacheInv, CacheTyped
  <2>5. QED
    BY <1>1, <2>1, <2>3, <2>4 DEF Apart, Fresh
<1>5. \A k \in Keys \ missed' : Latest(k)' = cache'[k]
  <2> SUFFICES ASSUME NEW k \in Keys, k \notin missed' PROVE Latest(k)' = cache'[k]
    OBVIOUS
  <2>1. Latest(k)' = LatestIn(events, view, k)
    BY <1>1 DEF Latest, LatestIn
  <2>2. LatestIn(events, view, k) = view[k]
    BY <1>3, NotTold
  <2>3. QED
    BY <1>1, <1>2, <2>1, <2>2
<1>6. QED
  BY <1>4, <1>5 DEF CacheInv, Following, Followed

\* The subscriber reads an event: it believed it already.
LEMMA ReceiveStep ==
    ASSUME CacheInv, ReceiveEvent
    PROVE  CacheInv'
<1>1. /\ events # <<>> /\ events' = Tail(events)
      /\ view' = [view EXCEPT ![Head(events).key] = Head(events).value]
      /\ UNCHANGED <<cache, inverted, emit_unchanged, reloads, work, subscribed, missed, crossed, frames>>
  BY DEF ReceiveEvent, Settings
<1>2. /\ CacheTyped /\ ChannelTyped /\ events \in Seq(Events) /\ subscribed
      /\ view \in [Keys -> Values] /\ view = [x \in Keys |-> view[x]]
  BY <1>1 DEF CacheInv, CacheTyped, ChannelTyped, Fresh
<1>3. /\ Head(events) \in Events /\ Tail(events) \in Seq(Events)
      /\ Len(Tail(events)) = Len(events) - 1 /\ Len(events) \in Nat
  BY <1>1, <1>2, HeadTailProperties, LenProperties
<1>4. ChannelTyped'
  <2>1. Head(events).key \in Keys /\ Head(events).value \in Values
    BY <1>3 DEF Events, Values
  <2>2. view' \in [Keys -> Values]
    BY <1>1, <1>2, <2>1
  <2>3. Len(events') <= EventCap
    BY <1>1, <1>2, <1>3, CacheAssumption DEF ChannelTyped
  <2>4. QED
    BY <1>1, <1>2, <1>3, <2>2, <2>3 DEF ChannelTyped
<1>5. Told(Tail(events)) \subseteq Told(events)
  <2> SUFFICES ASSUME NEW i \in DOMAIN Tail(events) PROVE Tail(events)[i].key \in Told(events)
    BY DEF Told
  <2>1. i \in 1..Len(Tail(events))
    BY <1>3, LenProperties
  <2>2. Tail(events)[i] = events[i + 1]
    BY <1>1, <1>2, <2>1, HeadTailProperties
  <2>3. i + 1 \in DOMAIN events
    BY <1>2, <1>3, <2>1, LenProperties
  <2>4. QED
    BY <2>2, <2>3 DEF Told
<1>6. CacheTyped' /\ Apart' /\ Fresh' /\ Telling'
  <2>1. WorkTyped' /\ Telling'
    BY <1>1 DEF CacheInv, CacheTyped, WorkTyped, Telling
  <2>2. CacheTyped'
    BY <1>1, <1>4, <2>1 DEF CacheInv, CacheTyped
  <2>3. Told(events)' = Told(Tail(events)) /\ missed' = missed
    BY <1>1 DEF Told
  <2>4. Apart'
    BY <1>5, <2>3 DEF CacheInv, Apart
  <2>5. QED
    BY <1>1, <1>2, <2>1, <2>2, <2>4 DEF Fresh
<1>7. ASSUME NEW k \in Keys PROVE Latest(k)' = Latest(k)
  <2>1. Latest(k)' = LatestIn(Tail(events), [view EXCEPT ![Head(events).key] = Head(events).value], k)
    BY <1>1 DEF Latest, LatestIn
  <2>2. Latest(k) = LatestIn(events, view, k)
    BY DEF Latest, LatestIn
  <2>3. QED
    BY <1>1, <1>2, <2>1, <2>2, LatestReceived
<1>8. Following'
  BY <1>1, <1>7 DEF CacheInv, Following, Followed, PendingTell
<1>9. QED
  BY <1>6, <1>8 DEF CacheInv

\* A configuration replaced, or nothing.
LEMMA SettingsStep ==
    ASSUME CacheInv, ReplaceSettings \/ UNCHANGED cacheVars
    PROVE  CacheInv'
<1>1. UNCHANGED <<cache, work, events, subscribed, view, missed, crossed, frames>>
  BY DEF ReplaceSettings, Subscriber, cacheVars
<1>2. inverted' \subseteq 1..256 /\ emit_unchanged' \in BOOLEAN /\ reloads' \in 0..MaxReloads
  <2>1. CASE ReplaceSettings
    <3>1. UNION {PositionsOf[cat] : cat \in Categories \cap ZoneCategories} \subseteq 1..256
      BY CacheAssumption
    <3>2. reloads \in 0..MaxReloads
      BY DEF CacheInv, CacheTyped
    <3>3. reloads < MaxReloads /\ reloads' = reloads + 1
      BY <2>1 DEF ReplaceSettings
    <3>4. reloads' \in 0..MaxReloads
      BY <3>2, <3>3, CacheAssumption
    <3>5. QED
      BY <2>1, <3>1, <3>4 DEF ReplaceSettings
  <2>2. CASE UNCHANGED cacheVars
    BY <2>2 DEF cacheVars, CacheInv, CacheTyped
  <2>3. QED
    BY <2>1, <2>2
<1>3. WorkTyped' /\ ChannelTyped' /\ Apart' /\ Telling'
  BY <1>1 DEF CacheInv, CacheTyped, WorkTyped, ChannelTyped, Apart, Telling
<1>4. CacheTyped' /\ Fresh'
  BY <1>1, <1>2, <1>3 DEF CacheInv, CacheTyped, Fresh, Untold
<1>5. Following'
  <2> SUFFICES ASSUME subscribed, NEW k \in Keys \ missed PROVE Followed(k)'
    BY <1>1 DEF Following
  <2>1. Followed(k)
    BY DEF CacheInv, Following
  <2>2. Latest(k)' = Latest(k) /\ PendingTell(k)' = PendingTell(k)
    BY <1>1 DEF Latest, PendingTell
  <2>3. QED
    BY <1>1, <2>1, <2>2 DEF Followed
<1>6. QED
  BY <1>3, <1>4, <1>5 DEF CacheInv

\* Nothing is read, nothing told, and nothing waits.
LEMMA CacheStart == CacheInit => CacheInv
<1> SUFFICES ASSUME CacheInit PROVE CacheInv
  OBVIOUS
<1>1. /\ cache = [k \in Keys |-> Untold(k)] /\ view = [k \in Keys |-> Untold(k)]
      /\ work = [t \in Updaters |-> NoUpdate] /\ events = <<>> /\ missed = {} /\ crossed = FALSE
      /\ reloads = 0 /\ frames = 0 /\ subscribed \in BOOLEAN /\ emit_unchanged \in BOOLEAN
  BY DEF CacheInit
<1>2. \A k \in Keys : Untold(k) \in Values
  BY DEF Untold, Values, States
<1>3. cache \in [Keys -> Values] /\ view \in [Keys -> Values]
  BY <1>1, <1>2
<1>4. inverted \subseteq 1..256
  <2>1. UNION {PositionsOf[cat] : cat \in Categories \cap ZoneCategories} \subseteq 1..256
    BY CacheAssumption
  <2>2. QED
    BY <2>1 DEF CacheInit
<1>5. events \in Seq(Events) /\ Len(events) = 0 /\ Told(events) = {}
  BY <1>1 DEF Told
<1>6. ChannelTyped
  BY <1>1, <1>3, <1>5, CacheAssumption DEF ChannelTyped
<1>7. \A t \in Updaters : work[t] = NoUpdate /\ work[t].at = "idle"
  BY <1>1 DEF NoUpdate
<1>8. WorkTyped
  <2>1. UpdateTyped(NoUpdate)
    BY DEF UpdateTyped, NoUpdate
  <2>2. work = [t \in Updaters |-> work[t]]
    BY <1>1
  <2>3. QED
    BY <1>7, <2>1, <2>2 DEF WorkTyped
<1>9. CacheTyped
  <2>1. 0 \in 0..MaxReloads /\ 0 \in 0..MaxFrames
    BY CacheAssumption
  <2>2. reloads \in 0..MaxReloads /\ frames \in 0..MaxFrames /\ crossed \in BOOLEAN
    BY <1>1, <2>1
  <2>3. QED
    BY <1>1, <1>3, <1>4, <1>6, <1>8, <2>2 DEF CacheTyped
<1>10. Telling
  BY <1>7 DEF Telling
<1>11. \A k \in Keys : Latest(k) = cache[k]
  <2> SUFFICES ASSUME NEW k \in Keys PROVE Latest(k) = cache[k]
    OBVIOUS
  <2>1. Latest(k) = LatestIn(events, view, k)
    BY DEF Latest, LatestIn
  <2>2. QED
    BY <1>1, <1>5, <2>1, NotTold
<1>12. Apart /\ Fresh /\ Following
  BY <1>1, <1>11 DEF Apart, Fresh, Following, Followed
<1>13. QED
  BY <1>9, <1>10, <1>12 DEF CacheInv

\* Every step keeps the invariant.
LEMMA CacheStep == CacheInv /\ [CacheNext]_cacheVars => CacheInv'
<1> SUFFICES ASSUME CacheInv, [CacheNext]_cacheVars PROVE CacheInv'
  OBVIOUS
<1>0. emit_unchanged \in BOOLEAN /\ \A t \in Updaters : work[t].emit_all \in BOOLEAN
  BY DEF CacheInv, CacheTyped, WorkTyped, UpdateTyped
<1>1. ASSUME NEW cat \in Categories, AutoFrame(cat) PROVE CacheInv'
  <2>1. StateWorker \in Updaters
    BY DEF Updaters
  <2>2. QED
    BY <1>1, <2>1, ParseStep DEF AutoFrame
<1>2. ASSUME NEW c \in Clients,
             \/ GetZoneStates(c) \/ GetPartitionStates(c) \/ GetOutputStates(c)
             \/ GetSystem(c) \/ GetVersions(c)
      PROVE  CacheInv'
  <2>1. c \in Updaters
    BY DEF Updaters
  <2>2. PICK cat \in Categories : Parse(c, cat, FALSE)
    BY <1>2 DEF GetZoneStates, GetPartitionStates, GetOutputStates, GetSystem, GetVersions
  <2>3. QED
    BY <2>1, <2>2, ParseStep
<1>3. ASSUME NEW c \in Clients,
             RefreshZoneStates(c) \/ RefreshPartitionStates(c) \/ RefreshOutputStates(c)
      PROVE  CacheInv'
  <2>1. c \in Updaters
    BY DEF Updaters
  <2>2. PICK cat \in Categories \cap StatusCategories : Parse(c, cat, TRUE)
    BY <1>3 DEF RefreshZoneStates, RefreshPartitionStates, RefreshOutputStates, StatusCategories
  <2>3. QED
    BY <2>1, <2>2, ParseStep
<1>4. ASSUME NEW t \in Updaters, UpdateStates(t) PROVE CacheInv'
  <2> DEFINE told == IF work[t].emit_all \/ emit_unchanged THEN DOMAIN work[t].states ELSE Changed(t)
  <2>1. Changed(t) \subseteq told /\ told \subseteq DOMAIN work[t].states
    BY DEF Changed
  <2>2. /\ work[t].at = "parsed" /\ cache' = Written(t)
        /\ Broadcast(EventsFor(work[t].category, told, work[t].states))
        /\ work' = [work EXCEPT ![t] = NoUpdate] /\ UNCHANGED <<Settings, crossed, frames>>
    BY <1>4 DEF UpdateStates
  <2>3. work[t].category \notin Versions
    BY <1>4 DEF UpdateStates, StatusCategories, ZoneCategories, PartitionCategories,
                OutputCategories, Versions
  <2> HIDE DEF told
  <2>4. QED
    BY <2>1, <2>2, <2>3, UpdateStep
<1>5. ASSUME NEW t \in Updaters, UpdateSystem(t) PROVE CacheInv'
  <2> DEFINE told == IF emit_unchanged THEN DOMAIN work[t].states ELSE Changed(t)
  <2>1. Changed(t) \subseteq told /\ told \subseteq DOMAIN work[t].states
    BY DEF Changed
  <2>2. /\ work[t].at = "parsed" /\ cache' = Written(t)
        /\ Broadcast(EventsFor(work[t].category, told, work[t].states))
        /\ work' = [work EXCEPT ![t] = NoUpdate] /\ UNCHANGED <<Settings, crossed, frames>>
    BY <1>5 DEF UpdateSystem
  <2>3. work[t].category \notin Versions
    BY <1>5 DEF UpdateSystem, Versions
  <2> HIDE DEF told
  <2>4. QED
    BY <2>1, <2>2, <2>3, UpdateStep
<1>6. ASSUME NEW t \in Updaters, UpdateZones(t) \/ UpdatePartitions(t) \/ UpdateOutputs(t)
      PROVE  CacheInv'
  BY <1>4, <1>6 DEF UpdateZones, UpdatePartitions, UpdateOutputs
<1>7. ASSUME NEW t \in Updaters, WriteVersion(t) \/ TellVersion(t) PROVE CacheInv'
  BY <1>7, WriteStep, TellStep
<1>8. CASE Subscribe \/ ReceiveEvent
  BY <1>8, SubscribeStep, ReceiveStep
<1>9. CASE ReplaceSettings \/ UNCHANGED cacheVars
  BY <1>9, SettingsStep
<1>10. QED
  BY <1>1, <1>2, <1>3, <1>5, <1>6, <1>7, <1>8, <1>9 DEF CacheNext

\* The invariant is what the event stream promises.
LEMMA CacheInvTells == CacheInv => EventsFollowCache /\ CacheTypeOK
<1> SUFFICES ASSUME CacheInv PROVE EventsFollowCache /\ CacheTypeOK
  OBVIOUS
<1>1. EventsFollowCache
  <2> SUFFICES ASSUME subscribed, NEW k \in Keys \ missed,
                      k[1] \in {"version", "report"} => ~crossed /\ ~BeingTold(k)
               PROVE  Latest(k) = cache[k]
    BY DEF EventsFollowCache
  <2>1. PendingTell(k) => BeingTold(k)
    BY DEF PendingTell, BeingTold
  <2>2. QED
    BY <2>1 DEF CacheInv, Following, Followed, Versions
<1>2. CacheTypeOK
  <2>1. Told(events) \subseteq Keys
    BY ToldKeys DEF CacheInv, CacheTyped, ChannelTyped
  <2>2. \A t \in Updaters :
        /\ work[t].at \in {"idle", "parsed", "tell"}
        /\ work[t].at # "idle" => /\ work[t].category \in Categories
                                  /\ DOMAIN work[t].states \subseteq PositionsOf[work[t].category]
        /\ work[t].at = "tell" => work[t].category \in {"version", "report"}
    BY DEF CacheInv, CacheTyped, WorkTyped, UpdateTyped, Versions
  <2>3. QED
    BY <2>1, <2>2 DEF CacheInv, CacheTyped, ChannelTyped, CacheTypeOK, Values
<1>3. QED
  BY <1>1, <1>2

\* A status that is refreshed is told at all positions of the frame.
LEMMA RefreshStep ==
    ASSUME CacheInv, CacheNext, NEW t \in Updaters, NEW k \in Keys,
           subscribed, work[t].emit_all, work'[t].at = "idle",
           k[1] = work[t].category, k[2] \in DOMAIN work[t].states,
           Cardinality(DOMAIN work[t].states) <= EventCap
    PROVE  k \notin missed' /\ Latest(k)' = work[t].states[k[2]]
<1> DEFINE cat == work[t].category
           st == work[t].states
<1>1. /\ WorkTyped /\ ChannelTyped /\ work[t].at # "idle" /\ missed \cap Told(events) = {}
      /\ cat \in Categories /\ cat \in StatusCategories /\ DOMAIN st \subseteq PositionsOf[cat]
      /\ \A i \in DOMAIN st : st[i] \in States
      /\ work = [u \in Updaters |-> work[u]]
  BY DEF CacheInv, CacheTyped, WorkTyped, UpdateTyped, Apart
<1>2. cat \notin Versions /\ cat \notin {"system_status", "trouble"}
  BY <1>1 DEF StatusCategories, ZoneCategories, PartitionCategories, OutputCategories, Versions
<1>3. work'[t] # work[t]
  BY <1>1
<1>4. UpdateStates(t)
  <2>1. ASSUME NEW c \in Updaters, NEW x \in Categories, NEW all \in BOOLEAN, Parse(c, x, all)
        PROVE  FALSE
    <3>1. c # t
      BY <1>1, <2>1 DEF Parse
    <3>2. PICK f : work' = [work EXCEPT ![c] = f]
      BY <2>1 DEF Parse
    <3>3. work'[t] = work[t]
      BY <1>1, <3>1, <3>2
    <3>4. QED
      BY <1>3, <3>3
  <2>2. \A x \in Categories : ~AutoFrame(x)
    BY <2>1 DEF AutoFrame, Updaters
  <2>3. ASSUME NEW c \in Clients,
               \/ GetZoneStates(c) \/ GetPartitionStates(c) \/ GetOutputStates(c)
               \/ GetSystem(c) \/ GetVersions(c)
        PROVE  FALSE
    <3>1. PICK x \in Categories : Parse(c, x, FALSE)
      BY <2>3 DEF GetZoneStates, GetPartitionStates, GetOutputStates, GetSystem, GetVersions
    <3>2. QED
      BY <2>1, <3>1 DEF Updaters
  <2>4. ASSUME NEW c \in Clients,
               RefreshZoneStates(c) \/ RefreshPartitionStates(c) \/ RefreshOutputStates(c)
        PROVE  FALSE
    <3>1. PICK x \in Categories : Parse(c, x, TRUE)
      BY <2>4 DEF RefreshZoneStates, RefreshPartitionStates, RefreshOutputStates
    <3>2. QED
      BY <2>1, <3>1 DEF Updaters
  <2>5. ASSUME NEW u \in Updaters, u # t, work' = [work EXCEPT ![u] = NoUpdate]
        PROVE  FALSE
    BY <1>1, <1>3, <2>5
  <2>6. ASSUME NEW u \in Updaters, UpdateZones(u) \/ UpdatePartitions(u) \/ UpdateOutputs(u)
        PROVE  UpdateStates(t)
    <3>1. UpdateStates(u)
      BY <2>6 DEF UpdateZones, UpdatePartitions, UpdateOutputs
    <3>2. work' = [work EXCEPT ![u] = NoUpdate]
      BY <3>1 DEF UpdateStates
    <3>3. u = t
      BY <2>5, <3>2
    <3>4. QED
      BY <3>1, <3>3
  <2>7. ASSUME NEW u \in Updaters, UpdateSystem(u) PROVE FALSE
    <3>1. work' = [work EXCEPT ![u] = NoUpdate] /\ work[u].category \in {"system_status", "trouble"}
      BY <2>7 DEF UpdateSystem
    <3>2. u # t
      BY <1>2, <3>1
    <3>3. QED
      BY <2>5, <3>1, <3>2
  <2>8. ASSUME NEW u \in Updaters, TellVersion(u) PROVE FALSE
    <3>1. work' = [work EXCEPT ![u] = NoUpdate] /\ work[u].at = "tell"
      BY <2>8 DEF TellVersion
    <3>2. work[u].category \in Versions
      BY <1>1, <3>1 DEF WorkTyped, UpdateTyped
    <3>3. u # t
      BY <1>2, <3>2
    <3>4. QED
      BY <2>5, <3>1, <3>3
  <2>9. ASSUME NEW u \in Updaters, WriteVersion(u) PROVE FALSE
    <3>1. work' = [work EXCEPT ![u].at = "tell"] /\ work[u].category \in Versions
      BY <2>9 DEF WriteVersion, Versions
    <3>2. u # t
      BY <1>2, <3>1
    <3>3. work'[t] = work[t]
      BY <1>1, <3>1, <3>2
    <3>4. QED
      BY <1>3, <3>3
  <2>10. ~Subscribe /\ ~ReceiveEvent /\ ~ReplaceSettings
    BY <1>3 DEF Subscribe, ReceiveEvent, ReplaceSettings
  <2>11. QED
    BY <2>2, <2>3, <2>4, <2>6, <2>7, <2>8, <2>9, <2>10 DEF CacheNext
<1>5. Broadcast(EventsFor(cat, DOMAIN st, st))
  BY <1>4 DEF UpdateStates
<1>6. k = <<cat, k[2]>> /\ k[2] \in DOMAIN st
  BY PartsOf
<1> HIDE DEF cat
<1>7. /\ \A x \in Keys \ missed' : \A i \in DOMAIN st : x = <<cat, i>> => Latest(x)' = st[i]
      /\ Cardinality(DOMAIN st) <= EventCap => \A i \in DOMAIN st : <<cat, i>> \notin missed'
  BY <1>1, <1>5, BroadcastTells
<1>8. k \notin missed'
  BY <1>6, <1>7
<1>9. QED
  BY <1>6, <1>7, <1>8

-----------------------------------------------------------------------------
(* The theorems of the cache. *)

\* The invariant holds in every state.
LEMMA CacheInvAlways == CacheSpec => []CacheInv
BY CacheStart, CacheStep, PTL DEF CacheSpec

\* A cache and a channel of their types, no more events than the channel holds
\* (state.rs:1170-1226, client.rs:65-105).
THEOREM CacheIsTyped == CacheSpec => []CacheTypeOK
BY CacheInvAlways, CacheInvTells, PTL

\* A subscriber comes to what the cache holds, whatever the order of pushes, answers and
\* replaced configurations, of any positions, tasks and channel (client_internal.rs:42-58,
\* 108-426): what it lost to lag or to a late subscription apart, and the versions that
\* two tasks wrote while the first had still to tell.
THEOREM EventsAlwaysFollow == CacheSpec => []EventsFollowCache
BY CacheInvAlways, CacheInvTells, PTL

\* A refresh makes good what was lost (client.rs:1492-1668), if the channel holds it.
THEOREM RefreshAlwaysHeals == CacheSpec => RefreshHeals
<1> DEFINE Healed == \A t \in Updaters, k \in Keys :
                /\ subscribed /\ work[t].emit_all /\ work'[t].at = "idle"
                /\ k[1] = work[t].category /\ k[2] \in DOMAIN work[t].states
                /\ Cardinality(DOMAIN work[t].states) <= EventCap
                => k \notin missed' /\ Latest(k)' = work[t].states[k[2]]
<1>1. CacheInv /\ [CacheNext]_cacheVars => [Healed]_cacheVars
  BY RefreshStep
<1> HIDE DEF Healed
<1>2. CacheSpec => [][Healed]_cacheVars
  BY <1>1, CacheInvAlways, PTL DEF CacheSpec
<1>3. QED
  BY <1>2 DEF RefreshHeals, Healed

-----------------------------------------------------------------------------
(* The mask and the dispatch. *)

\* The commands a mask asks for on account of an option are those that are written to
\* its category.
LEMMA MaskMatchesDispatch ==
    ASSUME NEW cmd \in 0..95, NEW option \in Options
    PROVE  cmd \in MaskOf(option) <=> Category(cmd) = option
<1>1. (cmd \in MaskOf("zones_violation")) <=> (Category(cmd) = "zones_violation")
  BY DEF MaskOf, MaskBits, Category, SystemCommands, MemoryCommands
<1>2. (cmd \in MaskOf("zones_tamper")) <=> (Category(cmd) = "zones_tamper")
  BY DEF MaskOf, MaskBits, Category, SystemCommands, MemoryCommands
<1>3. (cmd \in MaskOf("zones_alarm")) <=> (Category(cmd) = "zones_alarm")
  BY DEF MaskOf, MaskBits, Category, SystemCommands, MemoryCommands
<1>4. (cmd \in MaskOf("zones_tamper_alarm")) <=> (Category(cmd) = "zones_tamper_alarm")
  BY DEF MaskOf, MaskBits, Category, SystemCommands, MemoryCommands
<1>5. (cmd \in MaskOf("zones_alarm_memory")) <=> (Category(cmd) = "zones_alarm_memory")
  BY DEF MaskOf, MaskBits, Category, SystemCommands, MemoryCommands
<1>6. (cmd \in MaskOf("zones_tamper_alarm_memory")) <=> (Category(cmd) = "zones_tamper_alarm_memory")
  BY DEF MaskOf, MaskBits, Category, SystemCommands, MemoryCommands
<1>7. (cmd \in MaskOf("zones_bypass")) <=> (Category(cmd) = "zones_bypass")
  BY DEF MaskOf, MaskBits, Category, SystemCommands, MemoryCommands
<1>8. (cmd \in MaskOf("zones_no_violation_trouble")) <=> (Category(cmd) = "zones_no_violation_trouble")
  BY DEF MaskOf, MaskBits, Category, SystemCommands, MemoryCommands
<1>9. (cmd \in MaskOf("zones_long_violation_trouble")) <=> (Category(cmd) = "zones_long_violation_trouble")
  BY DEF MaskOf, MaskBits, Category, SystemCommands, MemoryCommands
<1>10. (cmd \in MaskOf("partitions_armed_suppressed")) <=> (Category(cmd) = "partitions_armed_suppressed")
  BY DEF MaskOf, MaskBits, Category, SystemCommands, MemoryCommands
<1>11. (cmd \in MaskOf("partitions_armed_really")) <=> (Category(cmd) = "partitions_armed_really")
  BY DEF MaskOf, MaskBits, Category, SystemCommands, MemoryCommands
<1>12. (cmd \in MaskOf("partitions_alarm")) <=> (Category(cmd) = "partitions_alarm")
  BY DEF MaskOf, MaskBits, Category, SystemCommands, MemoryCommands
<1>13. (cmd \in MaskOf("partitions_alarm_memory")) <=> (Category(cmd) = "partitions_alarm_memory")
  BY DEF MaskOf, MaskBits, Category, SystemCommands, MemoryCommands
<1>14. (cmd \in MaskOf("partitions_entry_time")) <=> (Category(cmd) = "partitions_entry_time")
  BY DEF MaskOf, MaskBits, Category, SystemCommands, MemoryCommands
<1>15. (cmd \in MaskOf("partitions_exit_time")) <=> (Category(cmd) = "partitions_exit_time")
  BY DEF MaskOf, MaskBits, Category, SystemCommands, MemoryCommands
<1>16. (cmd \in MaskOf("outputs_state")) <=> (Category(cmd) = "outputs_state")
  BY DEF MaskOf, MaskBits, Category, SystemCommands, MemoryCommands
<1>17. (cmd \in MaskOf("system_troubles")) <=> (Category(cmd) = "system_troubles")
  BY DEF MaskOf, MaskBits, Category, SystemCommands, MemoryCommands
<1>18. (cmd \in MaskOf("troubles_memory")) <=> (Category(cmd) = "troubles_memory")
  BY DEF MaskOf, MaskBits, Category, SystemCommands, MemoryCommands
<1>19. QED
  BY <1>1, <1>2, <1>3, <1>4, <1>5, <1>6, <1>7, <1>8, <1>9,
     <1>10, <1>11, <1>12, <1>13, <1>14, <1>15, <1>16, <1>17, <1>18 DEF Options

\* The bits of a mask are numbers of commands.
LEMMA MaskIsCommands ==
    ASSUME NEW option \in Options
    PROVE  MaskOf(option) \subseteq 0..95
<1>1. MaskOf("zones_violation") \subseteq 0..95
  BY DEF MaskOf, MaskBits
<1>2. MaskOf("zones_tamper") \subseteq 0..95
  BY DEF MaskOf, MaskBits
<1>3. MaskOf("zones_alarm") \subseteq 0..95
  BY DEF MaskOf, MaskBits
<1>4. MaskOf("zones_tamper_alarm") \subseteq 0..95
  BY DEF MaskOf, MaskBits
<1>5. MaskOf("zones_alarm_memory") \subseteq 0..95
  BY DEF MaskOf, MaskBits
<1>6. MaskOf("zones_tamper_alarm_memory") \subseteq 0..95
  BY DEF MaskOf, MaskBits
<1>7. MaskOf("zones_bypass") \subseteq 0..95
  BY DEF MaskOf, MaskBits
<1>8. MaskOf("zones_no_violation_trouble") \subseteq 0..95
  BY DEF MaskOf, MaskBits
<1>9. MaskOf("zones_long_violation_trouble") \subseteq 0..95
  BY DEF MaskOf, MaskBits
<1>10. MaskOf("partitions_armed_suppressed") \subseteq 0..95
  BY DEF MaskOf, MaskBits
<1>11. MaskOf("partitions_armed_really") \subseteq 0..95
  BY DEF MaskOf, MaskBits
<1>12. MaskOf("partitions_alarm") \subseteq 0..95
  BY DEF MaskOf, MaskBits
<1>13. MaskOf("partitions_alarm_memory") \subseteq 0..95
  BY DEF MaskOf, MaskBits
<1>14. MaskOf("partitions_entry_time") \subseteq 0..95
  BY DEF MaskOf, MaskBits
<1>15. MaskOf("partitions_exit_time") \subseteq 0..95
  BY DEF MaskOf, MaskBits
<1>16. MaskOf("outputs_state") \subseteq 0..95
  BY DEF MaskOf, MaskBits
<1>17. MaskOf("system_troubles") \subseteq 0..95
  BY DEF MaskOf, MaskBits
<1>18. MaskOf("troubles_memory") \subseteq 0..95
  BY DEF MaskOf, MaskBits
<1>19. QED
  BY <1>1, <1>2, <1>3, <1>4, <1>5, <1>6, <1>7, <1>8, <1>9,
     <1>10, <1>11, <1>12, <1>13, <1>14, <1>15, <1>16, <1>17, <1>18 DEF Options

\* A whole mask asks for what is wanted, and is no missing one.
LEMMA PushMaskAsks ==
    ASSUME NEW options, options \subseteq Options
    PROVE  /\ PushMask(options) \subseteq 0..95 /\ PushMask(options) # NoMask
           /\ \A cmd \in 0..95 : cmd \in PushMask(options) <=> Category(cmd) \in options
<1>1. PushMask(options) \subseteq 0..95
  BY MaskIsCommands DEF PushMask
<1>2. PushMask(options) # NoMask
  <2>1. -1 \in NoMask /\ -1 \notin 0..95
    BY DEF NoMask
  <2>2. QED
    BY <1>1, <2>1
<1>3. ASSUME NEW cmd \in 0..95 PROVE cmd \in PushMask(options) <=> Category(cmd) \in options
  <2>1. ASSUME cmd \in PushMask(options) PROVE Category(cmd) \in options
    <3>1. PICK option \in options : cmd \in MaskOf(option)
      BY <2>1 DEF PushMask
    <3>2. Category(cmd) = option
      BY <3>1, MaskMatchesDispatch
    <3>3. QED
      BY <3>2
  <2>2. ASSUME Category(cmd) \in options PROVE cmd \in PushMask(options)
    <3>1. cmd \in MaskOf(Category(cmd))
      BY <2>2, MaskMatchesDispatch
    <3>2. QED
      BY <2>2, <3>1 DEF PushMask
  <2>3. QED
    BY <2>1, <2>2
<1>4. QED
  BY <1>1, <1>2, <1>3

\* A mask on its way, and one the panel took, are those of the options, unless a change
\* of them is under way; a connect begins without subscriptions.
MaskInv ==
    /\ wanted \subseteq Options
    /\ exchanging # NoMask => link # "down"
    /\ ~auto_read_dirty /\ storing = "no" /\ exchanging # NoMask => exchanging = PushMask(wanted)
    /\ link = "connecting" => asked = {}
    /\ link = "connecting" /\ exchanging = NoMask => ~refused /\ ~astray
    /\ link = "up" /\ ~auto_read_dirty /\ storing = "no" /\ exchanging = NoMask /\ ~refused /\ ~astray =>
           asked = PushMask(wanted) /\ (wanted # {} => active = wanted)

\* The mask and the report agree initially, and after every step.
LEMMA MaskAlways == TroublesSpec => []MaskInv
<1>1. TroublesInit => MaskInv
  BY OptionSetsAssumption DEF TroublesInit, MaskInv
<1>2. MaskInv /\ [TroublesNext]_troublesVars => MaskInv'
  <2> SUFFICES ASSUME MaskInv, [TroublesNext]_troublesVars PROVE MaskInv'
    OBVIOUS
  <2>0. wanted \subseteq Options
    BY DEF MaskInv
  <2> USE DEF Mask, Reload
  <2>1. ASSUME NEW options \in OptionSets, NEW how \in {"hot", "full"}, StoreOptions(options, how)
        PROVE  MaskInv'
    <3>1. wanted' \subseteq Options /\ storing' # "no"
      BY <2>1, OptionSetsAssumption DEF StoreOptions
    <3>2. UNCHANGED <<link, exchanging, asked, refused, astray>>
      BY <2>1 DEF StoreOptions
    <3>3. QED
      BY <3>1, <3>2 DEF MaskInv
  <2>2. CASE RaiseDirty
    BY <2>0, <2>2 DEF RaiseDirty, MaskInv
  <2>3. CASE ReloadDisconnects
    BY <2>0, <2>3 DEF ReloadDisconnects, MaskInv
  <2>4. CASE Connect
    BY <2>0, <2>4 DEF Connect, MaskInv
  <2>5. CASE ConnectMask
    <3>1. CASE wanted # {}
      <4>1. exchanging' = PushMask(wanted) /\ UNCHANGED <<wanted, link, asked>> /\ link = "connecting"
        BY <2>5, <3>1 DEF ConnectMask
      <4>2. exchanging' # NoMask /\ exchanging' = PushMask(wanted')
        BY <2>0, <4>1, PushMaskAsks
      <4>3. QED
        BY <2>0, <4>1, <4>2 DEF MaskInv
    <3>2. CASE wanted = {}
      <4>1. /\ exchanging' = NoMask /\ link' = "up"
            /\ UNCHANGED <<wanted, auto_read_dirty, storing, asked, active, refused, astray>>
        BY <2>5, <3>2 DEF ConnectMask
      <4>2. asked = {} /\ PushMask(wanted) = {}
        BY <2>5, <3>2 DEF ConnectMask, MaskInv, PushMask
      <4>3. QED
        BY <2>0, <3>2, <4>1, <4>2 DEF MaskInv
    <3>3. QED
      BY <3>1, <3>2
  <2>6. CASE ResendMask
    <3>1. exchanging' = PushMask(wanted) /\ wanted' = wanted /\ link' = link /\ link = "up"
      BY <2>6 DEF ResendMask
    <3>2. exchanging' # NoMask /\ exchanging' = PushMask(wanted')
      BY <2>0, <3>1, PushMaskAsks
    <3>3. QED
      BY <2>0, <3>1, <3>2 DEF MaskInv
  <2>7. CASE MaskAnswered
    <3>1. /\ exchanging # NoMask /\ exchanging' = NoMask /\ link' = "up"
          /\ UNCHANGED <<wanted, auto_read_dirty, storing>>
      BY <2>7 DEF MaskAnswered
    <3>2. ~refused' /\ ~astray' => asked' = exchanging /\ active' = wanted
      BY <2>7 DEF MaskAnswered
    <3>3. QED
      BY <2>0, <3>1, <3>2 DEF MaskInv
  <2>8. CASE MaskFails
    BY <2>0, <2>8 DEF MaskFails, MaskInv
  <2>9. CASE LoseConnection
    BY <2>0, <2>9 DEF LoseConnection, MaskInv
  <2>10. ASSUME NEW cmd \in TroubleCommands, PushTroubles(cmd) \/ GetTroubles(cmd) PROVE MaskInv'
    BY <2>10 DEF PushTroubles, GetTroubles, Pushing, MaskInv
  <2>11. CASE UNCHANGED troublesVars
    BY <2>11 DEF troublesVars, Pushing, MaskInv
  <2>12. QED
    BY <2>1, <2>2, <2>3, <2>4, <2>5, <2>6, <2>7, <2>8, <2>9, <2>10, <2>11 DEF TroublesNext
<1>3. QED
  BY <1>1, <1>2, PTL DEF TroublesSpec

\* On a connection with no change under way the panel pushes what is wanted, and the
\* report of what is wanted says so, whatever options are chosen, however often they are
\* replaced and however reloads, connects, losses and late answers fall between the
\* building of a mask, its answer and the report (worker.rs:412-640,
\* auto_requester.rs:72-184).
THEOREM AskedAlwaysWanted == TroublesSpec => []AskedIsWanted
<1>1. MaskInv => AskedIsWanted
  BY PushMaskAsks DEF MaskInv, AskedIsWanted
<1>2. QED
  BY <1>1, MaskAlways, PTL

-----------------------------------------------------------------------------
(* The trouble frames: the tables of the cache and the slices of the parts. *)

\* A key that the comparison of the cache with the parts is about.
Compared(k) ==
    /\ k[1] \notin {"GenericTrouble", "unused"}
    /\ k[1] = "ExpanderAcuJammedOrShortCircuit" => k[2] <= 30

\* A bit lies in a field, and is the key of one of its units.
Covers(f, b) == f.first <= b /\ b < f.first + f.units * f.width
KeyAt(f, b)  == <<f.trouble, f.start + ((b - f.first) \div f.width), f.memory>>

\* What a bit shows by a table of fields.
Shows(fields, b, w) ==
    \E f \in fields : Covers(f, b) /\ Compared(KeyAt(f, b)) /\ w = Whole(KeyAt(f, b))

\* Two tables that show the same, whatever the frame.
Alike(F, G) == \A b \in Nat : \A w : Shows(F, b, w) <=> Shows(G, b, w)

\* The command whose table has the key, of all keys that are told.
Owner(k) ==
    CASE k[1] = "TechnicalZoneTrouble" ->
             IF k[2] > 128 THEN 45 ELSE IF k[3] THEN 32 ELSE 27
      [] k[1] = "ExpanderAcuJammedOrShortCircuit" ->
             IF k[2] > 16 THEN 34 ELSE IF k[3] THEN 33 ELSE 28
      [] k[1] \in {"ExpanderCardReaderHeadA", "ExpanderCardReaderHeadB",
                   "ExpanderSupplyOverload"} -> IF k[3] THEN 33 ELSE 28
      [] k[1] \in {"KeypadRestart", "ExpanderRestart", "PanelCmeError"} -> 33
      [] k[1] = "AcuJamLevel" -> IF k[2] > 15 THEN 45 ELSE 29
      [] k[1] \in {"WirelessDeviceLowBattery", "WirelessDeviceNoComm", "WirelessOutputNoComm"} ->
             IF k[2] > 136 THEN (IF k[3] THEN 46 ELSE 44) ELSE IF k[3] THEN 34 ELSE 29
      [] k[1] \in {"ExpanderNoComm", "ExpanderSubstituted", "KeypadNoComm", "KeypadSubstituted",
                   "EthmNoLanCable", "ExpanderTamper", "KeypadTamper", "KeypadInitError",
                   "AuxiliaryStmTroubles"} -> IF k[3] THEN 35 ELSE 30
      [] k[1] \in {"MasterKeyFobLowBattery", "UserKeyFobLowBattery"} -> 31
      [] k[1] \in {"ZoneLongViolationTrouble", "ZoneNoViolationTrouble", "ZoneTamperTrouble"} ->
             IF k[2] > 128 THEN 47 ELSE 36
      [] k[1] \in {GsmFlags[i] : i \in 1..25} \cup {"CmeError1", "CmeError2"} ->
             IF k[3] THEN 49 ELSE 48
      [] OTHER -> IF k[3] THEN 32 ELSE 27

\* A field of the table of a command: its keys are of that command.
Owned(f, cmd) ==
    /\ f.first \in Nat /\ f.units \in Nat /\ f.width \in {1, 8, 16} /\ f.start \in Nat
    /\ f.trouble \notin {"GenericTrouble", "unused"} =>
           \A n \in f.start .. (f.start + f.units - 1) : Owner(<<f.trouble, n, f.memory>>) = cmd

\* The table of each command.
LEMMA RulesAre ==
    /\ RulesOf[27] = RulesPart1(FALSE) /\ RulesOf[32] = RulesPart1(TRUE)
    /\ RulesOf[28] = RulesPart2(FALSE) /\ RulesOf[33] = RulesMemoryPart2
    /\ RulesOf[29] = RulesPart3 /\ RulesOf[34] = RulesMemoryPart3
    /\ RulesOf[30] = RulesPart4(FALSE) /\ RulesOf[35] = RulesPart4(TRUE)
    /\ RulesOf[31] = RulesPart5 /\ RulesOf[36] = RulesZones(1)
    /\ RulesOf[44] = Wireless(0, 137, FALSE) /\ RulesOf[46] = Wireless(0, 137, TRUE)
    /\ RulesOf[45] = RulesPart7 /\ RulesOf[47] = RulesZones(129)
    /\ RulesOf[48] = GsmBlock(FALSE) /\ RulesOf[49] = GsmBlock(TRUE)
<1>1. RulesOf[27] = RulesPart1(FALSE)
  <2>1. RulesOf[27] = RulesPart1(27 = 32)
    BY DEF RulesOf, TroubleCommands, SystemCommands, MemoryCommands
  <2>2. (27 = 32) = FALSE
    OBVIOUS
  <2>3. QED
    BY <2>1, <2>2, Zenon
<1>2. RulesOf[32] = RulesPart1(TRUE)
  <2>1. RulesOf[32] = RulesPart1(32 = 32)
    BY DEF RulesOf, TroubleCommands, SystemCommands, MemoryCommands
  <2>2. (32 = 32) = TRUE
    OBVIOUS
  <2>3. QED
    BY <2>1, <2>2, Zenon
<1>3. RulesOf[28] = RulesPart2(FALSE)
  BY DEF RulesOf, TroubleCommands, SystemCommands, MemoryCommands
<1>4. RulesOf[33] = RulesMemoryPart2
  BY DEF RulesOf, TroubleCommands, SystemCommands, MemoryCommands
<1>5. RulesOf[29] = RulesPart3
  BY DEF RulesOf, TroubleCommands, SystemCommands, MemoryCommands
<1>6. RulesOf[34] = RulesMemoryPart3
  BY DEF RulesOf, TroubleCommands, SystemCommands, MemoryCommands
<1>7. RulesOf[30] = RulesPart4(FALSE)
  <2>1. RulesOf[30] = RulesPart4(30 = 35)
    BY DEF RulesOf, TroubleCommands, SystemCommands, MemoryCommands
  <2>2. (30 = 35) = FALSE
    OBVIOUS
  <2>3. QED
    BY <2>1, <2>2, Zenon
<1>8. RulesOf[35] = RulesPart4(TRUE)
  <2>1. RulesOf[35] = RulesPart4(35 = 35)
    BY DEF RulesOf, TroubleCommands, SystemCommands, MemoryCommands
  <2>2. (35 = 35) = TRUE
    OBVIOUS
  <2>3. QED
    BY <2>1, <2>2, Zenon
<1>9. RulesOf[31] = RulesPart5
  BY DEF RulesOf, TroubleCommands, SystemCommands, MemoryCommands
<1>10. RulesOf[36] = RulesZones(1)
  BY DEF RulesOf, TroubleCommands, SystemCommands, MemoryCommands
<1>11. RulesOf[44] = Wireless(0, 137, FALSE)
  <2>1. RulesOf[44] = Wireless(0, 137, 44 = 46)
    BY DEF RulesOf, TroubleCommands, SystemCommands, MemoryCommands
  <2>2. (44 = 46) = FALSE
    OBVIOUS
  <2>3. QED
    BY <2>1, <2>2, Zenon
<1>12. RulesOf[46] = Wireless(0, 137, TRUE)
  <2>1. RulesOf[46] = Wireless(0, 137, 46 = 46)
    BY DEF RulesOf, TroubleCommands, SystemCommands, MemoryCommands
  <2>2. (46 = 46) = TRUE
    OBVIOUS
  <2>3. QED
    BY <2>1, <2>2, Zenon
<1>13. RulesOf[45] = RulesPart7
  BY DEF RulesOf, TroubleCommands, SystemCommands, MemoryCommands
<1>14. RulesOf[47] = RulesZones(129)
  BY DEF RulesOf, TroubleCommands, SystemCommands, MemoryCommands
<1>15. RulesOf[48] = GsmBlock(FALSE)
  <2>1. RulesOf[48] = GsmBlock(48 = 49)
    BY DEF RulesOf, TroubleCommands, SystemCommands, MemoryCommands
  <2>2. (48 = 49) = FALSE
    OBVIOUS
  <2>3. QED
    BY <2>1, <2>2, Zenon
<1>16. RulesOf[49] = GsmBlock(TRUE)
  <2>1. RulesOf[49] = GsmBlock(49 = 49)
    BY DEF RulesOf, TroubleCommands, SystemCommands, MemoryCommands
  <2>2. (49 = 49) = TRUE
    OBVIOUS
  <2>3. QED
    BY <2>1, <2>2, Zenon
<1>17. QED
  BY <1>1, <1>2, <1>3, <1>4, <1>5, <1>6, <1>7, <1>8, <1>9, <1>10, <1>11, <1>12, <1>13, <1>14, <1>15, <1>16

\* The slices of each command.
LEMMA PartsAre ==
    /\ PartOf[27] = Part1(FALSE) /\ PartOf[32] = Part1(TRUE)
    /\ PartOf[28] = Part2(FALSE) /\ PartOf[33] = MemoryPart2
    /\ PartOf[29] = Part3 /\ PartOf[34] = MemoryPart3
    /\ PartOf[30] = Part4(FALSE) /\ PartOf[35] = Part4(TRUE)
    /\ PartOf[31] = Part5 /\ PartOf[36] = ZonesPart(1)
    /\ PartOf[44] = Devices(0, 121, FALSE) /\ PartOf[46] = Devices(0, 121, TRUE)
    /\ PartOf[45] = Part7 /\ PartOf[47] = ZonesPart(129)
    /\ PartOf[48] = Part8(FALSE) /\ PartOf[49] = Part8(TRUE)
<1>1. PartOf[27] = Part1(FALSE)
  <2>1. PartOf[27] = Part1(27 = 32)
    BY DEF PartOf, TroubleCommands, SystemCommands, MemoryCommands
  <2>2. (27 = 32) = FALSE
    OBVIOUS
  <2>3. QED
    BY <2>1, <2>2, Zenon
<1>2. PartOf[32] = Part1(TRUE)
  <2>1. PartOf[32] = Part1(32 = 32)
    BY DEF PartOf, TroubleCommands, SystemCommands, MemoryCommands
  <2>2. (32 = 32) = TRUE
    OBVIOUS
  <2>3. QED
    BY <2>1, <2>2, Zenon
<1>3. PartOf[28] = Part2(FALSE)
  BY DEF PartOf, TroubleCommands, SystemCommands, MemoryCommands
<1>4. PartOf[33] = MemoryPart2
  BY DEF PartOf, TroubleCommands, SystemCommands, MemoryCommands
<1>5. PartOf[29] = Part3
  BY DEF PartOf, TroubleCommands, SystemCommands, MemoryCommands
<1>6. PartOf[34] = MemoryPart3
  BY DEF PartOf, TroubleCommands, SystemCommands, MemoryCommands
<1>7. PartOf[30] = Part4(FALSE)
  <2>1. PartOf[30] = Part4(30 = 35)
    BY DEF PartOf, TroubleCommands, SystemCommands, MemoryCommands
  <2>2. (30 = 35) = FALSE
    OBVIOUS
  <2>3. QED
    BY <2>1, <2>2, Zenon
<1>8. PartOf[35] = Part4(TRUE)
  <2>1. PartOf[35] = Part4(35 = 35)
    BY DEF PartOf, TroubleCommands, SystemCommands, MemoryCommands
  <2>2. (35 = 35) = TRUE
    OBVIOUS
  <2>3. QED
    BY <2>1, <2>2, Zenon
<1>9. PartOf[31] = Part5
  BY DEF PartOf, TroubleCommands, SystemCommands, MemoryCommands
<1>10. PartOf[36] = ZonesPart(1)
  BY DEF PartOf, TroubleCommands, SystemCommands, MemoryCommands
<1>11. PartOf[44] = Devices(0, 121, FALSE)
  <2>1. PartOf[44] = Devices(0, 121, 44 = 46)
    BY DEF PartOf, TroubleCommands, SystemCommands, MemoryCommands
  <2>2. (44 = 46) = FALSE
    OBVIOUS
  <2>3. QED
    BY <2>1, <2>2, Zenon
<1>12. PartOf[46] = Devices(0, 121, TRUE)
  <2>1. PartOf[46] = Devices(0, 121, 46 = 46)
    BY DEF PartOf, TroubleCommands, SystemCommands, MemoryCommands
  <2>2. (46 = 46) = TRUE
    OBVIOUS
  <2>3. QED
    BY <2>1, <2>2, Zenon
<1>13. PartOf[45] = Part7
  BY DEF PartOf, TroubleCommands, SystemCommands, MemoryCommands
<1>14. PartOf[47] = ZonesPart(129)
  BY DEF PartOf, TroubleCommands, SystemCommands, MemoryCommands
<1>15. PartOf[48] = Part8(FALSE)
  <2>1. PartOf[48] = Part8(48 = 49)
    BY DEF PartOf, TroubleCommands, SystemCommands, MemoryCommands
  <2>2. (48 = 49) = FALSE
    OBVIOUS
  <2>3. QED
    BY <2>1, <2>2, Zenon
<1>16. PartOf[49] = Part8(TRUE)
  <2>1. PartOf[49] = Part8(49 = 49)
    BY DEF PartOf, TroubleCommands, SystemCommands, MemoryCommands
  <2>2. (49 = 49) = TRUE
    OBVIOUS
  <2>3. QED
    BY <2>1, <2>2, Zenon
<1>17. QED
  BY <1>1, <1>2, <1>3, <1>4, <1>5, <1>6, <1>7, <1>8, <1>9, <1>10, <1>11, <1>12, <1>13, <1>14, <1>15, <1>16

\* The keys of a frame are those of its bits, field by field.
LEMMA SetKeysAre ==
    ASSUME NEW F, NEW B, NEW k
    PROVE  k \in SetKeys(F, B) <=> \E b \in B : \E f \in F : Covers(f, b) /\ k = KeyAt(f, b)
  BY DEF SetKeys, Covers, KeyAt

\* What is compared of a frame is what its bits show.
LEMMA ComparableShows ==
    ASSUME NEW F, NEW B, NEW w
    PROVE  w \in Comparable(SetKeys(F, B)) <=> \E b \in B : Shows(F, b, w)
<1>1. w \in Comparable(SetKeys(F, B)) <=> \E k \in SetKeys(F, B) : Compared(k) /\ w = Whole(k)
  BY DEF Comparable, Compared
<1>2. QED
  BY <1>1, SetKeysAre DEF Shows

\* What is compared of many sets of keys is what is compared of each.
LEMMA ComparableUnion ==
    ASSUME NEW S, NEW w
    PROVE  w \in Comparable(UNION S) <=> \E keys \in S : w \in Comparable(keys)
  BY DEF Comparable

\* A table shows what it shows.
LEMMA AlikeItself == ASSUME NEW F PROVE Alike(F, F)
  BY DEF Alike

\* Tables may be compared piece by piece.
LEMMA AlikeUnion ==
    ASSUME NEW F1, NEW F2, NEW G1, NEW G2, Alike(F1, G1), Alike(F2, G2)
    PROVE  Alike(F1 \cup F2, G1 \cup G2)
  BY DEF Alike, Shows

\* The slices of part 2 are its table.
LEMMA Part2Alike == ASSUME NEW m PROVE Part2(m) = RulesPart2(m)
  BY DEF Part2, RulesPart2, Slice, Bitmask

\* A byte of part 1 shows the eight modules of its table, taken as a whole.
LEMMA ByteAlike ==
    ASSUME NEW o \in Nat, NEW m,
           NEW t \in {"EthmPingTrouble", "EthmServerIdError", "EthmSatelServerConnectionError"}
    PROVE  Alike(ModuleMask(o, m, t), Byte(o, m, t))
  BY DEF Alike, Shows, ModuleMask, Bitmask, Byte, Field, Covers, KeyAt, Compared, Whole

\* Of two bytes of ACU modules, the table has the first 14 and the slice all, of which 14
\* are compared.
LEMMA LimitAlike ==
    ASSUME NEW o \in Nat, NEW m
    PROVE  Alike(BitmaskLimit(o, 14, 17, m, "ExpanderAcuJammedOrShortCircuit"),
                 Slice(o, o + 2, 17, m, "ExpanderAcuJammedOrShortCircuit"))
  BY DEF Alike, Shows, BitmaskLimit, Slice, Field, Covers, KeyAt, Compared, Whole

\* The keys of part 1 are those of 0x1B, of its memory 0x20.
LEMMA Part1Owned ==
    ASSUME NEW m \in BOOLEAN
    PROVE  \A f \in RulesPart1(m) : Owned(f, IF m THEN 32 ELSE 27)
<1> DEFINE cmd == IF m THEN 32 ELSE 27
<1>1. \A f \in Bitmask(0, 16, 1, m, "TechnicalZoneTrouble")
               \cup Bitmask(16, 8, 1, m, "ExpanderAcLoss")
               \cup Bitmask(24, 8, 1, m, "ExpanderBatteryLow")
               \cup Bitmask(32, 8, 1, m, "ExpanderBatteryMissing") : Owned(f, cmd)
  BY SMTT(30) DEF Bitmask, Field, Owned, Owner, GsmFlags
<1>2. \A f \in SystemTroubles(m) : Owned(f, cmd)
  BY DEF SystemTroubles, BitmaskLimit, Flags, Field, Owned, Owner, GsmFlags
<1>3. \A f \in ModuleMask(43, m, "EthmPingTrouble")
               \cup ModuleMask(44, m, "EthmServerIdError")
               \cup ModuleMask(45, m, "EthmSatelServerConnectionError") : Owned(f, cmd)
  BY DEF ModuleMask, Bitmask, Field, Owned, Owner, GsmFlags
<1>4. \A f \in EthmPtsaStatus(m) : Owned(f, cmd)
  BY DEF EthmPtsaStatus, Flags, Field, Owned, Owner, GsmFlags
<1> HIDE DEF cmd
<1>5. \A f \in RulesPart1(m) : Owned(f, cmd)
  BY <1>1, <1>2, <1>3, <1>4 DEF RulesPart1
<1>6. QED
  BY <1>5 DEF cmd

\* The keys that part 2 shares with its memory.
LEMMA Part2Owned ==
    ASSUME NEW m \in BOOLEAN
    PROVE  \A f \in RulesPart2(m) : Owned(f, IF m THEN 33 ELSE 28)
  BY DEF RulesPart2, Bitmask, Field, Owned, Owner, GsmFlags

\* The keys of the GSM block, reserved bits aside.
LEMMA GsmOwned ==
    ASSUME NEW m \in BOOLEAN
    PROVE  \A f \in GsmBlock(m) : Owned(f, IF m THEN 49 ELSE 48)
<1> DEFINE cmd == IF m THEN 49 ELSE 48
<1>1. ASSUME NEW k \in 0..7
      PROVE  /\ \A f \in Flags(8 * k, k, m, GsmFlags) : Owned(f, cmd)
             /\ \A f \in Field(64 * k + 25, 7, 1, 64 * k + 25, m, "GenericTrouble") : Owned(f, cmd)
             /\ \A f \in Field(64 * k + 32, 1, 16, k, m, "CmeError1") : Owned(f, cmd)
             /\ \A f \in Field(64 * k + 48, 1, 16, k, m, "CmeError2") : Owned(f, cmd)
  <2>1. \A f \in Flags(8 * k, k, m, GsmFlags) : Owned(f, cmd)
    BY DEF Flags, Field, Owned, Owner, GsmFlags
  <2>2. \A f \in Field(64 * k + 25, 7, 1, 64 * k + 25, m, "GenericTrouble") : Owned(f, cmd)
    BY DEF Field, Owned
  <2>3. \A f \in Field(64 * k + 32, 1, 16, k, m, "CmeError1") : Owned(f, cmd)
    BY DEF Field, Owned, Owner, GsmFlags
  <2>4. \A f \in Field(64 * k + 48, 1, 16, k, m, "CmeError2") : Owned(f, cmd)
    BY DEF Field, Owned, Owner, GsmFlags
  <2>5. QED
    BY <2>1, <2>2, <2>3, <2>4
<1> HIDE DEF cmd
<1>2. \A f \in GsmBlock(m) : Owned(f, cmd)
  BY <1>1, ZenonT(40) DEF GsmBlock
<1>3. QED
  BY <1>2 DEF cmd

\* The keys of the other tables.
LEMMA RestOwned ==
    /\ \A f \in RulesMemoryPart2 : Owned(f, 33)
    /\ \A f \in RulesPart3 : Owned(f, 29)
    /\ \A f \in RulesMemoryPart3 : Owned(f, 34)
    /\ \A m \in BOOLEAN : \A f \in RulesPart4(m) : Owned(f, IF m THEN 35 ELSE 30)
    /\ \A f \in RulesPart5 : Owned(f, 31)
    /\ \A f \in RulesZones(1) : Owned(f, 36)
    /\ \A f \in RulesZones(129) : Owned(f, 47)
    /\ \A m \in BOOLEAN : \A f \in Wireless(0, 137, m) : Owned(f, IF m THEN 46 ELSE 44)
    /\ \A f \in RulesPart7 : Owned(f, 45)
<1>1. \A f \in RulesMemoryPart2 : Owned(f, 33)
  BY DEF RulesMemoryPart2, RulesPart2, ModuleMask, Bitmask, Field, Owned, Owner, GsmFlags
<1>2. \A f \in RulesPart3 : Owned(f, 29)
  BY DEF RulesPart3, Wireless, Bitmask, Field, Owned, Owner, GsmFlags
<1>3. \A f \in RulesMemoryPart3 : Owned(f, 34)
  BY DEF RulesMemoryPart3, Wireless, BitmaskLimit, Bitmask, Field, Owned, Owner, GsmFlags
<1>4. \A m \in BOOLEAN : \A f \in RulesPart4(m) : Owned(f, IF m THEN 35 ELSE 30)
  BY SMTT(30) DEF RulesPart4, ModuleMask, Bitmask, Field, Owned, Owner, GsmFlags
<1>5. \A f \in RulesPart5 : Owned(f, 31)
  BY DEF RulesPart5, ModuleMask, Bitmask, Field, Owned, Owner, GsmFlags
<1>6. \A f \in RulesZones(1) : Owned(f, 36)
  BY DEF RulesZones, Bitmask, Field, Owned, Owner, GsmFlags
<1>7. \A f \in RulesZones(129) : Owned(f, 47)
  BY DEF RulesZones, Bitmask, Field, Owned, Owner, GsmFlags
<1>8. \A m \in BOOLEAN : \A f \in Wireless(0, 137, m) : Owned(f, IF m THEN 46 ELSE 44)
  BY DEF Wireless, Bitmask, Field, Owned, Owner, GsmFlags
<1>9. \A f \in RulesPart7 : Owned(f, 45)
  BY DEF RulesPart7, Bitmask, Field, Owned, Owner, GsmFlags
<1>10. QED
  BY <1>1, <1>2, <1>3, <1>4, <1>5, <1>6, <1>7, <1>8, <1>9

\* The reserved bits, which are not compared, are all that the table has and the chunks not.
LEMMA GsmAlike == ASSUME NEW m PROVE Alike(GsmBlock(m), Part8(m))
<1>1. ASSUME NEW f \in GsmBlock(m), f.trouble # "GenericTrouble"
      PROVE  f \in Part8(m)
  BY <1>1 DEF GsmBlock, Part8, Field
<1>2. Part8(m) \subseteq GsmBlock(m)
  BY DEF GsmBlock, Part8, Field
<1>3. QED
  BY <1>1, <1>2 DEF Alike, Shows, Compared, KeyAt

\* Part 1: the bytes of the three Ethernet troubles, and the rest as it is.
LEMMA Part1Alike == ASSUME NEW m PROVE Alike(RulesPart1(m), Part1(m))
<1> DEFINE fields == Slice(0, 16, 1, m, "TechnicalZoneTrouble")
                     \cup Slice(16, 24, 1, m, "ExpanderAcLoss")
                     \cup Slice(24, 32, 1, m, "ExpanderBatteryLow")
                     \cup Slice(32, 40, 1, m, "ExpanderBatteryMissing")
           bytes  == Byte(43, m, "EthmPingTrouble") \cup Byte(44, m, "EthmServerIdError")
                     \cup Byte(45, m, "EthmSatelServerConnectionError")
           masks  == ModuleMask(43, m, "EthmPingTrouble") \cup ModuleMask(44, m, "EthmServerIdError")
                     \cup ModuleMask(45, m, "EthmSatelServerConnectionError")
           rest   == SystemTroubles(m) \cup EthmPtsaStatus(m)
<1>1. Alike(masks, bytes)
  BY ByteAlike, AlikeUnion, ZenonT(40)
<1>2. Part1(m) = (fields \cup rest) \cup bytes
  BY DEF Part1
<1>3. RulesPart1(m) = (fields \cup rest) \cup masks
  <2>1. fields = Bitmask(0, 16, 1, m, "TechnicalZoneTrouble")
                 \cup Bitmask(16, 8, 1, m, "ExpanderAcLoss")
                 \cup Bitmask(24, 8, 1, m, "ExpanderBatteryLow")
                 \cup Bitmask(32, 8, 1, m, "ExpanderBatteryMissing")
    BY DEF Slice, Bitmask
  <2> HIDE DEF fields
  <2>2. QED
    BY <2>1 DEF RulesPart1
<1> HIDE DEF fields, bytes, masks, rest
<1>4. Alike((fields \cup rest) \cup masks, (fields \cup rest) \cup bytes)
  BY <1>1, AlikeItself, AlikeUnion
<1>5. QED
  BY <1>2, <1>3, <1>4

\* Part 3 of the memory: the limit on the ACU modules, and the rest as it is.
LEMMA MemoryPart3Alike == Alike(RulesMemoryPart3, MemoryPart3)
<1> DEFINE A == BitmaskLimit(0, 14, 17, FALSE, "ExpanderAcuJammedOrShortCircuit")
           B == BitmaskLimit(2, 14, 17, TRUE, "ExpanderAcuJammedOrShortCircuit")
           C == Slice(0, 2, 17, FALSE, "ExpanderAcuJammedOrShortCircuit")
           D == Slice(2, 4, 17, TRUE, "ExpanderAcuJammedOrShortCircuit")
<1>1. Alike(A, C)
  <2>1. C = Slice(0, 0 + 2, 17, FALSE, "ExpanderAcuJammedOrShortCircuit")
    OBVIOUS
  <2>2. QED
    BY <2>1, LimitAlike, Zenon
<1>2. Alike(B, D)
  <2>1. D = Slice(2, 2 + 2, 17, TRUE, "ExpanderAcuJammedOrShortCircuit")
    OBVIOUS
  <2>2. Alike(B, Slice(2, 2 + 2, 17, TRUE, "ExpanderAcuJammedOrShortCircuit"))
    BY LimitAlike
  <2>3. QED
    BY <2>1, <2>2
<1>3. Devices(15, 1, TRUE) = Wireless(15, 17, TRUE)
  BY DEF Devices, Wireless, Slice, Bitmask
<1>4. RulesMemoryPart3 = (A \cup B) \cup Wireless(15, 17, TRUE)
  BY DEF RulesMemoryPart3
<1>5. MemoryPart3 = (C \cup D) \cup Wireless(15, 17, TRUE)
  BY <1>3 DEF MemoryPart3
<1> HIDE DEF A, B, C, D
<1>6. Alike(A \cup B, C \cup D)
  BY <1>1, <1>2, AlikeUnion
<1>7. QED
  BY <1>4, <1>5, <1>6, AlikeItself, AlikeUnion

\* The other parts have the very fields of their tables.
LEMMA RestSame ==
    /\ Part2(FALSE) = RulesPart2(FALSE) /\ MemoryPart2 = RulesMemoryPart2
    /\ Part3 = RulesPart3
    /\ \A m \in BOOLEAN : Devices(0, 121, m) = Wireless(0, 137, m)
    /\ Part5 = RulesPart5 /\ Part7 = RulesPart7
    /\ ZonesPart(1) = RulesZones(1) /\ ZonesPart(129) = RulesZones(129)
<1>1. Part2(FALSE) = RulesPart2(FALSE)
  BY Part2Alike
<1>2. MemoryPart2 = RulesMemoryPart2
  <2>1. /\ Slice(26, 27, 1, TRUE, "KeypadRestart") = ModuleMask(26, TRUE, "KeypadRestart")
        /\ Slice(27, 35, 1, TRUE, "ExpanderRestart") = Bitmask(27, 8, 1, TRUE, "ExpanderRestart")
        /\ Field(8 * 35, 1, 16, 0, FALSE, "PanelCmeError") = Field(280, 1, 16, 0, FALSE, "PanelCmeError")
        /\ Field(8 * 37, 1, 16, 0, TRUE, "PanelCmeError") = Field(296, 1, 16, 0, TRUE, "PanelCmeError")
    BY DEF ModuleMask, Slice, Bitmask
  <2>2. QED
    BY <2>1, Part2Alike DEF MemoryPart2, RulesMemoryPart2
<1>3. Part3 = RulesPart3
  BY DEF Part3, RulesPart3, Devices, Wireless, Slice, Bitmask
<1>4. \A m \in BOOLEAN : Devices(0, 121, m) = Wireless(0, 137, m)
  BY DEF Devices, Wireless, Slice, Bitmask
<1>5. Part5 = RulesPart5 /\ Part7 = RulesPart7
  BY DEF Part5, RulesPart5, Part7, RulesPart7, Slice, Bitmask, ModuleMask
<1>6. ZonesPart(1) = RulesZones(1) /\ ZonesPart(129) = RulesZones(129)
  BY DEF ZonesPart, RulesZones, Slice, Bitmask
<1>7. QED
  BY <1>1, <1>2, <1>3, <1>4, <1>5, <1>6

\* Part 4 too.
LEMMA Part4Alike == ASSUME NEW m PROVE Part4(m) = RulesPart4(m)
  BY DEF Part4, RulesPart4, ModuleMask, Slice, Bitmask, Byte

\* For every command, the table and the slices show the same.
LEMMA Alikes == \A cmd \in TroubleCommands : Alike(RulesOf[cmd], PartOf[cmd])
<1>1. /\ Alike(RulesOf[27], PartOf[27]) /\ Alike(RulesOf[32], PartOf[32])
      /\ Alike(RulesOf[34], PartOf[34])
      /\ Alike(RulesOf[48], PartOf[48]) /\ Alike(RulesOf[49], PartOf[49])
  <2>1. /\ Alike(RulesPart1(FALSE), Part1(FALSE)) /\ Alike(RulesPart1(TRUE), Part1(TRUE))
        /\ Alike(RulesMemoryPart3, MemoryPart3)
        /\ Alike(GsmBlock(FALSE), Part8(FALSE)) /\ Alike(GsmBlock(TRUE), Part8(TRUE))
    BY Part1Alike, MemoryPart3Alike, GsmAlike
  <2>2. QED
    BY <2>1, RulesAre, PartsAre, ZenonT(40)
<1>2. /\ RulesOf[28] = PartOf[28] /\ RulesOf[33] = PartOf[33] /\ RulesOf[29] = PartOf[29]
      /\ RulesOf[30] = PartOf[30] /\ RulesOf[35] = PartOf[35] /\ RulesOf[31] = PartOf[31]
      /\ RulesOf[36] = PartOf[36] /\ RulesOf[44] = PartOf[44] /\ RulesOf[46] = PartOf[46]
      /\ RulesOf[45] = PartOf[45] /\ RulesOf[47] = PartOf[47]
  <2>1. /\ Devices(0, 121, FALSE) = Wireless(0, 137, FALSE)
        /\ Devices(0, 121, TRUE) = Wireless(0, 137, TRUE)
        /\ Part4(FALSE) = RulesPart4(FALSE) /\ Part4(TRUE) = RulesPart4(TRUE)
    BY RestSame, Part4Alike
  <2>2. /\ RulesOf[30] = PartOf[30] /\ RulesOf[35] = PartOf[35]
        /\ RulesOf[44] = PartOf[44] /\ RulesOf[46] = PartOf[46]
    <3>1. RulesOf[30] = PartOf[30]
      <4>1. RulesOf[30] = RulesPart4(FALSE) /\ PartOf[30] = Part4(FALSE)
        BY RulesAre, PartsAre
      <4>2. QED
        BY <2>1, <4>1, Zenon
    <3>2. RulesOf[35] = PartOf[35]
      <4>1. RulesOf[35] = RulesPart4(TRUE) /\ PartOf[35] = Part4(TRUE)
        BY RulesAre, PartsAre
      <4>2. QED
        BY <2>1, <4>1, Zenon
    <3>3. RulesOf[44] = PartOf[44]
      <4>1. RulesOf[44] = Wireless(0, 137, FALSE) /\ PartOf[44] = Devices(0, 121, FALSE)
        BY RulesAre, PartsAre
      <4>2. QED
        BY <2>1, <4>1, Zenon
    <3>4. RulesOf[46] = PartOf[46]
      <4>1. RulesOf[46] = Wireless(0, 137, TRUE) /\ PartOf[46] = Devices(0, 121, TRUE)
        BY RulesAre, PartsAre
      <4>2. QED
        BY <2>1, <4>1, Zenon
    <3>5. QED
      BY <3>1, <3>2, <3>3, <3>4
  <2>3. /\ RulesOf[28] = PartOf[28] /\ RulesOf[33] = PartOf[33] /\ RulesOf[29] = PartOf[29]
    BY RulesAre, PartsAre, RestSame, ZenonT(40)
  <2>4. /\ RulesOf[31] = PartOf[31] /\ RulesOf[36] = PartOf[36]
        /\ RulesOf[45] = PartOf[45] /\ RulesOf[47] = PartOf[47]
    BY RulesAre, PartsAre, RestSame
  <2>5. QED
    BY <2>2, <2>3, <2>4
<1>3. QED
  BY <1>1, <1>2, AlikeItself DEF TroubleCommands, SystemCommands, MemoryCommands

\* No two commands write the same key, of those compared.
LEMMA AllOwned ==
    \A cmd \in TroubleCommands : \A f \in RulesOf[cmd] : Owned(f, cmd)
<1>1. /\ \A f \in RulesOf[27] : Owned(f, 27)
      /\ \A f \in RulesOf[32] : Owned(f, 32)
  BY RulesAre, Part1Owned, ZenonT(40)
<1>2. /\ \A f \in RulesOf[28] : Owned(f, 28)
      /\ \A f \in RulesOf[48] : Owned(f, 48)
      /\ \A f \in RulesOf[49] : Owned(f, 49)
  <2>1. \A f \in RulesOf[28] : Owned(f, 28)
    <3>1. \A f \in RulesPart2(FALSE) : Owned(f, 28)
      BY Part2Owned
    <3>2. QED
      BY <3>1, RulesAre, Zenon
  <2>2. \A f \in RulesOf[48] : Owned(f, 48)
    <3>1. \A f \in GsmBlock(FALSE) : Owned(f, 48)
      BY GsmOwned
    <3>2. QED
      BY <3>1, RulesAre, Zenon
  <2>3. \A f \in RulesOf[49] : Owned(f, 49)
    <3>1. \A f \in GsmBlock(TRUE) : Owned(f, 49)
      BY GsmOwned
    <3>2. QED
      BY <3>1, RulesAre, Zenon
  <2>4. QED
    BY <2>1, <2>2, <2>3
<1>3. /\ \A f \in RulesOf[33] : Owned(f, 33)
      /\ \A f \in RulesOf[29] : Owned(f, 29)
      /\ \A f \in RulesOf[34] : Owned(f, 34)
      /\ \A f \in RulesOf[31] : Owned(f, 31)
      /\ \A f \in RulesOf[36] : Owned(f, 36)
      /\ \A f \in RulesOf[47] : Owned(f, 47)
      /\ \A f \in RulesOf[45] : Owned(f, 45)
  <2>1. \A f \in RulesOf[33] : Owned(f, 33)
    BY RulesAre, RestOwned, Zenon
  <2>2. \A f \in RulesOf[29] : Owned(f, 29)
    BY RulesAre, RestOwned, Zenon
  <2>3. \A f \in RulesOf[34] : Owned(f, 34)
    BY RulesAre, RestOwned, Zenon
  <2>4. \A f \in RulesOf[31] : Owned(f, 31)
    BY RulesAre, RestOwned, Zenon
  <2>5. \A f \in RulesOf[36] : Owned(f, 36)
    BY RulesAre, RestOwned, ZenonT(40)
  <2>6. \A f \in RulesOf[47] : Owned(f, 47)
    BY RulesAre, RestOwned, ZenonT(40)
  <2>7. \A f \in RulesOf[45] : Owned(f, 45)
    BY RulesAre, RestOwned, Zenon
  <2>8. QED
    BY <2>1, <2>2, <2>3, <2>4, <2>5, <2>6, <2>7
<1>4. /\ \A f \in RulesOf[30] : Owned(f, 30)
      /\ \A f \in RulesOf[35] : Owned(f, 35)
      /\ \A f \in RulesOf[44] : Owned(f, 44)
      /\ \A f \in RulesOf[46] : Owned(f, 46)
  <2>1. \A f \in RulesOf[30] : Owned(f, 30)
    <3>1. \A f \in RulesPart4(FALSE) : Owned(f, 30)
      BY RestOwned
    <3>2. QED
      BY <3>1, RulesAre, Zenon
  <2>2. \A f \in RulesOf[35] : Owned(f, 35)
    <3>1. \A f \in RulesPart4(TRUE) : Owned(f, 35)
      BY RestOwned
    <3>2. QED
      BY <3>1, RulesAre, Zenon
  <2>3. \A f \in RulesOf[44] : Owned(f, 44)
    <3>1. \A f \in Wireless(0, 137, FALSE) : Owned(f, 44)
      BY RestOwned
    <3>2. QED
      BY <3>1, RulesAre, Zenon
  <2>4. \A f \in RulesOf[46] : Owned(f, 46)
    <3>1. \A f \in Wireless(0, 137, TRUE) : Owned(f, 46)
      BY RestOwned
    <3>2. QED
      BY <3>1, RulesAre, Zenon
  <2>5. QED
    BY <2>1, <2>2, <2>3, <2>4
<1>5. QED
  BY <1>1, <1>2, <1>3, <1>4 DEF TroubleCommands, SystemCommands, MemoryCommands

\* The number that a bit of a field gives is one of the numbers of the field.
LEMMA NumberInField ==
    ASSUME NEW f, NEW cmd, Owned(f, cmd), NEW b \in Nat, Covers(f, b)
    PROVE  f.start + ((b - f.first) \div f.width) \in f.start .. (f.start + f.units - 1)
<1>1. CASE f.width = 1
  BY <1>1 DEF Owned, Covers
<1>2. CASE f.width = 8
  BY <1>2 DEF Owned, Covers
<1>3. CASE f.width = 16
  BY <1>3 DEF Owned, Covers
<1>4. QED
  BY <1>1, <1>2, <1>3 DEF Owned

\* A command writes whatever its frames show.
LEMMA ShownIsWritten ==
    ASSUME NEW cmd \in TroubleCommands, NEW B \in SUBSET Nat, NEW k \in SetKeys(RulesOf[cmd], B),
           Compared(k)
    PROVE  Writes(cmd, k)
<1>1. PICK b \in B, f \in RulesOf[cmd] : Covers(f, b) /\ k = KeyAt(f, b)
  <2> DEFINE F == RulesOf[cmd]
  <2>1. k \in SetKeys(F, B)
    OBVIOUS
  <2> HIDE DEF F
  <2>2. \E b \in B : \E f \in F : Covers(f, b) /\ k = KeyAt(f, b)
    BY <2>1 DEF SetKeys, Covers, KeyAt
  <2>3. QED
    BY <2>2 DEF F
<1>2. k[1] = f.trouble /\ k[3] = f.memory /\ k[2] = f.start + ((b - f.first) \div f.width)
  BY <1>1 DEF KeyAt
<1>3. Owned(f, cmd)
  BY AllOwned
<1>4. f.start + ((b - f.first) \div f.width) \in f.start .. (f.start + f.units - 1)
  BY <1>1, <1>3, NumberInField
<1>5. QED
  BY <1>2, <1>4 DEF Writes, Compared

\* What a command writes is its own.
LEMMA WrittenIsOwned ==
    ASSUME NEW cmd \in TroubleCommands, NEW k, Writes(cmd, k), Compared(k)
    PROVE  Owner(k) = cmd
<1>1. PICK f \in RulesOf[cmd] : /\ f.trouble = k[1] /\ f.memory = k[3]
                                /\ k[2] \in f.start .. (f.start + f.units - 1)
  BY DEF Writes
<1>2. Owned(f, cmd)
  BY AllOwned
<1>3. f.trouble \notin {"GenericTrouble", "unused"}
  BY <1>1 DEF Compared
<1>4. Owner(<<f.trouble, k[2], f.memory>>) = cmd
  BY <1>1, <1>2, <1>3 DEF Owned
<1> DEFINE j == <<f.trouble, k[2], f.memory>>
<1>5. j[1] = k[1] /\ j[2] = k[2] /\ j[3] = k[3]
  BY <1>1
<1>6. Owner(j) = Owner(k)
  <2> HIDE DEF j
  <2>1. QED
    BY <1>5 DEF Owner
<1>7. QED
  BY <1>4, <1>6

\* What the last frames have set, by the tables of the cache.
LastKeys == UNION {SetKeys(RulesOf[cmd], shown[cmd]) : cmd \in TroubleCommands}

\* The cache has what the last frames have set, of all that is told.
FlagsInv ==
    /\ shown \in [TroubleCommands -> SUBSET Nat]
    /\ {k \in trouble_flags : Compared(k)} = {k \in LastKeys : Compared(k)}

\* Nothing is present and nothing has been shown.
LEMMA FlagsStart == TroublesInit => FlagsInv
  BY DEF TroublesInit, FlagsInv, LastKeys, SetKeys

\* The bits of a frame are numbered.
LEMMA FramesAreNumbers ==
    ASSUME NEW cmd \in TroubleCommands, NEW bits \in Datas(cmd) PROVE bits \in SUBSET Nat
<1>1. DataLen(cmd) \in Nat
  BY DEF DataLen, TroubleCommands, SystemCommands, MemoryCommands
<1>2. QED
  BY <1>1 DEF Datas

\* A frame replaces what its command had shown and touches nothing else: what the cache
\* keeps of other commands is not written by this one.
LEMMA FrameKeeps ==
    ASSUME FlagsInv, NEW cmd \in TroubleCommands, NEW bits \in SUBSET Nat, UpdateTroubles(cmd, bits)
    PROVE  FlagsInv'
<1>1. /\ shown' = [shown EXCEPT ![cmd] = bits] /\ shown \in [TroubleCommands -> SUBSET Nat]
      /\ trouble_flags' = {k \in trouble_flags : ~Writes(cmd, k)}
                           \cup Known(SetKeys(RulesOf[cmd], bits))
  BY DEF UpdateTroubles, FlagsInv
<1>2. /\ shown' \in [TroubleCommands -> SUBSET Nat] /\ shown'[cmd] = bits
      /\ \A c \in TroubleCommands \ {cmd} : shown'[c] = shown[c]
  BY <1>1
<1>3. ASSUME NEW k, Compared(k), k \in trouble_flags' PROVE k \in LastKeys'
  <2>1. CASE k \in trouble_flags /\ ~Writes(cmd, k)
    <3>1. PICK c \in TroubleCommands : k \in SetKeys(RulesOf[c], shown[c])
      BY <1>3, <2>1 DEF FlagsInv, LastKeys
    <3>2. Writes(c, k)
      BY <1>1, <1>3, <3>1, ShownIsWritten
    <3>3. QED
      BY <1>2, <2>1, <3>1, <3>2 DEF LastKeys
  <2>2. CASE k \in Known(SetKeys(RulesOf[cmd], bits))
    BY <1>2, <2>2 DEF LastKeys, Known
  <2>3. QED
    BY <1>1, <1>3, <2>1, <2>2
<1>4. ASSUME NEW k, Compared(k), k \in LastKeys' PROVE k \in trouble_flags'
  <2>1. PICK c \in TroubleCommands : k \in SetKeys(RulesOf[c], shown'[c])
    BY <1>4 DEF LastKeys
  <2>2. CASE c = cmd
    BY <1>1, <1>2, <1>4, <2>1, <2>2 DEF Known, Compared
  <2>3. CASE c # cmd
    <3>1. k \in SetKeys(RulesOf[c], shown[c])
      BY <1>2, <2>1, <2>3
    <3>2. k \in trouble_flags
      BY <1>4, <3>1 DEF FlagsInv, LastKeys
    <3>3. Owner(k) = c
      BY <1>1, <1>4, <3>1, ShownIsWritten, WrittenIsOwned
    <3>4. ~Writes(cmd, k)
      BY <1>4, <2>3, <3>3, WrittenIsOwned
    <3>5. QED
      BY <1>1, <3>2, <3>4
  <2>4. QED
    BY <2>2, <2>3
<1>5. QED
  BY <1>2, <1>3, <1>4 DEF FlagsInv

\* Steps of the mask leave the frames alone.
LEMMA FlagsKept == FlagsInv /\ UNCHANGED Cached => FlagsInv'
  BY DEF FlagsInv, Cached, LastKeys

\* The cache always has what the last frames have set.
LEMMA FlagsAlways == TroublesSpec => []FlagsInv
<1>1. FlagsInv /\ [TroublesNext]_troublesVars => FlagsInv'
  <2> SUFFICES ASSUME FlagsInv, [TroublesNext]_troublesVars PROVE FlagsInv'
    OBVIOUS
  <2>1. ASSUME NEW options \in OptionSets, NEW how \in {"hot", "full"}, StoreOptions(options, how)
        PROVE  FlagsInv'
    BY <2>1, FlagsKept DEF StoreOptions
  <2>2. CASE RaiseDirty
    BY <2>2, FlagsKept DEF RaiseDirty
  <2>3. CASE ReloadDisconnects
    BY <2>3, FlagsKept DEF ReloadDisconnects
  <2>4. CASE Connect
    BY <2>4, FlagsKept DEF Connect
  <2>5. CASE ConnectMask
    BY <2>5, FlagsKept DEF ConnectMask
  <2>6. CASE ResendMask
    BY <2>6, FlagsKept DEF ResendMask
  <2>7. CASE MaskAnswered
    BY <2>7, FlagsKept DEF MaskAnswered
  <2>8. CASE MaskFails
    BY <2>8, FlagsKept DEF MaskFails
  <2>9. CASE LoseConnection
    BY <2>9, FlagsKept DEF LoseConnection
  <2>10. ASSUME NEW cmd \in TroubleCommands, PushTroubles(cmd) \/ GetTroubles(cmd) PROVE FlagsInv'
    <3>1. PICK bits \in Datas(cmd) : UpdateTroubles(cmd, bits)
      BY <2>10 DEF PushTroubles, GetTroubles
    <3>2. QED
      BY <3>1, FramesAreNumbers, FrameKeeps
  <2>11. CASE UNCHANGED troublesVars
    BY <2>11, FlagsKept DEF troublesVars
  <2>12. QED
    BY <2>1, <2>2, <2>3, <2>4, <2>5, <2>6, <2>7, <2>8, <2>9, <2>10, <2>11 DEF TroublesNext
<1>2. QED
  BY <1>1, FlagsStart, PTL DEF TroublesSpec

\* Read by the slices, that is the property.
LEMMA FlagsInvTells == FlagsInv => FlagsAreLastFrames
<1> SUFFICES ASSUME FlagsInv, NEW w
             PROVE  w \in Comparable(trouble_flags) <=>
                    w \in Comparable(UNION {SetKeys(PartOf[cmd], shown[cmd]) : cmd \in TroubleCommands})
  BY Zenon DEF FlagsAreLastFrames
<1>1. w \in Comparable(trouble_flags) <=> w \in Comparable(LastKeys)
  <2>1. \A S : w \in Comparable(S) <=> \E k \in S : Compared(k) /\ w = Whole(k)
    BY DEF Comparable, Compared
  <2>2. QED
    BY <2>1 DEF FlagsInv
<1>2. w \in Comparable(LastKeys) <=>
      \E cmd \in TroubleCommands : w \in Comparable(SetKeys(RulesOf[cmd], shown[cmd]))
  <2> DEFINE S == {SetKeys(RulesOf[cmd], shown[cmd]) : cmd \in TroubleCommands}
  <2>1. LastKeys = UNION S
    BY DEF LastKeys
  <2>2. w \in Comparable(UNION S) <=> \E keys \in S : w \in Comparable(keys)
    BY ComparableUnion
  <2>3. QED
    BY <2>1, <2>2
<1>3. w \in Comparable(UNION {SetKeys(PartOf[cmd], shown[cmd]) : cmd \in TroubleCommands}) <=>
      \E cmd \in TroubleCommands : w \in Comparable(SetKeys(PartOf[cmd], shown[cmd]))
  <2> DEFINE S == {SetKeys(PartOf[cmd], shown[cmd]) : cmd \in TroubleCommands}
  <2>1. w \in Comparable(UNION S) <=> \E keys \in S : w \in Comparable(keys)
    BY ComparableUnion
  <2>2. QED
    BY <2>1
<1>4. ASSUME NEW cmd \in TroubleCommands
      PROVE  w \in Comparable(SetKeys(RulesOf[cmd], shown[cmd])) <=>
             w \in Comparable(SetKeys(PartOf[cmd], shown[cmd]))
  <2>1. \A b \in shown[cmd] : Shows(RulesOf[cmd], b, w) <=> Shows(PartOf[cmd], b, w)
    BY Alikes DEF Alike, FlagsInv
  <2>2. QED
    BY <2>1, ComparableShows
<1>5. QED
  BY <1>1, <1>2, <1>3, <1>4

\* A trouble is present to the cache exactly when the part that has it shows it in the last
\* frame of its command: for all tables and parts, whichever frames come, with whatever
\* bits, in whatever order (client_internal.rs:390-426, system.rs:339-928).
THEOREM FlagsAlwaysLastFrames == TroublesSpec => []FlagsAreLastFrames
  BY FlagsAlways, FlagsInvTells, PTL

-----------------------------------------------------------------------------
(* The control calls. *)

\* Done for a call: what it says, on its object, on its code.
DoneFor(call, e) ==
    /\ e.call = call.frame.call /\ e.command = CommandByte(call.op) /\ e.code = Bcd(call.code)
    /\ OfPartition(call.op) \/ OfOutput(call.op) => e.objects = {call.number}

IsCall(call) ==
    call = [at |-> call.at, op |-> call.op, number |-> call.number, code |-> call.code,
            frame |-> call.frame, doubtful |-> call.doubtful, result |-> call.result]

\* What is known of a call, given what the panel has done.
CallInv(call, D) ==
    /\ IsCall(call)
    /\ call.at \in {"queued", "exchange"} =>
           /\ ValidNumber(call.op, call.number) /\ call.result = "none"
           /\ call.frame = [command |-> CommandByte(call.op), code |-> Bcd(call.code),
                            mask |-> ObjectMask(call.op, call.number), call |-> call.frame.call]
    /\ call.result = "ok" /\ ~call.doubtful => \E e \in D : DoneFor(call, e)

\* What a result frame says of a call.
Tells(r, call, D) ==
    r.bytes # <<>> /\ r.bytes[1] \in {0, 255} => \E e \in D : DoneFor(call, e)

\* On a line that was quiet, only the command of the exchange and its result are under way.
WireInv(call, C, R, D) ==
    call.at = "exchange" /\ ~call.doubtful =>
        \/ C = <<call.frame>> /\ R = <<>>
        \/ C = <<>> /\ R = <<>>
        \/ C = <<>> /\ \E r : R = <<r>> /\ Tells(r, call, D)

ControlInv ==
    /\ control = [c \in Controllers |-> control[c]]
    /\ \A c \in Controllers : CallInv(control[c], done) /\ WireInv(control[c], commands, results, done)
    /\ \A c, d \in Controllers : control[c].at = "exchange" /\ control[d].at = "exchange" => c = d

Sent(call, doubtful)          == [call EXCEPT !.at = "exchange", !.doubtful = doubtful]
Ended(call, result, doubtful) == [call EXCEPT !.at = "over", !.result = result, !.doubtful = doubtful]

\* A call that goes on keeps its other fields.
LEMMA CallGoesOn ==
    ASSUME NEW call, IsCall(call), NEW doubtful, NEW result
    PROVE  /\ Sent(call, doubtful) =
                 [at |-> "exchange", op |-> call.op, number |-> call.number, code |-> call.code,
                  frame |-> call.frame, doubtful |-> doubtful, result |-> call.result]
           /\ Ended(call, result, doubtful) =
                 [at |-> "over", op |-> call.op, number |-> call.number, code |-> call.code,
                  frame |-> call.frame, doubtful |-> doubtful, result |-> result]
<1> DEFINE a == call.at
           b == call.op
           d == call.number
           e == call.code
           f == call.frame
           g == call.doubtful
           h == call.result
           As(at, x, y) == [at |-> at, op |-> b, number |-> d, code |-> e, frame |-> f,
                            doubtful |-> x, result |-> y]
<1>1. call = As(a, g, h)
  BY DEF IsCall
<1> HIDE DEF a, b, d, e, f, g, h
<1>2. ASSUME NEW at PROVE [call EXCEPT !.at = at] = As(at, g, h)
  BY <1>1
<1>3. /\ Sent(call, doubtful) = [[call EXCEPT !.at = "exchange"] EXCEPT !.doubtful = doubtful]
      /\ Ended(call, result, doubtful) =
             [[[call EXCEPT !.at = "over"] EXCEPT !.result = result] EXCEPT !.doubtful = doubtful]
  BY Zenon DEF Sent, Ended
<1>4. [As("exchange", g, h) EXCEPT !.doubtful = doubtful] = As("exchange", doubtful, h)
  OBVIOUS
<1>5. [As("over", g, h) EXCEPT !.result = result] = As("over", g, result)
  OBVIOUS
<1>6. [As("over", g, result) EXCEPT !.doubtful = doubtful] = As("over", doubtful, result)
  OBVIOUS
<1> HIDE DEF As
<1>7. Sent(call, doubtful) = As("exchange", doubtful, h)
  BY <1>2, <1>3, <1>4
<1>8. Ended(call, result, doubtful) = As("over", doubtful, result)
  BY <1>2, <1>3, <1>5, <1>6
<1>9. QED
  BY <1>7, <1>8 DEF As, b, d, e, f, h

\* The one bit of a mask is its object.
LEMMA MaskNamesObject ==
    ASSUME NEW op, NEW n, ValidNumber(op, n), OfPartition(op) \/ OfOutput(op), NEW frame,
           frame.mask = ObjectMask(op, n)
    PROVE  ObjectsOf(frame) = {n}
<1>1. n \in 1..256
  BY DEF ValidNumber
<1>2. frame.mask = {<<(n - 1) \div 8, (n - 1) % 8>>}
  BY DEF ObjectMask
<1>3. ObjectsOf(frame) = {8 * ((n - 1) \div 8) + ((n - 1) % 8) + 1}
  BY <1>2 DEF ObjectsOf
<1>4. 8 * ((n - 1) \div 8) + ((n - 1) % 8) + 1 = n
  BY <1>1
<1>5. QED
  BY <1>3, <1>4

\* One call changes, and what is done stays done: the others are as they were, if the line
\* is or none of them is at its exchange.
LEMMA OneCall ==
    ASSUME ControlInv, NEW c \in Controllers, NEW call, control' = [control EXCEPT ![c] = call],
           UNCHANGED done, CallInv(call, done), WireInv(call, commands', results', done),
           UNCHANGED Wire \/ \A b \in Controllers \ {c} : control[b].at # "exchange",
           call.at = "exchange" => \A b \in Controllers \ {c} : control[b].at # "exchange"
    PROVE  ControlInv'
<1>1. control' = [b \in Controllers |-> IF b = c THEN call ELSE control[b]]
  BY DEF ControlInv
<1>2. control' = [b \in Controllers |-> control'[b]] /\ control'[c] = call
  BY <1>1
<1>3. ASSUME NEW b \in Controllers, b # c
      PROVE  CallInv(control'[b], done') /\ WireInv(control'[b], commands', results', done')
  <2>1. control'[b] = control[b]
    BY <1>1, <1>3
  <2>2. CallInv(control[b], done) /\ WireInv(control[b], commands, results, done)
    BY DEF ControlInv
  <2>3. WireInv(control[b], commands', results', done)
    BY <1>3, <2>2 DEF WireInv, Wire
  <2>4. QED
    BY <2>1, <2>2, <2>3
<1>4. \A b, d \in Controllers : control'[b].at = "exchange" /\ control'[d].at = "exchange" => b = d
  BY <1>1 DEF ControlInv
<1>5. QED
  BY <1>2, <1>3, <1>4 DEF ControlInv

\* No call changes, and none is at its exchange.
LEMMA NoExchange ==
    ASSUME ControlInv, UNCHANGED <<control, done>>, ~Exchanging
    PROVE  ControlInv'
BY DEF ControlInv, CallInv, WireInv, Exchanging

\* A call begins.
LEMMA CallBegins ==
    ASSUME ControlInv, NEW c \in Controllers, NEW op, NEW n, NEW code, Call(c, op, n, code)
    PROVE  ControlInv'
<1> DEFINE call == [NoControl EXCEPT !.op = op, !.number = n, !.code = Resolved(code)]
           new == IF ~ValidNumber(op, n) THEN [call EXCEPT !.at = "over", !.result = "NoAccess"]
                  ELSE IF call.code = NoCode THEN [call EXCEPT !.at = "over", !.result = "InvalidUserCode"]
                  ELSE [call EXCEPT !.at = "queued",
                           !.frame = [command |-> CommandByte(op), code |-> Bcd(call.code),
                                      mask |-> ObjectMask(op, n), call |-> controls']]
<1>1. control' = [control EXCEPT ![c] = new] /\ UNCHANGED <<Wire, done>>
  BY DEF Call
<1>2. CallInv(new, done) /\ new.at # "exchange"
  <2>1. CASE ~ValidNumber(op, n)
    BY <2>1, ZenonT(40) DEF CallInv, IsCall, NoControl
  <2>2. CASE ValidNumber(op, n) /\ call.code = NoCode
    BY <2>2 DEF CallInv, IsCall, NoControl
  <2>3. CASE ValidNumber(op, n) /\ call.code # NoCode
    BY <2>3 DEF CallInv, IsCall, NoControl
  <2>4. QED
    BY <2>1, <2>2, <2>3, Zenon
<1> HIDE DEF new
<1>3. WireInv(new, commands', results', done)
  BY <1>2 DEF WireInv
<1>4. QED
  BY <1>1, <1>2, <1>3, OneCall

\* The worker sends the command of a call.
LEMMA ExchangeBegins ==
    ASSUME ControlInv, NEW c \in Controllers, Exchange(c)
    PROVE  ControlInv'
<1> DEFINE call == control[c]
           new == Sent(call, ~Quiet)
<1>1. control' = [control EXCEPT ![c] = new] /\ UNCHANGED <<results, done>>
  BY DEF ControlInv, Sent, Exchange
<1>2. CallInv(call, done) /\ call.at = "queued"
  BY DEF ControlInv, Exchange
<1>3. \A b \in Controllers : control[b].at # "exchange"
  BY DEF Exchange, Exchanging
<1>4. commands' = Append(commands, call.frame)
  BY DEF Exchange
<1> HIDE DEF call, new
<1>5. new = [at |-> "exchange", op |-> call.op, number |-> call.number, code |-> call.code,
             frame |-> call.frame, doubtful |-> ~Quiet, result |-> call.result]
  BY <1>2, CallGoesOn DEF CallInv, new
<1>6. /\ IsCall(new) /\ new.at = "exchange" /\ new.op = call.op /\ new.number = call.number
      /\ new.code = call.code /\ new.frame = call.frame /\ new.result = call.result
      /\ new.doubtful <=> ~Quiet
  BY <1>5 DEF IsCall
<1>7. CallInv(new, done)
  BY <1>2, <1>6 DEF CallInv
<1>8. WireInv(new, commands', results', done)
  <2>1. Quiet => commands' = <<call.frame>> /\ results' = <<>>
    BY <1>1, <1>4 DEF Quiet
  <2>2. QED
    BY <1>6, <2>1 DEF WireInv
<1>9. QED
  BY <1>1, <1>3, <1>7, <1>8, OneCall

\* The panel acts on a command; of that of an exchange it then gives the result.
LEMMA PanelStep ==
    ASSUME ControlInv, PanelActs
    PROVE  ControlInv'
<1> DEFINE frame == Head(commands)
           entry(code) == [command |-> frame.command, objects |-> ObjectsOf(frame),
                           code |-> frame.code, call |-> frame.call]
<1>1. /\ commands # <<>> /\ commands' = Tail(commands) /\ UNCHANGED control
      /\ \E code \in Codes(frame) :
          /\ \/ \E bytes \in {<<code>>, <<>>} :
                   results' = Append(results, [call |-> frame.call, bytes |-> bytes])
             \/ UNCHANGED results
          /\ done' = IF code \in {0, 255} THEN done \cup {entry(code)} ELSE done
  BY DEF PanelActs
<1> HIDE DEF frame
<1>2. done \subseteq done'
  BY <1>1
<1>3. ASSUME NEW c \in Controllers PROVE CallInv(control'[c], done')
  BY <1>1, <1>2 DEF ControlInv, CallInv
<1>4. ASSUME NEW c \in Controllers PROVE WireInv(control'[c], commands', results', done')
  <2> DEFINE call == control[c]
  <2> SUFFICES ASSUME call.at = "exchange", ~call.doubtful
               PROVE  \/ commands' = <<>> /\ results' = <<>>
                      \/ commands' = <<>> /\ \E r : results' = <<r>> /\ Tells(r, call, done')
    BY <1>1 DEF WireInv
  <2>1. commands = <<call.frame>> /\ results = <<>>
    BY <1>1 DEF ControlInv, WireInv
  <2>2. commands' = <<>> /\ frame = call.frame
    BY <1>1, <2>1 DEF frame
  <2>3. PICK code \in Codes(frame) :
            /\ \/ \E bytes \in {<<code>>, <<>>} :
                     results' = Append(results, [call |-> frame.call, bytes |-> bytes])
               \/ UNCHANGED results
            /\ done' = IF code \in {0, 255} THEN done \cup {entry(code)} ELSE done
    BY <1>1
  <2>4. DoneFor(call, entry(code))
    <3>1. /\ ValidNumber(call.op, call.number)
          /\ frame = [command |-> CommandByte(call.op), code |-> Bcd(call.code),
                      mask |-> ObjectMask(call.op, call.number), call |-> call.frame.call]
      BY <2>2 DEF ControlInv, CallInv
    <3>2. OfPartition(call.op) \/ OfOutput(call.op) => ObjectsOf(frame) = {call.number}
      BY <3>1, MaskNamesObject
    <3>3. frame.command = CommandByte(call.op) /\ frame.code = Bcd(call.code)
      BY <3>1
    <3>4. QED
      BY <2>2, <3>2, <3>3 DEF DoneFor
  <2>5. CASE UNCHANGED results
    BY <2>1, <2>2, <2>5
  <2>6. ASSUME NEW bytes \in {<<code>>, <<>>},
               results' = Append(results, [call |-> frame.call, bytes |-> bytes])
        PROVE  \E r : results' = <<r>> /\ Tells(r, call, done')
    <3> DEFINE r == [call |-> frame.call, bytes |-> bytes]
    <3>1. results' = <<r>>
      BY <2>1, <2>6
    <3>2. bytes # <<>> /\ bytes[1] \in {0, 255} => code \in {0, 255}
      OBVIOUS
    <3>3. code \in {0, 255} => entry(code) \in done'
      BY <2>3
    <3>4. r.bytes = bytes
      OBVIOUS
    <3> HIDE DEF entry, r
    <3>5. Tells(r, call, done')
      BY <2>4, <3>2, <3>3, <3>4 DEF Tells
    <3>6. QED
      BY <3>1, <3>5
  <2>7. QED
    BY <2>2, <2>3, <2>5, <2>6
<1>5. QED
  BY <1>1, <1>3, <1>4 DEF ControlInv

\* A call ends: with Ok only if the panel said so, unless it is doubtful.
LEMMA CallEnds ==
    ASSUME ControlInv, NEW c \in Controllers, NEW result, NEW doubtful,
           control' = [control EXCEPT ![c] = Ended(control[c], result, doubtful)], UNCHANGED done,
           result = "ok" /\ ~doubtful => \E e \in done : DoneFor(control[c], e),
           UNCHANGED Wire \/ control[c].at = "exchange"
    PROVE  ControlInv'
<1> DEFINE call == control[c]
           new == Ended(call, result, doubtful)
<1>1. CallInv(call, done)
  BY DEF ControlInv
<1>2. result = "ok" /\ ~doubtful => \E e \in done : DoneFor(call, e)
  OBVIOUS
<1> HIDE DEF call, new
<1>3. new = [at |-> "over", op |-> call.op, number |-> call.number, code |-> call.code,
             frame |-> call.frame, doubtful |-> doubtful, result |-> result]
  BY <1>1, CallGoesOn DEF CallInv, new
<1>4. /\ IsCall(new) /\ new.at = "over" /\ new.op = call.op /\ new.number = call.number
      /\ new.code = call.code /\ new.frame = call.frame /\ new.result = result
      /\ new.doubtful = doubtful
  BY <1>3 DEF IsCall
<1>5. CallInv(new, done)
  BY <1>2, <1>4 DEF CallInv, DoneFor
<1>6. WireInv(new, commands', results', done)
  BY <1>4 DEF WireInv
<1>7. UNCHANGED Wire \/ \A b \in Controllers \ {c} : control[b].at # "exchange"
  BY DEF ControlInv
<1>8. control' = [control EXCEPT ![c] = new]
  BY DEF new, call
<1>9. QED
  BY <1>4, <1>5, <1>6, <1>7, <1>8, OneCall

\* exchange returns a result frame: the call's own, if the line was quiet.
LEMMA ResultTaken ==
    ASSUME ControlInv, NEW c \in Controllers, CallReturns(c)
    PROVE  ControlInv'
<1> DEFINE bytes == Head(results).bytes
           doubtful == control[c].doubtful \/ bytes = <<>>
<1>1. /\ control[c].at = "exchange" /\ results # <<>> /\ UNCHANGED done
      /\ control' = [control EXCEPT ![c] = Ended(control[c], HandleResult(bytes), doubtful)]
  BY DEF CallReturns, Ended, ControlInv
<1>2. ASSUME HandleResult(bytes) = "ok", ~doubtful PROVE \E e \in done : DoneFor(control[c], e)
  <2>1. ~control[c].doubtful /\ bytes # <<>>
    BY <1>2
  <2>2. PICK r : results = <<r>> /\ Tells(r, control[c], done)
    BY <1>1, <2>1 DEF ControlInv, WireInv
  <2>3. bytes = r.bytes
    BY <2>2
  <2> HIDE DEF bytes
  <2>4. bytes[1] \in {0, 255}
    BY <1>2, <2>1 DEF HandleResult
  <2>5. QED
    BY <2>1, <2>2, <2>3, <2>4 DEF Tells
<1> HIDE DEF bytes, doubtful
<1>3. QED
  BY <1>1, <1>2, CallEnds

\* exchange returns an error.
LEMMA CallFails ==
    ASSUME ControlInv, NEW c \in Controllers, ExchangeFails(c)
    PROVE  ControlInv'
<1> DEFINE call == control[c]
           doubtful == call.doubtful
           result == "error"
<1>1. /\ control' = [control EXCEPT ![c] = [call EXCEPT !.at = "over", !.result = result]]
      /\ UNCHANGED Wire /\ UNCHANGED done
  BY DEF ExchangeFails, ControlInv
<1>2. IsCall(call)
  BY DEF ControlInv, CallInv
<1> HIDE DEF call
<1>3. [call EXCEPT !.at = "over", !.result = result] = Ended(call, result, doubtful)
  <2> DEFINE b == call.op
             d == call.number
             e == call.code
             f == call.frame
             h == call.result
             As(at, y) == [at |-> at, op |-> b, number |-> d, code |-> e, frame |-> f,
                           doubtful |-> doubtful, result |-> y]
  <2>1. call = As(call.at, h)
    BY <1>2 DEF IsCall
  <2> HIDE DEF b, d, e, f, h, doubtful
  <2>2. [call EXCEPT !.at = "over"] = As("over", h)
    BY <2>1
  <2>3. [As("over", h) EXCEPT !.result = result] = As("over", result)
    OBVIOUS
  <2>4. [As("over", result) EXCEPT !.doubtful = doubtful] = As("over", result)
    OBVIOUS
  <2>5. /\ [call EXCEPT !.at = "over", !.result = result] =
               [[call EXCEPT !.at = "over"] EXCEPT !.result = result]
        /\ Ended(call, result, doubtful) =
               [[[call EXCEPT !.at = "over"] EXCEPT !.result = result] EXCEPT !.doubtful = doubtful]
    BY Zenon DEF Ended
  <2> HIDE DEF As
  <2>6. QED
    BY <2>2, <2>3, <2>4, <2>5
<1>4. control' = [control EXCEPT ![c] = Ended(control[c], result, doubtful)]
  BY <1>1, <1>3 DEF call
<1>5. /\ result = "ok" /\ ~doubtful => \E e \in done : DoneFor(control[c], e)
      /\ UNCHANGED Wire \/ control[c].at = "exchange"
      /\ UNCHANGED done
  BY <1>1
<1> HIDE DEF doubtful, result
<1>6. QED
  BY <1>4, <1>5, CallEnds

\* The calls are true to what was done initially, and after every step.
LEMMA ControlAlways == ControlSpec => []ControlInv
<1>1. ControlInit => ControlInv
  <2>1. NoControl.at = "idle" /\ \A C, R : CallInv(NoControl, {}) /\ WireInv(NoControl, C, R, {})
    BY DEF CallInv, WireInv, IsCall, NoControl
  <2> HIDE DEF NoControl
  <2>2. QED
    BY <2>1 DEF ControlInit, ControlInv
<1>2. ControlInv /\ [ControlNext]_controlVars => ControlInv'
  <2> SUFFICES ASSUME ControlInv, [ControlNext]_controlVars PROVE ControlInv'
    OBVIOUS
  <2>1. ASSUME NEW c \in Controllers, NEW op, NEW n, NEW code, Call(c, op, n, code)
        PROVE  ControlInv'
    BY <2>1, CallBegins
  <2>2. ASSUME NEW c \in Controllers, Exchange(c) PROVE ControlInv'
    BY <2>2, ExchangeBegins
  <2>3. CASE PanelActs
    BY <2>3, PanelStep
  <2>4. ASSUME NEW c \in Controllers, CallReturns(c) PROVE ControlInv'
    BY <2>4, ResultTaken
  <2>5. ASSUME NEW c \in Controllers, ExchangeFails(c) PROVE ControlInv'
    BY <2>5, CallFails
  <2>6. CASE OthersGiveUp \/ ResultPasses \/ Reconnect
    BY <2>6, NoExchange DEF OthersGiveUp, ResultPasses, Reconnect
  <2>7. CASE ZonesChange \/ UNCHANGED controlVars
    BY <2>7 DEF ZonesChange, controlVars, Wire, ControlInv
  <2>8. ASSUME NEW code, ReplaceUserCode(code) PROVE ControlInv'
    BY <2>8 DEF ReplaceUserCode, Wire, ControlInv
  <2>9. QED
    BY <2>1, <2>2, <2>3, <2>4, <2>5, <2>6, <2>7, <2>8
       DEF ControlNext, Arm, Disarm, ClearAlarm, SetOutput, SetOutputToggle, SetSatelTime
<1>3. QED
  BY <1>1, <1>2, PTL DEF ControlSpec

\* Ok means done, unless the call is doubtful (client.rs:1826-2089), for any callers, codes
\* and objects, however the configured code changes while a call is under way, and
\* whatever other exchanges were given up before and left on the line (worker.rs:262, 302).
THEOREM OkAlwaysMeansDone == ControlSpec => []OkMeansDone
<1>1. ControlInv => OkMeansDone
  BY DEF ControlInv, CallInv, DoneFor, OkMeansDone
<1>2. QED
  BY <1>1, ControlAlways, PTL

==============================================================================
