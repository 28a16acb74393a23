--------------------------- MODULE SatelCodec_proofs ---------------------------
(***************************************************************************)
(* Proofs about the codec: what is stuffed is unstuffed, whatever the      *)
(* frame, and a line of whole frames and padding is decoded in full,       *)
(* whatever the reads.                                                     *)
(*                                                                         *)
(* The lemmas on joined sequences are those of EncryptedStream_proofs: its *)
(* constants and variables play no part here.                              *)
(***************************************************************************)
EXTENDS SatelCodec, EncryptedStream_proofs

-----------------------------------------------------------------------------
(* Where things are in joined sequences. *)

\* Sequences that begin alike are joined alike.
LEMMA JoinedAlike ==
    ASSUME NEW s, NEW t, NEW n \in Nat, \A i \in 1..n : s[i] = t[i]
    PROVE  Joined(s, n) = Joined(t, n)
<1>1. [i \in 1..n |-> s[i]] = [i \in 1..n |-> t[i]]
  OBVIOUS
<1>2. QED
  BY <1>1, Zenon DEF Joined

\* Each sequence stands behind those before it.
LEMMA JoinedAt ==
    ASSUME NEW A, NEW s \in Seq(Seq(A)), NEW n \in 1..Len(s)
    PROVE  /\ Len(Joined(s, n - 1)) \in Nat /\ Len(s[n]) \in Nat
           /\ Len(Joined(s, n)) = Len(Joined(s, n - 1)) + Len(s[n])
           /\ Len(Joined(s, n)) \in 0..Len(FlattenSeq(s))
           /\ \A j \in 1..Len(s[n]) : FlattenSeq(s)[Len(Joined(s, n - 1)) + j] = s[n][j]
<1> DEFINE before == Joined(s, n - 1)
           here == s[n]
<1>1. n - 1 \in 0..Len(s) /\ n \in 0..Len(s) /\ n - 1 \in Nat /\ (n - 1) + 1 = n
  OBVIOUS
<1>2. before \in Seq(A) /\ here \in Seq(A)
  BY <1>1, JoinedRest, ElementOfSeq
<1>3. Joined(s, n) = before \o here
  BY <1>1, JoinedNext
<1>4. PICK rest \in Seq(A) : FlattenSeq(s) = Joined(s, n) \o rest
  BY <1>1, JoinedRest
<1> HIDE DEF before, here
<1>5. Len(before) \in Nat /\ Len(here) \in Nat /\ Len(rest) \in Nat
  BY <1>2, <1>4, LenProperties
<1>6. /\ before \o here \in Seq(A) /\ Len(before \o here) = Len(before) + Len(here)
      /\ \A j \in 1..(Len(before) + Len(here)) :
            (before \o here)[j] = IF j <= Len(before) THEN before[j] ELSE here[j - Len(before)]
  BY <1>2, ConcatProperties
<1>7. \A j \in 1..Len(here) : (before \o here)[Len(before) + j] = here[j]
  BY <1>5, <1>6
<1> DEFINE both == before \o here
<1>8. /\ Len(both \o rest) = Len(both) + Len(rest)
      /\ \A j \in 1..(Len(both) + Len(rest)) :
            (both \o rest)[j] = IF j <= Len(both) THEN both[j] ELSE rest[j - Len(both)]
  BY <1>4, <1>6, ConcatProperties, SMTT(30)
<1> HIDE DEF both
<1>9. \A j \in 1..Len(here) : (both \o rest)[Len(before) + j] = both[Len(before) + j]
  BY <1>5, <1>6, <1>8, SMTT(30) DEF both
<1>10. FlattenSeq(s) = both \o rest
  BY <1>3, <1>4 DEF both
<1>11. Len(both) \in 0..Len(both \o rest)
  BY <1>5, <1>6, <1>8 DEF both
<1>12. QED
  BY <1>3, <1>5, <1>6, <1>7, <1>9, <1>10, <1>11 DEF both, before, here

-----------------------------------------------------------------------------
(* Stuffing and unstuffing. *)

Stuffs(data) == [i \in DOMAIN data |-> IF data[i] = SYNC THEN <<SYNC, STUFF>> ELSE <<data[i]>>]
Kept(raw)    == [i \in DOMAIN raw |-> IF i \in Stuffing(raw) THEN <<>> ELSE <<raw[i]>>]

\* The bytes kept are one sequence for each byte.
LEMMA KeptTyped ==
    ASSUME NEW A, NEW raw \in Seq(A)
    PROVE  /\ Kept(raw) \in Seq(Seq(A)) /\ Len(Kept(raw)) = Len(raw) /\ Len(raw) \in Nat
           /\ Unstuff(raw) = Joined(Kept(raw), Len(raw)) /\ Unstuff(raw) \in Seq(A)
<1>1. DOMAIN raw = 1..Len(raw) /\ Len(raw) \in Nat
  OBVIOUS
<1>2. ASSUME NEW i \in 1..Len(raw)
      PROVE  (IF i \in Stuffing(raw) THEN <<>> ELSE <<raw[i]>>) \in Seq(A)
  <2>1. raw[i] \in A
    BY ElementOfSeq
  <2>2. <<>> \in Seq(A) /\ <<raw[i]>> \in Seq(A)
    BY <2>1
  <2>3. QED
    BY <2>2
<1>3. Kept(raw) \in Seq(Seq(A)) /\ Len(Kept(raw)) = Len(raw)
  BY <1>1, <1>2 DEF Kept
<1>4. Unstuff(raw) = FlattenSeq(Kept(raw))
  BY Zenon DEF Unstuff, Kept
<1>5. Joined(Kept(raw), Len(raw)) = FlattenSeq(Kept(raw))
  BY <1>3, JoinedAll
<1>6. QED
  BY <1>1, <1>3, <1>4, <1>5, FlattenTyped

\* One more byte: dropped if it stuffs, and kept otherwise.
LEMMA UnstuffAppend ==
    ASSUME NEW A, NEW raw \in Seq(A), NEW x \in A
    PROVE  Unstuff(Append(raw, x)) =
               IF raw # <<>> /\ raw[Len(raw)] = SYNC /\ x = STUFF THEN Unstuff(raw)
               ELSE Append(Unstuff(raw), x)
<1> DEFINE t == Append(raw, x)
           n == Len(raw)
<1>1. /\ n \in Nat /\ t \in Seq(A) /\ Len(t) = n + 1 /\ t[n + 1] = x
      /\ \A i \in 1..n : t[i] = raw[i]
  BY LenProperties, AppendProperties
<1>2. raw # <<>> <=> n # 0
  BY EmptySeq
<1> HIDE DEF t
<1>3. \A i \in 1..n : i \in Stuffing(t) <=> i \in Stuffing(raw)
  BY <1>1 DEF Stuffing
<1>4. n + 1 \in Stuffing(t) <=> raw # <<>> /\ raw[n] = SYNC /\ x = STUFF
  BY <1>1, <1>2 DEF Stuffing
<1>5. DOMAIN t = 1..(n + 1) /\ DOMAIN raw = 1..n
  BY <1>1, LenProperties
<1>6. \A i \in 1..n : Kept(t)[i] = Kept(raw)[i]
  <2> SUFFICES ASSUME NEW i \in 1..n PROVE Kept(t)[i] = Kept(raw)[i]
    OBVIOUS
  <2>1. Kept(t)[i] = IF i \in Stuffing(t) THEN <<>> ELSE <<t[i]>>
    BY <1>1, <1>5 DEF Kept
  <2>2. Kept(raw)[i] = IF i \in Stuffing(raw) THEN <<>> ELSE <<raw[i]>>
    BY <1>1, <1>5 DEF Kept
  <2>3. QED
    BY <1>1, <1>3, <2>1, <2>2
<1>7. Joined(Kept(t), n) = Unstuff(raw)
  <2>1. Joined(Kept(t), n) = Joined(Kept(raw), n)
    BY <1>1, <1>6, JoinedAlike
  <2>2. QED
    BY <2>1, KeptTyped
<1>8. Unstuff(t) = Unstuff(raw) \o Kept(t)[n + 1]
  <2>1. /\ Kept(t) \in Seq(Seq(A)) /\ Len(Kept(t)) = n + 1
        /\ Unstuff(t) = Joined(Kept(t), n + 1)
    BY <1>1, KeptTyped
  <2>2. n + 1 \in 1..Len(Kept(t))
    BY <1>1, <2>1
  <2>3. Joined(Kept(t), n + 1) = Joined(Kept(t), n) \o Kept(t)[n + 1]
    BY <1>1, <2>1, <2>2, JoinedNext
  <2>4. QED
    BY <1>7, <2>1, <2>3
<1>9. Kept(t)[n + 1] = IF n + 1 \in Stuffing(t) THEN <<>> ELSE <<x>>
  BY <1>1, <1>5 DEF Kept
<1>10. /\ Unstuff(raw) \o <<>> = Unstuff(raw)
       /\ Unstuff(raw) \o <<x>> = Append(Unstuff(raw), x)
  <2>1. Unstuff(raw) \in Seq(A)
    BY KeptTyped
  <2>2. QED
    BY <2>1, ConcatEmptySeq, AppendIsConcat
<1>11. QED
  BY <1>4, <1>8, <1>9, <1>10 DEF t

\* What may be on the line: bytes, the two of a CRC among them.
Value == 0..255 \cup {CrcBytes(p)[i] : p \in Payloads, i \in 1..2}

\* What stuffing makes of the first n bytes: no SYNC stands before anything but a STUFF,
\* the first byte stays the first, and unstuffing gives the n bytes back.
StuffedWell(bytes, data, n) ==
    /\ bytes \in Seq(Value)
    /\ Unstuff(bytes) = SubSeq(data, 1, n)
    /\ \A j \in 1..Len(bytes) : bytes[j] = SYNC => j + 1 \in 1..Len(bytes) /\ bytes[j + 1] = STUFF
    /\ n = 0 => bytes = <<>>
    /\ n # 0 => bytes # <<>> /\ bytes[1] = data[1]

\* The last byte of what is stuffed is no SYNC.
LEMMA LastNoSync ==
    ASSUME NEW bytes \in Seq(Value), bytes # <<>>,
           \A j \in 1..Len(bytes) : bytes[j] = SYNC => j + 1 \in 1..Len(bytes) /\ bytes[j + 1] = STUFF
    PROVE  Len(bytes) \in 1..Len(bytes) /\ bytes[Len(bytes)] # SYNC
<1>1. Len(bytes) \in Nat /\ Len(bytes) # 0
  BY EmptySeq
<1>2. Len(bytes) \in 1..Len(bytes) /\ Len(bytes) + 1 \notin 1..Len(bytes)
  BY <1>1
<1>3. QED
  BY <1>2

\* The first n + 1 are the first n and the next.
LEMMA TakeNext ==
    ASSUME NEW A, NEW data \in Seq(A), NEW n \in Nat, n + 1 \in 1..Len(data)
    PROVE  Append(SubSeq(data, 1, n), data[n + 1]) = SubSeq(data, 1, n + 1)
<1>1. n \in 0..Len(data) /\ 1 \in 1..Len(data) /\ n + 1 \in 1..Len(data) /\ (n + 1) - 1 = n
  OBVIOUS
<1>2. SubSeq(data, 1, n) \in Seq(A)
  BY <1>1, CutInTwo
<1>3. data[n + 1] \in A
  BY <1>1, ElementOfSeq
<1>4. SubSeq(data, 1, n + 1) = SubSeq(data, 1, (n + 1) - 1) \o <<data[n + 1]>>
  BY <1>1, SubSeqRecursiveSecond
<1>5. QED
  BY <1>1, <1>2, <1>3, <1>4, AppendIsConcat

\* A byte that is no SYNC stands for itself.
LEMMA PlainByte ==
    ASSUME NEW data \in Seq(Value), NEW n \in Nat, n + 1 \in 1..Len(data),
           NEW bytes, StuffedWell(bytes, data, n), data[n + 1] # SYNC
    PROVE  StuffedWell(bytes \o <<data[n + 1]>>, data, n + 1)
<1> DEFINE x == data[n + 1]
           more == Append(bytes, x)
           len == Len(bytes)
<1>1. bytes \in Seq(Value) /\ x \in Value
  BY ElementOfSeq DEF StuffedWell
<1>2. /\ bytes \o <<x>> = more /\ more \in Seq(Value) /\ more # <<>>
      /\ len \in Nat /\ Len(more) = len + 1
      /\ more[len + 1] = x /\ \A i \in 1..len : more[i] = bytes[i]
  BY <1>1, AppendProperties, AppendIsConcat, LenProperties
<1>3. \A j \in 1..len : bytes[j] = SYNC => j + 1 \in 1..len /\ bytes[j + 1] = STUFF
  BY DEF StuffedWell
<1>4. bytes # <<>> => bytes[len] # SYNC
  BY <1>1, <1>3, LastNoSync
<1>5. Unstuff(more) = Append(SubSeq(data, 1, n), x)
  BY <1>1, <1>4, UnstuffAppend DEF StuffedWell
<1>6. Append(SubSeq(data, 1, n), x) = SubSeq(data, 1, n + 1)
  BY TakeNext
<1> HIDE DEF more
<1>7. ASSUME NEW j \in 1..Len(more), more[j] = SYNC
      PROVE  j + 1 \in 1..Len(more) /\ more[j + 1] = STUFF
  <2>1. j \in 1..len
    BY <1>2, <1>7
  <2>2. bytes[j] = SYNC
    BY <1>2, <1>7, <2>1
  <2>3. j + 1 \in 1..len /\ bytes[j + 1] = STUFF
    BY <1>3, <2>1, <2>2
  <2>4. QED
    BY <1>2, <2>3
<1>8. more[1] = data[1]
  <2>1. CASE n = 0
    <3>1. len = 0
      BY <2>1, EmptySeq DEF StuffedWell
    <3>2. QED
      BY <1>2, <2>1, <3>1
  <2>2. CASE n # 0
    <3>1. bytes # <<>> /\ bytes[1] = data[1]
      BY <2>2 DEF StuffedWell
    <3>2. 1 \in 1..len
      BY <1>1, <3>1, EmptySeq
    <3>3. QED
      BY <1>2, <3>1, <3>2
  <2>3. QED
    BY <2>1, <2>2
<1>9. n + 1 # 0 /\ Unstuff(more) = SubSeq(data, 1, n + 1)
  BY <1>5, <1>6
<1>10. more = bytes \o <<x>> /\ more \in Seq(Value) /\ more # <<>>
  BY <1>2
<1> HIDE DEF x
<1>11. StuffedWell(more, data, n + 1)
  BY <1>7, <1>8, <1>9, <1>10, Zenon DEF StuffedWell
<1>12. QED
  BY <1>10, <1>11 DEF x

\* A SYNC is followed by a STUFF.
LEMMA SyncByte ==
    ASSUME NEW data \in Seq(Value), NEW n \in Nat, n + 1 \in 1..Len(data),
           NEW bytes, StuffedWell(bytes, data, n), data[n + 1] = SYNC
    PROVE  StuffedWell(bytes \o <<SYNC, STUFF>>, data, n + 1)
<1> DEFINE one == Append(bytes, SYNC)
           more == Append(one, STUFF)
           len == Len(bytes)
<1>1. bytes \in Seq(Value) /\ SYNC \in Value /\ STUFF \in Value /\ SYNC # STUFF
  BY DEF StuffedWell, Value, SYNC, STUFF
<1>2. /\ one \in Seq(Value) /\ one # <<>> /\ len \in Nat /\ Len(one) = len + 1
      /\ one[len + 1] = SYNC /\ \A i \in 1..len : one[i] = bytes[i]
  BY <1>1, AppendProperties, LenProperties
<1> HIDE DEF one
<1>3. /\ more \in Seq(Value) /\ more # <<>> /\ Len(more) = len + 2
      /\ more[len + 2] = STUFF /\ \A i \in 1..(len + 1) : more[i] = one[i]
  BY <1>1, <1>2, AppendProperties
<1>4. bytes \o <<SYNC, STUFF>> = more
  <2>1. <<SYNC>> \o <<STUFF>> = <<SYNC, STUFF>>
    <3> DEFINE a == SYNC
               b == STUFF
    <3>1. a \in Value /\ b \in Value
      BY <1>1
    <3> HIDE DEF a, b
    <3>2. <<a>> \in Seq(Value) /\ <<b>> \in Seq(Value) /\ <<a, b>> \in Seq(Value)
      BY <3>1
    <3>3. <<a>> \o <<b>> = Append(<<a>>, b)
      BY <3>1, <3>2, AppendIsConcat, Zenon
    <3>4. /\ Len(<<a>>) = 1 /\ Len(<<a, b>>) = 1 + 1
          /\ <<a, b>>[1 + 1] = b /\ \A i \in 1..1 : <<a, b>>[i] = <<a>>[i]
      OBVIOUS
    <3>5. Append(<<a>>, b) = <<a, b>>
      BY <3>1, <3>2, <3>4, AppendIs
    <3>6. QED
      BY <3>3, <3>5, Zenon DEF a, b
  <2>2. <<SYNC>> \in Seq(Value) /\ <<STUFF>> \in Seq(Value)
    BY <1>1
  <2>3. (bytes \o <<SYNC>>) \o <<STUFF>> = bytes \o (<<SYNC>> \o <<STUFF>>)
    BY <1>1, <2>2, ConcatAssociative
  <2>4. one = bytes \o <<SYNC>>
    BY <1>1, AppendIsConcat DEF one
  <2>5. more = one \o <<STUFF>>
    BY <1>1, <1>2, AppendIsConcat
  <2>6. QED
    BY <2>1, <2>3, <2>4, <2>5
<1>5. \A j \in 1..len : bytes[j] = SYNC => j + 1 \in 1..len /\ bytes[j + 1] = STUFF
  BY DEF StuffedWell
<1>6. Unstuff(more) = Append(SubSeq(data, 1, n), SYNC)
  <2>1. Unstuff(one) = Append(Unstuff(bytes), SYNC)
    BY <1>1, UnstuffAppend DEF one
  <2>2. Unstuff(more) = Unstuff(one)
    BY <1>1, <1>2, UnstuffAppend
  <2>3. QED
    BY <2>1, <2>2 DEF StuffedWell
<1> HIDE DEF more
<1>7. Unstuff(more) = SubSeq(data, 1, n + 1)
  BY <1>6, TakeNext
<1>8. ASSUME NEW j \in 1..Len(more), more[j] = SYNC
      PROVE  j + 1 \in 1..Len(more) /\ more[j + 1] = STUFF
  <2>1. j \in 1..(len + 1)
    BY <1>1, <1>2, <1>3, <1>8
  <2>2. CASE j = len + 1
    BY <1>2, <1>3, <2>2
  <2>3. CASE j \in 1..len
    <3>1. bytes[j] = SYNC
      BY <1>2, <1>3, <1>8, <2>1, <2>3
    <3>2. j + 1 \in 1..len /\ bytes[j + 1] = STUFF
      BY <1>5, <2>3, <3>1
    <3>3. QED
      BY <1>2, <1>3, <3>2
  <2>4. QED
    BY <1>2, <2>1, <2>2, <2>3
<1>9. more[1] = data[1]
  <2>1. CASE n = 0
    <3>1. len = 0
      BY <2>1, EmptySeq DEF StuffedWell
    <3>2. QED
      BY <1>2, <1>3, <2>1, <3>1
  <2>2. CASE n # 0
    <3>1. bytes # <<>> /\ bytes[1] = data[1]
      BY <2>2 DEF StuffedWell
    <3>2. 1 \in 1..len
      BY <1>1, <3>1, EmptySeq
    <3>3. QED
      BY <1>2, <1>3, <3>1, <3>2
  <2>3. QED
    BY <2>1, <2>2
<1>10. n + 1 # 0 /\ more \in Seq(Value) /\ more # <<>>
  BY <1>3
<1>11. StuffedWell(more, data, n + 1)
  BY <1>7, <1>8, <1>9, <1>10, Zenon DEF StuffedWell
<1>12. QED
  BY <1>4, <1>11

\* What stuffing makes of the first n bytes of data.
LEMMA StuffsTyped ==
    ASSUME NEW data \in Seq(Value)
    PROVE  /\ Stuffs(data) \in Seq(Seq(Value)) /\ Len(Stuffs(data)) = Len(data)
           /\ \A i \in 1..Len(data) :
                 Stuffs(data)[i] = IF data[i] = SYNC THEN <<SYNC, STUFF>> ELSE <<data[i]>>
<1>1. DOMAIN data = 1..Len(data) /\ Len(data) \in Nat
  OBVIOUS
<1>2. SYNC \in Value /\ STUFF \in Value
  BY DEF Value, SYNC, STUFF
<1>3. ASSUME NEW i \in 1..Len(data)
      PROVE  (IF data[i] = SYNC THEN <<SYNC, STUFF>> ELSE <<data[i]>>) \in Seq(Value)
  <2>1. data[i] \in Value
    BY ElementOfSeq
  <2>2. <<SYNC, STUFF>> \in Seq(Value) /\ <<data[i]>> \in Seq(Value)
    BY <1>2, <2>1
  <2>3. QED
    BY <2>2
<1>4. QED
  BY <1>1, <1>3 DEF Stuffs

\* Stuffing goes well for as many bytes as there are.
LEMMA StuffedSoFar ==
    ASSUME NEW data \in Seq(Value), NEW n \in 0..Len(data)
    PROVE  StuffedWell(Joined(Stuffs(data), n), data, n)
<1> DEFINE Bytes(m) == Joined(Stuffs(data), m)
           T == {m \in 0..n : ~StuffedWell(Bytes(m), data, m)}
<1>1. Len(data) \in Nat /\ n \in Nat
  OBVIOUS
<1> SUFFICES ASSUME T # {} PROVE FALSE
  BY <1>1
<1>2. PICK m \in T : \A y \in T : m <= y
  <2>1. T \subseteq Nat
    BY <1>1
  <2> HIDE DEF T
  <2>2. QED
    BY <2>1, LeastNumber
<1>3. m \in 0..n /\ ~StuffedWell(Bytes(m), data, m)
  BY <1>2
<1>4. CASE m = 0
  <2>1. Bytes(0) = <<>>
    BY JoinedNone
  <2>2. Unstuff(<<>>) = <<>> /\ SubSeq(data, 1, 0) = <<>>
    <3>1. Kept(<<>>) = <<>> /\ Len(<<>>) = 0
      BY DEF Kept
    <3>2. Unstuff(<<>>) = FlattenSeq(Kept(<<>>))
      BY Zenon DEF Unstuff, Kept
    <3>3. FlattenSeq(<<>>) = <<>>
      BY <3>1 DEF FlattenSeq
    <3>4. QED
      BY <3>1, <3>2, <3>3, SubSeqEmpty
  <2>3. <<>> \in Seq(Value) /\ 1..Len(<<>>) = {}
    BY EmptySeq
  <2>4. StuffedWell(<<>>, data, 0)
    BY <2>2, <2>3 DEF StuffedWell
  <2>5. QED
    BY <1>3, <1>4, <2>1, <2>4
<1>5. CASE m # 0
  <2> DEFINE k == m - 1
  <2>1. k \in Nat /\ k \in 0..n /\ k + 1 = m /\ ~(m <= k) /\ k + 1 \in 1..Len(data)
    BY <1>1, <1>3, <1>5
  <2>2. StuffedWell(Bytes(k), data, k)
    BY <1>2, <2>1
  <2> HIDE DEF k, T
  <2>3. Bytes(k + 1) = Bytes(k) \o Stuffs(data)[k + 1]
    BY <2>1, StuffsTyped, JoinedNext
  <2>4. Stuffs(data)[k + 1] = IF data[k + 1] = SYNC THEN <<SYNC, STUFF>> ELSE <<data[k + 1]>>
    BY <2>1, StuffsTyped
  <2> HIDE DEF Bytes
  <2>5. StuffedWell(Bytes(k + 1), data, k + 1)
    <3>1. CASE data[k + 1] = SYNC
      BY <2>1, <2>2, <2>3, <2>4, <3>1, SyncByte
    <3>2. CASE data[k + 1] # SYNC
      BY <2>1, <2>2, <2>3, <2>4, <3>2, PlainByte
    <3>3. QED
      BY <3>1, <3>2
  <2>6. QED
    BY <1>3, <2>1, <2>5
<1>6. QED
  BY <1>4, <1>5

\* Unstuffing undoes stuffing, and what is stuffed holds no marker.
LEMMA StuffUndone ==
    ASSUME NEW data \in Seq(Value)
    PROVE  /\ StuffedWell(Stuff(data), data, Len(data))
           /\ Unstuff(Stuff(data)) = data
<1>1. Len(data) \in 0..Len(data)
  OBVIOUS
<1>2. Stuff(data) = FlattenSeq(Stuffs(data))
  BY Zenon DEF Stuff, Stuffs
<1>3. Joined(Stuffs(data), Len(data)) = FlattenSeq(Stuffs(data))
  BY StuffsTyped, JoinedAll
<1>4. StuffedWell(Stuff(data), data, Len(data))
  BY <1>1, <1>2, <1>3, StuffedSoFar
<1>5. QED
  BY <1>4, SubSeqFull DEF StuffedWell

-----------------------------------------------------------------------------
(* A frame. *)

\* A frame before it is stuffed.
WithCrc(p) == p \o CrcBytes(p)

\* It is the frame and the two bytes of its CRC.
LEMMA CrcBehind ==
    ASSUME NEW p \in Payloads
    PROVE  /\ p \in Seq(Value) /\ Len(p) \in Nat \ {0}
           /\ WithCrc(p) \in Seq(Value) /\ Len(WithCrc(p)) = Len(p) + 2
           /\ WithCrc(p)[1] = p[1]
           /\ SubSeq(WithCrc(p), 1, Len(p)) = p
           /\ SubSeq(WithCrc(p), Len(p) + 1, Len(p) + 2) = CrcBytes(p)
<1> DEFINE crc == CrcBytes(p)
           n == Len(p)
<1>1. p \in Seq(0..255) /\ p # <<>>
  BY CodecAssumption
<1>2. p \in Seq(Value) /\ n \in Nat \ {0}
  <2>1. 0..255 \subseteq Value
    BY DEF Value
  <2>2. p \in Seq(Value)
    BY <1>1, <2>1, SeqMonotonic, Zenon
  <2>3. n \in Nat /\ n # 0
    BY <1>1, EmptySeq
  <2>4. QED
    BY <2>2, <2>3
<1>3. crc \in Seq(Value) /\ Len(crc) = 2
  <2>1. \A i \in 1..2 : crc[i] \in Value
    BY DEF Value
  <2>2. crc = <<crc[1], crc[2]>>
    BY DEF CrcBytes
  <2> HIDE DEF crc
  <2>3. <<crc[1], crc[2]>> \in Seq(Value) /\ Len(<<crc[1], crc[2]>>) = 2
    BY <2>1
  <2>4. QED
    BY <2>2, <2>3
<1> HIDE DEF crc, n
<1>4. /\ p \o crc \in Seq(Value) /\ Len(p \o crc) = n + 2
      /\ \A i \in 1..(n + 2) : (p \o crc)[i] = IF i <= n THEN p[i] ELSE crc[i - n]
  <2>1. /\ p \o crc \in Seq(Value) /\ Len(p \o crc) = Len(p) + Len(crc)
        /\ \A i \in 1..(Len(p) + Len(crc)) :
              (p \o crc)[i] = IF i <= Len(p) THEN p[i] ELSE crc[i - Len(p)]
    BY <1>2, <1>3, ConcatProperties, Zenon
  <2>2. Len(p) = n /\ Len(crc) = 2
    BY <1>3 DEF n
  <2>3. QED
    BY <2>1, <2>2, Zenon
<1> DEFINE w == p \o crc
<1> HIDE DEF w
<1>5. w[1] = p[1]
  BY <1>2, <1>4 DEF w
<1>6. /\ SubSeq(w, 1, n) \in Seq(Value) /\ Len(SubSeq(w, 1, n)) = n
      /\ \A i \in 1..n : SubSeq(w, 1, n)[i] = w[i]
  BY <1>2, <1>4 DEF w
<1>7. SubSeq(w, 1, n) = p
  <2>1. \A i \in 1..n : SubSeq(w, 1, n)[i] = p[i]
    BY <1>2, <1>4, <1>6 DEF w
  <2> DEFINE x == SubSeq(w, 1, n)
  <2>2. x \in Seq(Value) /\ Len(x) = Len(p) /\ \A i \in 1..Len(x) : x[i] = p[i]
    BY <1>6, <2>1, Zenon DEF n
  <2> HIDE DEF x
  <2>3. x = p
    BY <1>2, <2>2, SeqEqual, Zenon
  <2>4. QED
    BY <2>3, Zenon DEF x
<1>8. SubSeq(w, n + 1, n + 2) = crc
  <2>1. \A i \in (n + 1)..(n + 2) : w[i] \in Value
    BY <1>2, <1>4, ElementOfSeq DEF w
  <2>2. n + 1 \in Int /\ n + 2 \in Int /\ n + 1 <= n + 2 /\ (n + 2) - (n + 1) + 1 = 2
    BY <1>2
  <2>3. /\ SubSeq(w, n + 1, n + 2) \in Seq(Value) /\ Len(SubSeq(w, n + 1, n + 2)) = 2
        /\ \A i \in 1..2 : SubSeq(w, n + 1, n + 2)[i] = w[(n + 1) + i - 1]
    BY <2>1, <2>2, SubSeqProperties
  <2>4. \A i \in 1..2 : w[(n + 1) + i - 1] = crc[i]
    <3> SUFFICES ASSUME NEW i \in 1..2 PROVE w[(n + 1) + i - 1] = crc[i]
      OBVIOUS
    <3>1. (n + 1) + i - 1 \in 1..(n + 2) /\ ~((n + 1) + i - 1 <= n) /\ ((n + 1) + i - 1) - n = i
      BY <1>2
    <3>2. QED
      BY <1>4, <3>1 DEF w
  <2> DEFINE x == SubSeq(w, n + 1, n + 2)
  <2>5. x \in Seq(Value) /\ Len(x) = Len(crc) /\ \A i \in 1..Len(x) : x[i] = crc[i]
    BY <1>3, <2>3, <2>4, Zenon
  <2> HIDE DEF x
  <2>6. x = crc
    BY <1>3, <2>5, SeqEqual, Zenon
  <2>7. QED
    BY <2>6, Zenon DEF x
<1>9. QED
  BY <1>2, <1>4, <1>5, <1>7, <1>8 DEF w, crc, n, WithCrc

\* Two sequences joined.
LEMMA TwoJoined ==
    ASSUME NEW s \in Seq(Value), NEW t \in Seq(Value)
    PROVE  /\ s \o t \in Seq(Value) /\ Len(s \o t) = Len(s) + Len(t)
           /\ \A i \in 1..Len(s) : (s \o t)[i] = s[i]
           /\ \A i \in 1..Len(t) : (s \o t)[Len(s) + i] = t[i]
<1> DEFINE u == s \o t
           n == Len(s)
           m == Len(t)
<1>1. n \in Nat /\ m \in Nat
  BY LenProperties
<1>2. /\ u \in Seq(Value) /\ Len(u) = n + m
      /\ \A i \in 1..(n + m) : u[i] = IF i <= n THEN s[i] ELSE t[i - n]
  BY ConcatProperties
<1> HIDE DEF u, n, m
<1>3. ASSUME NEW i \in 1..m PROVE u[n + i] = t[i]
  <2>1. n + i \in 1..(n + m) /\ ~(n + i <= n) /\ (n + i) - n = i
    BY <1>1
  <2>2. QED
    BY <1>2, <2>1
<1>4. \A i \in 1..n : u[i] = s[i]
  BY <1>1, <1>2
<1>5. QED
  BY <1>2, <1>3, <1>4 DEF u, n, m

\* The bytes of a frame: the header, what is stuffed, and the end marker.
LEMMA FrameBytes ==
    ASSUME NEW p \in Payloads
    PROVE  LET s == Stuff(WithCrc(p))
               e == Encode(p)
           IN  /\ s \in Seq(Value) /\ Len(s) \in Nat \ {0}
               /\ s[1] = p[1] /\ Unstuff(s) = WithCrc(p)
               /\ \A j \in 1..Len(s) : s[j] = SYNC => j + 1 \in 1..Len(s) /\ s[j + 1] = STUFF
               /\ e \in Seq(Value) /\ Len(e) = Len(s) + 4
               /\ e[1] = SYNC /\ e[2] = SYNC
               /\ \A j \in 1..Len(s) : e[2 + j] = s[j]
               /\ e[Len(s) + 3] = SYNC /\ e[Len(s) + 4] = END
<1> DEFINE s == Stuff(WithCrc(p))
           w == WithCrc(p)
           head == <<SYNC, SYNC>>
           tail == <<SYNC, END>>
<1>1. w \in Seq(Value) /\ Len(w) \in Nat /\ Len(w) # 0 /\ w[1] = p[1]
  BY CrcBehind
<1>2. /\ s \in Seq(Value) /\ s # <<>> /\ s[1] = p[1] /\ Unstuff(s) = w
      /\ \A j \in 1..Len(s) : s[j] = SYNC => j + 1 \in 1..Len(s) /\ s[j + 1] = STUFF
  BY <1>1, StuffUndone DEF StuffedWell
<1> HIDE DEF s, w
<1>3. Len(s) \in Nat \ {0}
  BY <1>2, EmptySeq
<1>4. /\ head \in Seq(Value) /\ Len(head) = 2 /\ head[1] = SYNC /\ head[2] = SYNC
      /\ tail \in Seq(Value) /\ Len(tail) = 2 /\ tail[1] = SYNC /\ tail[2] = END
  <2>1. SYNC \in Value /\ END \in Value
    BY DEF Value, SYNC, END
  <2>2. QED
    BY <2>1
<1> HIDE DEF head, tail
<1> DEFINE len == Len(s)
           t == head \o s
           e == t \o tail
<1>5. len \in Nat /\ Len(s) = len /\ 2 \in Nat
  BY <1>3
<1> HIDE DEF len
<1>6. /\ t \in Seq(Value) /\ Len(t) = 2 + len
      /\ \A i \in 1..2 : t[i] = head[i]
      /\ \A i \in 1..len : t[2 + i] = s[i]
  <2>1. s \in Seq(Value) /\ head \in Seq(Value)
    BY <1>2, <1>4
  <2>2. /\ t \in Seq(Value) /\ Len(t) = Len(head) + Len(s)
        /\ \A i \in 1..Len(head) : t[i] = head[i]
        /\ \A i \in 1..Len(s) : t[Len(head) + i] = s[i]
    BY <2>1, TwoJoined, Zenon
  <2> HIDE DEF t
  <2>3. QED
    BY <1>4, <1>5, <2>2
<1> HIDE DEF t
<1>7. len \in Nat /\ 2 + len \in Nat
  BY <1>5
<1>8. /\ e \in Seq(Value) /\ Len(e) = (2 + len) + 2
      /\ \A i \in 1..(2 + len) : e[i] = t[i]
      /\ \A i \in 1..2 : e[(2 + len) + i] = tail[i]
  <2>1. t \in Seq(Value) /\ tail \in Seq(Value)
    BY <1>4, <1>6
  <2>2. /\ e \in Seq(Value) /\ Len(e) = Len(t) + Len(tail)
        /\ \A i \in 1..Len(t) : e[i] = t[i]
        /\ \A i \in 1..Len(tail) : e[Len(t) + i] = tail[i]
    BY <2>1, TwoJoined, Zenon
  <2> HIDE DEF e
  <2>3. QED
    BY <1>4, <1>6, <1>7, <2>2
<1> HIDE DEF e
<1>9. ASSUME NEW j \in 1..len PROVE e[2 + j] = s[j]
  <2>1. 2 + j \in 1..(2 + len)
    BY <1>7
  <2>2. e[2 + j] = t[2 + j] /\ t[2 + j] = s[j]
    BY <1>6, <1>8, <2>1, Zenon
  <2>3. QED
    BY <2>2, Zenon
<1>10. /\ e[1] = SYNC /\ e[2] = SYNC
      /\ e[(2 + len) + 1] = SYNC /\ e[(2 + len) + 2] = END
  BY <1>4, <1>6, <1>7, <1>8
<1>11. Encode(p) = e
  BY Zenon DEF Encode, WithCrc, e, t, s, w, head, tail
<1>12. (2 + len) + 2 = len + 4 /\ (2 + len) + 1 = len + 3
  BY <1>7
<1>13. QED
  BY <1>2, <1>3, <1>8, <1>9, <1>10, <1>11, <1>12 DEF s, w, len

\* The markers of a frame: headers stand at its start only, and an end marker at its end,
\* or over the header if the frame starts like one.
LEMMA FrameMarks ==
    ASSUME NEW p \in Payloads
    PROVE  LET e == Encode(p)
               n == Len(e)
           IN  /\ e \in Seq(Value) /\ n \in Nat /\ n >= 5
               /\ e[1] = SYNC /\ e[2] = SYNC /\ e[3] = p[1] /\ e[n - 1] = SYNC /\ e[n] = END
               /\ \A j \in 1..(n - 1) : e[j] = SYNC /\ e[j + 1] = SYNC => j = 1 \/ (j = 2 /\ p[1] # END)
               /\ \A j \in 1..(n - 2) : e[j] = SYNC /\ e[j + 1] = END => j = 2 /\ p[1] = END
               /\ Unstuff(SubSeq(e, 3, n - 2)) = WithCrc(p)
<1> DEFINE s == Stuff(WithCrc(p))
           e == Encode(p)
           n == Len(e)
           len == Len(s)
<1>1. /\ s \in Seq(Value) /\ len \in Nat \ {0} /\ s[1] = p[1] /\ Unstuff(s) = WithCrc(p)
      /\ \A j \in 1..len : s[j] = SYNC => j + 1 \in 1..len /\ s[j + 1] = STUFF
      /\ e \in Seq(Value) /\ n = len + 4
      /\ e[1] = SYNC /\ e[2] = SYNC
      /\ \A j \in 1..len : e[2 + j] = s[j]
      /\ e[len + 3] = SYNC /\ e[len + 4] = END
  BY FrameBytes
<1>2. SYNC # STUFF /\ SYNC # END /\ STUFF # END
  BY DEF SYNC, STUFF, END
<1> HIDE DEF s, e, n, len
<1>3. e[3] = p[1] /\ e[n - 1] = SYNC /\ e[n] = END /\ n \in Nat /\ n >= 5
  <2>1. 1 \in 1..len /\ 2 + 1 = 3 /\ n - 1 = len + 3
    BY <1>1
  <2>2. QED
    BY <1>1, <2>1, SMTT(30)
<1>4. ASSUME NEW j \in 1..(n - 1), e[j] = SYNC, j # 1, j # 2, j # n - 1
      PROVE  e[j + 1] = STUFF
  <2>1. j - 2 \in 1..len /\ 2 + (j - 2) = j /\ 2 + ((j - 2) + 1) = j + 1
    BY <1>1, <1>4
  <2>2. s[j - 2] = SYNC
    BY <1>1, <1>4, <2>1
  <2>3. (j - 2) + 1 \in 1..len /\ s[(j - 2) + 1] = STUFF
    BY <1>1, <2>1, <2>2
  <2>4. e[2 + ((j - 2) + 1)] = STUFF
    BY <1>1, <2>3
  <2>5. QED
    BY <2>1, <2>4
<1>5. ASSUME NEW j \in 1..(n - 1), e[j] = SYNC, e[j + 1] = SYNC
      PROVE  j = 1 \/ (j = 2 /\ p[1] # END)
  <2>1. j = 1 \/ j = 2 \/ j = n - 1
    BY <1>2, <1>4, <1>5
  <2>2. (n - 1) + 1 = n /\ 2 + 1 = 3
    BY <1>3
  <2>3. QED
    BY <1>2, <1>3, <1>5, <2>1, <2>2
<1>6. ASSUME NEW j \in 1..(n - 2), e[j] = SYNC, e[j + 1] = END
      PROVE  j = 2 /\ p[1] = END
  <2>1. j \in 1..(n - 1) /\ j # n - 1 /\ 1 + 1 = 2 /\ 2 + 1 = 3
    BY <1>3
  <2>2. j = 1 \/ j = 2
    BY <1>2, <1>4, <1>6, <2>1
  <2>3. QED
    BY <1>1, <1>2, <1>3, <1>6, <2>1, <2>2
<1>7. SubSeq(e, 3, n - 2) = s
  <2>1. \A i \in 3..(n - 2) : e[i] \in Value
    BY <1>1, ElementOfSeq DEF n
  <2>2. 3 \in Int /\ n - 2 \in Int /\ 3 <= n - 2 /\ (n - 2) - 3 + 1 = len
    BY <1>1
  <2>3. /\ SubSeq(e, 3, n - 2) \in Seq(Value) /\ Len(SubSeq(e, 3, n - 2)) = len
        /\ \A i \in 1..len : SubSeq(e, 3, n - 2)[i] = e[3 + i - 1]
    BY <2>1, <2>2, SubSeqProperties
  <2>4. \A i \in 1..len : e[3 + i - 1] = s[i]
    <3> SUFFICES ASSUME NEW i \in 1..len PROVE e[3 + i - 1] = s[i]
      OBVIOUS
    <3>1. 3 + i - 1 = 2 + i
      BY <1>1
    <3>2. QED
      BY <1>1, <3>1
  <2>5. QED
    BY <1>1, <2>3, <2>4, SeqEqual DEF len
<1>8. QED
  BY <1>1, <1>3, <1>5, <1>6, <1>7 DEF e, n

-----------------------------------------------------------------------------
(* The line. *)

\* The pieces as bytes, the line they make, and what stands before a piece.
Sent       == [i \in DOMAIN pieces |-> BytesOf(pieces[i])]
Line       == FlattenSeq(Sent)
StartAt(i) == Len(Joined(Sent, i - 1))

\* The frames, but for those that an end marker over the header hides, and those.
Shown(i)  == pieces[i].is = "frame" /\ pieces[i].data[1] # END
Hidden(i) == pieces[i].is = "frame" /\ pieces[i].data[1] = END

Clean == pieces \in Segments /\ CleanLine

\* A clean line is of frames and junk.
LEMMA CleanPieces ==
    ASSUME Clean
    PROVE  /\ pieces \in Seq(Pieces) /\ Len(pieces) \in Nat /\ DOMAIN pieces = 1..Len(pieces)
           /\ \A i \in 1..Len(pieces) :
                 \/ pieces[i].is = "frame" /\ pieces[i].data \in Payloads
                 \/ pieces[i].is = "junk" /\ pieces[i].data \in Junk
<1>1. pieces \in Seq(Pieces)
  BY CodecAssumption DEF Clean
<1>2. DOMAIN pieces = 1..Len(pieces) /\ Len(pieces) \in Nat
  BY <1>1, LenProperties
<1>3. ASSUME NEW i \in 1..Len(pieces)
      PROVE  \/ pieces[i].is = "frame" /\ pieces[i].data \in Payloads
             \/ pieces[i].is = "junk" /\ pieces[i].data \in Junk
  <2>1. pieces[i] \in Pieces /\ pieces[i].is # "cut"
    BY <1>1, <1>2, ElementOfSeq DEF Clean, CleanLine
  <2>2. QED
    BY <2>1 DEF Pieces
<1>4. QED
  BY <1>1, <1>2, <1>3

\* Each piece is made of bytes: a frame as it is encoded, and junk without a SYNC.
LEMMA PieceBytes ==
    ASSUME Clean, NEW i \in 1..Len(pieces)
    PROVE  /\ BytesOf(pieces[i]) \in Seq(Value)
           /\ pieces[i].is = "frame" => /\ pieces[i].data \in Payloads
                                        /\ BytesOf(pieces[i]) = Encode(pieces[i].data)
           /\ pieces[i].is # "frame" =>
                 \A j \in 1..Len(BytesOf(pieces[i])) : BytesOf(pieces[i])[j] # SYNC
<1>1. CASE pieces[i].is = "frame"
  <2>1. pieces[i].data \in Payloads
    BY <1>1, CleanPieces
  <2>2. BytesOf(pieces[i]) = Encode(pieces[i].data)
    BY <1>1 DEF BytesOf
  <2>3. Encode(pieces[i].data) \in Seq(Value)
    BY <2>1, FrameMarks
  <2>4. QED
    BY <1>1, <2>1, <2>2, <2>3
<1>2. CASE pieces[i].is # "frame"
  <2>1. pieces[i].is = "junk" /\ pieces[i].data \in Junk
    BY <1>2, CleanPieces
  <2>2. BytesOf(pieces[i]) = pieces[i].data
    BY <2>1 DEF BytesOf
  <2> DEFINE d == pieces[i].data
  <2>3. d \in Seq(0..255 \ {SYNC, END})
    BY <2>1, CodecAssumption
  <2> HIDE DEF d
  <2>4. 0..255 \ {SYNC, END} \subseteq Value
    BY DEF Value
  <2>5. d \in Seq(Value)
    BY <2>3, <2>4, SeqMonotonic
  <2>6. \A j \in 1..Len(d) : d[j] # SYNC
    <3>1. \A j \in 1..Len(d) : d[j] \in 0..255 \ {SYNC, END}
      BY <2>3, ElementOfSeq
    <3>2. QED
      BY <3>1
  <2>7. QED
    BY <1>2, <2>2, <2>5, <2>6 DEF d
<1>3. QED
  BY <1>1, <1>2

\* Where the pieces are in the line.
LEMMA LinePieces ==
    ASSUME Clean
    PROVE  /\ Line \in Seq(Value) /\ Len(Line) \in Nat
           /\ Len(pieces) \in Nat /\ StartAt(1) = 0 /\ StartAt(Len(pieces) + 1) = Len(Line)
           /\ \A i \in 1..Len(pieces) :
                 /\ StartAt(i) \in Nat /\ Len(BytesOf(pieces[i])) \in Nat
                 /\ StartAt(i + 1) = StartAt(i) + Len(BytesOf(pieces[i]))
                 /\ StartAt(i + 1) \in 0..Len(Line)
                 /\ \A j \in 1..Len(BytesOf(pieces[i])) :
                       Line[StartAt(i) + j] = BytesOf(pieces[i])[j]
<1>1. Len(pieces) \in Nat /\ DOMAIN pieces = 1..Len(pieces)
  BY CleanPieces
<1>2. \A i \in 1..Len(pieces) : BytesOf(pieces[i]) \in Seq(Value)
  BY PieceBytes
<1>3. /\ Sent \in Seq(Seq(Value)) /\ Len(Sent) = Len(pieces)
      /\ \A i \in 1..Len(pieces) : Sent[i] = BytesOf(pieces[i])
  BY <1>1, <1>2 DEF Sent
<1>4. Line \in Seq(Value) /\ Len(Line) \in Nat
  <2>1. Line \in Seq(Value)
    BY <1>3, FlattenTyped DEF Line
  <2>2. QED
    BY <2>1, LenProperties
<1>5. StartAt(1) = 0
  <2>1. 1 - 1 = 0 /\ Len(<<>>) = 0
    OBVIOUS
  <2>2. QED
    BY <2>1, JoinedNone DEF StartAt
<1>6. StartAt(Len(pieces) + 1) = Len(Line)
  <2>1. (Len(pieces) + 1) - 1 = Len(Sent)
    BY <1>1, <1>3
  <2>2. Joined(Sent, Len(Sent)) = Line
    BY <1>3, JoinedAll DEF Line
  <2>3. QED
    BY <2>1, <2>2 DEF StartAt
<1>7. ASSUME NEW i \in 1..Len(pieces)
      PROVE  /\ StartAt(i) \in Nat /\ Len(BytesOf(pieces[i])) \in Nat
             /\ StartAt(i + 1) = StartAt(i) + Len(BytesOf(pieces[i]))
             /\ StartAt(i + 1) \in 0..Len(Line)
             /\ \A j \in 1..Len(BytesOf(pieces[i])) :
                   Line[StartAt(i) + j] = BytesOf(pieces[i])[j]
  <2>1. i \in 1..Len(Sent) /\ Sent[i] = BytesOf(pieces[i]) /\ (i + 1) - 1 = i
    BY <1>1, <1>3
  <2>2. StartAt(i) = Len(Joined(Sent, i - 1)) /\ StartAt(i + 1) = Len(Joined(Sent, i))
    BY <2>1 DEF StartAt
  <2>3. /\ Len(Joined(Sent, i - 1)) \in Nat /\ Len(Sent[i]) \in Nat
        /\ Len(Joined(Sent, i)) = Len(Joined(Sent, i - 1)) + Len(Sent[i])
        /\ Len(Joined(Sent, i)) \in 0..Len(FlattenSeq(Sent))
        /\ \A j \in 1..Len(Sent[i]) : FlattenSeq(Sent)[Len(Joined(Sent, i - 1)) + j] = Sent[i][j]
    BY <1>3, <2>1, JoinedAt, ZenonT(40)
  <2>4. QED
    BY <2>1, <2>2, <2>3 DEF Line
<1>8. QED
  BY <1>1, <1>4, <1>5, <1>6, <1>7

\* An earlier piece ends before a later one starts.
LEMMA InOrder ==
    ASSUME Clean, NEW i \in 1..Len(pieces), NEW j \in 1..(Len(pieces) + 1), i < j
    PROVE  StartAt(i + 1) <= StartAt(j)
<1> DEFINE n == Len(pieces)
           T == {k \in (i + 1)..(n + 1) : ~(StartAt(i + 1) <= StartAt(k))}
<1>1. n \in Nat /\ \A k \in 1..n : StartAt(k) \in Nat /\ StartAt(k + 1) \in Nat /\ StartAt(k) <= StartAt(k + 1)
  BY LinePieces, SMTT(30)
<1> HIDE DEF n
<1>2. T = {}
  <2> SUFFICES ASSUME T # {} PROVE FALSE
    OBVIOUS
  <2>1. PICK k \in T : \A y \in T : k <= y
    <3>1. T \subseteq Nat
      BY <1>1 DEF n
    <3> HIDE DEF T
    <3>2. QED
      BY <3>1, LeastNumber
  <2>2. k \in (i + 1)..(n + 1) /\ ~(StartAt(i + 1) <= StartAt(k))
    BY <2>1
  <2>3. i + 1 \in Nat /\ StartAt(i + 1) \in Nat /\ k # i + 1
    BY <1>1, <2>2 DEF n
  <2>4. k - 1 \in (i + 1)..(n + 1) /\ k - 1 \in 1..n /\ ~(k <= k - 1) /\ (k - 1) + 1 = k
    BY <1>1, <2>2, <2>3 DEF n
  <2>5. StartAt(i + 1) <= StartAt(k - 1)
    BY <2>1, <2>4
  <2>6. StartAt(k - 1) \in Nat /\ StartAt((k - 1) + 1) \in Nat /\ StartAt(k - 1) <= StartAt((k - 1) + 1)
    BY <1>1, <2>4
  <2>7. QED
    BY <2>2, <2>3, <2>4, <2>5, <2>6
<1>3. j \in (i + 1)..(n + 1)
  BY <1>1 DEF n
<1>4. QED
  BY <1>2, <1>3

\* Each byte of the line is one of a piece.
LEMMA Located ==
    ASSUME Clean, NEW b \in 1..Len(Line)
    PROVE  \E i \in 1..Len(pieces) : b - StartAt(i) \in 1..Len(BytesOf(pieces[i]))
<1> DEFINE n == Len(pieces)
           T == {k \in 1..n : b <= StartAt(k + 1)}
<1>1. /\ n \in Nat /\ Len(Line) \in Nat /\ StartAt(1) = 0 /\ StartAt(n + 1) = Len(Line)
      /\ \A k \in 1..n : /\ StartAt(k) \in Nat /\ Len(BytesOf(pieces[k])) \in Nat
                         /\ StartAt(k + 1) = StartAt(k) + Len(BytesOf(pieces[k]))
  BY LinePieces
<1> HIDE DEF n
<1>2. n # 0
  BY <1>1
<1>3. n \in T
  <2>1. n \in 1..n
    BY <1>1, <1>2
  <2>2. StartAt(n + 1) = Len(Line)
    BY <1>1
  <2>3. b <= StartAt(n + 1)
    BY <1>1, <2>2
  <2>4. QED
    BY <2>1, <2>3
<1>4. PICK i \in T : \A y \in T : i <= y
  <2> HIDE DEF T
  <2>1. T \subseteq Nat /\ T # {}
    <3>1. \A k \in 1..n : k \in Nat
      OBVIOUS
    <3>2. \A k \in T : k \in 1..n
      BY Zenon DEF T
    <3>3. QED
      BY <1>3, <3>1, <3>2, Zenon
  <2>2. \E x \in T : \A y \in T : x <= y
    BY <2>1, LeastNumber, Zenon
  <2>3. QED
    BY <2>2
<1>5. i \in 1..n /\ b <= StartAt(i + 1)
  BY <1>4
<1>6. StartAt(i) < b
  <2>1. CASE i = 1
    BY <1>1, <2>1
  <2>2. CASE i # 1
    <3>1. i - 1 \in 1..n /\ ~(i <= i - 1) /\ (i - 1) + 1 = i
      BY <1>1, <1>5, <2>2
    <3>2. ~(b <= StartAt((i - 1) + 1))
      BY <1>4, <3>1
    <3>3. QED
      BY <1>1, <1>5, <3>1, <3>2
  <2>3. QED
    BY <2>1, <2>2
<1>7. b - StartAt(i) \in 1..Len(BytesOf(pieces[i]))
  BY <1>1, <1>5, <1>6, SMTT(30)
<1>8. QED
  BY <1>5, <1>7 DEF n

\* The marks of a frame, where it stands in the line.
LEMMA FrameInLine ==
    ASSUME Clean, NEW i \in 1..Len(pieces), pieces[i].is = "frame"
    PROVE  LET a == StartAt(i)
               b == StartAt(i + 1)
               p == pieces[i].data
           IN  /\ a \in Nat /\ b \in 0..Len(Line) /\ Len(Line) \in Nat /\ a + 5 <= b
               /\ p \in Payloads
               /\ Line[a + 1] = SYNC /\ Line[a + 2] = SYNC /\ Line[a + 3] = p[1]
               /\ Line[b - 1] = SYNC /\ Line[b] = END
               /\ \A j \in 1..(b - a - 2) :
                     Line[a + j] = SYNC /\ Line[a + j + 1] = END => j = 2 /\ p[1] = END
               /\ Unstuff(SubSeq(Line, a + 3, b - 2)) = WithCrc(p)
<1> DEFINE a == StartAt(i)
           b == StartAt(i + 1)
           p == pieces[i].data
           e == Encode(p)
           n == Len(e)
<1>1. p \in Payloads /\ BytesOf(pieces[i]) = e
  BY PieceBytes
<1>2. /\ Line \in Seq(Value) /\ Len(Line) \in Nat
      /\ a \in Nat /\ b = a + n /\ b \in 0..Len(Line)
      /\ \A j \in 1..n : Line[a + j] = e[j]
  BY <1>1, LinePieces
<1>3. /\ e \in Seq(Value) /\ n \in Nat /\ n >= 5
      /\ e[1] = SYNC /\ e[2] = SYNC /\ e[3] = p[1] /\ e[n - 1] = SYNC /\ e[n] = END
      /\ \A j \in 1..(n - 2) : e[j] = SYNC /\ e[j + 1] = END => j = 2 /\ p[1] = END
      /\ Unstuff(SubSeq(e, 3, n - 2)) = WithCrc(p)
  BY <1>1, FrameMarks
<1> HIDE DEF a, b, p, e, n
<1>4. a + 5 <= b /\ b - a - 2 = n - 2
  BY <1>2, <1>3, SMTT(30)
<1>5. /\ Line[a + 1] = SYNC /\ Line[a + 2] = SYNC /\ Line[a + 3] = p[1]
      /\ Line[b - 1] = SYNC /\ Line[b] = END
  <2>1. 1 \in 1..n /\ 2 \in 1..n /\ 3 \in 1..n /\ n - 1 \in 1..n /\ n \in 1..n
        /\ b - 1 = a + (n - 1)
    BY <1>2, <1>3
  <2>2. QED
    BY <1>2, <1>3, <2>1
<1>6. ASSUME NEW j \in 1..(n - 2), Line[a + j] = SYNC, Line[a + j + 1] = END
      PROVE  j = 2 /\ p[1] = END
  <2>1. j \in 1..n /\ j + 1 \in 1..n /\ a + j + 1 = a + (j + 1)
    BY <1>2, <1>3
  <2>2. e[j] = SYNC /\ e[j + 1] = END
    BY <1>2, <1>6, <2>1, SMTT(30)
  <2>3. QED
    BY <1>3, <2>2
<1>7. SubSeq(Line, a + 3, b - 2) = SubSeq(e, 3, n - 2)
  <2>1. \A k \in (a + 3)..(b - 2) : Line[k] \in Value
    BY <1>2, <1>3, ElementOfSeq, SMTT(30)
  <2>2. \A k \in 3..(n - 2) : e[k] \in Value
    BY <1>3, ElementOfSeq DEF n
  <2> DEFINE len == n - 4
  <2>3. /\ len \in Nat /\ a + 3 \in Int /\ b - 2 \in Int /\ a + 3 <= b - 2 /\ (b - 2) - (a + 3) + 1 = len
        /\ 3 \in Int /\ n - 2 \in Int /\ 3 <= n - 2 /\ (n - 2) - 3 + 1 = len
    BY <1>2, <1>3
  <2> HIDE DEF len
  <2>4. /\ SubSeq(Line, a + 3, b - 2) \in Seq(Value) /\ Len(SubSeq(Line, a + 3, b - 2)) = len
        /\ \A k \in 1..len : SubSeq(Line, a + 3, b - 2)[k] = Line[(a + 3) + k - 1]
    BY <2>1, <2>3, SubSeqProperties, SMTT(30)
  <2>5. /\ SubSeq(e, 3, n - 2) \in Seq(Value) /\ Len(SubSeq(e, 3, n - 2)) = len
        /\ \A k \in 1..len : SubSeq(e, 3, n - 2)[k] = e[3 + k - 1]
    BY <2>2, <2>3, SubSeqProperties, SMTT(30)
  <2>6. ASSUME NEW k \in 1..len PROVE Line[(a + 3) + k - 1] = e[3 + k - 1]
    <3>1. 3 + k - 1 \in 1..n /\ (a + 3) + k - 1 = a + (3 + k - 1)
      BY <1>2, <1>3, <2>3 DEF len
    <3>2. QED
      BY <1>2, <3>1
  <2>7. QED
    BY <2>4, <2>5, <2>6, SeqEqual
<1>8. QED
  BY <1>1, <1>2, <1>3, <1>4, <1>5, <1>6, <1>7 DEF a, b, p

\* Two SYNCs in a row are the header of a frame, or its second half and a stuffed byte.
LEMMA HeaderInLine ==
    ASSUME Clean, NEW c \in 1..Len(Line), c + 1 \in 1..Len(Line),
           Line[c] = SYNC, Line[c + 1] = SYNC
    PROVE  \E i \in 1..Len(pieces) :
               /\ pieces[i].is = "frame"
               /\ c = StartAt(i) + 1 \/ (c = StartAt(i) + 2 /\ pieces[i].data[1] # END)
<1>1. PICK i \in 1..Len(pieces) : c - StartAt(i) \in 1..Len(BytesOf(pieces[i]))
  BY Located
<1> DEFINE a == StartAt(i)
           d == BytesOf(pieces[i])
           j == c - a
<1>2. /\ a \in Nat /\ Len(d) \in Nat
      /\ \A k \in 1..Len(d) : Line[a + k] = d[k]
  BY LinePieces
<1>3. j \in 1..Len(d) /\ a + j = c /\ c \in Nat
  BY <1>1, <1>2
<1>4. d[j] = SYNC
  BY <1>2, <1>3
<1>5. pieces[i].is = "frame"
  BY <1>3, <1>4, PieceBytes
<1> DEFINE p == pieces[i].data
<1>6. p \in Payloads /\ d = Encode(p)
  BY <1>5, PieceBytes
<1>7. /\ Len(d) >= 5 /\ d[Len(d)] = END
      /\ \A k \in 1..(Len(d) - 1) : d[k] = SYNC /\ d[k + 1] = SYNC => k = 1 \/ (k = 2 /\ p[1] # END)
  BY <1>6, FrameMarks, ZenonT(40)
<1> HIDE DEF a, d, j, p
<1>8. SYNC # END
  BY DEF SYNC, END
<1>9. j \in 1..(Len(d) - 1) /\ j + 1 \in 1..Len(d) /\ a + (j + 1) = c + 1
  BY <1>2, <1>3, <1>4, <1>7, <1>8
<1>10. d[j + 1] = SYNC
  BY <1>2, <1>9
<1>11. j = 1 \/ (j = 2 /\ p[1] # END)
  BY <1>4, <1>7, <1>9, <1>10
<1>12. c = a + 1 \/ (c = a + 2 /\ p[1] # END)
  BY <1>3, <1>11
<1>13. QED
  BY <1>5, <1>12 DEF a, p

-----------------------------------------------------------------------------
(* What the line is worth. *)

\* The worth of the first pieces, up to the m-th.
Worths(g, m) ==
    g = [n \in 0..m |-> IF n = 0 THEN [held |-> InStep, out |-> <<>>, errors |-> 0]
                        ELSE AddPiece(g[n - 1], pieces[n])]

\* There is such a function, for as many as there are.
LEMMA WorthsExist == ASSUME NEW m \in Nat PROVE \E g : Worths(g, m)
<1> DEFINE T == {n \in 0..m : ~\E g : Worths(g, n)}
<1> SUFFICES ASSUME T # {} PROVE FALSE
  <2>1. m \in 0..m
    OBVIOUS
  <2>2. QED
    BY <2>1, Zenon
<1>1. PICK k \in T : \A y \in T : k <= y
  <2>1. T \subseteq Nat
    OBVIOUS
  <2> HIDE DEF T
  <2>2. QED
    BY <2>1, LeastNumber
<1>2. k \in 0..m /\ ~\E g : Worths(g, k)
  BY <1>1, Zenon
<1> DEFINE base == [held |-> InStep, out |-> <<>>, errors |-> 0]
<1>3. CASE k = 0
  <2> DEFINE g == [n \in 0..0 |-> base]
  <2>1. g = [n \in 0..0 |-> IF n = 0 THEN base ELSE AddPiece(g[n - 1], pieces[n])]
    <3> HIDE DEF base
    <3>1. \A n \in 0..0 : n = 0
      OBVIOUS
    <3>2. QED
      BY <3>1, Zenon
  <2>2. Worths(g, 0)
    BY <2>1, Zenon DEF Worths
  <2>3. QED
    BY <1>2, <1>3, <2>2, Zenon
<1>4. CASE k # 0
  <2>1. k - 1 \in 0..m /\ ~(k <= k - 1) /\ k \in Nat
    BY <1>2, <1>4
  <2>2. k - 1 \notin T
    BY <1>1, <2>1, Zenon
  <2>3. PICK h : Worths(h, k - 1)
    BY <2>1, <2>2, Zenon
  <2> DEFINE g == [n \in 0..k |-> IF n = k THEN AddPiece(h[k - 1], pieces[k]) ELSE h[n]]
  <2> HIDE DEF base
  <2>4. \A n \in 0..(k - 1) : h[n] = IF n = 0 THEN base ELSE AddPiece(h[n - 1], pieces[n])
    <3>1. h = [n \in 0..(k - 1) |-> IF n = 0 THEN base ELSE AddPiece(h[n - 1], pieces[n])]
      BY <2>3, Zenon DEF Worths, base
    <3>2. QED
      BY <3>1, Zenon
  <2>5. ASSUME NEW n \in 0..k
        PROVE  (IF n = k THEN AddPiece(h[k - 1], pieces[k]) ELSE h[n])
                   = IF n = 0 THEN base ELSE AddPiece(g[n - 1], pieces[n])
    <3>1. CASE n = k
      <4>1. k - 1 \in 0..k /\ k - 1 # k
        BY <1>4, <2>1
      <4>2. g[k - 1] = h[k - 1]
        BY <4>1
      <4>3. QED
        BY <1>4, <3>1, <4>2, Zenon
    <3>2. CASE n # k
      <4>1. n \in 0..(k - 1) /\ (n # 0 => n - 1 \in 0..k /\ n - 1 # k)
        BY <2>1, <3>2
      <4>2. n # 0 => g[n - 1] = h[n - 1]
        BY <4>1
      <4> HIDE DEF g
      <4>3. QED
        BY <2>4, <3>2, <4>1, <4>2, Zenon
    <3>3. QED
      BY <3>1, <3>2, Zenon
  <2>6. g = [n \in 0..k |-> IF n = 0 THEN base ELSE AddPiece(g[n - 1], pieces[n])]
    BY <2>5, Zenon
  <2>7. Worths(g, k)
    BY <2>6, Zenon DEF Worths, base
  <2>8. QED
    BY <1>2, <2>7, Zenon
<1>5. QED
  BY <1>3, <1>4

\* Each piece adds to the worth of those before it.
LEMMA WorthSteps ==
    ASSUME Len(pieces) \in Nat
    PROVE  /\ WorthOf[0] = [held |-> InStep, out |-> <<>>, errors |-> 0]
           /\ \A n \in 1..Len(pieces) : WorthOf[n] = AddPiece(WorthOf[n - 1], pieces[n])
<1>1. \E g : Worths(g, Len(pieces))
  BY WorthsExist
<1>2. Worths(WorthOf, Len(pieces))
  BY <1>1, Zenon DEF WorthOf, Worths
<1> DEFINE base == [held |-> InStep, out |-> <<>>, errors |-> 0]
<1>3. WorthOf = [n \in 0..Len(pieces) |->
                     IF n = 0 THEN base ELSE AddPiece(WorthOf[n - 1], pieces[n])]
  BY <1>2, Zenon DEF Worths
<1> HIDE DEF base
<1>4. \A n \in 0..Len(pieces) :
          WorthOf[n] = IF n = 0 THEN base ELSE AddPiece(WorthOf[n - 1], pieces[n])
  BY <1>3, Zenon
<1>5. 0 \in 0..Len(pieces) /\ \A n \in 1..Len(pieces) : n \in 0..Len(pieces) /\ n # 0
  OBVIOUS
<1>6. QED
  BY <1>4, <1>5, Zenon DEF base

\* The worth of a line without a cut frame so far.
InOrderSo(out) == [held |-> InStep, out |-> out, errors |-> 0]

\* A frame that shows adds to it, and nothing else does.
LEMMA PieceAdds ==
    ASSUME Clean, NEW i \in 1..Len(pieces), NEW out
    PROVE  AddPiece(InOrderSo(out), pieces[i])
               = InOrderSo(IF Shown(i) THEN Append(out, pieces[i].data) ELSE out)
<1> DEFINE p == pieces[i]
<1>1. p.is = "frame" \/ p.is = "junk"
  BY CleanPieces
<1> HIDE DEF p
<1>2. CASE p.is = "junk"
  <2>1. AddPiece(InOrderSo(out), p) = [InOrderSo(out) EXCEPT !.held = IF @ >= 0 THEN @ + Len(p.data) ELSE InStep]
    BY <1>2 DEF AddPiece
  <2>2. ~(InStep >= 0)
    BY DEF InStep
  <2>3. [InOrderSo(out) EXCEPT !.held = IF @ >= 0 THEN @ + Len(p.data) ELSE InStep] = InOrderSo(out)
    BY <2>2 DEF InOrderSo
  <2>4. QED
    BY <1>2, <2>1, <2>3 DEF Shown, p
<1>3. CASE p.is = "frame"
  <2>1. InOrderSo(out).held = InStep /\ InOrderSo(out).out = out
    BY DEF InOrderSo
  <2>2. AddPiece(InOrderSo(out), p) = IF p.data[1] = END THEN InOrderSo(out)
                                      ELSE [InOrderSo(out) EXCEPT !.out = Append(@, p.data)]
    BY <1>3, <2>1 DEF AddPiece
  <2>3. [InOrderSo(out) EXCEPT !.out = Append(@, p.data)] = InOrderSo(Append(out, p.data))
    BY SMTT(30) DEF InOrderSo
  <2>4. QED
    BY <1>3, <2>2, <2>3 DEF Shown, p
<1>4. QED
  BY <1>1, <1>2, <1>3

\* On a clean line nothing is lost to an error.
LEMMA CleanWorth ==
    ASSUME Clean, NEW n \in 0..Len(pieces)
    PROVE  WorthOf[n] = InOrderSo(WorthOf[n].out)
<1> DEFINE N == Len(pieces)
           T == {m \in 0..N : WorthOf[m] # InOrderSo(WorthOf[m].out)}
<1>1. /\ N \in Nat /\ WorthOf[0] = InOrderSo(<<>>)
      /\ \A m \in 1..N : WorthOf[m] = AddPiece(WorthOf[m - 1], pieces[m])
  BY CleanPieces, WorthSteps DEF InOrderSo
<1>2. T = {}
  <2> SUFFICES ASSUME T # {} PROVE FALSE
    OBVIOUS
  <2>1. PICK m \in T : \A y \in T : m <= y
    <3>1. T \subseteq Nat
      BY <1>1
    <3> HIDE DEF T
    <3>2. QED
      BY <3>1, LeastNumber
  <2>2. m \in 0..N /\ WorthOf[m] # InOrderSo(WorthOf[m].out)
    BY <2>1, Zenon
  <2>3. \A out : InOrderSo(out) = InOrderSo(InOrderSo(out).out)
    BY DEF InOrderSo
  <2>4. m # 0
    BY <1>1, <2>2, <2>3, Zenon
  <2>5. m \in 1..N /\ m - 1 \in 0..N /\ ~(m <= m - 1)
    BY <1>1, <2>2, <2>4
  <2>6. m - 1 \notin T
    BY <2>1, <2>5, Zenon
  <2>7. WorthOf[m - 1] = InOrderSo(WorthOf[m - 1].out)
    BY <2>5, <2>6, Zenon
  <2> HIDE DEF T
  <2>8. \E out : WorthOf[m] = InOrderSo(out)
    <3>1. WorthOf[m] = AddPiece(InOrderSo(WorthOf[m - 1].out), pieces[m])
      BY <1>1, <2>5, <2>7, Zenon
    <3>2. QED
      BY <2>5, <3>1, PieceAdds, Zenon
  <2>9. QED
    BY <2>2, <2>3, <2>8, Zenon
<1>3. QED
  BY <1>2, Zenon

\* What each piece adds to the frames that the line is worth.
LEMMA WorthAdds ==
    ASSUME Clean, NEW i \in 1..Len(pieces)
    PROVE  WorthOf[i].out = IF Shown(i) THEN Append(WorthOf[i - 1].out, pieces[i].data)
                            ELSE WorthOf[i - 1].out
<1>1. Len(pieces) \in Nat
  BY CleanPieces
<1>2. i - 1 \in 0..Len(pieces)
  BY <1>1
<1>3. WorthOf[i - 1] = InOrderSo(WorthOf[i - 1].out)
  BY <1>2, CleanWorth, Zenon
<1>4. WorthOf[i] = AddPiece(WorthOf[i - 1], pieces[i])
  BY <1>1, WorthSteps, Zenon
<1> DEFINE more == IF Shown(i) THEN Append(WorthOf[i - 1].out, pieces[i].data) ELSE WorthOf[i - 1].out
<1>5. WorthOf[i] = InOrderSo(more)
  BY <1>3, <1>4, PieceAdds, Zenon
<1> HIDE DEF more
<1>6. InOrderSo(more).out = more
  BY DEF InOrderSo
<1>7. QED
  BY <1>5, <1>6, Zenon DEF more

\* Pieces that do not show add nothing.
LEMMA WorthStays ==
    ASSUME Clean, NEW k \in 0..Len(pieces), NEW n \in k..Len(pieces),
           \A i \in (k + 1)..n : ~Shown(i)
    PROVE  WorthOf[n].out = WorthOf[k].out
<1> DEFINE T == {m \in k..n : WorthOf[m].out # WorthOf[k].out}
<1>1. Len(pieces) \in Nat /\ k \in Nat /\ n \in Nat
  BY CleanPieces
<1>2. T = {}
  <2> SUFFICES ASSUME T # {} PROVE FALSE
    OBVIOUS
  <2>1. PICK m \in T : \A y \in T : m <= y
    <3>1. T \subseteq Nat
      BY <1>1
    <3> HIDE DEF T
    <3>2. QED
      BY <3>1, LeastNumber
  <2>2. m \in k..n /\ WorthOf[m].out # WorthOf[k].out
    BY <2>1, Zenon
  <2>3. m # k
    BY <2>2
  <2>4. m - 1 \in k..n /\ m \in (k + 1)..n /\ m \in 1..Len(pieces) /\ ~(m <= m - 1)
    BY <1>1, <2>2, <2>3
  <2>5. m - 1 \notin T
    BY <2>1, <2>4, Zenon
  <2>6. WorthOf[m - 1].out = WorthOf[k].out
    BY <2>4, <2>5, Zenon
  <2>7. WorthOf[m].out = WorthOf[m - 1].out
    BY <2>4, WorthAdds, Zenon
  <2>8. QED
    BY <2>2, <2>6, <2>7, Zenon
<1>3. n \in k..n
  BY <1>1
<1>4. QED
  BY <1>2, <1>3, Zenon

-----------------------------------------------------------------------------
(* The invariant. *)

\* Headers and end markers as the decoder finds them in a buffer.
HeaderIn(s)     == PairsAt(s, SYNC, SYNC)
FromHeaderIn(s) == SubSeq(s, LeastAt(HeaderIn(s)), Len(s))
EndIn(s)        == PairsAt(FromHeaderIn(s), SYNC, END)

\* How much of the line is consumed when s is buffered and l under way.
PosOf(s, l) == Len(Line) - (Len(s) + Len(l))

\* What is buffered and under way is what is left of the line.
InPlace(s, l) ==
    /\ s \in Seq(Value) /\ l \in Seq(Value) /\ PosOf(s, l) \in Nat
    /\ \A j \in 1..Len(s) : s[j] = Line[PosOf(s, l) + j]
    /\ \A j \in 1..Len(l) : l[j] = Line[PosOf(s, l) + Len(s) + j]

\* The first k pieces are behind: a frame that shows is consumed in full or not at all,
\* and of a hidden one more than the header and the byte behind it.
StandsAt(pos, k) ==
    \A i \in 1..Len(pieces) :
        /\ Hidden(i) => pos <= StartAt(i) \/ pos >= StartAt(i) + 3
        /\ Shown(i) => IF i <= k THEN pos >= StartAt(i + 1) ELSE pos <= StartAt(i)

DecodedAt(out, pos) == \E k \in 0..Len(pieces) : out = WorthOf[k].out /\ StandsAt(pos, k)

\* Nothing can be decoded without more.
Idle(s) == HeaderIn(s) = {} \/ EndIn(s) = {}

CodecInv ==
    /\ pieces \in Segments
    /\ CleanLine => /\ InPlace(src, line) /\ crc_errors = 0
                    /\ DecodedAt(decoded, PosOf(src, line))
                    /\ ~decoding => Idle(src)

\* The least number of a set is in it.
LEMMA LeastIsIn ==
    ASSUME NEW at, at \subseteq Nat, at # {}
    PROVE  LeastAt(at) \in at /\ \A j \in at : LeastAt(at) <= j
<1>1. \E x \in at : \A y \in at : x <= y
  BY LeastNumber, Zenon
<1>2. QED
  BY <1>1, Zenon DEF LeastAt

\* Where two bytes stand next to each other.
LEMMA PairsAre ==
    ASSUME NEW s \in Seq(Value), NEW b, NEW c
    PROVE  /\ Len(s) \in Nat
           /\ PairsAt(s, b, c) \subseteq 1..Len(s) /\ PairsAt(s, b, c) \subseteq Nat
           /\ \A i \in PairsAt(s, b, c) : i + 1 \in 1..Len(s) /\ s[i] = b /\ s[i + 1] = c
           /\ \A i \in Nat : i > 0 /\ i < Len(s) /\ s[i] = b /\ s[i + 1] = c => i \in PairsAt(s, b, c)
<1>1. Len(s) \in Nat
  BY LenProperties
<1>2. QED
  BY <1>1 DEF PairsAt

\* Dropping bytes moves on in the line.
LEMMA DropMoves ==
    ASSUME Clean, NEW s, NEW l, InPlace(s, l), NEW n \in 0..Len(s),
           NEW t \in Seq(Value), Len(t) = Len(s) - n, \A j \in 1..Len(t) : t[j] = s[n + j]
    PROVE  InPlace(t, l) /\ PosOf(t, l) = PosOf(s, l) + n
<1>1. /\ Len(Line) \in Nat /\ Len(s) \in Nat /\ Len(l) \in Nat /\ Len(t) \in Nat
      /\ PosOf(s, l) \in Nat /\ l \in Seq(Value)
  BY LinePieces, LenProperties DEF InPlace
<1>2. PosOf(t, l) = PosOf(s, l) + n
  BY <1>1 DEF PosOf
<1> DEFINE pos == PosOf(s, l)
<1>3. /\ \A j \in 1..Len(s) : s[j] = Line[pos + j]
      /\ \A j \in 1..Len(l) : l[j] = Line[pos + Len(s) + j]
  BY DEF InPlace
<1> HIDE DEF pos
<1>4. pos \in Nat /\ PosOf(t, l) = pos + n
  BY <1>1, <1>2 DEF pos
<1>5. ASSUME NEW j \in 1..Len(t) PROVE t[j] = Line[PosOf(t, l) + j]
  <2>1. n + j \in 1..Len(s) /\ pos + (n + j) = PosOf(t, l) + j
    BY <1>1, <1>4
  <2>2. QED
    BY <1>3, <2>1
<1>6. ASSUME NEW j \in 1..Len(l) PROVE l[j] = Line[PosOf(t, l) + Len(t) + j]
  <2>1. PosOf(t, l) + Len(t) + j = pos + Len(s) + j
    BY <1>1, <1>4
  <2>2. QED
    BY <1>3, <2>1
<1>7. PosOf(t, l) \in Nat
  BY <1>1, <1>4
<1>8. QED
  BY <1>1, <1>2, <1>5, <1>6, <1>7, Zenon DEF InPlace

\* Moving on to before the next frame, or to it, passes none.
LEMMA MoveOn ==
    ASSUME Clean, NEW out, NEW pos \in Nat, NEW new \in Nat, pos <= new, DecodedAt(out, pos),
           \A i \in 1..Len(pieces) :
               pieces[i].is = "frame" /\ pos <= StartAt(i) => new <= StartAt(i)
    PROVE  DecodedAt(out, new)
<1>1. PICK k \in 0..Len(pieces) : out = WorthOf[k].out /\ StandsAt(pos, k)
  BY DEF DecodedAt
<1>2. StandsAt(new, k)
  <2> SUFFICES ASSUME NEW i \in 1..Len(pieces)
               PROVE  /\ Hidden(i) => new <= StartAt(i) \/ new >= StartAt(i) + 3
                      /\ Shown(i) => IF i <= k THEN new >= StartAt(i + 1) ELSE new <= StartAt(i)
    BY Zenon DEF StandsAt
  <2>1. /\ Hidden(i) => pos <= StartAt(i) \/ pos >= StartAt(i) + 3
        /\ Shown(i) => IF i <= k THEN pos >= StartAt(i + 1) ELSE pos <= StartAt(i)
    BY <1>1, Zenon DEF StandsAt
  <2>2. StartAt(i) \in Nat /\ StartAt(i + 1) \in Nat
    BY LinePieces, SMTT(30)
  <2>3. Hidden(i) \/ Shown(i) => pieces[i].is = "frame"
    BY DEF Hidden, Shown
  <2>4. QED
    BY <2>1, <2>2, <2>3
<1>3. QED
  BY <1>1, <1>2, Zenon DEF DecodedAt

\* The header of a frame that is ahead and buffered is found.
LEMMA HeaderSeen ==
    ASSUME Clean, NEW s, NEW l, InPlace(s, l), NEW i \in 1..Len(pieces), pieces[i].is = "frame",
           PosOf(s, l) <= StartAt(i), StartAt(i) + 2 <= PosOf(s, l) + Len(s)
    PROVE  StartAt(i) + 1 - PosOf(s, l) \in HeaderIn(s)
<1> DEFINE pos == PosOf(s, l)
           a == StartAt(i)
           h == a + 1 - pos
<1>1. /\ s \in Seq(Value) /\ Len(s) \in Nat /\ pos \in Nat
      /\ \A j \in 1..Len(s) : s[j] = Line[pos + j]
  BY LenProperties DEF InPlace
<1>2. a \in Nat /\ Line[a + 1] = SYNC /\ Line[a + 2] = SYNC
  BY FrameInLine
<1>3. /\ pos <= a /\ a + 2 <= pos + Len(s)
  OBVIOUS
<1> HIDE DEF pos, a
<1>4. /\ h \in Nat /\ h > 0 /\ h < Len(s) /\ h \in 1..Len(s) /\ h + 1 \in 1..Len(s)
      /\ pos + h = a + 1 /\ pos + (h + 1) = a + 2
  BY <1>1, <1>2, <1>3
<1> HIDE DEF h
<1>5. s[h] = SYNC /\ s[h + 1] = SYNC
  BY <1>1, <1>2, <1>4
<1>6. h \in HeaderIn(s)
  BY <1>1, <1>4, <1>5, PairsAre DEF HeaderIn
<1>7. QED
  BY <1>6 DEF h, a, pos

\* The header found is that of the next frame.
LEMMA HeaderOfNext ==
    ASSUME Clean, NEW s, NEW l, InPlace(s, l), NEW k, StandsAt(PosOf(s, l), k), HeaderIn(s) # {}
    PROVE  \E i \in 1..Len(pieces) :
               /\ pieces[i].is = "frame" /\ PosOf(s, l) <= StartAt(i)
               /\ PosOf(s, l) + LeastAt(HeaderIn(s)) = StartAt(i) + 1
               /\ \A j \in 1..Len(pieces) :
                     pieces[j].is = "frame" /\ PosOf(s, l) <= StartAt(j) => StartAt(i) <= StartAt(j)
<1> DEFINE pos == PosOf(s, l)
           h == LeastAt(HeaderIn(s))
<1>1. /\ s \in Seq(Value) /\ l \in Seq(Value) /\ Len(s) \in Nat /\ Len(l) \in Nat /\ pos \in Nat
      /\ \A j \in 1..Len(s) : s[j] = Line[pos + j]
  BY LenProperties DEF InPlace
<1>2. Len(Line) \in Nat /\ pos + Len(s) <= Len(Line)
  <2>1. Len(Line) \in Nat
    BY LinePieces
  <2>2. QED
    BY <1>1, <2>1 DEF PosOf
<1>3. h \in HeaderIn(s) /\ \A j \in HeaderIn(s) : h <= j
  <2>1. HeaderIn(s) \subseteq Nat
    BY <1>1, PairsAre DEF HeaderIn
  <2>2. QED
    BY <2>1, LeastIsIn, Zenon
<1>4. h \in 1..Len(s) /\ h + 1 \in 1..Len(s) /\ s[h] = SYNC /\ s[h + 1] = SYNC
  BY <1>1, <1>3, PairsAre DEF HeaderIn
<1> HIDE DEF h
<1>5. /\ pos + h \in 1..Len(Line) /\ (pos + h) + 1 \in 1..Len(Line)
      /\ Line[pos + h] = SYNC /\ Line[(pos + h) + 1] = SYNC
  <2>1. pos + (h + 1) = (pos + h) + 1
    BY <1>1, <1>4
  <2>2. Line[pos + h] = SYNC /\ Line[pos + (h + 1)] = SYNC
    BY <1>1, <1>4
  <2>3. QED
    BY <1>1, <1>2, <1>4, <2>1, <2>2, SMTT(30)
<1>6. PICK i \in 1..Len(pieces) :
          /\ pieces[i].is = "frame"
          /\ pos + h = StartAt(i) + 1 \/ (pos + h = StartAt(i) + 2 /\ pieces[i].data[1] # END)
  BY <1>5, HeaderInLine
<1>7. StartAt(i) \in Nat /\ StartAt(i + 1) \in Nat /\ StartAt(i) + 5 <= StartAt(i + 1)
  BY <1>6, FrameInLine
\* A header not seen before the one found is not there.
<1>8. ASSUME NEW j \in 1..Len(pieces), pieces[j].is = "frame", pos <= StartAt(j)
      PROVE  pos + h <= StartAt(j) + 1
  <2> SUFFICES ASSUME ~(pos + h <= StartAt(j) + 1) PROVE FALSE
    OBVIOUS
  <2>1. StartAt(j) \in Nat
    BY LinePieces
  <2>2. StartAt(j) + 2 <= pos + Len(s)
    BY <1>1, <1>4, <2>1, SMTT(30)
  <2>3. StartAt(j) + 1 - pos \in HeaderIn(s)
    BY <1>8, <2>2, HeaderSeen
  <2>4. h <= StartAt(j) + 1 - pos
    BY <1>3, <2>3
  <2>5. QED
    BY <1>1, <1>4, <2>1, <2>4, SMTT(30)
<1>9. pos <= StartAt(i) /\ pos + h = StartAt(i) + 1
  <2>1. CASE pos + h = StartAt(i) + 1
    BY <1>1, <1>4, <1>7, <2>1, SMTT(30)
  <2>2. CASE pos + h = StartAt(i) + 2 /\ pieces[i].data[1] # END
    <3>1. Shown(i)
      BY <1>6, <2>2 DEF Shown
    <3>2. pos >= StartAt(i + 1) \/ pos <= StartAt(i)
      BY <3>1 DEF StandsAt
    <3>3. pos <= StartAt(i)
      BY <1>1, <1>4, <1>7, <2>2, <3>2, SMTT(30)
    <3>4. QED
      BY <1>1, <1>4, <1>6, <1>7, <1>8, <2>2, <3>3, SMTT(30)
  <2>3. QED
    BY <1>6, <2>1, <2>2
<1>10. ASSUME NEW j \in 1..Len(pieces), pieces[j].is = "frame", pos <= StartAt(j)
       PROVE  StartAt(i) <= StartAt(j)
  <2>1. StartAt(j) \in Nat
    BY LinePieces
  <2>2. pos + h <= StartAt(j) + 1
    BY <1>8, <1>10
  <2>3. QED
    BY <1>7, <1>9, <2>1, <2>2
<1>11. QED
  BY <1>6, <1>9, <1>10 DEF h

\* A slice of known length.
LEMMA Slice ==
    ASSUME NEW A, NEW s, NEW m \in Int, NEW n \in Int, NEW len \in Nat, n - m + 1 = len,
           \A i \in m..n : s[i] \in A
    PROVE  /\ SubSeq(s, m, n) \in Seq(A) /\ Len(SubSeq(s, m, n)) = len
           /\ \A i \in 1..len : SubSeq(s, m, n)[i] = s[m + i - 1]
<1>1. /\ SubSeq(s, m, n) \in Seq(A)
      /\ Len(SubSeq(s, m, n)) = IF m <= n THEN n - m + 1 ELSE 0
      /\ \A i \in 1..(n - m + 1) : SubSeq(s, m, n)[i] = s[m + i - 1]
  BY SubSeqProperties
<1>2. (IF m <= n THEN n - m + 1 ELSE 0) = len
  OBVIOUS
<1>3. QED
  BY <1>1, <1>2

\* From the header on, the buffer is as it was.
LEMMA FromHeaderMoves ==
    ASSUME Clean, NEW s, NEW l, InPlace(s, l), HeaderIn(s) # {}
    PROVE  LET f == FromHeaderIn(s)
               n == LeastAt(HeaderIn(s)) - 1
           IN  /\ f \in Seq(Value) /\ Len(f) \in Nat /\ n \in 0..Len(s) /\ Len(f) = Len(s) - n
               /\ \A j \in 1..Len(f) : f[j] = s[n + j]
               /\ InPlace(f, l) /\ PosOf(f, l) = PosOf(s, l) + n
<1> DEFINE h == LeastAt(HeaderIn(s))
           f == FromHeaderIn(s)
           n == h - 1
           len == Len(s)
<1>1. s \in Seq(Value) /\ len \in Nat
  BY LenProperties DEF InPlace
<1>2. h \in 1..len
  <2>1. HeaderIn(s) \subseteq Nat /\ HeaderIn(s) \subseteq 1..len
    BY <1>1, PairsAre DEF HeaderIn
  <2>2. h \in HeaderIn(s)
    BY <2>1, LeastIsIn, Zenon
  <2>3. QED
    BY <2>1, <2>2
<1> HIDE DEF h
<1>3. f = SubSeq(s, h, len)
  BY Zenon DEF FromHeaderIn, h
<1>4. \A i \in h..len : s[i] \in Value
  BY <1>1, <1>2, ElementOfSeq DEF len
<1> HIDE DEF f, len
<1>5. n \in 0..len /\ h \in Int /\ len \in Int /\ h <= len /\ len - h + 1 = len - n
  BY <1>1, <1>2
<1>6. /\ f \in Seq(Value) /\ Len(f) = len - n
      /\ \A j \in 1..(len - n) : f[j] = s[h + j - 1]
  BY <1>3, <1>4, <1>5, SubSeqProperties
<1>7. \A j \in 1..Len(f) : f[j] = s[n + j]
  <2> SUFFICES ASSUME NEW j \in 1..Len(f) PROVE f[j] = s[n + j]
    OBVIOUS
  <2>1. h + j - 1 = n + j /\ j \in 1..(len - n)
    BY <1>5, <1>6
  <2>2. QED
    BY <1>6, <2>1
<1> HIDE DEF n
<1>8. InPlace(f, l) /\ PosOf(f, l) = PosOf(s, l) + n
  BY <1>5, <1>6, <1>7, DropMoves DEF len
<1>9. Len(f) \in Nat
  BY <1>6, LenProperties
<1>10. QED
  BY <1>5, <1>6, <1>7, <1>8, <1>9 DEF f, n, h, len

\* What is left behind the first n bytes of what is buffered.
LEMMA RestMoves ==
    ASSUME Clean, NEW f, NEW l, InPlace(f, l), NEW n \in 0..Len(f)
    PROVE  /\ InPlace(SubSeq(f, n + 1, Len(f)), l)
           /\ PosOf(SubSeq(f, n + 1, Len(f)), l) = PosOf(f, l) + n
<1> DEFINE t == SubSeq(f, n + 1, Len(f))
           len == Len(f)
<1>1. f \in Seq(Value) /\ len \in Nat /\ n \in 0..len
  BY LenProperties DEF InPlace
<1>2. \A i \in (n + 1)..len : f[i] \in Value
  BY <1>1, ElementOfSeq
<1> DEFINE rest == len - n
<1>3. n + 1 \in Int /\ len \in Int /\ rest \in Nat /\ len - (n + 1) + 1 = rest
  BY <1>1
<1> HIDE DEF rest
<1>4. /\ t \in Seq(Value) /\ Len(t) = rest
      /\ \A i \in 1..rest : t[i] = f[(n + 1) + i - 1]
  BY <1>2, <1>3, Slice
<1> HIDE DEF t
<1>5. Len(t) = len - n /\ \A i \in 1..Len(t) : t[i] = f[n + i]
  <2>1. \A i \in 1..rest : (n + 1) + i - 1 = n + i
    BY <1>1, <1>3
  <2>2. QED
    BY <1>4, <2>1 DEF rest
<1>6. InPlace(t, l) /\ PosOf(t, l) = PosOf(f, l) + n
  BY <1>1, <1>4, <1>5, DropMoves
<1>7. QED
  BY <1>6 DEF t

\* No bytes unstuff to none.
LEMMA UnstuffNone == Unstuff(<<>>) = <<>>
<1>1. Kept(<<>>) = <<>> /\ Len(<<>>) = 0
  BY DEF Kept
<1>2. Unstuff(<<>>) = FlattenSeq(Kept(<<>>))
  BY Zenon DEF Unstuff, Kept
<1>3. FlattenSeq(<<>>) = <<>>
  BY <1>1 DEF FlattenSeq
<1>4. QED
  BY <1>1, <1>2, <1>3

\* Where a frame starts, the first end marker ends it, or stands over its header.
LEMMA EndOfFrame ==
    ASSUME Clean, NEW f, NEW l, InPlace(f, l), NEW i \in 1..Len(pieces), pieces[i].is = "frame",
           PosOf(f, l) = StartAt(i), PairsAt(f, SYNC, END) # {}
    PROVE  LET e == LeastAt(PairsAt(f, SYNC, END))
           IN  /\ e \in 1..Len(f) /\ e + 1 \in 1..Len(f)
               /\ Hidden(i) => e = 2 /\ Unstuff(SubSeq(f, 3, e - 1)) = <<>>
               /\ Shown(i) => /\ StartAt(i) + e + 1 = StartAt(i + 1)
                              /\ Unstuff(SubSeq(f, 3, e - 1)) = WithCrc(pieces[i].data)
<1> DEFINE a == StartAt(i)
           b == StartAt(i + 1)
           p == pieces[i].data
           ends == PairsAt(f, SYNC, END)
           e == LeastAt(ends)
           len == Len(f)
<1>1. /\ f \in Seq(Value) /\ len \in Nat
      /\ \A j \in 1..len : f[j] = Line[a + j]
  BY LenProperties DEF InPlace
<1>2. /\ a \in Nat /\ b \in 0..Len(Line) /\ Len(Line) \in Nat /\ a + 5 <= b
      /\ Line[a + 1] = SYNC /\ Line[a + 2] = SYNC /\ Line[a + 3] = p[1]
      /\ Line[b - 1] = SYNC /\ Line[b] = END
      /\ \A j \in 1..(b - a - 2) :
            Line[a + j] = SYNC /\ Line[a + j + 1] = END => j = 2 /\ p[1] = END
      /\ Unstuff(SubSeq(Line, a + 3, b - 2)) = WithCrc(p)
  BY FrameInLine
<1>3. /\ e \in ends /\ \A j \in ends : e <= j
      /\ e \in 1..len /\ e + 1 \in 1..len /\ f[e] = SYNC /\ f[e + 1] = END
      /\ \A j \in Nat : j > 0 /\ j < len /\ f[j] = SYNC /\ f[j + 1] = END => j \in ends
  <2>1. ends \subseteq Nat /\ ends # {}
    BY <1>1, PairsAre
  <2>2. e \in ends /\ \A j \in ends : e <= j
    BY <2>1, LeastIsIn, Zenon
  <2>3. QED
    BY <1>1, <2>2, PairsAre
<1> HIDE DEF a, b, p, ends, e, len
<1>4. Line[a + e] = SYNC /\ Line[a + e + 1] = END
  <2>1. a + (e + 1) = a + e + 1
    BY <1>1, <1>2, <1>3
  <2>2. QED
    BY <1>1, <1>3, <2>1
<1>5. SYNC # END
  BY DEF SYNC, END
<1>6. e # 1
  BY <1>2, <1>4, <1>5, SMTT(30)
<1>7. CASE p[1] = END
  <2>1. 2 \in 1..len /\ 3 \in 1..len /\ 2 \in Nat /\ 2 > 0 /\ 2 < len /\ 2 + 1 = 3 /\ 2 <= e
    BY <1>1, <1>3, <1>6
  <2>2. f[2] = SYNC /\ f[3] = END
    BY <1>1, <1>2, <1>7, <2>1
  <2>3. 2 \in ends
    BY <1>3, <2>1, <2>2
  <2>4. e = 2
    BY <1>3, <2>1, <2>3
  <2>5. SubSeq(f, 3, e - 1) = <<>>
    <3>1. 3 \in Int /\ e - 1 \in Int /\ e - 1 < 3
      BY <2>4
    <3>2. QED
      BY <3>1, SubSeqEmpty
  <2>6. ~Shown(i)
    BY <1>7 DEF Shown, p
  <2>7. QED
    BY <1>3, <2>4, <2>5, <2>6, UnstuffNone DEF e, ends, len
<1>8. CASE p[1] # END
  <2> DEFINE last == b - 1 - a
  <2>1. last \in Nat /\ last > 0 /\ a + last = b - 1 /\ a + (last + 1) = b
    BY <1>2
  <2>2. ~(e \in 1..(b - a - 2))
    BY <1>2, <1>4, <1>8
  <2>3. last <= e
    BY <1>1, <1>2, <1>3, <2>2
  <2>4. last \in 1..len /\ last + 1 \in 1..len /\ last < len
    BY <1>1, <1>3, <2>1, <2>3, SMTT(30)
  <2> HIDE DEF last
  <2>5. f[last] = SYNC /\ f[last + 1] = END
    BY <1>1, <1>2, <2>1, <2>4
  <2>6. last \in ends
    BY <1>3, <2>1, <2>4, <2>5
  <2>7. e = last
    BY <1>1, <1>3, <2>1, <2>3, <2>6
  <2>8. a + e + 1 = b
    BY <1>2, <2>7 DEF last
  <2>9. SubSeq(f, 3, e - 1) = SubSeq(Line, a + 3, b - 2)
    <3> DEFINE n == e - 3
    <3>1. 3 <= e
      BY <1>2, <2>7 DEF last
    <3>2. /\ n \in Nat /\ 3 \in Int /\ e - 1 \in Int /\ (e - 1) - 3 + 1 = n
          /\ a + 3 \in Int /\ b - 2 \in Int /\ (b - 2) - (a + 3) + 1 = n
      BY <1>2, <1>3, <2>4, <2>7, <2>8, <3>1
    <3>3. \A j \in 3..(e - 1) : f[j] \in Value
      BY <1>1, <1>3, ElementOfSeq DEF len
    <3>4. \A j \in (a + 3)..(b - 2) : Line[j] \in Value
      <4>1. Line \in Seq(Value)
        BY LinePieces
      <4>2. QED
        BY <1>2, <4>1, ElementOfSeq
    <3> HIDE DEF n
    <3>5. /\ SubSeq(f, 3, e - 1) \in Seq(Value) /\ Len(SubSeq(f, 3, e - 1)) = n
          /\ \A j \in 1..n : SubSeq(f, 3, e - 1)[j] = f[3 + j - 1]
      BY <3>2, <3>3, Slice, SMTT(30)
    <3>6. /\ SubSeq(Line, a + 3, b - 2) \in Seq(Value) /\ Len(SubSeq(Line, a + 3, b - 2)) = n
          /\ \A j \in 1..n : SubSeq(Line, a + 3, b - 2)[j] = Line[(a + 3) + j - 1]
      BY <3>2, <3>4, Slice, SMTT(30)
    <3>7. ASSUME NEW j \in 1..n PROVE f[3 + j - 1] = Line[(a + 3) + j - 1]
      <4>1. 3 + j - 1 \in 1..len /\ a + (3 + j - 1) = (a + 3) + j - 1
        BY <1>1, <1>2, <1>3 DEF n
      <4>2. QED
        BY <1>1, <4>1
    <3>8. \A j \in 1..n : SubSeq(f, 3, e - 1)[j] = SubSeq(Line, a + 3, b - 2)[j]
      BY <3>5, <3>6, <3>7, Zenon
    <3> DEFINE x == SubSeq(f, 3, e - 1)
               y == SubSeq(Line, a + 3, b - 2)
    <3>9. /\ x \in Seq(Value) /\ y \in Seq(Value) /\ Len(x) = Len(y)
          /\ \A j \in 1..Len(x) : x[j] = y[j]
      BY <3>5, <3>6, <3>8, Zenon
    <3> HIDE DEF x, y
    <3>10. x = y
      BY <3>9, SeqEqual
    <3>11. QED
      BY <3>10 DEF x, y
  <2>10. ~Hidden(i)
    BY <1>8 DEF Hidden, p
  <2>11. QED
    BY <1>2, <1>3, <2>8, <2>9, <2>10 DEF a, b, p, e, ends, len
<1>9. QED
  BY <1>7, <1>8

-----------------------------------------------------------------------------
(* The steps. *)

\* The i-th piece is the next frame at pos.
NextAt(i, pos) ==
    /\ pieces[i].is = "frame" /\ pos <= StartAt(i)
    /\ \A j \in 1..Len(pieces) :
          pieces[j].is = "frame" /\ pos <= StartAt(j) => StartAt(i) <= StartAt(j)

\* Other frames that are ahead start where it ends or later.
LEMMA OthersBehind ==
    ASSUME Clean, NEW pos \in Nat, NEW i \in 1..Len(pieces), NextAt(i, pos),
           NEW j \in 1..Len(pieces), j # i, pieces[j].is = "frame", pos <= StartAt(j)
    PROVE  i < j /\ StartAt(i + 1) <= StartAt(j)
<1>1. StartAt(i) <= StartAt(j)
  BY DEF NextAt
<1>2. StartAt(i) \in Nat /\ StartAt(j) \in Nat /\ StartAt(j + 1) \in Nat /\ StartAt(j) + 5 <= StartAt(j + 1)
  BY LinePieces, FrameInLine, SMTT(30)
<1>3. Len(pieces) \in Nat
  BY CleanPieces
<1>4. ~(j < i)
  <2> SUFFICES ASSUME j < i PROVE FALSE
    OBVIOUS
  <2>1. i \in 1..(Len(pieces) + 1)
    BY <1>3
  <2>2. StartAt(j + 1) <= StartAt(i)
    BY <2>1, InOrder
  <2>3. QED
    BY <1>1, <1>2, <2>2
<1>5. i < j /\ j \in 1..(Len(pieces) + 1)
  BY <1>3, <1>4
<1>6. StartAt(i + 1) <= StartAt(j)
  BY <1>5, InOrder
<1>7. QED
  BY <1>5, <1>6

\* A hidden frame is dropped with its header.
LEMMA HiddenDropped ==
    ASSUME Clean, NEW out, NEW pos \in Nat, DecodedAt(out, pos),
           NEW i \in 1..Len(pieces), NextAt(i, pos), Hidden(i)
    PROVE  DecodedAt(out, StartAt(i) + 3)
<1>1. PICK k \in 0..Len(pieces) : out = WorthOf[k].out /\ StandsAt(pos, k)
  BY DEF DecodedAt
<1>2. StartAt(i) \in Nat /\ StartAt(i + 1) \in Nat /\ StartAt(i) + 5 <= StartAt(i + 1) /\ pos <= StartAt(i)
  BY LinePieces, FrameInLine, SMTT(30) DEF NextAt
<1>3. StandsAt(StartAt(i) + 3, k)
  <2> DEFINE new == StartAt(i) + 3
  <2> SUFFICES ASSUME NEW j \in 1..Len(pieces)
               PROVE  /\ Hidden(j) => new <= StartAt(j) \/ new >= StartAt(j) + 3
                      /\ Shown(j) => IF j <= k THEN new >= StartAt(j + 1) ELSE new <= StartAt(j)
    BY Zenon DEF StandsAt
  <2>1. /\ Hidden(j) => pos <= StartAt(j) \/ pos >= StartAt(j) + 3
        /\ Shown(j) => IF j <= k THEN pos >= StartAt(j + 1) ELSE pos <= StartAt(j)
    BY <1>1, Zenon DEF StandsAt
  <2>2. StartAt(j) \in Nat /\ StartAt(j + 1) \in Nat
    BY LinePieces
  <2>3. CASE j = i
    <3>1. ~Shown(j)
      BY <2>3 DEF Hidden, Shown
    <3>2. new >= StartAt(j) + 3
      BY <1>2, <2>3
    <3>3. QED
      BY <3>1, <3>2
  <2>4. CASE j # i
    <3>1. pieces[j].is = "frame" /\ pos <= StartAt(j) => StartAt(i + 1) <= StartAt(j)
      BY <2>4, OthersBehind
    <3>2. Hidden(j) \/ Shown(j) => pieces[j].is = "frame"
      BY DEF Hidden, Shown
    <3>3. QED
      BY <1>2, <2>1, <2>2, <3>1, <3>2, SMTT(30)
  <2>5. QED
    BY <2>3, <2>4
<1>4. QED
  BY <1>1, <1>3, Zenon DEF DecodedAt

\* A frame that shows is decoded behind those before it.
LEMMA ShownDecoded ==
    ASSUME Clean, NEW out, NEW pos \in Nat, DecodedAt(out, pos),
           NEW i \in 1..Len(pieces), NextAt(i, pos), Shown(i)
    PROVE  DecodedAt(Append(out, pieces[i].data), StartAt(i + 1))
<1>1. PICK k \in 0..Len(pieces) : out = WorthOf[k].out /\ StandsAt(pos, k)
  BY DEF DecodedAt
<1>2. StartAt(i) \in Nat /\ StartAt(i + 1) \in Nat /\ StartAt(i) + 5 <= StartAt(i + 1) /\ pos <= StartAt(i)
  BY LinePieces, FrameInLine DEF NextAt
<1>3. Len(pieces) \in Nat
  BY CleanPieces
<1>4. ~(i <= k)
  <2>1. IF i <= k THEN pos >= StartAt(i + 1) ELSE pos <= StartAt(i)
    BY <1>1, Zenon DEF StandsAt
  <2>2. QED
    BY <1>2, <2>1
<1>5. \A j \in (k + 1)..(i - 1) : ~Shown(j)
  <2> SUFFICES ASSUME NEW j \in (k + 1)..(i - 1), Shown(j) PROVE FALSE
    OBVIOUS
  <2>1. j \in 1..Len(pieces) /\ j # i /\ ~(i < j) /\ ~(j <= k)
    BY <1>3, <1>4
  <2>2. IF j <= k THEN pos >= StartAt(j + 1) ELSE pos <= StartAt(j)
    BY <1>1, <2>1, Zenon DEF StandsAt
  <2>3. pieces[j].is = "frame" /\ pos <= StartAt(j)
    BY <2>1, <2>2 DEF Shown
  <2>4. QED
    BY <2>1, <2>3, OthersBehind
<1>6. WorthOf[i].out = Append(out, pieces[i].data)
  <2>1. i - 1 \in k..Len(pieces)
    BY <1>3, <1>4
  <2>2. WorthOf[i - 1].out = WorthOf[k].out
    BY <1>5, <2>1, WorthStays
  <2>3. QED
    BY <1>1, <2>2, WorthAdds
<1>7. StandsAt(StartAt(i + 1), i)
  <2> DEFINE new == StartAt(i + 1)
  <2> SUFFICES ASSUME NEW j \in 1..Len(pieces)
               PROVE  /\ Hidden(j) => new <= StartAt(j) \/ new >= StartAt(j) + 3
                      /\ Shown(j) => IF j <= i THEN new >= StartAt(j + 1) ELSE new <= StartAt(j)
    BY Zenon DEF StandsAt
  <2>1. /\ Hidden(j) => pos <= StartAt(j) \/ pos >= StartAt(j) + 3
        /\ Shown(j) => IF j <= k THEN pos >= StartAt(j + 1) ELSE pos <= StartAt(j)
    BY <1>1, Zenon DEF StandsAt
  <2>2. StartAt(j) \in Nat /\ StartAt(j + 1) \in Nat
    BY LinePieces
  <2>3. CASE j = i
    BY <1>2, <2>3 DEF Hidden, Shown
  <2>4. CASE j # i
    <3>1. pieces[j].is = "frame" /\ pos <= StartAt(j) => i < j /\ StartAt(i + 1) <= StartAt(j)
      BY <2>4, OthersBehind
    <3>2. Hidden(j) \/ Shown(j) => pieces[j].is = "frame"
      BY DEF Hidden, Shown
    <3>3. j <= k => j <= i
      BY <1>3, <1>4
    <3>4. Hidden(j) => new <= StartAt(j) \/ new >= StartAt(j) + 3
      BY <1>2, <2>1, <2>2, <3>1, <3>2, SMTT(30)
    <3>5. ASSUME Shown(j) PROVE IF j <= i THEN new >= StartAt(j + 1) ELSE new <= StartAt(j)
      <4>1. CASE j <= k
        BY <1>2, <2>1, <2>2, <3>3, <3>5, <4>1, SMTT(30)
      <4>2. CASE ~(j <= k)
        <5>1. i < j /\ StartAt(i + 1) <= StartAt(j)
          BY <2>1, <3>1, <3>2, <3>5, <4>2
        <5>2. ~(j <= i)
          BY <5>1
        <5>3. QED
          BY <5>1, <5>2
      <4>3. QED
        BY <4>1, <4>2
    <3>6. QED
      BY <3>4, <3>5
  <2>5. QED
    BY <2>3, <2>4
<1>8. i \in 0..Len(pieces)
  BY <1>3
<1>9. QED
  BY <1>6, <1>7, <1>8, Zenon DEF DecodedAt

\* What the invariant says of a clean line.
Fine(s, l, out, errors, busy) ==
    /\ InPlace(s, l) /\ errors = 0
    /\ DecodedAt(out, PosOf(s, l))
    /\ ~busy => Idle(s)

\* An empty buffer, or one of a single byte, holds no header.
LEMMA TooShort ==
    ASSUME NEW s \in Seq(Value), Len(s) < 2 PROVE Idle(s)
<1>1. HeaderIn(s) = {}
  BY LenProperties DEF HeaderIn, PairsAt
<1>2. QED
  BY <1>1 DEF Idle

\* At the start the whole line is under way.
LEMMA CodecStart == CodecInit => CodecInv
<1> SUFFICES ASSUME CodecInit, CleanLine PROVE Fine(src, line, decoded, crc_errors, decoding)
  <2>1. CodecInit => pieces \in Segments
    BY DEF CodecInit
  <2>2. QED
    BY <2>1, Zenon DEF CodecInv, Fine
<1>1. Clean
  BY DEF CodecInit, Clean
<1>2. line = Line /\ src = <<>> /\ decoded = <<>> /\ crc_errors = 0
  BY Zenon DEF CodecInit, Line, Sent
<1>3. Line \in Seq(Value) /\ Len(Line) \in Nat /\ src \in Seq(Value) /\ Len(src) = 0
  BY <1>1, <1>2, LinePieces, EmptySeq
<1>4. PosOf(src, line) = 0
  BY <1>2, <1>3 DEF PosOf
<1>5. InPlace(src, line)
  <2>1. \A j \in 1..Len(src) : src[j] = Line[PosOf(src, line) + j]
    BY <1>3
  <2>2. \A j \in 1..Len(line) : line[j] = Line[PosOf(src, line) + Len(src) + j]
    BY <1>2, <1>3, <1>4
  <2>3. QED
    BY <1>2, <1>3, <1>4, <2>1, <2>2 DEF InPlace
<1>6. DecodedAt(decoded, PosOf(src, line))
  <2>1. Len(pieces) \in Nat
    BY <1>1, CleanPieces
  <2>2. WorthOf[0].out = <<>>
    BY <2>1, WorthSteps
  <2>3. StandsAt(0, 0)
    <3> SUFFICES ASSUME NEW i \in 1..Len(pieces) PROVE 0 <= StartAt(i) /\ ~(i <= 0)
      BY DEF StandsAt
    <3>1. QED
      BY <1>1, LinePieces
  <2>4. 0 \in 0..Len(pieces)
    BY <2>1
  <2>5. QED
    BY <1>2, <1>4, <2>2, <2>3, <2>4, Zenon DEF DecodedAt
<1>7. Idle(src)
  <2>1. Len(src) < 2
    BY <1>3
  <2>2. QED
    BY <1>3, <2>1, TooShort, Zenon
<1>8. QED
  BY <1>2, <1>5, <1>6, <1>7 DEF Fine

\* More is read: the line moves into the buffer.
LEMMA ReadMoreKeeps ==
    ASSUME Clean, Fine(src, line, decoded, crc_errors, decoding), ReadMore
    PROVE  Fine(src', line', decoded', crc_errors', decoding')
<1> DEFINE pos == PosOf(src, line)
<1>1. PICK n \in 1..Len(line) :
          /\ src' = src \o SubSeq(line, 1, n)
          /\ line' = SubSeq(line, n + 1, Len(line))
  BY DEF ReadMore
<1>2. decoding' = TRUE /\ decoded' = decoded /\ crc_errors' = crc_errors
  BY DEF ReadMore
<1>3. /\ src \in Seq(Value) /\ line \in Seq(Value) /\ pos \in Nat
      /\ Len(src) \in Nat /\ Len(line) \in Nat /\ Len(Line) \in Nat
      /\ \A j \in 1..Len(src) : src[j] = Line[pos + j]
      /\ \A j \in 1..Len(line) : line[j] = Line[pos + Len(src) + j]
  BY LenProperties, LinePieces DEF Fine, InPlace
<1> DEFINE m == Len(line) - n
           read == SubSeq(line, 1, n)
<1>4. /\ 1 \in Int /\ n \in Int /\ n \in Nat /\ n - 1 + 1 = n
      /\ n + 1 \in Int /\ Len(line) \in Int /\ m \in Nat /\ Len(line) - (n + 1) + 1 = m
  BY <1>3
<1>5. \A i \in 1..Len(line) : line[i] \in Value
  BY <1>3, ElementOfSeq
<1>6. (\A i \in 1..n : line[i] \in Value) /\ \A i \in (n + 1)..Len(line) : line[i] \in Value
  BY <1>4, <1>5
<1> HIDE DEF m, pos
<1>7. /\ read \in Seq(Value) /\ Len(read) = n
      /\ \A i \in 1..n : read[i] = line[1 + i - 1]
  BY <1>4, <1>6, Slice
<1>8. /\ line' \in Seq(Value) /\ Len(line') = m
      /\ \A i \in 1..m : line'[i] = line[(n + 1) + i - 1]
  BY <1>1, <1>4, <1>6, Slice, SMTT(30)
<1> HIDE DEF read
<1>9. /\ src' \in Seq(Value) /\ Len(src') = Len(src) + n
      /\ \A i \in 1..Len(src) : src'[i] = src[i]
      /\ \A i \in 1..n : src'[Len(src) + i] = read[i]
  <2>1. src' = src \o read
    BY <1>1 DEF read
  <2>2. /\ src \o read \in Seq(Value) /\ Len(src \o read) = Len(src) + Len(read)
        /\ \A i \in 1..Len(src) : (src \o read)[i] = src[i]
        /\ \A i \in 1..Len(read) : (src \o read)[Len(src) + i] = read[i]
    BY <1>3, <1>7, TwoJoined, Zenon
  <2>3. QED
    BY <1>7, <2>1, <2>2
<1>10. PosOf(src', line') = pos
  <2>1. pos = Len(Line) - (Len(src) + Len(line))
    BY Zenon DEF PosOf, pos
  <2>2. PosOf(src', line') = Len(Line) - (Len(src') + Len(line'))
    BY Zenon DEF PosOf
  <2>3. Len(src') = Len(src) + n /\ Len(line') = Len(line) - n
    BY <1>8, <1>9 DEF m
  <2>4. (Len(src) + n) + (Len(line) - n) = Len(src) + Len(line)
    BY <1>3, <1>4
  <2>5. QED
    BY <2>1, <2>2, <2>3, <2>4
<1>11. ASSUME NEW j \in 1..Len(src') PROVE src'[j] = Line[pos + j]
  <2>1. CASE j <= Len(src)
    BY <1>3, <1>9, <2>1
  <2>2. CASE ~(j <= Len(src))
    <3> DEFINE i == j - Len(src)
    <3>1. i \in 1..n /\ Len(src) + i = j /\ 1 + i - 1 = i /\ i \in 1..Len(line)
          /\ pos + Len(src) + i = pos + j
      BY <1>3, <1>4, <1>9, <2>2
    <3> HIDE DEF i
    <3>2. src'[Len(src) + i] = line[i] /\ line[i] = Line[pos + Len(src) + i]
      BY <1>3, <1>7, <1>9, <3>1, SMTT(30)
    <3>3. QED
      BY <3>1, <3>2
  <2>3. QED
    BY <2>1, <2>2
<1>12. ASSUME NEW j \in 1..Len(line') PROVE line'[j] = Line[pos + Len(src') + j]
  <2>1. /\ j \in 1..m /\ (n + 1) + j - 1 \in 1..Len(line)
        /\ pos + Len(src) + ((n + 1) + j - 1) = pos + Len(src') + j
    BY <1>3, <1>4, <1>8, <1>9 DEF m
  <2>2. QED
    BY <1>3, <1>8, <2>1
<1>13. InPlace(src', line')
  BY <1>3, <1>8, <1>9, <1>10, <1>11, <1>12 DEF InPlace
<1>14. QED
  BY <1>2, <1>10, <1>13 DEF Fine, pos

\* Nothing is left of a buffer without a header but what may be the first half of one.
LEMMA SkipNoiseKeeps ==
    ASSUME Clean, Fine(src, line, decoded, crc_errors, decoding), SkipNoise
    PROVE  Fine(src', line', decoded', crc_errors', decoding')
<1> DEFINE pos == PosOf(src, line)
           len == Len(src)
<1>1. line' = line /\ decoded' = decoded /\ crc_errors' = crc_errors /\ HeaderIn(src) = {}
  BY DEF SkipNoise, Header, HeaderIn
<1>2. /\ InPlace(src, line) /\ crc_errors = 0 /\ DecodedAt(decoded, pos)
      /\ src \in Seq(Value) /\ len \in Nat /\ pos \in Nat
      /\ \A j \in 1..len : src[j] = Line[pos + j]
  BY LenProperties DEF Fine, InPlace
<1>3. src' = IF len < 2 THEN src ELSE IF src[len] = SYNC THEN <<SYNC>> ELSE <<>>
  BY DEF SkipNoise
\* The header of a frame ahead is not in the buffer, or only its first byte, the last.
<1>4. ASSUME NEW i \in 1..Len(pieces), pieces[i].is = "frame", pos <= StartAt(i)
      PROVE  /\ StartAt(i) \in Nat
             /\ pos + len <= StartAt(i) + 1
             /\ pos + len = StartAt(i) + 1 => src[len] = SYNC
  <2>1. StartAt(i) \in Nat /\ Line[StartAt(i) + 1] = SYNC
    BY <1>4, FrameInLine
  <2>2. ~(StartAt(i) + 2 <= pos + len)
    BY <1>1, <1>2, <1>4, HeaderSeen
  <2>3. ASSUME pos + len = StartAt(i) + 1 PROVE src[len] = SYNC
    <3>1. len \in 1..len
      BY <1>2, <1>4, <2>1, <2>3
    <3>2. QED
      BY <1>2, <2>1, <2>3, <3>1
  <2>4. QED
    BY <1>2, <2>1, <2>2, <2>3
<1> HIDE DEF pos, len
<1>5. CASE len < 2
  <2>1. src' = src
    BY <1>3, <1>5
  <2>2. Idle(src)
    BY <1>1 DEF Idle
  <2>3. QED
    BY <1>1, <2>1, <2>2 DEF Fine
<1>6. ASSUME NEW n \in 0..len, src' \in Seq(Value), Len(src') = len - n, Len(src') < 2,
             \A j \in 1..Len(src') : src'[j] = src[n + j],
             \A i \in 1..Len(pieces) :
                 pieces[i].is = "frame" /\ pos <= StartAt(i) => pos + n <= StartAt(i)
      PROVE  Fine(src', line', decoded', crc_errors', decoding')
  <2>1. InPlace(src', line) /\ PosOf(src', line) = pos + n
    BY <1>2, <1>6, DropMoves, SMTT(30) DEF len, pos
  <2>2. pos + n \in Nat /\ pos <= pos + n
    BY <1>2
  <2>3. DecodedAt(decoded, pos + n)
    BY <1>2, <1>6, <2>2, MoveOn
  <2>4. Idle(src')
    BY <1>6, TooShort
  <2>5. QED
    BY <1>1, <1>2, <2>1, <2>3, <2>4 DEF Fine
<1>7. CASE ~(len < 2) /\ src[len] = SYNC
  <2> DEFINE n == len - 1
  <2>1. src' = <<SYNC>>
    BY <1>3, <1>7
  <2>2. SYNC \in Value
    BY DEF Value, SYNC
  <2>3. /\ n \in 0..len /\ len - n = 1 /\ n + 1 = len
    BY <1>2, <1>7
  <2>4. src' \in Seq(Value) /\ Len(src') = 1 /\ src'[1] = SYNC
    BY <2>1, <2>2
  <2>5. \A j \in 1..Len(src') : src'[j] = src[n + j]
    <3>1. \A j \in 1..1 : j = 1
      OBVIOUS
    <3> HIDE DEF n
    <3>2. QED
      BY <1>7, <2>3, <2>4, <3>1
  <2>6. ASSUME NEW i \in 1..Len(pieces), pieces[i].is = "frame", pos <= StartAt(i)
        PROVE  pos + n <= StartAt(i)
    <3>1. StartAt(i) \in Nat /\ pos + len <= StartAt(i) + 1
      BY <1>4, <2>6
    <3>2. QED
      BY <1>2, <3>1
  <2> HIDE DEF n
  <2>7. Len(src') = len - n /\ Len(src') < 2
    BY <2>3, <2>4
  <2>8. QED
    BY <1>6, <2>3, <2>4, <2>5, <2>6, <2>7
<1>8. CASE ~(len < 2) /\ src[len] # SYNC
  <2>1. src' = <<>>
    BY <1>3, <1>8
  <2>2. /\ len \in 0..len /\ src' \in Seq(Value) /\ Len(src') = len - len /\ Len(src') < 2
        /\ \A j \in 1..Len(src') : src'[j] = src[len + j]
    BY <1>2, <2>1
  <2>3. ASSUME NEW i \in 1..Len(pieces), pieces[i].is = "frame", pos <= StartAt(i)
        PROVE  pos + len <= StartAt(i)
    <3>1. /\ StartAt(i) \in Nat /\ pos + len <= StartAt(i) + 1
          /\ pos + len # StartAt(i) + 1
      BY <1>4, <1>8, <2>3
    <3>2. QED
      BY <1>2, <3>1
  <2>4. QED
    BY <1>6, <2>2, <2>3
<1>9. QED
  BY <1>5, <1>7, <1>8

\* What stands before the header goes.
LEMMA NeedMoreKeeps ==
    ASSUME Clean, Fine(src, line, decoded, crc_errors, decoding), NeedMore
    PROVE  Fine(src', line', decoded', crc_errors', decoding')
<1> DEFINE pos == PosOf(src, line)
<1>1. /\ line' = line /\ decoded' = decoded /\ crc_errors' = crc_errors
      /\ src' = FromHeaderIn(src) /\ HeaderIn(src) # {} /\ EndIn(src) = {}
  BY DEF NeedMore, Header, FromHeader, HeaderIn, FromHeaderIn, EndIn
<1>2. InPlace(src, line) /\ crc_errors = 0 /\ DecodedAt(decoded, pos) /\ pos \in Nat
  BY DEF Fine, InPlace
<1>3. PICK k \in 0..Len(pieces) : StandsAt(pos, k)
  BY <1>2 DEF DecodedAt
<1>4. PICK i \in 1..Len(pieces) :
          /\ NextAt(i, pos) /\ pos + LeastAt(HeaderIn(src)) = StartAt(i) + 1
  BY <1>1, <1>2, <1>3, HeaderOfNext DEF NextAt
<1>5. /\ InPlace(src', line) /\ PosOf(src', line) = pos + (LeastAt(HeaderIn(src)) - 1)
      /\ LeastAt(HeaderIn(src)) - 1 \in 0..Len(src)
      /\ src' \in Seq(Value) /\ Len(src') \in Nat
  BY <1>1, <1>2, FromHeaderMoves
<1>6. StartAt(i) \in Nat /\ Len(src) \in Nat
  BY <1>2, LinePieces, LenProperties DEF InPlace
<1>7. PosOf(src', line) = StartAt(i)
  <2> DEFINE h == LeastAt(HeaderIn(src))
             q == PosOf(src', line)
  <2>1. pos + h = StartAt(i) + 1 /\ q = pos + (h - 1) /\ h - 1 \in 0..Len(src)
    BY <1>4, <1>5
  <2> HIDE DEF h, q, pos
  <2>2. h \in Int
    <3>1. src \in Seq(Value)
      BY <1>2 DEF InPlace
    <3>2. HeaderIn(src) \subseteq Nat
      BY <3>1, PairsAre DEF HeaderIn
    <3>3. LeastAt(HeaderIn(src)) \in HeaderIn(src)
      BY <1>1, <3>2, LeastIsIn, Zenon
    <3>4. QED
      BY <3>2, <3>3 DEF h
  <2>3. q = StartAt(i)
    BY <1>2, <1>6, <2>1, <2>2, SMTT(30) DEF pos
  <2>4. QED
    BY <2>3 DEF q
<1>8. DecodedAt(decoded, StartAt(i))
  <2>1. pos <= StartAt(i)
    BY <1>4 DEF NextAt
  <2>2. \A j \in 1..Len(pieces) :
            pieces[j].is = "frame" /\ pos <= StartAt(j) => StartAt(i) <= StartAt(j)
    BY <1>4, Zenon DEF NextAt
  <2>3. QED
    BY <1>2, <1>6, <2>1, <2>2, MoveOn
\* The header is now in the first place, and the buffer from it the same.
<1>9. Idle(src')
  <2> DEFINE h == LeastAt(HeaderIn(src))
             n == h - 1
             f == FromHeaderIn(src)
  <2>1. /\ src \in Seq(Value) /\ HeaderIn(src) \subseteq Nat
        /\ h \in HeaderIn(src) /\ h \in Nat /\ h + 1 \in 1..Len(src) /\ Len(src) \in Nat
        /\ src[h] = SYNC /\ src[h + 1] = SYNC
    <3>1. src \in Seq(Value)
      BY <1>2 DEF InPlace
    <3>2. HeaderIn(src) \subseteq Nat
      BY <3>1, PairsAre DEF HeaderIn
    <3>3. h \in HeaderIn(src)
      BY <1>1, <3>2, LeastIsIn, Zenon
    <3>4. /\ Len(src) \in Nat
          /\ \A m \in HeaderIn(src) : m + 1 \in 1..Len(src) /\ src[m] = SYNC /\ src[m + 1] = SYNC
      BY <3>1, PairsAre DEF HeaderIn
    <3> HIDE DEF h
    <3>5. QED
      BY <3>1, <3>2, <3>3, <3>4
  <2>2. /\ f \in Seq(Value) /\ Len(f) \in Nat /\ n \in 0..Len(src) /\ Len(f) = Len(src) - n
        /\ \A j \in 1..Len(f) : f[j] = src[n + j]
    BY <1>1, <1>2, FromHeaderMoves
  <2> HIDE DEF h, f
  <2>3. 1 \in 1..Len(f) /\ 2 \in 1..Len(f) /\ 1 < Len(f) /\ n + 1 = h /\ n + 2 = h + 1
    BY <2>1, <2>2
  <2>4. f[1] = SYNC /\ f[1 + 1] = SYNC
    BY <2>1, <2>2, <2>3, SMTT(30)
  <2>5. 1 \in HeaderIn(f)
    BY <2>2, <2>3, <2>4, PairsAre, SMTT(30) DEF HeaderIn
  <2>6. LeastAt(HeaderIn(f)) = 1
    <3>1. HeaderIn(f) \subseteq 1..Len(f) /\ HeaderIn(f) \subseteq Nat
      BY <2>2, PairsAre DEF HeaderIn
    <3>2. LeastAt(HeaderIn(f)) \in HeaderIn(f) /\ \A j \in HeaderIn(f) : LeastAt(HeaderIn(f)) <= j
      BY <2>5, <3>1, LeastIsIn
    <3> DEFINE x == LeastAt(HeaderIn(f))
    <3>3. x \in 1..Len(f) /\ x <= 1
      BY <2>5, <3>1, <3>2
    <3> HIDE DEF x
    <3>4. x = 1
      BY <2>2, <3>3
    <3>5. QED
      BY <3>4 DEF x
  <2>7. SubSeq(f, 1, Len(f)) = f
    BY <2>2, SubSeqFull
  <2>8. FromHeaderIn(f) = f
    BY <2>6, <2>7, Zenon DEF FromHeaderIn
  <2>9. EndIn(f) = EndIn(src)
    BY <2>8, Zenon DEF EndIn, f
  <2>10. src' = f
    BY <1>1 DEF f
  <2>11. QED
    BY <1>1, <2>9, <2>10, Zenon DEF Idle
<1>10. QED
  BY <1>1, <1>2, <1>5, <1>7, <1>8, <1>9 DEF Fine

\* A turn of decode: a frame that shows is decoded, a hidden one is dropped.
LEMMA DecodeFrameKeeps ==
    ASSUME Clean, Fine(src, line, decoded, crc_errors, decoding), DecodeFrame
    PROVE  Fine(src', line', decoded', crc_errors', decoding')
<1> DEFINE pos == PosOf(src, line)
           f == FromHeaderIn(src)
           e == LeastAt(PairsAt(f, SYNC, END))
           all == Unstuff(SubSeq(f, 3, e - 1))
           data == SubSeq(all, 1, Len(all) - 2)
           good == SubSeq(all, Len(all) - 1, Len(all)) = CrcBytes(data)
<1>1. /\ decoding /\ decoding' = decoding /\ line' = line
      /\ HeaderIn(src) # {} /\ PairsAt(f, SYNC, END) # {}
      /\ src' = SubSeq(f, e + 2, Len(f))
      /\ IF Len(all) < 2 THEN decoded' = decoded /\ crc_errors' = crc_errors
         ELSE IF good THEN decoded' = Append(decoded, data) /\ crc_errors' = crc_errors
         ELSE crc_errors' = crc_errors + 1 /\ decoded' = decoded
  BY DEF DecodeFrame, Header, FromHeader, HeaderIn, FromHeaderIn
<1>2. InPlace(src, line) /\ crc_errors = 0 /\ DecodedAt(decoded, pos) /\ pos \in Nat
  BY DEF Fine, InPlace
<1>3. PICK k \in 0..Len(pieces) : StandsAt(pos, k)
  BY <1>2 DEF DecodedAt
<1>4. PICK i \in 1..Len(pieces) :
          NextAt(i, pos) /\ pos + LeastAt(HeaderIn(src)) = StartAt(i) + 1
  BY <1>1, <1>2, <1>3, HeaderOfNext DEF NextAt
<1>5. StartAt(i) \in Nat /\ pieces[i].is = "frame" /\ pieces[i].data \in Payloads
  BY <1>4, LinePieces, PieceBytes DEF NextAt
<1>6. InPlace(f, line) /\ PosOf(f, line) = StartAt(i) /\ f \in Seq(Value) /\ Len(f) \in Nat
  <2> DEFINE h == LeastAt(HeaderIn(src))
             q == PosOf(f, line)
  <2>1. /\ f \in Seq(Value) /\ Len(f) \in Nat /\ h - 1 \in 0..Len(src)
        /\ InPlace(f, line) /\ q = pos + (h - 1)
    BY <1>1, <1>2, FromHeaderMoves
  <2>2. src \in Seq(Value)
    BY <1>2 DEF InPlace
  <2>3. HeaderIn(src) \subseteq Nat
    BY <2>2, PairsAre DEF HeaderIn
  <2>4. h \in Nat
    <3>1. h \in HeaderIn(src)
      BY <1>1, <2>3, LeastIsIn, Zenon
    <3>2. QED
      BY <2>3, <3>1
  <2>5. pos + h = StartAt(i) + 1
    BY <1>4
  <2> HIDE DEF h, q, pos, f
  <2>6. q = StartAt(i)
    BY <1>2, <1>5, <2>1, <2>4, <2>5, SMTT(30) DEF pos
  <2>7. QED
    BY <2>1, <2>6 DEF q
<1>7. /\ e \in 1..Len(f) /\ e + 1 \in 1..Len(f)
      /\ Hidden(i) => e = 2 /\ all = <<>>
      /\ Shown(i) => StartAt(i) + e + 1 = StartAt(i + 1) /\ all = WithCrc(pieces[i].data)
  BY <1>1, <1>5, <1>6, EndOfFrame
<1> HIDE DEF f, e, pos
<1>8. InPlace(src', line') /\ PosOf(src', line') = StartAt(i) + (e + 1)
  <2>1. e + 1 \in 0..Len(f) /\ (e + 1) + 1 = e + 2
    BY <1>6, <1>7
  <2>2. src' = SubSeq(f, (e + 1) + 1, Len(f))
    BY <1>1, <2>1
  <2>3. QED
    BY <1>1, <1>6, <2>1, <2>2, RestMoves
<1>9. CASE Hidden(i)
  <2>1. e + 1 = 3 /\ Len(all) = 0
    BY <1>7, <1>9
  <2>2. decoded' = decoded /\ crc_errors' = crc_errors
    BY <1>1, <2>1
  <2>3. DecodedAt(decoded, StartAt(i) + 3)
    BY <1>2, <1>4, <1>9, HiddenDropped
  <2>4. QED
    BY <1>1, <1>2, <1>8, <2>1, <2>2, <2>3 DEF Fine
<1>10. CASE Shown(i)
  <2> DEFINE p == pieces[i].data
  <2>1. /\ Len(p) \in Nat \ {0} /\ Len(WithCrc(p)) = Len(p) + 2
        /\ SubSeq(WithCrc(p), 1, Len(p)) = p
        /\ SubSeq(WithCrc(p), Len(p) + 1, Len(p) + 2) = CrcBytes(p)
    BY <1>5, CrcBehind
  <2>2. all = WithCrc(p)
    BY <1>7, <1>10
  <2> HIDE DEF p, all
  <2>3. /\ Len(all) = Len(p) + 2 /\ ~(Len(all) < 2)
        /\ Len(all) - 2 = Len(p) /\ Len(all) - 1 = Len(p) + 1
    BY <2>1, <2>2
  <2>4. data = p
    BY <2>1, <2>2, <2>3
  <2>5. good
    BY <2>1, <2>2, <2>3, <2>4
  <2> HIDE DEF data, good
  <2>6. decoded' = Append(decoded, p) /\ crc_errors' = crc_errors
    BY <1>1, <2>3, <2>4, <2>5
  <2>7. DecodedAt(Append(decoded, p), StartAt(i + 1))
    BY <1>2, <1>4, <1>10, ShownDecoded DEF p
  <2>8. StartAt(i) + (e + 1) = StartAt(i + 1)
    <3>1. StartAt(i) + e + 1 = StartAt(i + 1)
      BY <1>7, <1>10
    <3>2. e \in Nat
      BY <1>6, <1>7
    <3>3. QED
      BY <1>5, <3>1, <3>2
  <2>9. QED
    BY <1>1, <1>2, <1>8, <2>6, <2>7, <2>8 DEF Fine
<1>11. QED
  BY <1>5, <1>9, <1>10 DEF Hidden, Shown

\* What is said of a line depends on its pieces only.
LEMMA SamePieces ==
    ASSUME pieces' = pieces, pieces \in Segments,
           CleanLine => Fine(src', line', decoded', crc_errors', decoding')
    PROVE  CodecInv'
<1>1. /\ Line' = Line /\ Sent' = Sent /\ CleanLine' = CleanLine /\ WorthOf' = WorthOf
      /\ Len(pieces)' = Len(pieces)
  BY DEF Line, Sent, CleanLine, WorthOf
<1>2. InPlace(src, line)' <=> InPlace(src', line')
  BY <1>1, Zenon DEF InPlace, PosOf
<1>3. PosOf(src, line)' = PosOf(src', line')
  BY <1>1, Zenon DEF PosOf
<1>4. DecodedAt(decoded, PosOf(src, line))' <=> DecodedAt(decoded', PosOf(src', line'))
  BY <1>1, <1>3 DEF DecodedAt, StandsAt, Hidden, Shown, StartAt
<1>5. Idle(src)' <=> Idle(src')
  BY DEF Idle
<1>6. QED
  BY <1>1, <1>2, <1>4, <1>5 DEF CodecInv, Fine

\* Each step keeps the invariant.
LEMMA CodecStep == CodecInv /\ [CodecNext]_codecVars => CodecInv'
<1> SUFFICES ASSUME CodecInv, [CodecNext]_codecVars PROVE CodecInv'
  OBVIOUS
<1>1. pieces \in Segments /\ pieces' = pieces
  BY DEF CodecInv, CodecNext, codecVars, ReadMore, SkipNoise, NeedMore, DecodeFrame
<1>2. ASSUME CleanLine PROVE Fine(src', line', decoded', crc_errors', decoding')
  <2>1. Clean /\ Fine(src, line, decoded, crc_errors, decoding)
    BY <1>1, <1>2 DEF Clean, CodecInv, Fine
  <2>2. CASE ReadMore
    BY <2>1, <2>2, ReadMoreKeeps
  <2>3. CASE SkipNoise
    BY <2>1, <2>3, SkipNoiseKeeps
  <2>4. CASE NeedMore
    BY <2>1, <2>4, NeedMoreKeeps
  <2>5. CASE DecodeFrame
    BY <2>1, <2>5, DecodeFrameKeeps
  <2>6. CASE UNCHANGED codecVars
    <3>1. /\ src' = src /\ line' = line /\ decoded' = decoded
          /\ crc_errors' = crc_errors /\ decoding' = decoding
      BY <2>6 DEF codecVars
    <3>2. QED
      BY <2>1, <3>1
  <2>7. QED
    BY <2>2, <2>3, <2>4, <2>5, <2>6 DEF CodecNext
<1>3. QED
  BY <1>1, <1>2, SamePieces

\* The buffer never rests on a frame that has been read to its end.
LEMMA NoneLeftBehind ==
    ASSUME Clean, NEW s, NEW l, InPlace(s, l), l = <<>>, Idle(s),
           NEW k, StandsAt(PosOf(s, l), k),
           NEW j \in 1..Len(pieces), Shown(j), ~(j <= k)
    PROVE  FALSE
<1> DEFINE pos == PosOf(s, l)
           f == FromHeaderIn(s)
           h == LeastAt(HeaderIn(s))
<1>1. /\ s \in Seq(Value) /\ Len(s) \in Nat /\ pos \in Nat /\ Len(Line) \in Nat
      /\ pos + Len(s) = Len(Line)
  <2>1. s \in Seq(Value) /\ Len(s) \in Nat /\ pos \in Nat /\ Len(Line) \in Nat
    BY LenProperties, LinePieces DEF InPlace
  <2>2. Len(l) = 0
    OBVIOUS
  <2>3. pos = Len(Line) - (Len(s) + Len(l))
    BY DEF PosOf
  <2> HIDE DEF pos
  <2>4. QED
    BY <2>1, <2>2, <2>3
<1>2. pieces[j].is = "frame" /\ pos <= StartAt(j)
  BY DEF Shown, StandsAt
<1> DEFINE b == StartAt(j + 1)
<1>3. /\ StartAt(j) \in Nat /\ b \in Nat /\ StartAt(j) + 5 <= b /\ b <= Len(Line)
      /\ Line[b - 1] = SYNC /\ Line[b] = END
  BY <1>2, FrameInLine, SMTT(30)
<1>4. HeaderIn(s) # {}
  <2>1. StartAt(j) + 2 <= pos + Len(s)
    BY <1>1, <1>3, SMTT(30)
  <2>2. QED
    BY <1>2, <2>1, HeaderSeen
<1>5. PICK i \in 1..Len(pieces) :
          pos + h = StartAt(i) + 1 /\ StartAt(i) <= StartAt(j)
  BY <1>2, <1>4, HeaderOfNext
<1>6. /\ f \in Seq(Value) /\ Len(f) \in Nat /\ h - 1 \in 0..Len(s) /\ Len(f) = Len(s) - (h - 1)
      /\ \A m \in 1..Len(f) : f[m] = s[(h - 1) + m]
  BY <1>4, FromHeaderMoves
<1>7. h \in Nat
  <2>1. HeaderIn(s) \subseteq Nat
    BY <1>1, PairsAre DEF HeaderIn
  <2>2. h \in HeaderIn(s)
    BY <1>4, <2>1, LeastIsIn, Zenon
  <2>3. QED
    BY <2>1, <2>2
<1>8. StartAt(i) \in Nat
  BY LinePieces
<1>9. \A m \in 1..Len(s) : s[m] = Line[pos + m]
  BY DEF InPlace
<1> DEFINE x == b - 1 - StartAt(i)
<1> HIDE DEF pos, f, h, b
<1>10. /\ x \in Nat /\ x > 0 /\ x < Len(f) /\ x \in 1..Len(f) /\ x + 1 \in 1..Len(f)
       /\ (h - 1) + x \in 1..Len(s) /\ (h - 1) + (x + 1) \in 1..Len(s)
       /\ pos + ((h - 1) + x) = b - 1 /\ pos + ((h - 1) + (x + 1)) = b
  <2> DEFINE a == StartAt(i)
             c == StartAt(j)
             len == Len(s)
             total == Len(Line)
             rest == Len(f)
  <2>1. /\ a \in Nat /\ c \in Nat /\ b \in Nat /\ pos \in Nat /\ len \in Nat /\ total \in Nat
        /\ a <= c /\ c + 5 <= b /\ b <= total /\ pos + len = total /\ pos + h = a + 1
        /\ h \in Nat /\ h - 1 \in 0..len /\ rest = len - (h - 1)
    BY <1>1, <1>3, <1>5, <1>6, <1>7, <1>8, Zenon
  <2> HIDE DEF a, c, len, total, rest
  <2> DEFINE y == b - 1 - a
  <2>2. /\ y \in Nat /\ y > 0 /\ y < rest /\ y \in 1..rest /\ y + 1 \in 1..rest
        /\ (h - 1) + y \in 1..len /\ (h - 1) + (y + 1) \in 1..len
        /\ pos + ((h - 1) + y) = b - 1 /\ pos + ((h - 1) + (y + 1)) = b
    BY <2>1
  <2>3. x = y
    BY Zenon DEF a
  <2> HIDE DEF x, y
  <2>4. QED
    BY <2>2, <2>3, Zenon DEF len, rest
<1> HIDE DEF x
<1>11. f[x] = SYNC /\ f[x + 1] = END
  <2>1. f[x] = s[(h - 1) + x] /\ f[x + 1] = s[(h - 1) + (x + 1)]
    BY <1>6, <1>10
  <2>2. s[(h - 1) + x] = Line[b - 1] /\ s[(h - 1) + (x + 1)] = Line[b]
    BY <1>9, <1>10
  <2>3. QED
    BY <1>3, <2>1, <2>2
<1>12. x \in PairsAt(f, SYNC, END)
  BY <1>6, <1>10, <1>11, PairsAre
<1>13. QED
  BY <1>4, <1>12, Zenon DEF Idle, EndIn, f

\* Once the line is read, the decoder has recovered what it is worth.
LEMMA CodecTells == CodecInv => (CleanLine => FramesRecovered)
<1> SUFFICES ASSUME CodecInv, CleanLine, line = <<>>, ~decoding
             PROVE  decoded = Worth.out /\ crc_errors = Worth.errors
  BY DEF FramesRecovered
<1>1. Clean /\ InPlace(src, line) /\ crc_errors = 0 /\ Idle(src)
  BY DEF CodecInv, Clean
<1>2. PICK k \in 0..Len(pieces) : decoded = WorthOf[k].out /\ StandsAt(PosOf(src, line), k)
  BY DEF CodecInv, DecodedAt
<1>3. Len(pieces) \in Nat
  BY <1>1, CleanPieces
<1>4. \A j \in (k + 1)..Len(pieces) : ~Shown(j)
  <2> SUFFICES ASSUME NEW j \in (k + 1)..Len(pieces), Shown(j) PROVE FALSE
    OBVIOUS
  <2>1. j \in 1..Len(pieces) /\ ~(j <= k)
    BY <1>3
  <2>2. QED
    BY <1>1, <1>2, <2>1, NoneLeftBehind
<1> DEFINE n == Len(pieces)
<1>5. n \in k..n /\ n \in 0..n
  BY <1>3
<1>6. WorthOf[n].out = WorthOf[k].out
  BY <1>1, <1>4, <1>5, WorthStays
<1>7. WorthOf[n] = InOrderSo(WorthOf[n].out)
  BY <1>1, <1>5, CleanWorth, Zenon
<1> DEFINE out == WorthOf[n].out
<1>8. WorthOf[n].errors = 0
  <2> HIDE DEF out
  <2>1. InOrderSo(out).errors = 0
    BY DEF InOrderSo
  <2>2. QED
    BY <1>7, <2>1, Zenon DEF out
<1>9. Worth = WorthOf[n]
  BY DEF Worth
<1>10. QED
  BY <1>1, <1>2, <1>6, <1>8, <1>9, Zenon

-----------------------------------------------------------------------------
(* Theorems. *)

\* For every frame, unstuffing undoes stuffing (codec.rs:69-78 and 98-121), and no
\* header or end marker arises between the two: a SYNC is followed by its STUFF.
THEOREM StuffingUndone ==
    ASSUME NEW p \in Payloads
    PROVE  /\ Unstuff(Stuff(p \o CrcBytes(p))) = p \o CrcBytes(p)
           /\ \A i \in 1..Len(Stuff(p \o CrcBytes(p))) :
                 Stuff(p \o CrcBytes(p))[i] = SYNC =>
                     /\ i < Len(Stuff(p \o CrcBytes(p)))
                     /\ Stuff(p \o CrcBytes(p))[i + 1] = STUFF
<1> DEFINE data == p \o CrcBytes(p)
           bytes == Stuff(data)
<1>1. data \in Seq(Value)
  BY CrcBehind, Zenon DEF WithCrc
<1> HIDE DEF data
<1>2. Unstuff(bytes) = data /\ StuffedWell(bytes, data, Len(data))
  BY <1>1, StuffUndone, Zenon
<1> HIDE DEF bytes
<1>3. bytes \in Seq(Value) /\ Len(bytes) \in Nat
  BY <1>2, LenProperties, Zenon DEF StuffedWell
<1>4. \A i \in 1..Len(bytes) : bytes[i] = SYNC => i + 1 \in 1..Len(bytes) /\ bytes[i + 1] = STUFF
  BY <1>2, Zenon DEF StuffedWell
<1>5. \A i \in 1..Len(bytes) : bytes[i] = SYNC => i < Len(bytes) /\ bytes[i + 1] = STUFF
  BY <1>3, <1>4
<1>6. QED
  BY <1>2, <1>5, Zenon DEF bytes, data

\* Of any line of whole frames and padding, however it is cut into reads (codec.rs:41-91),
\* the decoder recovers the frames, all but those hidden by an end marker over the
\* header, in order and without a CRC error.
THEOREM CleanLinesRecovered == CodecSpec => [](CleanLine => FramesRecovered)
<1>1. CodecInit => CodecInv
  BY CodecStart
<1>2. CodecInv /\ [CodecNext]_codecVars => CodecInv'
  BY CodecStep
<1>3. CodecInv => (CleanLine => FramesRecovered)
  BY CodecTells
<1>4. QED
  BY <1>1, <1>2, <1>3, PTL DEF CodecSpec

================================================================================
