------------------------- MODULE EncryptedStream_proofs -------------------------
(***************************************************************************)
(* Proofs about the encrypted stream: what is sent is what goes out, in    *)
(* whole packets and in order, and what comes in is decrypted in order,    *)
(* whatever pieces the socket takes and delivers.                          *)
(***************************************************************************)
EXTENDS EncryptedStream, SequenceTheorems, WellFoundedInduction, TLAPS

-----------------------------------------------------------------------------
(* Sequences of sequences, joined. *)

\* A set of numbers that is not empty has a least one.
LEMMA LeastNumber ==
    ASSUME NEW T, T \subseteq Nat, T # {}
    PROVE  \E x \in T : \A y \in T : x <= y
<1> DEFINE R == OpToRel(<, Nat)
<1>1. R = {ss \in Nat \X Nat : ss[1] < ss[2]}
  BY Zenon DEF OpToRel
<1>2. IsWellFoundedOn(R, Nat)
  BY NatLessThanWellFounded
<1> HIDE DEF R
<1>3. PICK x \in T : \A y \in T : ~ (<<y, x>> \in R)
  BY <1>2, WFMin
<1>4. ASSUME NEW y \in T PROVE x <= y
  <2>1. y < x => <<y, x>> \in {ss \in Nat \X Nat : ss[1] < ss[2]}
    OBVIOUS
  <2>2. ~(y < x)
    BY <1>1, <1>3, <2>1
  <2>3. QED
    BY <2>2
<1>5. QED
  BY <1>4

\* The sums of the first ones of a sequence of sequences.
Sums(s, n, g) == \A i \in 1..n : g[i] = IF i = 1 THEN s[i] ELSE g[i - 1] \o s[i]

\* The sums exist, for as many as there are.
LEMMA SumsExist ==
    ASSUME NEW A, NEW s \in Seq(Seq(A)), NEW n \in 1..Len(s)
    PROVE  \E g \in [1..n -> Seq(A)] : Sums(s, n, g)
<1> DEFINE T == {m \in 1..n : ~\E g \in [1..m -> Seq(A)] : Sums(s, m, g)}
<1> SUFFICES T = {}
  BY SMTT(30)
<1> SUFFICES ASSUME T # {} PROVE FALSE
  OBVIOUS
<1>1. PICK m \in T : \A y \in T : m <= y
  <2>1. T \subseteq Nat
    OBVIOUS
  <2>2. QED
    BY <2>1, LeastNumber
<1>2. m \in 1..n /\ ~\E g \in [1..m -> Seq(A)] : Sums(s, m, g)
  OBVIOUS
<1>3. CASE m = 1
  <2> DEFINE g == [i \in 1..1 |-> s[1]]
  <2>1. g \in [1..m -> Seq(A)] /\ Sums(s, m, g)
    BY <1>3 DEF Sums
  <2>2. QED
    BY <1>2, <2>1
<1>4. CASE m # 1
  <2>1. m - 1 \in 1..n /\ m - 1 \notin T
    BY <1>1, <1>2, <1>4, SMTT(30)
  <2>2. PICK h \in [1..(m - 1) -> Seq(A)] : Sums(s, m - 1, h)
    BY <2>1
  <2> DEFINE g == [i \in 1..m |-> IF i = m THEN h[m - 1] \o s[m] ELSE h[i]]
  <2>3. s[m] \in Seq(A) /\ h[m - 1] \in Seq(A)
    BY <1>2, <1>4
  <2>4. h[m - 1] \o s[m] \in Seq(A)
    BY <2>3
  <2>5. g \in [1..m -> Seq(A)]
    BY <1>2, <2>4
  <2>6. Sums(s, m, g)
    <3> SUFFICES ASSUME NEW i \in 1..m PROVE g[i] = IF i = 1 THEN s[i] ELSE g[i - 1] \o s[i]
      BY Zenon DEF Sums
    <3>1. CASE i = m
      <4>1. m \in 1..m /\ m - 1 \in 1..m /\ m - 1 # m
        BY <1>2, <1>4
      <4>2. g[m] = h[m - 1] \o s[m] /\ g[m - 1] = h[m - 1]
        BY <4>1
      <4> HIDE DEF g
      <4>3. QED
        BY <1>4, <3>1, <4>2
    <3>2. CASE i # m
      <4>1. i \in 1..(m - 1) /\ g[i] = h[i] /\ (i # 1 => g[i - 1] = h[i - 1])
        BY <1>2, <3>2
      <4>2. h[i] = IF i = 1 THEN s[i] ELSE h[i - 1] \o s[i]
        BY <2>2, <4>1 DEF Sums
      <4>3. QED
        BY <4>1, <4>2
    <3>3. QED
      BY <3>1, <3>2
  <2>7. QED
    BY <1>2, <2>5, <2>6
<1>5. QED
  BY <1>3, <1>4

\* There is one way to sum.
LEMMA SumsUnique ==
    ASSUME NEW s, NEW n \in Nat, NEW g, NEW h, Sums(s, n, g), Sums(s, n, h)
    PROVE  \A i \in 1..n : g[i] = h[i]
<1> DEFINE T == {i \in 1..n : g[i] # h[i]}
<1> SUFFICES ASSUME T # {} PROVE FALSE
  OBVIOUS
<1>1. PICK m \in T : \A y \in T : m <= y
  <2>1. T \subseteq Nat
    OBVIOUS
  <2>2. QED
    BY <2>1, LeastNumber
<1>2. m \in 1..n /\ g[m] # h[m]
  OBVIOUS
<1>3. m # 1
  BY <1>2 DEF Sums
<1>4. m - 1 \in 1..n /\ m - 1 \notin T
  BY <1>1, <1>2, <1>3
<1>5. g[m - 1] = h[m - 1]
  BY <1>4
<1>6. QED
  BY <1>2, <1>3, <1>5 DEF Sums

\* FlattenSeq is the last sum.
LEMMA FlattenIsSum ==
    ASSUME NEW A, NEW s \in Seq(Seq(A)), NEW n, n = Len(s), n # 0,
           NEW g \in [1..n -> Seq(A)], Sums(s, n, g)
    PROVE  FlattenSeq(s) = g[n]
<1> DEFINE body(f) == [i \in 1..n |-> IF i = 1 THEN s[i] ELSE f[i - 1] \o s[i]]
           flatten == CHOOSE f : f = body(f)
<1>1. n \in Nat /\ n \in 1..n
  OBVIOUS
<1>2. g = body(g)
  BY DEF Sums
<1>3. flatten = body(flatten)
  BY <1>2, Zenon
<1>4. FlattenSeq(s) = flatten[n]
  BY Zenon DEF FlattenSeq
<1> HIDE DEF flatten
<1>5. Sums(s, n, flatten)
  <2> SUFFICES ASSUME NEW i \in 1..n
               PROVE  flatten[i] = IF i = 1 THEN s[i] ELSE flatten[i - 1] \o s[i]
    BY Zenon DEF Sums
  <2>1. body(flatten)[i] = IF i = 1 THEN s[i] ELSE flatten[i - 1] \o s[i]
    OBVIOUS
  <2> HIDE DEF body
  <2>2. QED
    BY <1>3, <2>1, Zenon
<1>6. QED
  BY <1>1, <1>4, <1>5, SumsUnique

\* What the first n join to.
Joined(s, n) == FlattenSeq([i \in 1..n |-> s[i]])

\* They join to the sums.
LEMMA JoinedSums ==
    ASSUME NEW A, NEW s \in Seq(Seq(A)), NEW n \in 1..Len(s), NEW m \in n..Len(s),
           NEW g \in [1..m -> Seq(A)], Sums(s, m, g)
    PROVE  Joined(s, n) = g[n]
<1> DEFINE t == [i \in 1..n |-> s[i]]
           h == [i \in 1..n |-> g[i]]
<1>1. t \in Seq(Seq(A)) /\ Len(t) = n
  <2>1. \A i \in 1..n : s[i] \in Seq(A)
    OBVIOUS
  <2>2. QED
    BY <2>1, SMT
<1>2. h \in [1..n -> Seq(A)]
  OBVIOUS
<1>3. Sums(t, n, h)
  <2> SUFFICES ASSUME NEW i \in 1..n PROVE h[i] = IF i = 1 THEN t[i] ELSE h[i - 1] \o t[i]
    BY Zenon DEF Sums
  <2>1. h[i] = g[i] /\ t[i] = s[i] /\ (i # 1 => h[i - 1] = g[i - 1])
    OBVIOUS
  <2>2. g[i] = IF i = 1 THEN s[i] ELSE g[i - 1] \o s[i]
    <3>1. i \in 1..m
      OBVIOUS
    <3>2. QED
      BY <3>1, Zenon DEF Sums
  <2> HIDE DEF t, h
  <2>3. QED
    BY <2>1, <2>2
<1> HIDE DEF t, h
<1>4. FlattenSeq(t) = h[n]
  <2>1. n # 0
    OBVIOUS
  <2>2. QED
    BY <1>1, <1>2, <1>3, <2>1, FlattenIsSum, Zenon
<1>5. h[n] = g[n]
  BY DEF h
<1>6. QED
  BY <1>4, <1>5 DEF Joined, t

\* None join to nothing.
LEMMA JoinedNone == \A s : Joined(s, 0) = <<>>
<1> SUFFICES ASSUME NEW s PROVE Joined(s, 0) = <<>>
  OBVIOUS
<1> DEFINE t == [i \in 1..0 |-> s[i]]
<1>1. t = <<>> /\ Len(t) = 0
  OBVIOUS
<1> HIDE DEF t
<1>2. FlattenSeq(t) = <<>>
  BY <1>1 DEF FlattenSeq
<1>3. QED
  BY <1>2 DEF Joined, t

\* All join to what the whole does.
LEMMA JoinedAll ==
    ASSUME NEW A, NEW s \in Seq(A) PROVE Joined(s, Len(s)) = FlattenSeq(s)
<1>1. s = [i \in 1..Len(s) |-> s[i]]
  OBVIOUS
<1>2. QED
  BY <1>1 DEF Joined

\* One more is joined behind the others.
LEMMA JoinedNext ==
    ASSUME NEW A, NEW s \in Seq(Seq(A)), NEW n \in Nat, n + 1 \in 1..Len(s)
    PROVE  Joined(s, n + 1) = Joined(s, n) \o s[n + 1]
<1>1. PICK g \in [1..(n + 1) -> Seq(A)] : Sums(s, n + 1, g)
  BY SumsExist
<1>2. Joined(s, n + 1) = g[n + 1]
  <2>1. n + 1 \in (n + 1)..Len(s)
    OBVIOUS
  <2>2. QED
    BY <1>1, <2>1, JoinedSums
<1>3. s[n + 1] \in Seq(A)
  OBVIOUS
<1>4. CASE n = 0
  <2>1. g[n + 1] = s[n + 1]
    BY <1>1, <1>4 DEF Sums
  <2>2. Joined(s, n) = <<>>
    BY <1>4, JoinedNone
  <2>3. QED
    BY <1>2, <1>3, <2>1, <2>2, ConcatEmptySeq
<1>5. CASE n # 0
  <2>1. g[n + 1] = g[n] \o s[n + 1]
    <3>1. n + 1 \in 1..(n + 1) /\ n + 1 # 1 /\ (n + 1) - 1 = n
      BY <1>5
    <3>2. g[n + 1] = g[(n + 1) - 1] \o s[n + 1]
      BY <1>1, <3>1, Zenon DEF Sums
    <3>3. QED
      BY <3>1, <3>2
  <2>2. n \in 1..Len(s) /\ n + 1 \in n..Len(s)
    BY <1>5
  <2>3. Joined(s, n) = g[n]
    BY <1>1, <2>2, JoinedSums
  <2>4. QED
    BY <1>2, <2>1, <2>3
<1>6. QED
  BY <1>4, <1>5

\* What is joined is a sequence of the same things.
LEMMA FlattenTyped ==
    ASSUME NEW A, NEW s \in Seq(Seq(A)) PROVE FlattenSeq(s) \in Seq(A)
<1>1. CASE Len(s) = 0
  <2>1. FlattenSeq(s) = s /\ s = <<>>
    BY <1>1 DEF FlattenSeq
  <2>2. QED
    BY <2>1
<1>2. CASE Len(s) # 0
  <2>1. Len(s) \in 1..Len(s)
    BY <1>2
  <2>2. PICK g \in [1..Len(s) -> Seq(A)] : Sums(s, Len(s), g)
    BY <2>1, SumsExist
  <2>3. FlattenSeq(s) = g[Len(s)]
    BY <1>2, <2>2, FlattenIsSum
  <2>4. QED
    BY <2>1, <2>2, <2>3
<1>3. QED
  BY <1>1, <1>2

\* One more at the end joins behind.
LEMMA FlattenAppend ==
    ASSUME NEW A, NEW s \in Seq(Seq(A)), NEW x \in Seq(A)
    PROVE  FlattenSeq(Append(s, x)) = FlattenSeq(s) \o x
<1> DEFINE t == Append(s, x)
           n == Len(s)
<1>1. /\ n \in Nat /\ t \in Seq(Seq(A)) /\ Len(t) = n + 1 /\ t[n + 1] = x
      /\ \A i \in 1..n : t[i] = s[i]
  <2>1. n \in Nat
    BY LenProperties
  <2>2. t \in Seq(Seq(A)) /\ Len(t) = n + 1
    BY AppendProperties
  <2>3. t[n + 1] = x /\ \A i \in 1..n : t[i] = s[i]
    BY AppendProperties
  <2>4. QED
    BY <2>1, <2>2, <2>3
<1> HIDE DEF t
<1>2. FlattenSeq(t) = Joined(t, n + 1)
  BY <1>1, JoinedAll
<1>3. Joined(t, n + 1) = Joined(t, n) \o x
  <2>1. n + 1 \in 1..Len(t)
    BY <1>1
  <2>2. n \in Nat /\ t \in Seq(Seq(A)) /\ t[n + 1] = x
    BY <1>1, Zenon
  <2> HIDE DEF n
  <2>3. Joined(t, n + 1) = Joined(t, n) \o t[n + 1]
    BY <2>1, <2>2, JoinedNext
  <2>4. QED
    BY <2>2, <2>3, Zenon
<1>4. [i \in 1..n |-> t[i]] = [i \in 1..n |-> s[i]]
  <2>1. \A i \in 1..n : t[i] = s[i]
    BY <1>1, Zenon
  <2>2. QED
    BY <2>1, Zenon
<1>5. Joined(t, n) = FlattenSeq(s)
  <2>1. Joined(t, n) = Joined(s, n)
    BY <1>4, Zenon DEF Joined
  <2>2. Joined(s, n) = FlattenSeq(s)
    BY JoinedAll, Zenon
  <2>3. QED
    BY <2>1, <2>2, Zenon
<1>6. QED
  BY <1>2, <1>3, <1>5 DEF t

\* Those that are left join behind the first.
LEMMA JoinedRest ==
    ASSUME NEW A, NEW s \in Seq(Seq(A)), NEW n \in 0..Len(s)
    PROVE  /\ Joined(s, n) \in Seq(A)
           /\ \E rest \in Seq(A) : FlattenSeq(s) = Joined(s, n) \o rest
<1> DEFINE L == Len(s)
<1>1. L \in Nat
  OBVIOUS
<1>2. ASSUME NEW m \in 0..L PROVE Joined(s, m) \in Seq(A)
  <2> DEFINE t == [i \in 1..m |-> s[i]]
  <2>1. \A i \in 1..m : s[i] \in Seq(A)
    BY <1>1, ElementOfSeq
  <2>2. t \in Seq(Seq(A))
    BY <1>1, <2>1
  <2> HIDE DEF t
  <2>3. FlattenSeq(t) \in Seq(A)
    BY <2>2, FlattenTyped
  <2>4. QED
    BY <2>3 DEF Joined, t
<1> DEFINE Goes(m) == \E rest \in Seq(A) : FlattenSeq(s) = Joined(s, m) \o rest
           T == {d \in 0..L : ~Goes(L - d)}
<1>3. T = {}
  <2> SUFFICES ASSUME T # {} PROVE FALSE
    OBVIOUS
  <2>1. PICK d \in T : \A y \in T : d <= y
    <3>1. T \subseteq Nat
      BY <1>1
    <3> HIDE DEF T
    <3>2. QED
      BY <3>1, LeastNumber
  <2>2. d \in 0..L /\ ~Goes(L - d)
    BY <2>1
  <2>3. d # 0
    <3>1. Joined(s, L) = FlattenSeq(s)
      BY JoinedAll
    <3>2. Joined(s, L) \in Seq(A)
      BY <1>1, <1>2
    <3>3. FlattenSeq(s) = Joined(s, L) \o <<>> /\ <<>> \in Seq(A)
      BY <3>1, <3>2, ConcatEmptySeq, EmptySeq
    <3>4. d = 0 => L - d = L
      BY <1>1
    <3> HIDE DEF L
    <3>5. QED
      BY <2>2, <3>3, <3>4
  <2>4. d - 1 \in 0..L /\ ~(d <= d - 1)
    BY <1>1, <2>2, <2>3
  <2>5. d - 1 \notin T
    BY <2>1, <2>4
  <2>6. Goes(L - (d - 1))
    BY <2>4, <2>5
  <2> DEFINE m == L - d
  <2>7. m \in 0..L /\ m + 1 \in 1..L /\ m \in Nat /\ L - (d - 1) = m + 1
    BY <1>1, <2>2, <2>3
  <2> HIDE DEF m, T
  <2>8. PICK rest \in Seq(A) : FlattenSeq(s) = Joined(s, m + 1) \o rest
    BY <2>6, <2>7
  <2>9. s[m + 1] \in Seq(A) /\ Joined(s, m) \in Seq(A)
    BY <1>2, <2>7, ElementOfSeq
  <2>10. Joined(s, m + 1) = Joined(s, m) \o s[m + 1]
    BY <2>7, JoinedNext
  <2>11. (Joined(s, m) \o s[m + 1]) \o rest = Joined(s, m) \o (s[m + 1] \o rest)
    <3> DEFINE p == Joined(s, m)
               q == s[m + 1]
    <3>1. p \in Seq(A) /\ q \in Seq(A) /\ rest \in Seq(A)
      BY <2>9, Zenon
    <3> HIDE DEF p, q
    <3>2. (p \o q) \o rest = p \o (q \o rest)
      BY <3>1, ConcatAssociative, SMTT(30)
    <3>3. QED
      BY <3>2 DEF p, q
  <2>12. s[m + 1] \o rest \in Seq(A)
    BY <2>9
  <2>13. Goes(m)
    BY <2>8, <2>10, <2>11, <2>12
  <2>14. QED
    BY <2>2, <2>13 DEF m
<1>4. L - n \in 0..L /\ L - (L - n) = n
  BY <1>1
<1>5. Goes(n)
  BY <1>3, <1>4
<1>6. QED
  BY <1>2, <1>5

-----------------------------------------------------------------------------
(* Writing. *)

\* A byte of plaintext, and one on the wire.
Plain    == Nat \X Nat
WireByte == [packet : Nat, at : Nat, value : Nat]

\* The plaintext and the bytes of the packets made.
Plains(p) == [n \in DOMAIN p |-> p[n].plain]
Packed(p) == [n \in DOMAIN p |-> PacketBytes(n, PayloadLen(p[n].plain))]

\* The plaintext and the bytes are where they were put, and without a send given up there
\* is at most the frame that is being sent.
WritingInv ==
    /\ packets \in Seq([plain : Seq(Plain), prefix : Nat])
    /\ framed \in Seq(Plain)
    /\ write_buffer \in Seq(WireByte) /\ socket \in Seq(WireByte)
    /\ sends \in Nat /\ sending \in BOOLEAN /\ ghosts \in BOOLEAN
    /\ WritesInOrder
    /\ ~ghosts => /\ framed # <<>> => Len(framed) \in FrameLens
                  /\ ~sending => framed = <<>> /\ write_buffer = <<>>

\* A packet is made of bytes.
LEMMA PacketTyped ==
    ASSUME NEW n \in Nat, NEW len \in Nat PROVE PacketBytes(n, len) \in Seq(WireByte)
<1>1. Prefix(n, len) \in WireByte
  BY StreamAssumption DEF Prefix, WireByte
<1>2. Body(n, len) \in Seq(WireByte)
  <2>1. \A i \in 1..len : [packet |-> n, at |-> i, value |-> 0] \in WireByte
    BY DEF WireByte
  <2>2. QED
    BY <2>1 DEF Body
<1>3. QED
  BY <1>1, <1>2 DEF PacketBytes

\* A payload has a length, and that of a frame alone fits the prefix.
LEMMA PayloadTyped ==
    ASSUME NEW p \in Seq(Plain)
    PROVE  /\ PayloadLen(p) \in Nat
           /\ Len(p) \in FrameLens => PayloadLen(p) % PrefixRange = PayloadLen(p)
<1>1. Len(p) \in Nat
  OBVIOUS
<1> DEFINE h == HeaderLen
           m == PacketMin
           r == PrefixRange
           l == Len(p)
           n == IF h + l > m THEN h + l ELSE m
<1>2. /\ h \in Nat /\ m \in Nat /\ r \in Nat /\ l \in Nat /\ m < r
      /\ l \in FrameLens => l \in 1..(r - 1 - h)
  BY <1>1, StreamAssumption
<1>3. PayloadLen(p) = n
  BY DEF PayloadLen
<1> HIDE DEF h, m, r, l
<1>4. n \in Nat
  BY <1>2
<1>5. l \in FrameLens => n \in 0..(r - 1)
  BY <1>2
<1> HIDE DEF n
<1>6. n \in 0..(r - 1) => n % r = n
  BY <1>2, <1>4
<1>7. QED
  BY <1>3, <1>4, <1>5, <1>6 DEF l, r

\* At the start nothing is sent.
LEMMA WritingStart == StreamInit => WritingInv
<1> SUFFICES ASSUME StreamInit PROVE WritingInv
  OBVIOUS
<1>1. FlattenSeq(Plains(packets)) = <<>> /\ FlattenSeq(Packed(packets)) = <<>>
  <2>1. Plains(packets) = <<>> /\ Packed(packets) = <<>>
    BY DEF StreamInit, Plains, Packed
  <2>2. FlattenSeq(<<>>) = <<>>
    BY DEF FlattenSeq
  <2>3. QED
    BY <2>1, <2>2
<1>2. WritesInOrder
  BY <1>1 DEF StreamInit, WritesInOrder, Plains, Packed
<1>3. /\ <<>> \in Seq([plain : Seq(Plain), prefix : Nat])
      /\ <<>> \in Seq(Plain) /\ <<>> \in Seq(WireByte)
  BY EmptySeq
<1>4. QED
  BY <1>2, <1>3 DEF StreamInit, WritingInv

\* What has been packed is a sequence of sequences, of plaintext and of bytes.
LEMMA PackedTyped ==
    ASSUME NEW p \in Seq([plain : Seq(Plain), prefix : Nat])
    PROVE  /\ Plains(p) \in Seq(Seq(Plain)) /\ Packed(p) \in Seq(Seq(WireByte))
           /\ Len(Plains(p)) = Len(p) /\ Len(Packed(p)) = Len(p)
<1>1. DOMAIN p = 1..Len(p) /\ Len(p) \in Nat
  OBVIOUS
<1>2. ASSUME NEW n \in 1..Len(p) PROVE p[n].plain \in Seq(Plain)
  <2>1. p[n] \in [plain : Seq(Plain), prefix : Nat]
    BY ElementOfSeq
  <2>2. QED
    BY <2>1
<1>3. ASSUME NEW n \in 1..Len(p) PROVE PacketBytes(n, PayloadLen(p[n].plain)) \in Seq(WireByte)
  <2>1. PayloadLen(p[n].plain) \in Nat
    BY <1>2, PayloadTyped
  <2>2. n \in Nat
    BY <1>1
  <2>3. QED
    BY <2>1, <2>2, PacketTyped
<1>4. Plains(p) \in Seq(Seq(Plain)) /\ Len(Plains(p)) = Len(p)
  BY <1>1, <1>2 DEF Plains
<1>5. Packed(p) \in Seq(Seq(WireByte)) /\ Len(Packed(p)) = Len(p)
  BY <1>1, <1>3 DEF Packed
<1>6. QED
  BY <1>4, <1>5

\* A sequence cut in two is both pieces.
LEMMA CutInTwo ==
    ASSUME NEW A, NEW s \in Seq(A), NEW n \in 0..Len(s)
    PROVE  /\ SubSeq(s, 1, n) \in Seq(A) /\ SubSeq(s, n + 1, Len(s)) \in Seq(A)
           /\ SubSeq(s, 1, n) \o SubSeq(s, n + 1, Len(s)) = s
<1>1. SubSeq(s, 1, n) \in Seq(A) /\ SubSeq(s, n + 1, Len(s)) \in Seq(A)
  BY SubSeqProperties, ElementOfSeq
<1>2. SubSeq(s, 1, n) \o SubSeq(s, n + 1, Len(s)) = SubSeq(s, 1, Len(s))
  <2>1. 1 \in 1..(Len(s) + 1) /\ n \in (1 - 1)..Len(s) /\ Len(s) \in n..Len(s)
    OBVIOUS
  <2>2. QED
    BY <2>1, ConcatAdjacentSubSeq
<1>3. QED
  BY <1>1, <1>2, SubSeqFull

\* Three pieces join either way.
LEMMA PiecesJoin ==
    ASSUME NEW s \in Seq(Plain), NEW t \in Seq(Plain), NEW u \in Seq(Plain)
    PROVE  (s \o t) \o u = s \o (t \o u)
  BY ConcatAssociative, SMTT(30)

\* So do three pieces of what is on the wire.
LEMMA BytesJoin ==
    ASSUME NEW s \in Seq(WireByte), NEW t \in Seq(WireByte), NEW u \in Seq(WireByte)
    PROVE  (s \o t) \o u = s \o (t \o u)
  BY ConcatAssociative, SMTT(30)

\* A sequence that goes on by one.
LEMMA AppendIs ==
    ASSUME NEW A, NEW s \in Seq(A), NEW x \in A, NEW t \in Seq(A), Len(t) = Len(s) + 1,
           t[Len(s) + 1] = x, \A n \in 1..Len(s) : t[n] = s[n]
    PROVE  t = Append(s, x)
<1>1. Append(s, x) \in Seq(A) /\ Len(Append(s, x)) = Len(t)
  OBVIOUS
<1>2. ASSUME NEW n \in 1..Len(t) PROVE Append(s, x)[n] = t[n]
  OBVIOUS
<1>3. QED
  BY <1>1, <1>2, SeqEqual

\* What the invariant says of the joined packets.
LEMMA WrittenJoined ==
    ASSUME WritingInv
    PROVE  /\ FlattenSeq(Plains(packets)) \in Seq(Plain)
           /\ FlattenSeq(Packed(packets)) \in Seq(WireByte)
           /\ sent = FlattenSeq(Plains(packets)) \o framed
           /\ socket \o write_buffer = FlattenSeq(Packed(packets))
  BY PackedTyped, FlattenTyped DEF WritingInv, WritesInOrder, Plains, Packed

\* A frame is encoded behind the rest.
LEMMA SendFrameKeeps == WritingInv /\ SendFrame => WritingInv'
<1> SUFFICES ASSUME WritingInv, SendFrame PROVE WritingInv'
  OBVIOUS
<1> DEFINE plain(len) == [i \in 1..len |-> <<sends + 1, i>>]
<1>1. PICK len \in FrameLens : framed' = framed \o plain(len) /\ sent' = sent \o plain(len)
  BY DEF SendFrame
<1>2. plain(len) \in Seq(Plain) /\ Len(plain(len)) = len
  <2>1. len \in Nat /\ sends + 1 \in Nat
    BY StreamAssumption DEF WritingInv
  <2>2. \A i \in 1..len : <<sends + 1, i>> \in Plain
    BY <2>1 DEF Plain
  <2>3. QED
    BY <2>1, <2>2
<1> HIDE DEF plain
<1>3. /\ framed \in Seq(Plain) /\ framed' \in Seq(Plain)
      /\ FlattenSeq(Plains(packets)) \in Seq(Plain)
  BY <1>1, <1>2, WrittenJoined DEF WritingInv
<1>4. /\ packets' = packets /\ write_buffer' = write_buffer /\ socket' = socket
      /\ ghosts' = ghosts /\ sending' = TRUE /\ sends' = sends + 1 /\ ~sending
  BY DEF SendFrame
<1>5. sent' = FlattenSeq(Plains(packets)) \o framed'
  <2> DEFINE f == FlattenSeq(Plains(packets))
             p == plain(len)
  <2>1. sent = f \o framed /\ sent' = sent \o p /\ framed' = framed \o p
    BY <1>1, WrittenJoined
  <2>2. f \in Seq(Plain) /\ p \in Seq(Plain)
    BY <1>2, <1>3
  <2> HIDE DEF f, p
  <2>3. (f \o framed) \o p = f \o (framed \o p)
    <3>1. f \in Seq(Plain) /\ framed \in Seq(Plain) /\ p \in Seq(Plain)
      BY <1>3, <2>2, Zenon
    <3>2. QED
      BY <3>1, PiecesJoin, Zenon
  <2>4. sent' = f \o framed'
    BY <2>1, <2>3, Zenon
  <2>5. QED
    BY <2>4 DEF f
<1>6. ~ghosts => Len(framed') \in FrameLens
  <2> SUFFICES ASSUME ~ghosts PROVE Len(framed') \in FrameLens
    OBVIOUS
  <2>1. framed = <<>>
    BY <1>4 DEF WritingInv
  <2>2. framed' = plain(len)
    BY <1>1, <1>2, <2>1, ConcatEmptySeq
  <2>3. QED
    BY <1>2, <2>2
<1>7. WritesInOrder'
  BY <1>4, <1>5 DEF WritingInv, WritesInOrder, Plains
<1>8. QED
  BY <1>3, <1>4, <1>6, <1>7 DEF WritingInv

\* The socket takes from the front of the packet.
LEMMA DrainWritesKeeps == WritingInv /\ DrainWrites => WritingInv'
<1> SUFFICES ASSUME WritingInv, DrainWrites PROVE WritingInv'
  OBVIOUS
<1>1. /\ packets' = packets /\ framed' = framed /\ sent' = sent /\ sending' = sending
      /\ ghosts' = ghosts /\ sends' = sends /\ sending
  BY DEF DrainWrites
<1>2. PICK n \in 1..Len(write_buffer) :
          /\ socket' = socket \o SubSeq(write_buffer, 1, n)
          /\ write_buffer' = SubSeq(write_buffer, n + 1, Len(write_buffer))
  BY DEF DrainWrites
<1> DEFINE a == SubSeq(write_buffer, 1, n)
           b == SubSeq(write_buffer, n + 1, Len(write_buffer))
<1>3. socket \in Seq(WireByte) /\ write_buffer \in Seq(WireByte)
  BY DEF WritingInv
<1>4. a \in Seq(WireByte) /\ b \in Seq(WireByte) /\ a \o b = write_buffer
  BY <1>3, CutInTwo
<1>5. socket' = socket \o a /\ write_buffer' = b
  BY <1>2
<1> HIDE DEF a, b
<1>6. socket' \o write_buffer' = socket \o write_buffer
  <2>1. (socket \o a) \o b = socket \o (a \o b)
    <3>1. socket \in Seq(WireByte) /\ a \in Seq(WireByte) /\ b \in Seq(WireByte)
      BY <1>3, <1>4, Zenon
    <3>2. QED
      BY <3>1, BytesJoin, Zenon
  <2>2. QED
    BY <1>4, <1>5, <2>1, Zenon
<1>7. socket' \in Seq(WireByte) /\ write_buffer' \in Seq(WireByte)
  BY <1>3, <1>4, <1>5
<1>8. WritesInOrder'
  BY <1>1, <1>6 DEF WritingInv, WritesInOrder
<1>9. QED
  BY <1>1, <1>7, <1>8 DEF WritingInv

\* All that Framed holds makes the next packet, when the last is gone.
LEMMA WrapPacketKeeps == WritingInv /\ WrapPacket => WritingInv'
<1> SUFFICES ASSUME WritingInv, WrapPacket PROVE WritingInv'
  OBVIOUS
<1> DEFINE k == Len(packets) + 1
           len == PayloadLen(framed)
           packet == [plain |-> framed, prefix |-> len % PrefixRange]
<1>1. /\ framed \in Seq(Plain) /\ socket \in Seq(WireByte)
      /\ packets \in Seq([plain : Seq(Plain), prefix : Nat])
  BY DEF WritingInv
<1>2. k \in Nat /\ len \in Nat /\ len % PrefixRange \in Nat
  <2>1. len \in Nat
    BY <1>1, PayloadTyped
  <2>2. len % PrefixRange \in Nat
    BY <2>1, StreamAssumption
  <2>3. k \in Nat
    BY <1>1
  <2>4. QED
    BY <2>1, <2>2, <2>3
<1>3. packet \in [plain : Seq(Plain), prefix : Nat]
  BY <1>1, <1>2
<1>4. /\ write_buffer = <<>> /\ framed # <<>> /\ framed' = <<>>
      /\ write_buffer' = PacketBytes(k, len) /\ packets' = Append(packets, packet)
      /\ socket' = socket /\ sending' = sending /\ sent' = sent /\ ghosts' = ghosts
      /\ sends' = sends /\ sending
  BY DEF WrapPacket
<1> HIDE DEF packet, len, k
<1>0. Len(packets) = k - 1 /\ k - 1 \in Nat /\ k = Len(packets) + 1
  BY <1>1 DEF k
<1>5. /\ packets' \in Seq([plain : Seq(Plain), prefix : Nat])
      /\ Len(packets') = k /\ DOMAIN packets' = 1..k /\ DOMAIN packets = 1..(k - 1)
      /\ packets'[k] = packet /\ \A n \in 1..(k - 1) : packets'[n] = packets[n]
  BY <1>0, <1>1, <1>3, <1>4
<1>6. packet.plain = framed /\ packet.prefix = len % PrefixRange /\ PayloadLen(packet.plain) = len
  BY DEF packet, len
<1>7. PacketBytes(k, len) \in Seq(WireByte)
  BY <1>2, PacketTyped
<1>8. FlattenSeq(Plains(packets')) = FlattenSeq(Plains(packets)) \o framed
  <2>1. /\ Plains(packets) \in Seq(Seq(Plain)) /\ Len(Plains(packets)) = k - 1
        /\ Plains(packets') \in Seq(Seq(Plain)) /\ Len(Plains(packets')) = k
    BY <1>0, <1>1, <1>5, PackedTyped
  <2>2. /\ Plains(packets')[k] = framed
        /\ \A n \in 1..(k - 1) : Plains(packets')[n] = Plains(packets)[n]
    BY <1>0, <1>5, <1>6 DEF Plains
  <2>3. Plains(packets') = Append(Plains(packets), framed)
    BY <1>0, <1>1, <2>1, <2>2, AppendIs, SMTT(30)
  <2>4. QED
    BY <1>1, <2>1, <2>3, FlattenAppend
<1>9. FlattenSeq(Packed(packets')) = FlattenSeq(Packed(packets)) \o PacketBytes(k, len)
  <2>1. /\ Packed(packets) \in Seq(Seq(WireByte)) /\ Len(Packed(packets)) = k - 1
        /\ Packed(packets') \in Seq(Seq(WireByte)) /\ Len(Packed(packets')) = k
    BY <1>0, <1>1, <1>5, PackedTyped
  <2>2. /\ Packed(packets')[k] = PacketBytes(k, len)
        /\ \A n \in 1..(k - 1) : Packed(packets')[n] = Packed(packets)[n]
    BY <1>0, <1>5, <1>6 DEF Packed
  <2>3. Packed(packets') = Append(Packed(packets), PacketBytes(k, len))
    BY <1>0, <1>7, <2>1, <2>2, AppendIs
  <2>4. QED
    BY <1>7, <2>1, <2>3, FlattenAppend
<1>10. FlattenSeq(Plains(packets')) \o framed' = sent'
  <2>1. FlattenSeq(Plains(packets')) \in Seq(Plain)
    BY <1>5, PackedTyped, FlattenTyped
  <2>2. QED
    BY <1>4, <1>8, <2>1, WrittenJoined, ConcatEmptySeq
<1>11. FlattenSeq(Packed(packets')) = socket' \o write_buffer'
  <2>1. socket = FlattenSeq(Packed(packets))
    BY <1>1, <1>4, WrittenJoined, ConcatEmptySeq
  <2>2. QED
    BY <1>4, <1>9, <2>1
<1>12. ~ghosts => \A n \in DOMAIN packets' : packets'[n].prefix = PayloadLen(packets'[n].plain)
  <2> SUFFICES ASSUME ~ghosts, NEW n \in 1..k
               PROVE  packets'[n].prefix = PayloadLen(packets'[n].plain)
    BY <1>5
  <2>1. CASE n = k
    <3>1. len % PrefixRange = len
      BY <1>1, <1>4, PayloadTyped DEF WritingInv, len
    <3>2. QED
      BY <1>5, <1>6, <2>1, <3>1
  <2>2. CASE n # k
    <3>1. n \in 1..(k - 1)
      BY <1>0, <2>2
    <3>2. packets[n].prefix = PayloadLen(packets[n].plain)
      BY <1>5, <3>1 DEF WritingInv, WritesInOrder
    <3>3. QED
      BY <1>5, <3>1, <3>2
  <2>3. QED
    BY <2>1, <2>2
<1>13. WritesInOrder'
  BY <1>4, <1>10, <1>11, <1>12 DEF WritesInOrder, Plains, Packed
<1>14. QED
  <2>1. framed' \in Seq(Plain) /\ write_buffer' \in Seq(WireByte)
    BY <1>4, <1>7, EmptySeq
  <2>2. QED
    BY <1>4, <1>5, <1>13, <2>1 DEF WritingInv

\* Whether a send returns or is given up, the buffers stay as they are.
LEMMA WritingKept ==
    ASSUME WritingInv,
           UNCHANGED <<packets, framed, write_buffer, socket, sent, sends>>,
           sending' \in BOOLEAN, ghosts' \in BOOLEAN, ghosts => ghosts',
           ~ghosts' /\ ~sending' => framed = <<>> /\ write_buffer = <<>>
    PROVE  WritingInv'
<1>1. WritesInOrder'
  BY DEF WritingInv, WritesInOrder
<1>2. QED
  BY <1>1 DEF WritingInv

\* Every step keeps what is sent in order.
LEMMA WritingStep == WritingInv /\ [StreamNext]_streamVars => WritingInv'
<1> SUFFICES ASSUME WritingInv, [StreamNext]_streamVars PROVE WritingInv'
  OBVIOUS
<1>1. CASE SendFrame
  BY <1>1, SendFrameKeeps
<1>2. CASE DrainWrites
  BY <1>2, DrainWritesKeeps
<1>3. CASE WrapPacket
  BY <1>3, WrapPacketKeeps
<1>4. CASE Flushed
  BY <1>4, WritingKept DEF Flushed, WritingInv
<1>5. CASE GiveUpSend
  <2>1. ghosts' = (ghosts \/ framed # <<>> \/ write_buffer # <<>>) /\ ghosts \in BOOLEAN
    BY <1>5 DEF GiveUpSend, WritingInv
  <2>2. QED
    BY <1>5, <2>1, WritingKept DEF GiveUpSend
<1>6. CASE UNCHANGED Writing
  BY <1>6, WritingKept DEF Writing, WritingInv
<1>7. QED
  BY <1>1, <1>2, <1>3, <1>4, <1>5, <1>6
     DEF StreamNext, streamVars, Writing, YieldPlaintext, UnwrapPacket, ReadRaw

-----------------------------------------------------------------------------
(* Reading. *)

\* The bytes and the plaintext of the packets of the panel.
Arriving == [n \in DOMAIN incoming |-> PacketBytes(n, incoming[n])]
Texts    == [n \in DOMAIN incoming |-> PlainOf(n, incoming[n])]

\* The first k packets are decrypted, and what is read and not, behind the prefix that was
\* taken off, is the rest of the line.
ReadingAt(k) ==
    /\ k \in 0..Len(incoming)
    /\ taken \o read_buffer = Joined(Texts, k)
    /\ expected_resp_len = NoLen =>
           Joined(Arriving, k) \o (raw_read_buffer \o wire) = FlattenSeq(Arriving)
    /\ expected_resp_len # NoLen =>
           /\ k # Len(incoming) /\ expected_resp_len = incoming[k + 1]
           /\ (Joined(Arriving, k) \o <<Prefix(k + 1, incoming[k + 1])>>)
                  \o (raw_read_buffer \o wire) = FlattenSeq(Arriving)

\* What is read is where it was put, and some number of packets is decrypted.
ReadingInv ==
    /\ incoming \in Seq(0..(PrefixRange - 1))
    /\ wire \in Seq(WireByte) /\ raw_read_buffer \in Seq(WireByte)
    /\ read_buffer \in Seq(Plain) /\ taken \in Seq(Plain)
    /\ \E k \in 0..Len(incoming) : ReadingAt(k)

\* The pieces of a packet and of its plaintext.
LEMMA PlainTyped ==
    ASSUME NEW n \in Nat, NEW len \in Nat PROVE PlainOf(n, len) \in Seq(Plain)
<1>1. HeaderLen \in Nat
  BY StreamAssumption
<1>2. CASE len - HeaderLen \in Nat
  <2>1. \A i \in 1..(len - HeaderLen) : <<n, i>> \in Plain
    BY <1>1 DEF Plain
  <2>2. QED
    BY <1>2, <2>1 DEF PlainOf
<1>3. CASE len - HeaderLen \notin Nat
  <2>1. 1..(len - HeaderLen) = {}
    BY <1>1, <1>3
  <2>2. PlainOf(n, len) = <<>>
    BY <2>1 DEF PlainOf
  <2>3. QED
    BY <2>2, EmptySeq
<1>4. QED
  BY <1>2, <1>3

\* The payload is as long as was said, and a packet is its prefix and that.
LEMMA BodyTyped ==
    ASSUME NEW n \in Nat, NEW len \in Nat
    PROVE  /\ Body(n, len) \in Seq(WireByte) /\ Len(Body(n, len)) = len
           /\ <<Prefix(n, len)>> \in Seq(WireByte) /\ Prefix(n, len) \in WireByte
           /\ PacketBytes(n, len) = <<Prefix(n, len)>> \o Body(n, len)
<1>1. Prefix(n, len) \in WireByte
  BY StreamAssumption DEF Prefix, WireByte
<1>2. Body(n, len) \in Seq(WireByte) /\ Len(Body(n, len)) = len
  <2>1. \A i \in 1..len : [packet |-> n, at |-> i, value |-> 0] \in WireByte
    BY DEF WireByte
  <2>2. QED
    BY <2>1 DEF Body
<1>3. QED
  BY <1>1, <1>2 DEF PacketBytes

\* What arrives is a sequence of sequences too.
LEMMA ArrivingTyped ==
    ASSUME incoming \in Seq(0..(PrefixRange - 1))
    PROVE  /\ Arriving \in Seq(Seq(WireByte)) /\ Len(Arriving) = Len(incoming)
           /\ Texts \in Seq(Seq(Plain)) /\ Len(Texts) = Len(incoming)
           /\ Len(incoming) \in Nat
           /\ \A n \in 1..Len(incoming) : /\ incoming[n] \in Nat /\ n \in Nat
                                           /\ incoming[n] % PrefixRange = incoming[n]
                                           /\ Arriving[n] = PacketBytes(n, incoming[n])
                                           /\ Texts[n] = PlainOf(n, incoming[n])
<1>1. DOMAIN incoming = 1..Len(incoming) /\ Len(incoming) \in Nat /\ PrefixRange \in Nat
  BY StreamAssumption
<1>2. ASSUME NEW n \in 1..Len(incoming)
      PROVE  n \in Nat /\ incoming[n] \in Nat /\ incoming[n] % PrefixRange = incoming[n]
  <2>1. incoming[n] \in 0..(PrefixRange - 1)
    BY ElementOfSeq
  <2> DEFINE v == incoming[n]
             r == PrefixRange
  <2>2. v \in 0..(r - 1) /\ r \in Nat
    BY <1>1, <2>1
  <2> HIDE DEF v, r
  <2>3. v \in Nat /\ v % r = v
    BY <2>2
  <2>4. QED
    BY <1>1, <2>3 DEF v, r
<1>3. ASSUME NEW n \in 1..Len(incoming)
      PROVE  PacketBytes(n, incoming[n]) \in Seq(WireByte) /\ PlainOf(n, incoming[n]) \in Seq(Plain)
  BY <1>2, PacketTyped, PlainTyped
<1>4. Arriving \in Seq(Seq(WireByte)) /\ Len(Arriving) = Len(incoming)
  BY <1>1, <1>3 DEF Arriving
<1>5. Texts \in Seq(Seq(Plain)) /\ Len(Texts) = Len(incoming)
  BY <1>1, <1>3 DEF Texts
<1>6. QED
  BY <1>1, <1>2, <1>4, <1>5 DEF Arriving, Texts

\* What lies ahead of the first k packets: the next one, its prefix and its payload.
LEMMA Ahead ==
    ASSUME incoming \in Seq(0..(PrefixRange - 1)), NEW k \in 0..Len(incoming), k # Len(incoming)
    PROVE  LET p == <<Prefix(k + 1, incoming[k + 1])>>
               b == Body(k + 1, incoming[k + 1])
           IN  /\ k + 1 \in 1..Len(incoming) /\ k + 1 \in Nat /\ incoming[k + 1] \in Nat
               /\ incoming[k + 1] % PrefixRange = incoming[k + 1]
               /\ Joined(Arriving, k) \in Seq(WireByte)
               /\ p \in Seq(WireByte) /\ b \in Seq(WireByte) /\ Len(b) = incoming[k + 1]
               /\ Joined(Arriving, k + 1) = Joined(Arriving, k) \o (p \o b)
               /\ \E rest \in Seq(WireByte) :
                      FlattenSeq(Arriving) = Joined(Arriving, k) \o ((p \o b) \o rest)
<1> DEFINE p == <<Prefix(k + 1, incoming[k + 1])>>
           b == Body(k + 1, incoming[k + 1])
<1>1. k + 1 \in 1..Len(incoming) /\ k + 1 \in 0..Len(incoming) /\ k \in Nat /\ k + 1 \in Nat
  BY ArrivingTyped
<1>2. /\ incoming[k + 1] \in Nat /\ incoming[k + 1] % PrefixRange = incoming[k + 1]
      /\ Arriving[k + 1] = PacketBytes(k + 1, incoming[k + 1])
      /\ Arriving \in Seq(Seq(WireByte)) /\ Len(Arriving) = Len(incoming)
  BY <1>1, ArrivingTyped
<1>3. /\ p \in Seq(WireByte) /\ b \in Seq(WireByte) /\ Len(b) = incoming[k + 1]
      /\ Arriving[k + 1] = p \o b
  BY <1>1, <1>2, BodyTyped
<1> HIDE DEF p, b
<1>4. Joined(Arriving, k) \in Seq(WireByte)
  BY <1>2, JoinedRest
<1>5. Joined(Arriving, k + 1) = Joined(Arriving, k) \o (p \o b)
  BY <1>1, <1>2, <1>3, JoinedNext
<1>6. PICK rest \in Seq(WireByte) : FlattenSeq(Arriving) = Joined(Arriving, k + 1) \o rest
  BY <1>1, <1>2, JoinedRest
<1>7. p \o b \in Seq(WireByte)
  BY <1>3
<1>8. (Joined(Arriving, k) \o (p \o b)) \o rest = Joined(Arriving, k) \o ((p \o b) \o rest)
  BY <1>4, <1>7, BytesJoin
<1>9. FlattenSeq(Arriving) = Joined(Arriving, k) \o ((p \o b) \o rest)
  BY <1>5, <1>6, <1>8
<1>10. QED
  BY <1>1, <1>2, <1>3, <1>4, <1>5, <1>9 DEF p, b

\* What two pieces make together.
LEMMA BytesConcat ==
    ASSUME NEW s \in Seq(WireByte), NEW t \in Seq(WireByte)
    PROVE  /\ s \o t \in Seq(WireByte) /\ Len(s \o t) = Len(s) + Len(t)
           /\ Len(s) \in Nat /\ Len(t) \in Nat
           /\ \A i \in 1..Len(s) : (s \o t)[i] = s[i]
<1>1. Len(s) \in Nat /\ Len(t) \in Nat
  OBVIOUS
<1>2. s \o t \in Seq(WireByte) /\ Len(s \o t) = Len(s) + Len(t)
  BY ConcatProperties
<1>3. \A i \in 1..Len(s) : (s \o t)[i] = s[i]
  OBVIOUS
<1>4. QED
  BY <1>1, <1>2, <1>3

\* The same in front leaves the same behind.
LEMMA BytesCancel ==
    ASSUME NEW s \in Seq(WireByte), NEW t \in Seq(WireByte), NEW u \in Seq(WireByte),
           s \o t = s \o u
    PROVE  t = u
  BY ConcatSimplifications

\* At the start nothing is read.
LEMMA ReadingStart == StreamInit => ReadingInv
<1> SUFFICES ASSUME StreamInit PROVE ReadingInv
  OBVIOUS
<1>1. /\ incoming \in Seq(0..(PrefixRange - 1)) /\ wire = FlattenSeq(Arriving)
      /\ raw_read_buffer = <<>> /\ expected_resp_len = NoLen
      /\ read_buffer = <<>> /\ taken = <<>>
  BY StreamAssumption DEF StreamInit, Arriving
<1>2. wire \in Seq(WireByte)
  BY <1>1, ArrivingTyped, FlattenTyped
<1>3. <<>> \in Seq(WireByte) /\ <<>> \in Seq(Plain)
  BY EmptySeq
<1>4. Joined(Texts, 0) = <<>> /\ Joined(Arriving, 0) = <<>>
  BY JoinedNone
<1>5. /\ Joined(Arriving, 0) \o (raw_read_buffer \o wire) = FlattenSeq(Arriving)
      /\ taken \o read_buffer = Joined(Texts, 0)
  BY <1>1, <1>2, <1>3, <1>4, ConcatEmptySeq
<1>6. 0 \in 0..Len(incoming)
  BY <1>1, ArrivingTyped
<1>7. ReadingAt(0)
  BY <1>1, <1>5, <1>6 DEF ReadingAt
<1>8. QED
  BY <1>1, <1>2, <1>3, <1>6, <1>7 DEF ReadingInv

\* The caller takes from the front of what is decrypted.
LEMMA YieldKeeps == ReadingInv /\ YieldPlaintext => ReadingInv'
<1> SUFFICES ASSUME ReadingInv, YieldPlaintext PROVE ReadingInv'
  OBVIOUS
<1>1. /\ incoming' = incoming /\ wire' = wire /\ raw_read_buffer' = raw_read_buffer
      /\ expected_resp_len' = expected_resp_len
  BY DEF YieldPlaintext
<1>2. PICK n \in 1..Len(read_buffer) :
          /\ taken' = taken \o SubSeq(read_buffer, 1, n)
          /\ read_buffer' = SubSeq(read_buffer, n + 1, Len(read_buffer))
  BY DEF YieldPlaintext
<1> DEFINE a == SubSeq(read_buffer, 1, n)
           b == SubSeq(read_buffer, n + 1, Len(read_buffer))
<1>3. taken \in Seq(Plain) /\ read_buffer \in Seq(Plain)
  BY DEF ReadingInv
<1>4. a \in Seq(Plain) /\ b \in Seq(Plain) /\ a \o b = read_buffer
  BY <1>3, CutInTwo
<1>5. taken' = taken \o a /\ read_buffer' = b
  BY <1>2
<1> HIDE DEF a, b
<1>6. (taken \o a) \o b = taken \o (a \o b)
  <2>1. taken \in Seq(Plain) /\ a \in Seq(Plain) /\ b \in Seq(Plain)
    BY <1>3, <1>4, Zenon
  <2>2. QED
    BY <2>1, PiecesJoin, Zenon
<1>7. taken' \o read_buffer' = taken \o read_buffer
  BY <1>4, <1>5, <1>6, Zenon
<1>8. taken' \in Seq(Plain) /\ read_buffer' \in Seq(Plain)
  BY <1>3, <1>4, <1>5
<1>9. PICK k \in 0..Len(incoming) : ReadingAt(k)
  BY DEF ReadingInv
<1>10. ReadingAt(k)'
  BY <1>1, <1>7, <1>9 DEF ReadingAt, Texts, Arriving
<1>11. QED
  BY <1>1, <1>8, <1>9, <1>10 DEF ReadingInv

\* Bytes move from the line to the buffer.
LEMMA ReadRawKeeps == ReadingInv /\ ReadRaw => ReadingInv'
<1> SUFFICES ASSUME ReadingInv, ReadRaw PROVE ReadingInv'
  OBVIOUS
<1>1. /\ incoming' = incoming /\ taken' = taken /\ read_buffer' = read_buffer
      /\ expected_resp_len' = expected_resp_len
  BY DEF ReadRaw
<1>2. PICK n \in 1..Len(wire) :
          /\ raw_read_buffer' = raw_read_buffer \o SubSeq(wire, 1, n)
          /\ wire' = SubSeq(wire, n + 1, Len(wire))
  BY DEF ReadRaw
<1> DEFINE a == SubSeq(wire, 1, n)
           b == SubSeq(wire, n + 1, Len(wire))
<1>3. raw_read_buffer \in Seq(WireByte) /\ wire \in Seq(WireByte)
  BY DEF ReadingInv
<1>4. a \in Seq(WireByte) /\ b \in Seq(WireByte) /\ a \o b = wire
  BY <1>3, CutInTwo
<1>5. raw_read_buffer' = raw_read_buffer \o a /\ wire' = b
  BY <1>2
<1> HIDE DEF a, b
<1>6. (raw_read_buffer \o a) \o b = raw_read_buffer \o (a \o b)
  <2>1. raw_read_buffer \in Seq(WireByte) /\ a \in Seq(WireByte) /\ b \in Seq(WireByte)
    BY <1>3, <1>4, Zenon
  <2>2. QED
    BY <2>1, BytesJoin, Zenon
<1>7. raw_read_buffer' \o wire' = raw_read_buffer \o wire
  BY <1>4, <1>5, <1>6, Zenon
<1>8. raw_read_buffer' \in Seq(WireByte) /\ wire' \in Seq(WireByte)
  BY <1>3, <1>4, <1>5
<1>9. PICK k \in 0..Len(incoming) : ReadingAt(k)
  BY DEF ReadingInv
<1>10. ReadingAt(k)'
  BY <1>1, <1>7, <1>9 DEF ReadingAt, Texts, Arriving
<1>11. QED
  BY <1>1, <1>8, <1>9, <1>10 DEF ReadingInv

\* The byte in front of what is left is the prefix of the next packet.
LEMMA PrefixTaken ==
    ASSUME ReadingInv, UnwrapPacket, expected_resp_len = NoLen
    PROVE  ReadingInv'
<1>1. /\ incoming \in Seq(0..(PrefixRange - 1)) /\ wire \in Seq(WireByte)
      /\ raw_read_buffer \in Seq(WireByte)
  BY DEF ReadingInv
<1>2. PICK k \in 0..Len(incoming) : ReadingAt(k)
  BY DEF ReadingInv
<1>3. /\ raw_read_buffer # <<>>
      /\ expected_resp_len' = raw_read_buffer[1].value
      /\ raw_read_buffer' = Tail(raw_read_buffer)
      /\ incoming' = incoming /\ wire' = wire /\ taken' = taken /\ read_buffer' = read_buffer
  BY DEF UnwrapPacket, NextPacketReady
<1> DEFINE J == Joined(Arriving, k)
           left == raw_read_buffer \o wire
           p == <<Prefix(k + 1, incoming[k + 1])>>
           b == Body(k + 1, incoming[k + 1])
<1>4. J \in Seq(WireByte) /\ left \in Seq(WireByte) /\ J \o left = FlattenSeq(Arriving)
  <2>1. J \in Seq(WireByte)
    BY <1>1, <1>2, ArrivingTyped, JoinedRest
  <2>2. left \in Seq(WireByte)
    BY <1>1, BytesConcat
  <2>3. J \o left = FlattenSeq(Arriving)
    BY <1>2, Zenon DEF ReadingAt
  <2>4. QED
    BY <2>1, <2>2, <2>3, Zenon
<1>5. k # Len(incoming)
  <2> SUFFICES ASSUME k = Len(incoming) PROVE FALSE
    OBVIOUS
  <2>1. J = FlattenSeq(Arriving)
    BY <1>1, ArrivingTyped, JoinedAll
  <2>2. Len(J \o left) = Len(J) + Len(left) /\ Len(J) \in Nat /\ Len(left) \in Nat
    BY <1>4, ConcatProperties
  <2>3. Len(left) # 0
    BY <1>1, <1>3
  <2> HIDE DEF J, left
  <2>4. QED
    BY <1>4, <2>1, <2>2, <2>3
<1>6. /\ p \in Seq(WireByte) /\ b \in Seq(WireByte)
      /\ incoming[k + 1] % PrefixRange = incoming[k + 1] /\ incoming[k + 1] \in Nat
  BY <1>1, <1>5, Ahead
<1>7. PICK rest \in Seq(WireByte) : FlattenSeq(Arriving) = J \o ((p \o b) \o rest)
  BY <1>1, <1>5, Ahead
<1>8. left = (p \o b) \o rest
  <2> DEFINE q == (p \o b) \o rest
  <2>1. q \in Seq(WireByte)
    BY <1>6
  <2>2. J \o left = J \o q
    BY <1>4, <1>7, Zenon
  <2>3. J \in Seq(WireByte) /\ left \in Seq(WireByte)
    BY <1>4
  <2> HIDE DEF J, left, q
  <2>4. left = q
    BY <2>1, <2>2, <2>3, BytesCancel
  <2>5. QED
    BY <2>4 DEF q
<1>9. raw_read_buffer[1] = Prefix(k + 1, incoming[k + 1])
  <2>1. left[1] = raw_read_buffer[1]
    BY <1>1, <1>3
  <2>2. ((p \o b) \o rest)[1] = p[1]
    <3>1. Len(p) = 1
      OBVIOUS
    <3> HIDE DEF p, b
    <3>2. p \in Seq(WireByte) /\ b \in Seq(WireByte)
      BY <1>6, Zenon
    <3>3. /\ p \o b \in Seq(WireByte) /\ Len(p \o b) = Len(p) + Len(b) /\ Len(b) \in Nat
          /\ \A i \in 1..Len(p) : (p \o b)[i] = p[i]
      BY <3>2, BytesConcat, Zenon
    <3>4. 1 \in 1..Len(p) /\ 1 \in 1..Len(p \o b)
      BY <3>1, <3>3
    <3>5. ((p \o b) \o rest)[1] = (p \o b)[1]
      BY <3>3, <3>4, BytesConcat, Zenon
    <3>6. QED
      BY <3>3, <3>4, <3>5, Zenon
  <2>3. p[1] = Prefix(k + 1, incoming[k + 1])
    OBVIOUS
  <2>4. QED
    BY <1>8, <2>1, <2>2, <2>3, Zenon
<1>10. expected_resp_len' = incoming[k + 1] /\ expected_resp_len' # NoLen
  <2>1. Prefix(k + 1, incoming[k + 1]).value = incoming[k + 1] % PrefixRange
    BY DEF Prefix
  <2>2. expected_resp_len' = incoming[k + 1]
    BY <1>3, <1>6, <1>9, <2>1
  <2>3. QED
    BY <1>6, <2>2 DEF NoLen
<1>11. Tail(raw_read_buffer) \in Seq(WireByte) /\ p \o Tail(raw_read_buffer) = raw_read_buffer
  <2>1. p = <<raw_read_buffer[1]>>
    BY <1>9
  <2>2. QED
    BY <1>1, <1>3, <2>1
<1>12. (J \o p) \o (Tail(raw_read_buffer) \o wire) = FlattenSeq(Arriving)
  <2> DEFINE t == Tail(raw_read_buffer)
  <2>1. t \in Seq(WireByte) /\ p \o t = raw_read_buffer
    BY <1>11
  <2> HIDE DEF J, p, t
  <2>2. t \o wire \in Seq(WireByte)
    BY <1>1, <2>1
  <2>3. (J \o p) \o (t \o wire) = J \o (p \o (t \o wire))
    <3>1. J \in Seq(WireByte) /\ p \in Seq(WireByte) /\ t \o wire \in Seq(WireByte)
      BY <1>4, <1>6, <2>2, Zenon
    <3>2. QED
      BY <3>1, BytesJoin, Zenon
  <2>4. (p \o t) \o wire = p \o (t \o wire)
    <3>1. p \in Seq(WireByte) /\ t \in Seq(WireByte) /\ wire \in Seq(WireByte)
      BY <1>1, <1>6, <2>1, Zenon
    <3>2. QED
      BY <3>1, BytesJoin, ZenonT(40)
  <2>5. (J \o p) \o (t \o wire) = FlattenSeq(Arriving)
    BY <1>4, <2>1, <2>3, <2>4, Zenon
  <2>6. QED
    BY <2>5 DEF t
<1>13. /\ Texts' = Texts /\ Arriving' = Arriving
  BY <1>3 DEF Texts, Arriving
<1>14. ReadingAt(k)'
  BY <1>2, <1>3, <1>5, <1>10, <1>12, <1>13 DEF ReadingAt
<1>15. QED
  BY <1>2, <1>3, <1>11, <1>14 DEF ReadingInv

\* The payload that the prefix announced is the payload of the packet.
LEMMA PayloadTaken ==
    ASSUME ReadingInv, UnwrapPacket, expected_resp_len # NoLen
    PROVE  ReadingInv'
<1>1. /\ incoming \in Seq(0..(PrefixRange - 1)) /\ wire \in Seq(WireByte)
      /\ raw_read_buffer \in Seq(WireByte) /\ read_buffer \in Seq(Plain) /\ taken \in Seq(Plain)
  BY DEF ReadingInv
<1>2. PICK k \in 0..Len(incoming) : ReadingAt(k)
  BY DEF ReadingInv
<1> DEFINE e == incoming[k + 1]
           J == Joined(Arriving, k)
           left == raw_read_buffer \o wire
           p == <<Prefix(k + 1, e)>>
           b == Body(k + 1, e)
           a == SubSeq(raw_read_buffer, 1, e)
           c == SubSeq(raw_read_buffer, e + 1, Len(raw_read_buffer))
<1>3. /\ k # Len(incoming) /\ expected_resp_len = e
      /\ (J \o p) \o left = FlattenSeq(Arriving)
  BY <1>2 DEF ReadingAt
<1>4. /\ Len(raw_read_buffer) >= e
      /\ read_buffer' = read_buffer \o Decrypt(a)
      /\ raw_read_buffer' = c
      /\ expected_resp_len' = NoLen
      /\ incoming' = incoming /\ wire' = wire /\ taken' = taken
  BY <1>3 DEF UnwrapPacket, NextPacketReady
<1>5. /\ k + 1 \in 1..Len(incoming) /\ k + 1 \in Nat /\ e \in Nat
      /\ J \in Seq(WireByte) /\ p \in Seq(WireByte) /\ b \in Seq(WireByte) /\ Len(b) = e
      /\ Joined(Arriving, k + 1) = J \o (p \o b)
  BY <1>1, <1>3, Ahead
<1>6. PICK rest \in Seq(WireByte) : FlattenSeq(Arriving) = J \o ((p \o b) \o rest)
  BY <1>1, <1>3, Ahead
<1>7. e \in 0..Len(raw_read_buffer)
  BY <1>1, <1>4, <1>5, SMTT(30)
<1>8. a \in Seq(WireByte) /\ c \in Seq(WireByte) /\ a \o c = raw_read_buffer
  BY <1>1, <1>7, CutInTwo
<1>9. left = b \o rest
  <2>1. left \in Seq(WireByte) /\ b \o rest \in Seq(WireByte) /\ J \o p \in Seq(WireByte)
        /\ p \o b \in Seq(WireByte)
    BY <1>1, <1>5
  <2> HIDE DEF J, left, p, b
  <2>2. (p \o b) \o rest = p \o (b \o rest)
    <3>1. p \in Seq(WireByte) /\ b \in Seq(WireByte)
      BY <1>5, Zenon
    <3>2. QED
      BY <3>1, BytesJoin, Zenon
  <2>3. (J \o p) \o (b \o rest) = J \o (p \o (b \o rest))
    <3>1. J \in Seq(WireByte) /\ p \in Seq(WireByte) /\ b \o rest \in Seq(WireByte)
      BY <1>5, <2>1, Zenon
    <3>2. QED
      BY <3>1, BytesJoin, Zenon
  <2>4. (J \o p) \o left = (J \o p) \o (b \o rest)
    BY <1>3, <1>6, <2>2, <2>3, Zenon
  <2>5. QED
    BY <2>1, <2>4, BytesCancel
<1>10. a = b
  <2>1. Len(a) = e /\ \A i \in 1..e : a[i] = raw_read_buffer[i]
    BY <1>1, <1>7
  <2>2. \A i \in 1..e : left[i] = raw_read_buffer[i]
    BY <1>1, <1>7
  <2> HIDE DEF a, b, left
  <2>3. \A i \in 1..e : (b \o rest)[i] = b[i]
    BY <1>5
  <2>4. \A i \in 1..Len(a) : a[i] = b[i]
    BY <1>9, <2>1, <2>2, <2>3
  <2>5. QED
    BY <1>5, <1>8, <2>1, <2>4, SeqEqual
<1>11. Decrypt(a) = PlainOf(k + 1, e)
  <2>1. CASE e = 0
    <3>1. a = <<>> /\ Len(a) = 0
      BY <1>1, <1>7, <2>1, <1>8
    <3>2. Decrypt(a) = [i \in 1..(0 - HeaderLen) |-> Garbage]
      BY <3>1 DEF Decrypt
    <3>3. 1..(0 - HeaderLen) = {}
      BY StreamAssumption
    <3>4. PlainOf(k + 1, e) = [i \in 1..(0 - HeaderLen) |-> <<k + 1, i>>]
      BY <2>1 DEF PlainOf
    <3>5. QED
      BY <3>2, <3>3, <3>4
  <2>2. CASE e # 0
    <3>1. a[1].packet = k + 1
      <4>1. 1 \in 1..e
        BY <1>5, <2>2
      <4>2. b[1] = [packet |-> k + 1, at |-> 1, value |-> 0]
        BY <4>1 DEF Body
      <4> HIDE DEF a, b
      <4>3. b[1].packet = k + 1
        BY <4>2
      <4>4. QED
        BY <1>10, <4>3, Zenon
    <3>2. Len(a) = e /\ a # <<>>
      <4> HIDE DEF a, b, e
      <4>1. Len(a) = e
        BY <1>5, <1>10
      <4>2. Len(<<>>) = 0
        OBVIOUS
      <4>3. QED
        BY <2>2, <4>1, <4>2
    <3>3. a = Body(k + 1, incoming[k + 1])
      BY <1>10
    <3> HIDE DEF a, b
    <3>4. QED
      BY <3>1, <3>2, <3>3 DEF Decrypt
  <2>3. QED
    BY <2>1, <2>2
<1>12. Joined(Arriving, k + 1) \o (c \o wire) = FlattenSeq(Arriving)
  <2>1. J \o p \in Seq(WireByte) /\ c \o wire \in Seq(WireByte)
    BY <1>1, <1>5, <1>8, SMTT(30)
  <2>2. left = (a \o c) \o wire
    BY <1>8
  <2> HIDE DEF J, left, p, a, b, c
  <2>3. (a \o c) \o wire = a \o (c \o wire)
    <3>1. a \in Seq(WireByte) /\ c \in Seq(WireByte) /\ wire \in Seq(WireByte)
      BY <1>1, <1>8, Zenon
    <3>2. QED
      BY <3>1, BytesJoin, ZenonT(40)
  <2>4. ((J \o p) \o b) \o (c \o wire) = (J \o p) \o (b \o (c \o wire))
    <3>1. J \o p \in Seq(WireByte) /\ b \in Seq(WireByte) /\ c \o wire \in Seq(WireByte)
      BY <1>5, <2>1, Zenon
    <3>2. QED
      BY <3>1, BytesJoin, Zenon
  <2>5. (J \o p) \o b = J \o (p \o b)
    <3>1. J \in Seq(WireByte) /\ p \in Seq(WireByte) /\ b \in Seq(WireByte)
      BY <1>5, Zenon
    <3>2. QED
      BY <3>1, BytesJoin, ZenonT(40)
  <2>6. QED
    BY <1>3, <1>5, <1>10, <2>2, <2>3, <2>4, <2>5, Zenon
<1>13. /\ PlainOf(k + 1, e) \in Seq(Plain)
       /\ taken' \o read_buffer' = Joined(Texts, k + 1)
       /\ read_buffer' \in Seq(Plain)
  <2> DEFINE t == PlainOf(k + 1, e)
  <2>1. t \in Seq(Plain)
    BY <1>5, PlainTyped
  <2>2. Joined(Texts, k + 1) = Joined(Texts, k) \o t
    <3>1. Texts \in Seq(Seq(Plain)) /\ Len(Texts) = Len(incoming) /\ Texts[k + 1] = t /\ k \in Nat
      BY <1>1, <1>5, ArrivingTyped
    <3> HIDE DEF t
    <3>2. QED
      BY <1>5, <3>1, JoinedNext
  <2>3. read_buffer' = read_buffer \o t
    BY <1>4, <1>11
  <2> HIDE DEF t
  <2>4. (taken \o read_buffer) \o t = taken \o (read_buffer \o t)
    <3>1. taken \in Seq(Plain) /\ read_buffer \in Seq(Plain) /\ t \in Seq(Plain)
      BY <1>1, <2>1, Zenon
    <3>2. QED
      BY <3>1, PiecesJoin, Zenon
  <2>5. taken \o read_buffer = Joined(Texts, k)
    BY <1>2 DEF ReadingAt
  <2>6. taken' \o read_buffer' = Joined(Texts, k + 1)
    BY <1>4, <2>2, <2>3, <2>4, <2>5, Zenon
  <2>7. read_buffer' \in Seq(Plain)
    BY <1>1, <2>1, <2>3
  <2>8. QED
    BY <2>1, <2>6, <2>7 DEF t
<1>14. Texts' = Texts /\ Arriving' = Arriving
  BY <1>4 DEF Texts, Arriving
<1>15. k + 1 \in 0..Len(incoming)
  BY <1>5
<1>16. ReadingAt(k + 1)'
  BY <1>4, <1>12, <1>13, <1>14, <1>15 DEF ReadingAt
<1>17. QED
  BY <1>1, <1>4, <1>8, <1>13, <1>15, <1>16 DEF ReadingInv

\* The other steps do not touch what is read.
LEMMA ReadingKept == ReadingInv /\ UNCHANGED Reading => ReadingInv'
  BY DEF ReadingInv, ReadingAt, Reading, Texts, Arriving

\* Every step keeps what is read in order.
LEMMA ReadingStep == ReadingInv /\ [StreamNext]_streamVars => ReadingInv'
<1> SUFFICES ASSUME ReadingInv, [StreamNext]_streamVars PROVE ReadingInv'
  OBVIOUS
<1>1. CASE YieldPlaintext
  BY <1>1, YieldKeeps
<1>2. CASE UnwrapPacket
  BY <1>2, PrefixTaken, PayloadTaken
<1>3. CASE ReadRaw
  BY <1>3, ReadRawKeeps
<1>4. CASE UNCHANGED Reading
  BY <1>4, ReadingKept
<1>5. QED
  BY <1>1, <1>2, <1>3, <1>4
     DEF StreamNext, streamVars, Reading, SendFrame, DrainWrites, WrapPacket, Flushed, GiveUpSend

\* What is decrypted is the start of all there is, and all of it when nothing is left.
LEMMA ReadingTells == ReadingInv => ReadsInOrder
<1> SUFFICES ASSUME ReadingInv PROVE ReadsInOrder
  OBVIOUS
<1> DEFINE got == taken \o read_buffer
           all == FlattenSeq(Texts)
<1>1. /\ incoming \in Seq(0..(PrefixRange - 1)) /\ wire \in Seq(WireByte)
      /\ raw_read_buffer \in Seq(WireByte) /\ got \in Seq(Plain)
  BY DEF ReadingInv
<1>2. PICK k \in 0..Len(incoming) : ReadingAt(k)
  BY DEF ReadingInv
<1>3. got = Joined(Texts, k)
  BY <1>2 DEF ReadingAt
<1>4. IsPrefix(got, all)
  <2>1. PICK rest \in Seq(Plain) : all = Joined(Texts, k) \o rest
    BY <1>1, ArrivingTyped, JoinedRest
  <2>2. all = got \o rest
    BY <1>3, <2>1
  <2> HIDE DEF got, all
  <2>3. /\ all \in Seq(Plain) /\ Len(got) <= Len(all) /\ Len(got) \in Nat
        /\ \A i \in 1..Len(got) : all[i] = got[i]
    BY <1>1, <2>2
  <2>4. /\ SubSeq(got, 1, Len(got)) \in Seq(Plain) /\ Len(SubSeq(got, 1, Len(got))) = Len(got)
        /\ SubSeq(all, 1, Len(got)) \in Seq(Plain) /\ Len(SubSeq(all, 1, Len(got))) = Len(got)
        /\ \A i \in 1..Len(got) : SubSeq(all, 1, Len(got))[i] = SubSeq(got, 1, Len(got))[i]
    BY <1>1, <2>3
  <2>5. SubSeq(got, 1, Len(got)) = SubSeq(all, 1, Len(got))
    BY <2>4, SeqEqual
  <2>6. QED
    BY <2>3, <2>5 DEF IsPrefix
<1>5. ASSUME wire = <<>>, ~NextPacketReady PROVE got = all
  <2>1. raw_read_buffer \o wire = raw_read_buffer
    BY <1>1, <1>5, ConcatEmptySeq
  <2>2. k = Len(incoming)
    <3> SUFFICES ASSUME k # Len(incoming) PROVE FALSE
      OBVIOUS
    <3> DEFINE e == incoming[k + 1]
               J == Joined(Arriving, k)
               p == <<Prefix(k + 1, e)>>
               b == Body(k + 1, e)
    <3>1. /\ J \in Seq(WireByte) /\ p \in Seq(WireByte) /\ b \in Seq(WireByte)
          /\ Len(b) = e /\ e \in Nat /\ Len(p) = 1
      BY <1>1, Ahead
    <3>2. PICK rest \in Seq(WireByte) : FlattenSeq(Arriving) = J \o ((p \o b) \o rest)
      BY <1>1, Ahead
    <3> DEFINE all2 == FlattenSeq(Arriving)
    <3>3. Len(all2) = Len(J) + (1 + e + Len(rest)) /\ Len(rest) \in Nat /\ Len(J) \in Nat
      <4> DEFINE q == (p \o b) \o rest
      <4> HIDE DEF J, p, b, e
      <4>1. p \o b \in Seq(WireByte) /\ Len(p \o b) = 1 + e
        <5>1. p \o b \in Seq(WireByte) /\ Len(p \o b) = Len(p) + Len(b)
          BY <3>1, BytesConcat, Zenon
        <5>2. QED
          BY <3>1, <5>1, Zenon
      <4>2. q \in Seq(WireByte) /\ Len(q) = (1 + e) + Len(rest) /\ Len(rest) \in Nat
        BY <4>1, BytesConcat
      <4>3. all2 = J \o q
        BY <3>2
      <4> HIDE DEF q, all2
      <4>4. Len(all2) = Len(J) + Len(q) /\ Len(J) \in Nat
        BY <3>1, <4>2, <4>3, BytesConcat
      <4>5. QED
        BY <3>1, <4>2, <4>4
    <3>4. CASE expected_resp_len = NoLen
      <4>1. raw_read_buffer = <<>>
        BY <1>5, <3>4 DEF NextPacketReady
      <4>2. J \o raw_read_buffer = all2
        BY <1>2, <2>1, <3>4 DEF ReadingAt
      <4>3. all2 = J
        BY <3>1, <4>1, <4>2, ConcatEmptySeq
      <4> HIDE DEF J, e, all2
      <4>4. QED
        BY <3>1, <3>3, <4>3
    <3>5. CASE expected_resp_len # NoLen
      <4>1. expected_resp_len = e /\ (J \o p) \o raw_read_buffer = all2
        BY <1>2, <2>1, <3>5 DEF ReadingAt
      <4>2. ~(Len(raw_read_buffer) >= e)
        BY <1>5, <3>5, <4>1 DEF NextPacketReady
      <4> HIDE DEF J, p, b, e, all2
      <4>3. Len(all2) = Len(J) + 1 + Len(raw_read_buffer) /\ Len(raw_read_buffer) \in Nat
        <5>1. J \o p \in Seq(WireByte) /\ Len(J \o p) = Len(J) + 1
          <6>1. J \o p \in Seq(WireByte) /\ Len(J \o p) = Len(J) + Len(p)
            BY <3>1, BytesConcat, Zenon
          <6>2. QED
            BY <3>1, <6>1, Zenon
        <5>2. Len((J \o p) \o raw_read_buffer) = Len(J \o p) + Len(raw_read_buffer)
              /\ Len(raw_read_buffer) \in Nat
          BY <1>1, <5>1, BytesConcat
        <5>3. QED
          BY <3>1, <4>1, <5>1, <5>2
      <4>4. QED
        BY <3>1, <3>3, <4>2, <4>3
    <3>6. QED
      BY <3>4, <3>5
  <2>3. QED
    BY <1>1, <1>3, <2>2, ArrivingTyped, JoinedAll
<1>6. QED
  BY <1>4, <1>5 DEF ReadsInOrder, Texts

-----------------------------------------------------------------------------
\* What is sent goes out in order, in whole packets, across sends that were given up, and
\* what comes in is decrypted in order, whatever pieces the socket takes and delivers: for
\* all lengths of packets and frames (encryption.rs:245-389).
THEOREM PlaintextAlwaysInOrder == StreamSpec => []PlaintextInOrder
<1>1. StreamInit => WritingInv /\ ReadingInv
  BY WritingStart, ReadingStart
<1>2. WritingInv /\ ReadingInv /\ [StreamNext]_streamVars => WritingInv' /\ ReadingInv'
  BY WritingStep, ReadingStep
<1>3. WritingInv /\ ReadingInv => PlaintextInOrder
  BY ReadingTells DEF WritingInv, PlaintextInOrder
<1>4. QED
  BY <1>1, <1>2, <1>3, PTL DEF StreamSpec
=============================================================================
