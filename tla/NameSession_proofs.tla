-------------------------- MODULE NameSession_proofs --------------------------
(***************************************************************************)
(* Proofs about NameSession, for any tasks, positions, configured names,   *)
(* panels that understand the basic types, and number of configurations.   *)
(*                                                                         *)
(* On the types of the variables (Typed) stand two arguments: an answer is *)
(* stored where the panel has the name (an index is at most 256, and the   *)
(* kinds have no type in common), and Fitting, which says what every query *)
(* in flight knows of the session and of the panel, and that every name    *)
(* on the line is of the best type, so that the type a query is given a    *)
(* name for is the best one.                                               *)
(***************************************************************************)
EXTENDS NameSession, WellFoundedInduction, TLAPS

-----------------------------------------------------------------------------
(* The invariant. *)

Levels == {0, 1, 4, 5, 16, 17, 18, 19}

\* Answers as they come: a refusal, or the name of a configured position, in a type of
\* its kind.
Frames ==
    {f \in [reply : {"name", "short", "refused"}, kind : Kinds, index : Indices, type : Levels] :
        f.reply # "refused" => /\ f.type \in TypesOf(f.kind) /\ f.index \in Positions(f.kind)
                               /\ <<f.kind, f.index>> \in Configured}

Queries ==
    [at : {"idle", "level", "confirmed", "ask", "received", "typed", "settled"}, kind : Kinds,
     index : Indices, extended : BOOLEAN, type : Levels, left : SUBSET Levels,
     frame : Frames \cup {NoFrame}, sync : BOOLEAN]

\* A query that has loaded its type tries some types of its kind, and knows a name for
\* one when it stores it.
QueryTyped(q) ==
    /\ q \in Queries
    /\ q.index \in Positions(q.kind)
    /\ q.at \notin {"idle", "level"} => q.type \in TypesOf(q.kind)
    /\ q.at \in {"ask", "received", "typed", "settled"} =>
           q.left # {} /\ q.left \subseteq TypesOf(q.kind)
    /\ q.at \in {"received", "typed", "settled"} => q.frame \in Frames
    /\ q.at \in {"typed", "settled"} => q.frame.reply # "refused"

Typed ==
    /\ extended_name_read \in BOOLEAN
    /\ session_type \in [Kinds -> Levels] /\ \A k \in Kinds : session_type[k] \in TypesOf(k)
    /\ session_confirmed \in [Kinds -> BOOLEAN]
    /\ panel_types \in Panels
    /\ query \in [Queriers -> Queries] /\ \A c \in Queriers : QueryTyped(query[c])
    /\ line \in Seq(Frames) /\ Len(line) <= MaxLate
    /\ reloading \in {"no", "hot", "full", "types reset"}
    /\ resets \in 0..MaxResets
    /\ disturbed \in BOOLEAN

Start(k) == SessionStart(k, extended_name_read)

HasName(q) == <<q.kind, q.index>> \in Configured

\* What a query in flight knows of the session and of the panel.
Fits(q) ==
    /\ q.at \in {"level", "confirmed"} => q.extended = extended_name_read
    /\ q.at \in {"confirmed", "ask", "received"} =>
           /\ q.type \in {Start(q.kind), Best(q.kind)}
           /\ session_type[q.kind] \in {q.type, Best(q.kind)}
    /\ q.at \in {"ask", "received"} =>
           /\ extended_name_read \/ q.left = {Best(q.kind)}
           /\ HasName(q) => Best(q.kind) \in q.left \/ q.left \cap panel_types[q.kind] = {}
    /\ q.at = "received" =>
           IF q.frame.reply = "refused" THEN HasName(q) => Asked(q) \notin panel_types[q.kind]
           ELSE Asked(q) = Best(q.kind)
    /\ q.at = "typed" => session_type[q.kind] = Best(q.kind)

\* The answers that tell of the best type, or of none.
BestFrames == {f \in Frames : f.reply # "refused" => f.type = Best(f.kind)}

\* The session has the type it started from or the best, and a confirmed type is that.
Settling(k) ==
    /\ session_type[k] \in {Start(k), Best(k)}
    /\ reloading = "no" /\ session_confirmed[k] => session_type[k] = Best(k)

Fitting ==
    ~disturbed /\ reloading \in {"no", "types reset"} =>
        /\ \A k \in Kinds : Settling(k)
        /\ \A c \in Queriers : Fits(query[c])
        /\ line \in Seq(BestFrames)

NamesInv == Typed /\ Fitting

-----------------------------------------------------------------------------
(* Types and levels. *)

\* A set of numbers that is not empty has a least one.
LEMMA LeastOf ==
    ASSUME NEW T, T \subseteq Nat, T # {}
    PROVE  \E x \in T : \A y \in T : x <= y
<1> DEFINE R == OpToRel(<, Nat)
<1>1. R = {ss \in Nat \X Nat : ss[1] < ss[2]}
  BY Zenon DEF OpToRel
<1>2. IsWellFoundedOn(R, Nat)
  BY NatLessThanWellFounded
<1> HIDE DEF R
<1>3. PICK x \in T : \A y \in T : ~ (<<y, x>> \in R)
  BY <1>2, WFMin
<1>4. ASSUME NEW y \in T PROVE x <= y
  <2>1. y < x => <<y, x>> \in {ss \in Nat \X Nat : ss[1] < ss[2]}
    OBVIOUS
  <2>2. ~(y < x)
    BY <1>1, <1>3, <2>1
  <2>3. QED
    BY <2>2
<1>5. QED
  BY <1>4

\* Some device types have a highest.
LEMMA TopIsTop ==
    ASSUME NEW S, S \subseteq Levels, S # {}
    PROVE  IsTop(S, Top(S))
<1>1. \E t \in S : IsTop(S, t)
  <2> USE DEF Levels, IsTop
  <2>1. CASE 19 \in S
    BY <2>1
  <2>2. CASE 19 \notin S /\ 18 \in S
    BY <2>2
  <2>3. CASE S \cap {18, 19} = {} /\ 17 \in S
    BY <2>3
  <2>4. CASE S \cap {17, 18, 19} = {} /\ 16 \in S
    BY <2>4
  <2>5. CASE S \cap {16, 17, 18, 19} = {} /\ 5 \in S
    BY <2>5
  <2>6. CASE S \cap {5, 16, 17, 18, 19} = {} /\ 4 \in S
    BY <2>6
  <2>7. CASE S \subseteq {0, 1} /\ 1 \in S
    BY <2>7
  <2>8. CASE S = {0}
    BY <2>8
  <2>9. QED
    BY <2>1, <2>2, <2>3, <2>4, <2>5, <2>6, <2>7, <2>8, ZenonT(40)
<1>2. QED
  BY <1>1 DEF Top

\* The types of a kind, and the basic one.
LEMMA KindTypes ==
    ASSUME NEW k \in Kinds
    PROVE  /\ TypesOf(k) \subseteq Levels
           /\ Bottom(TypesOf(k)) \in TypesOf(k)
           /\ Bottom(TypesOf(k)) = SessionStart(k, FALSE)
           /\ \A t \in TypesOf(k) : Bottom(TypesOf(k)) <= t
           /\ SessionStart(k, TRUE) \in TypesOf(k)
           /\ \A t \in TypesOf(k) : t <= SessionStart(k, TRUE)
<1>1. SessionStart(k, FALSE) \in TypesOf(k) /\ IsBottom(TypesOf(k), SessionStart(k, FALSE))
  BY DEF Kinds, TypesOf, SessionStart, IsBottom
<1>2. IsBottom(TypesOf(k), Bottom(TypesOf(k)))
  BY <1>1 DEF Bottom
<1>3. TypesOf(k) \subseteq Levels /\ TypesOf(k) \subseteq Int
  BY DEF Kinds, TypesOf, Levels
<1>4. Bottom(TypesOf(k)) = SessionStart(k, FALSE)
  <2> DEFINE a == SessionStart(k, FALSE)
             b == Bottom(TypesOf(k))
  <2>1. a \in Int /\ b \in Int /\ a <= b /\ b <= a
    BY <1>1, <1>2, <1>3 DEF IsBottom
  <2> HIDE DEF a, b
  <2>2. a = b
    BY <2>1
  <2>3. QED
    BY <2>2 DEF a, b
<1>5. SessionStart(k, TRUE) \in TypesOf(k) /\ \A t \in TypesOf(k) : t <= SessionStart(k, TRUE)
  BY DEF Kinds, TypesOf, SessionStart
<1>6. QED
  BY <1>2, <1>3, <1>4, <1>5 DEF IsBottom

\* A panel understands types of each kind, the basic one among them.
LEMMA PanelKnows ==
    ASSUME NEW p \in Panels, NEW k \in Kinds
    PROVE  p[k] \subseteq TypesOf(k) /\ Bottom(TypesOf(k)) \in p[k]
<1>1. /\ k = "zone" => p[k] \subseteq {5, 1} /\ 1 \in p[k]
      /\ k = "output" => p[k] \subseteq {17, 4} /\ 4 \in p[k]
      /\ k = "partition" => p[k] \subseteq {19, 18, 16, 0} /\ 0 \in p[k]
  BY PanelsAssumption DEF Kinds
<1>2. Bottom(TypesOf(k)) = SessionStart(k, FALSE)
  BY KindTypes
<1>3. QED
  BY <1>1, <1>2 DEF Kinds, TypesOf, SessionStart

\* The best type is one the panel knows, and no type it knows is better.
LEMMA BestIsBest ==
    ASSUME Typed, NEW k \in Kinds
    PROVE  /\ Best(k) \in panel_types[k] /\ Best(k) \in TypesOf(k)
           /\ Best(k) <= Start(k) /\ Start(k) \in TypesOf(k)
           /\ extended_name_read => \A t \in panel_types[k] : t <= Best(k)
           /\ ~extended_name_read => Best(k) = Bottom(TypesOf(k)) /\ Start(k) = Best(k)
<1>1. /\ panel_types[k] \subseteq TypesOf(k) /\ panel_types[k] # {}
      /\ Bottom(TypesOf(k)) \in panel_types[k] /\ extended_name_read \in BOOLEAN
  <2>1. panel_types \in Panels /\ extended_name_read \in BOOLEAN
    BY DEF Typed
  <2>2. QED
    BY <2>1, PanelKnows
<1>2. TypesOf(k) \subseteq Levels /\ Levels \subseteq Int
  <2>1. Levels \subseteq Int
    BY DEF Levels
  <2>2. QED
    BY <2>1, KindTypes
<1>3. CASE extended_name_read
  <2>1. IsTop(panel_types[k], Best(k))
    BY <1>1, <1>2, <1>3, TopIsTop DEF Best
  <2>2. Start(k) = SessionStart(k, TRUE)
    BY <1>3 DEF Start, SessionStart
  <2>3. QED
    BY <1>1, <1>3, <2>1, <2>2, KindTypes DEF IsTop
<1>4. CASE ~extended_name_read
  BY <1>1, <1>2, <1>4, KindTypes DEF Best, Start
<1>5. QED
  BY <1>3, <1>4

\* What a query tries: the basic type, the confirmed one, or all up to the session's.
LEMMA TriedTypes ==
    ASSUME NEW k \in Kinds, NEW e \in BOOLEAN, NEW t \in TypesOf(k), NEW b \in BOOLEAN
    PROVE  /\ TypesToTry(k, e, t, b) \subseteq TypesOf(k)
           /\ TypesToTry(k, e, t, b) # {}
           /\ ~e => TypesToTry(k, e, t, b) = {Bottom(TypesOf(k))}
           /\ e /\ b => TypesToTry(k, e, t, b) = {t}
           /\ e /\ ~b => TypesToTry(k, e, t, b) = {u \in TypesOf(k) : u <= t}
<1>1. Bottom(TypesOf(k)) = SessionStart(k, FALSE)
  BY KindTypes
<1>2. CASE k = "zone"
  BY <1>1, <1>2 DEF TypesToTry, ZoneTypesToTry, TypesOf, SessionStart
<1>3. CASE k = "output"
  BY <1>1, <1>3 DEF TypesToTry, OutputTypesToTry, TypesOf, SessionStart
<1>4. CASE k = "partition"
  BY <1>1, <1>4 DEF TypesToTry, PartitionTypesToTry, TypesOf, SessionStart
<1>5. QED
  BY <1>2, <1>3, <1>4 DEF Kinds

\* What is asked for is the highest type left.
LEMMA AskedIsTop ==
    ASSUME NEW q, QueryTyped(q), q.at \in {"ask", "received", "typed", "settled"}
    PROVE  /\ Asked(q) \in q.left /\ Asked(q) \in TypesOf(q.kind)
           /\ \A t \in q.left : t <= Asked(q)
<1>1. q.left # {} /\ q.left \subseteq TypesOf(q.kind) /\ TypesOf(q.kind) \subseteq Levels
  BY KindTypes DEF QueryTyped, Queries
<1>2. IsTop(q.left, Asked(q))
  BY <1>1, TopIsTop DEF Asked
<1>3. QED
  BY <1>1, <1>2 DEF IsTop

\* No two kinds have a device type in common.
LEMMA KindOfType ==
    ASSUME NEW k \in Kinds, NEW l \in Kinds, NEW t \in TypesOf(k), t \in TypesOf(l)
    PROVE  k = l
BY DEF Kinds, TypesOf

-----------------------------------------------------------------------------
(* The types of the variables. *)

\* A refusal is an answer, and so is what the panel answers a query.
LEMMA AnswersTyped ==
    ASSUME Typed
    PROVE  /\ Refusal \in Frames /\ Refusal.reply = "refused"
           /\ \A c \in Queriers : query[c].at = "ask" => Answers(query[c]) \subseteq Frames
<1>1. Refusal \in Frames /\ Refusal.reply = "refused"
  BY IndicesAssumption DEF Refusal, NoFrame, Frames, Kinds, Levels
<1>2. ASSUME NEW c \in Queriers, query[c].at = "ask", NEW own \in Answers(query[c])
      PROVE  own \in Frames
  <2>1. /\ query[c] \in Queries /\ QueryTyped(query[c])
        /\ query[c].kind \in Kinds /\ query[c].index \in Positions(query[c].kind)
    BY DEF Typed, QueryTyped, Queries
  <2>2. Asked(query[c]) \in TypesOf(query[c].kind) /\ TypesOf(query[c].kind) \subseteq Levels
    BY <1>2, <2>1, AskedIsTop, KindTypes
  <2>3. query[c].index \in Indices
    BY <2>1 DEF Positions
  <2>4. CASE own = Refusal
    BY <1>1, <2>4
  <2>5. CASE own # Refusal
    <3> DEFINE k == query[c].kind
               i == query[c].index
               t == Asked(query[c])
    <3>1. <<k, i>> \in Configured
      BY <1>2, <2>5 DEF Answers
    <3>2. PICK reply \in {"name", "short"} :
              own = [reply |-> reply, kind |-> k, index |-> i, type |-> t]
      BY <1>2, <2>5 DEF Answers
    <3> HIDE DEF k, i, t
    <3>3. /\ k \in Kinds /\ i \in Indices /\ t \in Levels
          /\ t \in TypesOf(k) /\ i \in Positions(k)
      BY <2>1, <2>2, <2>3 DEF k, i, t
    <3>4. QED
      BY <3>1, <3>2, <3>3 DEF Frames
  <2>6. QED
    BY <2>4, <2>5
<1>3. QED
  BY <1>1, <1>2

\* An answer that comes goes behind those on the line, and the first is taken.
LEMMA FirstComes ==
    ASSUME NEW S, NEW s \in Seq(S), NEW x \in S
    PROVE  /\ Append(s, x) \in Seq(S) /\ Len(Append(s, x)) = Len(s) + 1
           /\ Head(Append(s, x)) \in S /\ Tail(Append(s, x)) \in Seq(S)
           /\ Len(Tail(Append(s, x))) = Len(s)
           /\ s = <<>> => Head(Append(s, x)) = x
           /\ s # <<>> => Head(Append(s, x)) = Head(s) /\ Head(s) \in S
OBVIOUS

\* The first answer on the line is gone.
LEMMA RestComes ==
    ASSUME NEW S, NEW s \in Seq(S), s # <<>>
    PROVE  Tail(s) \in Seq(S) /\ Len(Tail(s)) = Len(s) - 1 /\ Len(s) \in Nat
OBVIOUS

\* Queries of other tasks are left alone.
Others(c) == \A d \in Queriers \ {c} : query'[d] = query[d]

\* A query goes on.
LEMMA Updated ==
    ASSUME Typed, NEW c \in Queriers, NEW q, QueryTyped(q), query' = [query EXCEPT ![c] = q]
    PROVE  /\ query' \in [Queriers -> Queries] /\ query'[c] = q /\ Others(c)
           /\ \A d \in Queriers : QueryTyped(query'[d])
<1>1. query \in [Queriers -> Queries] /\ q \in Queries
  BY DEF Typed, QueryTyped
<1>2. query' \in [Queriers -> Queries] /\ query'[c] = q /\ Others(c)
  BY <1>1 DEF Others
<1>3. QED
  BY <1>2 DEF Typed, Others

\* A query begins, with the configuration of the moment.
LEMMA BeginTyped ==
    ASSUME Typed, NEW c \in Queriers, NEW k \in Kinds, NEW i \in Positions(k), NEW b \in BOOLEAN,
           BeginAt(c, k, i, b)
    PROVE  /\ query' \in [Queriers -> Queries] /\ Others(c)
           /\ query'[c].at = "level" /\ query'[c].extended = extended_name_read
           /\ \A d \in Queriers : QueryTyped(query'[d])
<1> DEFINE q == [at |-> "level", kind |-> k, index |-> i, extended |-> extended_name_read,
                 type |-> 0, left |-> {}, frame |-> NoFrame, sync |-> b]
<1>1. query \in [Queriers -> Queries] /\ extended_name_read \in BOOLEAN
  BY DEF Typed
<1>2. QueryTyped(q)
  BY <1>1 DEF Queries, Levels, QueryTyped, Positions
<1>3. query' = [query EXCEPT ![c] = q]
  BY DEF BeginAt
<1>4. q.at = "level" /\ q.extended = extended_name_read
  OBVIOUS
<1> HIDE DEF q
<1>5. QED
  BY <1>2, <1>3, <1>4, Updated

\* get_all_*_names has a position to begin with.
LEMMA FirstIsThere ==
    ASSUME NEW k \in Kinds
    PROVE  First(k) \in Positions(k)
<1>1. 1 \in Positions(k) /\ \A j \in Positions(k) : 1 <= j
  BY IndicesAssumption DEF Positions
<1>2. QED
  BY <1>1 DEF First

\* A query is over, or the next one begins.
LEMMA NextTyped ==
    ASSUME Typed, NEW c \in Queriers, NextQuery(c)
    PROVE  /\ query' \in [Queriers -> Queries] /\ Others(c)
           /\ \/ query'[c].at = "idle"
              \/ query'[c].at = "level" /\ query'[c].extended = extended_name_read
           /\ \A d \in Queriers : QueryTyped(query'[d])
<1> DEFINE later == {i \in Positions(query[c].kind) : i > query[c].index}
<1>1. query \in [Queriers -> Queries] /\ query[c].kind \in Kinds
  BY DEF Typed, Queries
<1>2. CASE query[c].sync /\ later # {}
  <2>1. later \subseteq Nat /\ later \subseteq Positions(query[c].kind)
    <3>1. Positions(query[c].kind) \subseteq Nat
      <4>1. Indices \subseteq Nat
        BY IndicesAssumption
      <4>2. QED
        BY <4>1 DEF Positions
    <3>2. QED
      BY <3>1
  <2> DEFINE i == CHOOSE i \in later : \A j \in later : i <= j
  <2> HIDE DEF later
  <2>2. i \in later
    BY <1>2, <2>1, LeastOf
  <2>3. BeginAt(c, query[c].kind, i, TRUE)
    BY <1>2 DEF NextQuery, later
  <2>4. i \in Positions(query[c].kind)
    BY <2>1, <2>2
  <2> HIDE DEF i
  <2>5. QED
    BY <1>1, <2>3, <2>4, BeginTyped
<1>3. CASE ~(query[c].sync /\ later # {})
  <2>1. query' = [query EXCEPT ![c] = NoQuery]
    BY <1>3 DEF NextQuery
  <2>2. QueryTyped(NoQuery) /\ NoQuery.at = "idle"
    BY IndicesAssumption DEF NoQuery, Queries, Levels, QueryTyped, Positions, Kinds
  <2>3. QED
    BY <2>1, <2>2, Updated
<1>4. QED
  BY <1>2, <1>3

\* The initial state has the types.
LEMMA InitTyped == NamesInit => Typed
<1> SUFFICES ASSUME NamesInit PROVE Typed
  OBVIOUS
<1>1. NoQuery \in Queries /\ QueryTyped(NoQuery)
  BY IndicesAssumption DEF NoQuery, Queries, Levels, QueryTyped, Positions, Kinds
<1>2. \A k \in Kinds : SessionStart(k, extended_name_read) \in TypesOf(k) /\ TypesOf(k) \subseteq Levels
  BY DEF Kinds, SessionStart, TypesOf, Levels
<1>3. session_type \in [Kinds -> Levels] /\ \A k \in Kinds : session_type[k] \in TypesOf(k)
  BY <1>2 DEF NamesInit
<1>4. query \in [Queriers -> Queries] /\ \A c \in Queriers : QueryTyped(query[c])
  BY <1>1 DEF NamesInit
<1>5. /\ session_confirmed \in [Kinds -> BOOLEAN] /\ extended_name_read \in BOOLEAN
      /\ panel_types \in Panels /\ disturbed \in BOOLEAN /\ reloading = "no"
  BY DEF NamesInit
<1>6. resets \in 0..MaxResets /\ line \in Seq(Frames) /\ Len(line) <= MaxLate
  BY ResetsAssumption DEF NamesInit
<1>7. QED
  BY <1>3, <1>4, <1>5, <1>6 DEF Typed

\* What every step of a query leaves alone, and what it makes of the query and the line.
LEMMA QueryKeepsTypes ==
    ASSUME Typed, NEW c \in Queriers, QuerySteps(c)
    PROVE  /\ query' \in [Queriers -> Queries] /\ Others(c)
           /\ \A d \in Queriers : QueryTyped(query'[d])
           /\ line' \in Seq(Frames) /\ Len(line') <= MaxLate
           /\ UNCHANGED Config
<1> USE DEF Config
<1>1. /\ query[c] \in Queries /\ QueryTyped(query[c]) /\ query[c].kind \in Kinds
      /\ line \in Seq(Frames) /\ Len(line) <= MaxLate
  BY DEF Typed, Queries
<1>2. CASE LoadType(c)
  <2> DEFINE t == session_type[query[c].kind]
             q == [query[c] EXCEPT !.at = "confirmed", !.type = t]
  <2>1. t \in Levels /\ t \in TypesOf(query[c].kind) /\ query' = [query EXCEPT ![c] = q]
    BY <1>1, <1>2, Zenon DEF LoadType, Typed
  <2> HIDE DEF t
  <2>2. QueryTyped(q)
    BY <1>1, <2>1 DEF QueryTyped, Queries
  <2> HIDE DEF q
  <2>3. QED
    BY <1>1, <1>2, <2>1, <2>2, Updated DEF LoadType
<1>3. CASE LoadConfirmed(c)
  <2> DEFINE left == TypesToTry(query[c].kind, query[c].extended, query[c].type,
                                session_confirmed[query[c].kind])
             q == [query[c] EXCEPT !.at = "ask", !.extended = FALSE, !.left = left]
  <2>1. query' = [query EXCEPT ![c] = q] /\ query[c].at = "confirmed"
    BY <1>3, Zenon DEF LoadConfirmed
  <2>2. /\ query[c].extended \in BOOLEAN /\ query[c].type \in TypesOf(query[c].kind)
        /\ session_confirmed[query[c].kind] \in BOOLEAN
    BY <1>1, <2>1 DEF QueryTyped, Queries, Typed
  <2>3. left \subseteq TypesOf(query[c].kind) /\ left # {} /\ left \subseteq Levels
    <3>1. left \subseteq TypesOf(query[c].kind) /\ left # {}
      BY <1>1, <2>2, TriedTypes
    <3>2. TypesOf(query[c].kind) \subseteq Levels
      BY <1>1, KindTypes
    <3> HIDE DEF left
    <3>3. QED
      BY <3>1, <3>2
  <2> HIDE DEF left
  <2>4. QueryTyped(q)
    BY <1>1, <2>1, <2>2, <2>3 DEF QueryTyped, Queries
  <2> HIDE DEF q
  <2>5. QED
    BY <1>1, <1>3, <2>1, <2>4, Updated DEF LoadConfirmed
<1>4. CASE PanelAnswers(c)
  <2>1. PICK own \in Answers(query[c]) :
            /\ query' = [query EXCEPT ![c].at = "received", ![c].frame = Head(Append(line, own))]
            /\ line' = Tail(Append(line, own))
    BY <1>4 DEF PanelAnswers
  <2>2. query[c].at = "ask" /\ own \in Frames
    BY <1>4, AnswersTyped DEF PanelAnswers
  <2> DEFINE frame == Head(Append(line, own))
             q == [query[c] EXCEPT !.at = "received", !.frame = frame]
  <2>3. frame \in Frames /\ line' \in Seq(Frames) /\ Len(line') <= MaxLate
    BY <1>1, <2>1, <2>2, FirstComes
  <2>4. query' = [query EXCEPT ![c] = q]
    BY <2>1, Zenon
  <2> HIDE DEF frame
  <2>5. QueryTyped(q)
    BY <1>1, <2>2, <2>3 DEF QueryTyped, Queries
  <2> HIDE DEF q
  <2>6. QED
    BY <1>4, <2>3, <2>4, <2>5, Updated DEF PanelAnswers
<1>5. CASE QueryFails(c)
  <2>1. line' \in Seq(Frames) /\ Len(line') <= MaxLate
    <3>1. CASE UNCHANGED line
      BY <1>1, <3>1
    <3>2. CASE Len(line) < MaxLate /\ \E own \in Answers(query[c]) : line' = Append(line, own)
      <4>1. PICK own \in Frames : line' = Append(line, own)
        BY <1>5, <3>2, AnswersTyped DEF QueryFails
      <4>2. Len(line) \in Nat /\ MaxLate \in Nat
        BY <1>1, ResetsAssumption
      <4>3. QED
        BY <1>1, <3>2, <4>1, <4>2, FirstComes
    <3>3. QED
      BY <1>5, <3>1, <3>2 DEF QueryFails
  <2>2. QED
    BY <1>5, <2>1, NextTyped DEF QueryFails
<1>6. CASE Refused(c) /\ query[c].left \ {Asked(query[c])} # {}
  <2> DEFINE left == query[c].left \ {Asked(query[c])}
             q == [query[c] EXCEPT !.at = "ask", !.left = left, !.frame = NoFrame]
  <2>1. query' = [query EXCEPT ![c] = q] /\ query[c].at = "received"
    BY <1>6, Zenon DEF Refused
  <2>2. left \subseteq query[c].left /\ left # {}
    BY <1>6
  <2> HIDE DEF left
  <2>3. QueryTyped(q)
    BY <1>1, <2>1, <2>2 DEF QueryTyped, Queries
  <2> HIDE DEF q
  <2>4. QED
    BY <1>1, <1>6, <2>1, <2>3, Updated DEF Refused
<1>7. CASE Refused(c) /\ query[c].left \ {Asked(query[c])} = {}
  BY <1>1, <1>7, NextTyped DEF Refused
<1>8. CASE StoreType(c)
  <2> DEFINE q == [query[c] EXCEPT !.at = "typed"]
  <2>1. query' = [query EXCEPT ![c] = q] /\ query[c].at = "received" /\ query[c].frame.reply # "refused"
    BY <1>8, Zenon DEF StoreType
  <2>2. QueryTyped(q)
    BY <1>1, <2>1 DEF QueryTyped, Queries
  <2> HIDE DEF q
  <2>3. QED
    BY <1>1, <1>8, <2>1, <2>2, Updated DEF StoreType
<1>9. CASE StoreConfirmed(c)
  <2> DEFINE q == [query[c] EXCEPT !.at = "settled"]
  <2>1. query' = [query EXCEPT ![c] = q] /\ query[c].at = "typed"
    BY <1>9, Zenon DEF StoreConfirmed
  <2>2. QueryTyped(q)
    BY <1>1, <2>1 DEF QueryTyped, Queries
  <2> HIDE DEF q
  <2>3. QED
    BY <1>1, <1>9, <2>1, <2>2, Updated DEF StoreConfirmed
<1>10. CASE StoreAnswer(c)
  BY <1>1, <1>10, NextTyped DEF StoreAnswer
<1>11. QED
  BY <1>2, <1>3, <1>4, <1>5, <1>6, <1>7, <1>8, <1>9, <1>10 DEF QuerySteps

\* A step is one of a query, the start of a query, of the line, or of a reload.
LEMMA StepsAre ==
    [NamesNext]_namesVars =>
        \/ \E c \in Queriers : QuerySteps(c)
        \/ \E c \in Queriers, k \in Kinds : \E i \in Positions(k), b \in BOOLEAN :
               BeginAt(c, k, i, b) /\ UNCHANGED <<Config, Session, line, known, disturbed>>
        \/ StrayRefusal \/ LinePasses
        \/ \E e \in BOOLEAN, how \in {"hot", "full"} : StoreConfig(e, how)
        \/ ResetTypes \/ ResetConfirmed
        \/ UNCHANGED namesVars
<1>1. \A k \in Kinds : First(k) \in Positions(k)
  BY FirstIsThere
<1>2. "zone" \in Kinds /\ "output" \in Kinds /\ "partition" \in Kinds
  BY DEF Kinds
<1>3. QED
  BY <1>1, <1>2, Zenon
     DEF NamesNext, GetZoneName, GetOutputName, GetPartitionName, GetName, GetAllZoneNames,
         GetAllOutputNames, GetAllPartitionNames, GetAllNames, QueryZone, QueryOutput,
         QueryPartition

\* Every step keeps the types.
LEMMA TypedKept == Typed /\ [NamesNext]_namesVars => Typed'
<1> SUFFICES ASSUME Typed, [NamesNext]_namesVars PROVE Typed'
  OBVIOUS
<1>1. ASSUME NEW c \in Queriers, QuerySteps(c) PROVE Typed'
  <2>1. /\ query' \in [Queriers -> Queries] /\ \A d \in Queriers : QueryTyped(query'[d])
        /\ line' \in Seq(Frames) /\ Len(line') <= MaxLate
        /\ UNCHANGED <<extended_name_read, panel_types, reloading, resets>>
    BY <1>1, QueryKeepsTypes DEF Config
  <2>2. query[c] \in Queries /\ QueryTyped(query[c]) /\ query[c].kind \in Kinds
    BY DEF Typed, Queries
  <2>3. session_type' \in [Kinds -> Levels] /\ \A k \in Kinds : session_type'[k] \in TypesOf(k)
    <3>1. CASE UNCHANGED session_type
      BY <3>1 DEF Typed
    <3>2. CASE StoreType(c) /\ session_type' # session_type
      <4>1. /\ session_type' = [session_type EXCEPT ![query[c].kind] = Asked(query[c])]
            /\ query[c].at = "received"
        BY <3>2 DEF StoreType
      <4>2. Asked(query[c]) \in TypesOf(query[c].kind) /\ TypesOf(query[c].kind) \subseteq Levels
        BY <2>2, <4>1, AskedIsTop, KindTypes
      <4>3. QED
        BY <2>2, <4>1, <4>2 DEF Typed
    <3>3. QED
      BY <1>1, <3>1, <3>2
         DEF QuerySteps, LoadType, LoadConfirmed, PanelAnswers, QueryFails, Refused,
             StoreConfirmed, StoreAnswer, Session
  <2>4. session_confirmed' \in [Kinds -> BOOLEAN]
    BY <1>1, <2>2
       DEF QuerySteps, LoadType, LoadConfirmed, PanelAnswers, QueryFails, Refused, StoreType,
           StoreConfirmed, StoreAnswer, Session, Typed
  <2>5. disturbed' \in BOOLEAN
    <3>1. CASE UNCHANGED disturbed
      BY <3>1 DEF Typed
    <3>2. CASE disturbed' = (disturbed \/ (line # <<>> /\ ~Matches(query[c], Head(line))))
      BY <3>2, Zenon
    <3>3. QED
      BY <1>1, <3>1, <3>2
         DEF QuerySteps, LoadType, LoadConfirmed, PanelAnswers, QueryFails, Refused, StoreType,
             StoreConfirmed, StoreAnswer
  <2>6. QED
    BY <2>1, <2>3, <2>4, <2>5 DEF Typed
<1>2. ASSUME NEW c \in Queriers, NEW k \in Kinds, NEW i \in Positions(k), NEW b \in BOOLEAN,
             BeginAt(c, k, i, b), UNCHANGED <<Config, Session, line, known, disturbed>>
      PROVE  Typed'
  BY <1>2, BeginTyped DEF Typed, Config, Session
<1>3. ASSUME StrayRefusal PROVE Typed'
  <2>1. line' = Append(line, Refusal) /\ Len(line) < MaxLate /\ line \in Seq(Frames)
    BY <1>3 DEF StrayRefusal, Typed
  <2>2. line' \in Seq(Frames) /\ Len(line') <= MaxLate
    BY <2>1, AnswersTyped, FirstComes, ResetsAssumption
  <2>3. QED
    BY <1>3, <2>2 DEF StrayRefusal, Typed, Config, Session
<1>4. ASSUME LinePasses PROVE Typed'
  <2>1. line' \in Seq(Frames) /\ Len(line') <= MaxLate
    <3>1. line \in Seq(Frames) /\ Len(line) <= MaxLate /\ line # <<>> /\ line' = Tail(line)
      BY <1>4 DEF LinePasses, Typed
    <3>2. QED
      BY <3>1, RestComes, ResetsAssumption
  <2>2. QED
    BY <1>4, <2>1 DEF LinePasses, Typed, Config, Session
<1>5. ASSUME NEW e \in BOOLEAN, NEW how \in {"hot", "full"}, StoreConfig(e, how) PROVE Typed'
  <2>1. /\ UNCHANGED <<session_type, session_confirmed, panel_types, query, line, disturbed>>
        /\ extended_name_read' \in BOOLEAN /\ reloading' \in {"hot", "full"}
    BY <1>5 DEF StoreConfig, Session
  <2>2. resets' \in 0..MaxResets
    BY <1>5, ResetsAssumption DEF StoreConfig, Typed
  <2>3. QED
    BY <2>1, <2>2 DEF Typed
<1>6. CASE ResetTypes
  <2>1. \A k \in Kinds, e \in BOOLEAN : SessionStart(k, e) \in TypesOf(k) /\ TypesOf(k) \subseteq Levels
    BY DEF Kinds, SessionStart, TypesOf, Levels
  <2>2. session_type' = [k \in Kinds |-> SessionStart(k, extended_name_read)] /\ extended_name_read \in BOOLEAN
    BY <1>6 DEF ResetTypes, Typed
  <2>3. session_type' \in [Kinds -> Levels] /\ \A k \in Kinds : session_type'[k] \in TypesOf(k)
    BY <2>1, <2>2
  <2>4. panel_types' \in Panels /\ line' \in Seq(Frames) /\ Len(line') <= MaxLate
    <3>1. CASE UNCHANGED <<panel_types, line>>
      BY <3>1 DEF Typed
    <3>2. CASE panel_types' \in Panels /\ line' = <<>>
      BY <3>2, ResetsAssumption
    <3>3. QED
      BY <1>6, <3>1, <3>2 DEF ResetTypes
  <2>5. disturbed' \in BOOLEAN
    BY <1>6, Zenon DEF ResetTypes
  <2>6. QED
    BY <1>6, <2>3, <2>4, <2>5 DEF ResetTypes, Typed
<1>7. CASE ResetConfirmed
  <2>1. session_confirmed' \in [Kinds -> BOOLEAN]
    BY <1>7 DEF ResetConfirmed
  <2>2. QED
    BY <1>7, <2>1 DEF ResetConfirmed, Typed
<1>8. CASE UNCHANGED namesVars
  BY <1>8 DEF namesVars, Typed
<1>9. QED
  BY <1>1, <1>2, <1>3, <1>4, <1>5, <1>6, <1>7, <1>8, StepsAre

-----------------------------------------------------------------------------
(* What the queries know. *)

\* At the start nothing is in flight and every type is the one a session starts from.
LEMMA InitFitting == NamesInit => Fitting
<1> SUFFICES ASSUME NamesInit PROVE Fitting
  OBVIOUS
<1>1. \A k \in Kinds : Settling(k)
  BY DEF NamesInit, Settling, Start
<1>2. \A c \in Queriers : query[c].at = "idle"
  BY DEF NamesInit, NoQuery
<1>3. \A c \in Queriers : Fits(query[c])
  BY <1>2 DEF Fits
<1>4. line \in Seq(BestFrames)
  BY DEF NamesInit
<1>5. QED
  BY <1>1, <1>3, <1>4 DEF Fitting

\* What is best depends on the configuration and on the panel only.
LEMMA SameBest ==
    ASSUME UNCHANGED <<extended_name_read, panel_types>>
    PROVE  /\ \A k \in Kinds : Best(k)' = Best(k) /\ Start(k)' = Start(k)
           /\ BestFrames' = BestFrames
BY DEF Best, Start, BestFrames

\* A query keeps knowing what it knew when the type of its kind becomes the best.
LEMMA StillFits ==
    ASSUME Typed, NEW c \in Queriers, Fits(query[c]), query'[c] = query[c],
           UNCHANGED <<extended_name_read, panel_types>>,
           \/ session_type'[query[c].kind] = session_type[query[c].kind]
           \/ session_type'[query[c].kind] = Best(query[c].kind)
    PROVE  Fits(query[c])'
<1>1. Best(query[c].kind)' = Best(query[c].kind) /\ Start(query[c].kind)' = Start(query[c].kind)
  BY DEF Best, Start
<1>2. Asked(query[c])' = Asked(query[c]) /\ HasName(query[c])' = HasName(query[c])
  BY DEF Asked, HasName
<1>3. QED
  BY <1>1, <1>2 DEF Fits

\* A query that is over, or that begins, knows the configuration.
LEMMA FreshFits ==
    ASSUME NEW c \in Queriers, UNCHANGED extended_name_read,
           \/ query'[c].at \in {"idle", "settled"}
           \/ query'[c].at = "level" /\ query'[c].extended = extended_name_read
    PROVE  Fits(query[c])'
BY DEF Fits

\* The types a query is about to try hold the best one, or none the panel knows.
LEMMA LoadedFits ==
    ASSUME Typed, NEW c \in Queriers, LoadConfirmed(c), Fits(query[c])
    PROVE  Fits(query[c])'
<1> DEFINE q == query[c]
           k == query[c].kind
           left == TypesToTry(k, q.extended, q.type, session_confirmed[k])
<1>1. /\ query \in [Queriers -> Queries] /\ q \in Queries /\ QueryTyped(q) /\ q.at = "confirmed"
      /\ query' = [query EXCEPT ![c].at = "ask", ![c].extended = FALSE, ![c].left = left]
      /\ UNCHANGED <<extended_name_read, panel_types, session_type>>
  BY DEF LoadConfirmed, Typed, Config, Session
<1>2. /\ k \in Kinds /\ q.extended \in BOOLEAN /\ q.type \in TypesOf(k)
      /\ session_confirmed[k] \in BOOLEAN
  BY <1>1 DEF QueryTyped, Queries, Typed
<1>3. /\ query'[c].at = "ask" /\ query'[c].type = q.type /\ query'[c].left = left
      /\ query'[c].kind = k /\ query'[c].index = q.index
  <2> HIDE DEF left
  <2>1. query'[c] = [q EXCEPT !.at = "ask", !.extended = FALSE, !.left = left]
    BY <1>1, Zenon
  <2>2. QED
    BY <1>1, <2>1 DEF Queries
<1>4. /\ q.extended = extended_name_read /\ q.type \in {Start(k), Best(k)}
      /\ session_type[k] \in {q.type, Best(k)}
  BY <1>1 DEF Fits
<1>5. /\ extended_name_read \/ left = {Best(k)}
      /\ Best(k) \in left \/ left \cap panel_types[k] = {}
  <2>1. /\ ~extended_name_read => left = {Best(k)}
        /\ extended_name_read /\ session_confirmed[k] => left = {q.type}
        /\ extended_name_read /\ ~session_confirmed[k] => left = {u \in TypesOf(k) : u <= q.type}
    BY <1>2, <1>4, TriedTypes, BestIsBest, SMTT(30)
  <2>2. /\ Best(k) \in TypesOf(k) /\ Start(k) \in TypesOf(k) /\ Best(k) <= Start(k)
        /\ extended_name_read => \A t \in panel_types[k] : t <= Best(k)
        /\ TypesOf(k) \subseteq Int /\ extended_name_read \in BOOLEAN
    <3>1. TypesOf(k) \subseteq Int
      BY <1>2 DEF Kinds, TypesOf
    <3>2. QED
      BY <1>2, <3>1, BestIsBest DEF Typed
  <2> HIDE DEF left, q, k
  <2>3. CASE ~extended_name_read
    BY <2>1, <2>3
  <2>4. CASE extended_name_read /\ session_confirmed[k]
    <3>1. q.type = Best(k) \/ q.type \notin panel_types[k]
      BY <1>4, <2>2, <2>4
    <3>2. QED
      BY <2>1, <2>4, <3>1
  <2>5. CASE extended_name_read /\ ~session_confirmed[k]
    BY <1>4, <2>1, <2>2, <2>5
  <2>6. QED
    BY <2>2, <2>3, <2>4, <2>5
<1>6. Best(k)' = Best(k) /\ Start(k)' = Start(k)
  BY <1>1, <1>2, SameBest
<1>7. QED
  BY <1>1, <1>3, <1>4, <1>5, <1>6 DEF Fits, HasName

\* A refusal rules out a type that is not the best, so the best one is still left.
LEMMA RefusedFits ==
    ASSUME Typed, NEW c \in Queriers, Refused(c), query[c].left \ {Asked(query[c])} # {},
           Fits(query[c])
    PROVE  Fits(query[c])'
<1> DEFINE q == query[c]
           k == query[c].kind
           left == q.left \ {Asked(q)}
<1>1. /\ query \in [Queriers -> Queries] /\ q \in Queries /\ QueryTyped(q)
      /\ q.at = "received" /\ q.frame.reply = "refused"
      /\ query' = [query EXCEPT ![c].at = "ask", ![c].left = left, ![c].frame = NoFrame]
      /\ UNCHANGED <<extended_name_read, panel_types, session_type>>
  BY DEF Refused, Typed, Config, Session
<1>2. k \in Kinds
  BY <1>1 DEF Queries
<1>3. /\ query'[c].at = "ask" /\ query'[c].type = q.type /\ query'[c].left = left
      /\ query'[c].kind = k /\ query'[c].index = q.index
  <2> HIDE DEF left
  <2>1. query'[c] = [q EXCEPT !.at = "ask", !.left = left, !.frame = NoFrame]
    BY <1>1, Zenon
  <2>2. QED
    BY <1>1, <2>1 DEF Queries
<1>4. Best(k) \in panel_types[k] /\ Asked(q) \in q.left
  BY <1>1, <1>2, BestIsBest, AskedIsTop
<1>5. /\ extended_name_read \/ left = {Best(k)}
      /\ HasName(q) => Best(k) \in left \/ left \cap panel_types[k] = {}
  <2>1. /\ extended_name_read \/ q.left = {Best(k)}
        /\ HasName(q) => Best(k) \in q.left \/ q.left \cap panel_types[k] = {}
        /\ HasName(q) => Asked(q) \notin panel_types[k]
    BY <1>1 DEF Fits
  <2>2. QED
    BY <1>4, <2>1
<1>6. Best(k)' = Best(k) /\ Start(k)' = Start(k)
  BY <1>1, <1>2, SameBest
<1>7. q.type \in {Start(k), Best(k)} /\ session_type[k] \in {q.type, Best(k)}
  BY <1>1 DEF Fits
<1>8. QED
  BY <1>1, <1>3, <1>5, <1>6, <1>7 DEF Fits, HasName

\* What the panel answers a query is a name if the query asks for the best type.
LEMMA OwnIsBest ==
    ASSUME Typed, NEW c \in Queriers, query[c].at = "ask", Fits(query[c]),
           NEW own \in Answers(query[c])
    PROVE  /\ own \in BestFrames
           /\ IF own.reply = "refused"
              THEN HasName(query[c]) => Asked(query[c]) \notin panel_types[query[c].kind]
              ELSE Asked(query[c]) = Best(query[c].kind)
<1> DEFINE q == query[c]
           k == query[c].kind
<1>1. /\ q \in Queries /\ QueryTyped(q) /\ own \in Frames /\ Refusal.reply = "refused"
      /\ k \in Kinds /\ TypesOf(k) \subseteq Int
  <2>1. q \in Queries /\ QueryTyped(q) /\ k \in Kinds
    BY DEF Typed, Queries
  <2>2. own \in Frames /\ Refusal.reply = "refused"
    BY AnswersTyped
  <2>3. TypesOf(k) \subseteq Int
    BY <2>1 DEF Kinds, TypesOf
  <2>4. QED
    BY <2>1, <2>2, <2>3
<1>2. CASE ~(HasName(q) /\ Asked(q) \in panel_types[k])
  <2>1. own = Refusal
    BY <1>2 DEF Answers, HasName
  <2>2. QED
    BY <1>1, <1>2, <2>1 DEF BestFrames
<1>3. CASE HasName(q) /\ Asked(q) \in panel_types[k]
  <2>1. own.reply \in {"name", "short"} /\ own.kind = k /\ own.type = Asked(q)
    BY <1>3 DEF Answers, HasName
  <2>2. /\ Best(k) \in panel_types[k] /\ Best(k) \in TypesOf(k)
        /\ extended_name_read => \A t \in panel_types[k] : t <= Best(k)
    BY <1>1, BestIsBest
  <2>3. Asked(q) \in q.left /\ Asked(q) \in TypesOf(k) /\ \A t \in q.left : t <= Asked(q)
    BY <1>1, AskedIsTop
  <2>4. /\ extended_name_read \/ q.left = {Best(k)}
        /\ Best(k) \in q.left \/ q.left \cap panel_types[k] = {}
    BY <1>3 DEF Fits
  <2>5. Asked(q) = Best(k)
    <3> HIDE DEF q, k
    <3>1. CASE extended_name_read
      <4>1. Best(k) <= Asked(q) /\ Asked(q) <= Best(k) /\ Best(k) \in Int /\ Asked(q) \in Int
        BY <1>1, <1>3, <2>2, <2>3, <2>4, <3>1
      <4>2. QED
        BY <4>1
    <3>2. CASE ~extended_name_read
      BY <2>3, <2>4, <3>2
    <3>3. QED
      BY <3>1, <3>2
  <2>6. QED
    BY <1>1, <2>1, <2>5 DEF BestFrames
<1>4. QED
  BY <1>2, <1>3

\* Behind a late answer or not, the answer a query takes tells it of the best type.
LEMMA AnswerFits ==
    ASSUME Typed, NEW c \in Queriers, PanelAnswers(c), Fits(query[c]), line \in Seq(BestFrames),
           ~disturbed'
    PROVE  Fits(query[c])' /\ line' \in Seq(BestFrames)'
<1> DEFINE q == query[c]
           k == query[c].kind
<1>1. PICK own \in Answers(q) :
          /\ query' = [query EXCEPT ![c].at = "received", ![c].frame = Head(Append(line, own))]
          /\ line' = Tail(Append(line, own))
          /\ disturbed' = (disturbed \/ (line # <<>> /\ ~Matches(q, Head(line))))
  BY DEF PanelAnswers
<1>2. /\ q.at = "ask" /\ UNCHANGED <<extended_name_read, panel_types, session_type>>
      /\ query \in [Queriers -> Queries] /\ q \in Queries /\ QueryTyped(q) /\ k \in Kinds
  BY DEF PanelAnswers, Typed, Queries, Config, Session
<1>3. /\ own \in BestFrames
      /\ IF own.reply = "refused" THEN HasName(q) => Asked(q) \notin panel_types[k]
         ELSE Asked(q) = Best(k)
  BY <1>2, OwnIsBest
<1> DEFINE frame == Head(Append(line, own))
<1>4. /\ line' \in Seq(BestFrames)
      /\ line = <<>> => frame = own
      /\ line # <<>> => frame = Head(line) /\ frame \in BestFrames
  BY <1>1, <1>3, FirstComes
<1>5. IF frame.reply = "refused" THEN HasName(q) => Asked(q) \notin panel_types[k]
      ELSE Asked(q) = Best(k)
  <2>1. CASE line = <<>>
    BY <1>3, <1>4, <2>1
  <2>2. CASE line # <<>>
    <3>1. frame.reply # "refused" /\ frame.type = Asked(q) /\ frame \in BestFrames
      BY <1>1, <1>4, <2>2 DEF Matches
    <3>2. /\ frame.type = Best(frame.kind) /\ frame.type \in TypesOf(frame.kind)
          /\ frame.kind \in Kinds
      BY <3>1 DEF BestFrames, Frames
    <3>3. Asked(q) \in TypesOf(k)
      BY <1>2, AskedIsTop
    <3>4. frame.kind = k
      BY <1>2, <3>1, <3>2, <3>3, KindOfType
    <3>5. QED
      BY <3>1, <3>2, <3>4
  <2>3. QED
    BY <2>1, <2>2
<1> HIDE DEF frame
<1>6. /\ query'[c].at = "received" /\ query'[c].frame = frame
      /\ query'[c].type = q.type /\ query'[c].left = q.left
      /\ query'[c].kind = k /\ query'[c].index = q.index
  <2>1. query'[c] = [q EXCEPT !.at = "received", !.frame = frame]
    BY <1>1, <1>2, Zenon DEF frame
  <2>2. QED
    BY <1>2, <2>1 DEF Queries
<1>7. /\ q.type \in {Start(k), Best(k)} /\ session_type[k] \in {q.type, Best(k)}
      /\ extended_name_read \/ q.left = {Best(k)}
      /\ HasName(q) => Best(k) \in q.left \/ q.left \cap panel_types[k] = {}
  BY <1>2 DEF Fits
<1>8. Best(k)' = Best(k) /\ Start(k)' = Start(k) /\ BestFrames' = BestFrames
  BY <1>2, <1>6, SameBest
<1>9. q'.kind = k /\ Asked(q)' = Asked(q) /\ HasName(q)' = HasName(q)
  BY <1>6 DEF Asked, HasName
<1>10. Fits(q)'
  BY <1>2, <1>5, <1>6, <1>7, <1>8, <1>9 DEF Fits
<1>11. QED
  BY <1>4, <1>8, <1>10

\* The type that a name settles the session on is the best one.
LEMMA StoredIsBest ==
    ASSUME Typed, NEW c \in Queriers, StoreType(c), Fits(query[c])
    PROVE  session_type' = [session_type EXCEPT ![query[c].kind] = Best(query[c].kind)]
<1> DEFINE q == query[c]
           k == query[c].kind
<1>1. /\ q.at = "received" /\ q.frame.reply # "refused"
      /\ session_type' = IF Asked(q) < q.type THEN [session_type EXCEPT ![k] = Asked(q)]
                         ELSE session_type
      /\ session_type \in [Kinds -> Levels]
  BY DEF StoreType, Typed
<1>2. k \in Kinds /\ TypesOf(k) \subseteq Int
  <2>1. k \in Kinds
    BY DEF Typed, Queries
  <2>2. QED
    BY <2>1 DEF Kinds, TypesOf
<1>3. /\ Best(k) \in TypesOf(k) /\ Best(k) <= Start(k) /\ Start(k) \in TypesOf(k)
  BY <1>2, BestIsBest
<1>4. /\ q.type \in {Start(k), Best(k)} /\ session_type[k] \in {q.type, Best(k)}
      /\ Asked(q) = Best(k)
  BY <1>1 DEF Fits
<1> HIDE DEF q, k
<1>5. CASE Best(k) < q.type
  BY <1>1, <1>4, <1>5 DEF k
<1>6. CASE ~(Best(k) < q.type)
  <2>1. q.type = Best(k)
    BY <1>2, <1>3, <1>4, <1>6
  <2>2. session_type[k] = Best(k) /\ session_type' = session_type
    BY <1>1, <1>4, <1>6, <2>1
  <2>3. QED
    BY <1>1, <1>2, <2>2 DEF k
<1>7. QED
  BY <1>5, <1>6

\* Every step of a query keeps what all of them know, and what the line tells.
LEMMA QueryFits ==
    ASSUME Typed, Fitting, NEW c \in Queriers, QuerySteps(c)
    PROVE  Fitting'
<1> SUFFICES ASSUME ~disturbed', reloading' \in {"no", "types reset"}
             PROVE  /\ \A k \in Kinds : Settling(k)'
                    /\ \A d \in Queriers : Fits(query[d])'
                    /\ line' \in Seq(BestFrames)'
  BY DEF Fitting
<1>1. Others(c) /\ UNCHANGED <<extended_name_read, panel_types, reloading>>
  BY QueryKeepsTypes DEF Config
<1>2. ~disturbed
  BY DEF QuerySteps, LoadType, LoadConfirmed, PanelAnswers, QueryFails, Refused, StoreType,
         StoreConfirmed, StoreAnswer
<1>3. /\ \A k \in Kinds : Settling(k)
      /\ \A d \in Queriers : Fits(query[d])
      /\ line \in Seq(BestFrames)
  BY <1>1, <1>2 DEF Fitting
<1>4. /\ query \in [Queriers -> Queries] /\ query[c] \in Queries /\ query[c].kind \in Kinds
      /\ session_type \in [Kinds -> Levels] /\ session_confirmed \in [Kinds -> BOOLEAN]
      /\ \A d \in Queriers : query[d].kind \in Kinds
  BY DEF Typed, Queries
<1>5. /\ \A k \in Kinds : Best(k)' = Best(k) /\ Start(k)' = Start(k)
      /\ BestFrames' = BestFrames
  BY <1>1, SameBest
<1>6. \A k \in Kinds : session_type'[k] = session_type[k] \/ session_type'[k] = Best(k)
  <2>1. CASE UNCHANGED session_type
    BY <2>1
  <2>2. CASE StoreType(c)
    BY <1>3, <1>4, <2>2, StoredIsBest
  <2>3. QED
    BY <2>1, <2>2 DEF QuerySteps, LoadType, LoadConfirmed, PanelAnswers, QueryFails, Refused,
                      StoreConfirmed, StoreAnswer, Session
<1>7. ASSUME NEW k \in Kinds PROVE Settling(k)'
  <2>1. CASE session_confirmed'[k] = session_confirmed[k]
    BY <1>1, <1>3, <1>5, <1>6, <2>1 DEF Settling
  <2>2. CASE StoreConfirmed(c) /\ k = query[c].kind
    <3>1. session_type[k] = Best(k) /\ UNCHANGED session_type
      BY <1>3, <2>2 DEF StoreConfirmed, Fits
    <3>2. QED
      BY <1>5, <3>1 DEF Settling
  <2>3. StoreConfirmed(c) \/ UNCHANGED session_confirmed
    BY DEF QuerySteps, LoadType, LoadConfirmed, PanelAnswers, QueryFails, Refused, StoreType,
           StoreAnswer, Session
  <2>4. StoreConfirmed(c) => session_confirmed' = [session_confirmed EXCEPT ![query[c].kind] = TRUE]
    BY DEF StoreConfirmed
  <2>5. QED
    BY <1>4, <2>1, <2>2, <2>3, <2>4
<1>8. ASSUME NEW d \in Queriers \ {c} PROVE Fits(query[d])'
  <2>1. query'[d] = query[d] /\ query[d].kind \in Kinds
    BY <1>1, <1>4 DEF Others
  <2>2. QED
    BY <1>1, <1>3, <1>6, <2>1, StillFits
<1>9. line' \in Seq(BestFrames)'
  <2>1. CASE UNCHANGED line
    BY <1>3, <1>5, <2>1
  <2>2. CASE PanelAnswers(c)
    BY <1>3, <2>2, AnswerFits
  <2>3. CASE QueryFails(c) /\ line' # line
    <3>1. PICK own \in Answers(query[c]) : line' = Append(line, own)
      BY <2>3 DEF QueryFails
    <3>2. own \in BestFrames
      BY <1>3, <2>3, OwnIsBest DEF QueryFails
    <3>3. QED
      BY <1>3, <1>5, <3>1, <3>2, FirstComes
  <2>4. QED
    BY <2>1, <2>2, <2>3 DEF QuerySteps, LoadType, LoadConfirmed, QueryFails, Refused, StoreType,
                            StoreConfirmed, StoreAnswer
<1>10. Fits(query[c])'
  <2>1. CASE LoadType(c)
    <3>1. /\ query'[c] = [query[c] EXCEPT !.at = "confirmed", !.type = session_type[query[c].kind]]
          /\ UNCHANGED session_type /\ query[c].at = "level"
      BY <1>4, <2>1 DEF LoadType, Session
    <3>2. /\ query'[c].at = "confirmed" /\ query'[c].type = session_type[query[c].kind]
          /\ query'[c].kind = query[c].kind /\ query'[c].extended = query[c].extended
      BY <1>4, <3>1 DEF Queries
    <3>3. query[c].extended = extended_name_read
      BY <1>3, <3>1 DEF Fits
    <3>4. session_type[query[c].kind] \in {Start(query[c].kind), Best(query[c].kind)}
      BY <1>3, <1>4 DEF Settling
    <3>5. QED
      BY <1>1, <1>4, <1>5, <3>1, <3>2, <3>3, <3>4 DEF Fits
  <2>2. CASE LoadConfirmed(c)
    BY <1>3, <2>2, LoadedFits
  <2>3. CASE PanelAnswers(c)
    BY <1>3, <2>3, AnswerFits
  <2>4. CASE Refused(c) /\ query[c].left \ {Asked(query[c])} # {}
    BY <1>3, <2>4, RefusedFits
  <2>5. CASE StoreType(c)
    <3>1. query'[c] = [query[c] EXCEPT !.at = "typed"]
      BY <1>4, <2>5 DEF StoreType
    <3>2. query'[c].at = "typed" /\ query'[c].kind = query[c].kind
      BY <1>4, <3>1 DEF Queries
    <3>3. session_type'[query[c].kind] = Best(query[c].kind)
      BY <1>3, <1>4, <2>5, StoredIsBest
    <3>4. QED
      BY <1>4, <1>5, <3>2, <3>3 DEF Fits
  <2>6. CASE StoreConfirmed(c)
    <3>1. query'[c] = [query[c] EXCEPT !.at = "settled"]
      BY <1>4, <2>6 DEF StoreConfirmed
    <3>2. query'[c].at = "settled"
      BY <1>4, <3>1 DEF Queries
    <3>3. QED
      BY <1>1, <3>2, FreshFits
  <2>7. CASE NextQuery(c)
    BY <1>1, <2>7, NextTyped, FreshFits
  <2>8. QED
    BY <2>1, <2>2, <2>3, <2>4, <2>5, <2>6, <2>7 DEF QuerySteps, QueryFails, Refused, StoreAnswer
<1>11. QED
  BY <1>7, <1>8, <1>9, <1>10

\* Every step keeps what the queries know and the line tells: a configuration that is
\* replaced disturbs those in flight and the answers to come, or finds none.
LEMMA FittingKept == Typed /\ Fitting /\ [NamesNext]_namesVars => Fitting'
<1> SUFFICES ASSUME Typed, Fitting, [NamesNext]_namesVars PROVE Fitting'
  OBVIOUS
<1>1. ASSUME NEW c \in Queriers, QuerySteps(c) PROVE Fitting'
  BY <1>1, QueryFits
<1>2. ASSUME NEW c \in Queriers, NEW k \in Kinds, NEW i \in Positions(k), NEW b \in BOOLEAN,
             BeginAt(c, k, i, b), UNCHANGED <<Config, Session, line, known, disturbed>>
      PROVE  Fitting'
  <2> SUFFICES ASSUME ~disturbed', reloading' \in {"no", "types reset"}
               PROVE  /\ \A l \in Kinds : Settling(l)'
                      /\ \A d \in Queriers : Fits(query[d])'
                      /\ line' \in Seq(BestFrames)'
    BY DEF Fitting
  <2>1. /\ Others(c) /\ query'[c].at = "level" /\ query'[c].extended = extended_name_read
        /\ UNCHANGED <<extended_name_read, reloading, panel_types, session_type, session_confirmed,
                       line, disturbed>>
    BY <1>2, BeginTyped DEF Config, Session
  <2>2. /\ \A l \in Kinds : Settling(l)
        /\ \A d \in Queriers : Fits(query[d])
        /\ line \in Seq(BestFrames)
    BY <2>1 DEF Fitting
  <2>3. ASSUME NEW l \in Kinds PROVE Settling(l)'
    BY <2>1, <2>2, SameBest DEF Settling
  <2>4. ASSUME NEW d \in Queriers \ {c} PROVE Fits(query[d])'
    BY <2>1, <2>2, StillFits DEF Others
  <2>5. Fits(query[c])'
    BY <2>1, FreshFits
  <2>6. line' \in Seq(BestFrames)'
    BY <2>1, <2>2, SameBest
  <2>7. QED
    BY <2>3, <2>4, <2>5, <2>6
<1>3. ASSUME UNCHANGED <<Config, Session, query, disturbed>>,
             line' = Append(line, Refusal) \/ (line' = Tail(line) /\ line # <<>>)
      PROVE  Fitting'
  <2> SUFFICES ASSUME ~disturbed', reloading' \in {"no", "types reset"}
               PROVE  /\ \A l \in Kinds : Settling(l)'
                      /\ \A d \in Queriers : Fits(query[d])'
                      /\ line' \in Seq(BestFrames)'
    BY DEF Fitting
  <2>1. UNCHANGED <<extended_name_read, reloading, panel_types, session_type, session_confirmed,
                    query, disturbed>>
    BY <1>3 DEF Config, Session
  <2>2. /\ \A l \in Kinds : Settling(l)
        /\ \A d \in Queriers : Fits(query[d])
        /\ line \in Seq(BestFrames)
    BY <2>1 DEF Fitting
  <2>3. ASSUME NEW l \in Kinds PROVE Settling(l)'
    BY <2>1, <2>2, SameBest DEF Settling
  <2>4. ASSUME NEW d \in Queriers PROVE Fits(query[d])'
    BY <2>1, <2>2, StillFits
  <2>5. Refusal \in BestFrames
    BY AnswersTyped DEF BestFrames
  <2>6. line' \in Seq(BestFrames)
    <3>1. Append(line, Refusal) \in Seq(BestFrames)
      BY <2>2, <2>5, FirstComes
    <3>2. line # <<>> => Tail(line) \in Seq(BestFrames)
      BY <2>2, RestComes
    <3>3. QED
      BY <1>3, <3>1, <3>2
  <2>7. QED
    BY <2>1, <2>3, <2>4, <2>6, SameBest
<1>4. CASE \E e \in BOOLEAN, how \in {"hot", "full"} : StoreConfig(e, how)
  BY <1>4 DEF StoreConfig, Fitting
<1>5. CASE ResetTypes
  <2> SUFFICES ASSUME ~disturbed'
               PROVE  /\ \A l \in Kinds : Settling(l)'
                      /\ \A d \in Queriers : Fits(query[d])'
                      /\ line' \in Seq(BestFrames)'
    BY DEF Fitting
  <2>1. line' = <<>> /\ \A d \in Queriers : query[d].at = "idle" /\ query'[d] = query[d]
    BY <1>5 DEF ResetTypes, InFlight
  <2>2. \A d \in Queriers : Fits(query[d])'
    BY <2>1 DEF Fits
  <2>3. \A l \in Kinds : Settling(l)'
    BY <1>5 DEF ResetTypes, Settling, Start
  <2>4. QED
    BY <2>1, <2>2, <2>3
<1>6. CASE ResetConfirmed
  <2> SUFFICES ASSUME ~disturbed'
               PROVE  /\ \A l \in Kinds : Settling(l)'
                      /\ \A d \in Queriers : Fits(query[d])'
                      /\ line' \in Seq(BestFrames)'
    BY DEF Fitting
  <2>1. UNCHANGED <<extended_name_read, panel_types, session_type, query, line, disturbed>>
    BY <1>6 DEF ResetConfirmed
  <2>2. /\ \A l \in Kinds : Settling(l)
        /\ \A d \in Queriers : Fits(query[d])
        /\ line \in Seq(BestFrames)
    <3>1. ~disturbed
      BY <2>1
    <3>2. reloading = "types reset"
      BY <1>6 DEF ResetConfirmed
    <3>3. QED
      BY <3>1, <3>2, Zenon DEF Fitting
  <2>3. ASSUME NEW d \in Queriers PROVE Fits(query[d])'
    BY <2>1, <2>2, StillFits
  <2>4. ASSUME NEW l \in Kinds PROVE Settling(l)'
    <3>1. Settling(l) /\ ~session_confirmed'[l]
      BY <1>6, <2>2 DEF ResetConfirmed
    <3>2. QED
      BY <2>1, <3>1, SameBest DEF Settling
  <2>5. QED
    BY <2>1, <2>2, <2>3, <2>4, SameBest
<1>7. CASE UNCHANGED namesVars
  BY <1>7 DEF namesVars, Fitting, Settling, Fits, Start, Best, Asked, HasName, BestFrames
<1>8. CASE StrayRefusal \/ LinePasses
  <2>1. UNCHANGED <<Config, Session, query, disturbed>>
    BY <1>8 DEF StrayRefusal, LinePasses
  <2>2. line' = Append(line, Refusal) \/ (line' = Tail(line) /\ line # <<>>)
    BY <1>8 DEF StrayRefusal, LinePasses
  <2>3. QED
    BY <1>3, <2>1, <2>2
<1>9. QED
  BY <1>1, <1>2, <1>4, <1>5, <1>6, <1>7, <1>8, StepsAre

\* The types, and what the queries know, hold in every state.
LEMMA NamesAlwaysInv == NamesSpec => []NamesInv
<1>1. NamesInit => NamesInv
  BY InitTyped, InitFitting DEF NamesInv
<1>2. NamesInv /\ [NamesNext]_namesVars => NamesInv'
  BY TypedKept, FittingKept DEF NamesInv
<1>3. QED
  BY <1>1, <1>2, PTL DEF NamesSpec

\* Unless a query met a reset of the types or took another's answer for its own, the type
\* that query_{zone,output,partition}_internal confirm (client.rs:406, 606, 822) is the
\* best the panel knows, whatever the panel, the tasks, the answers that are late and the
\* order of the steps: a late name of the type that is asked for is as good as the own.
THEOREM SettlesOnBest == NamesSpec => []ConfirmedIsBest
<1>1. NamesInv => ConfirmedIsBest
  <2> SUFFICES ASSUME Typed, Fitting, ~disturbed, reloading = "no", NEW k \in Kinds,
                      session_confirmed[k]
               PROVE  session_type[k] = Best(k)
    BY DEF NamesInv, ConfirmedIsBest
  <2>1. Settling(k)
    BY DEF Fitting
  <2>2. QED
    BY <2>1 DEF Settling
<1>2. QED
  BY <1>1, NamesAlwaysInv, PTL

-----------------------------------------------------------------------------
(* Where an answer is stored. *)

KnownTyped == known \in [Entries -> (SUBSET AllFields) \cup {Empty}]

\* The byte on the wire leads back to the position, 256 and its byte 0 included.
LEMMA ByteLeadsBack ==
    ASSUME NEW k \in Kinds, NEW i \in Positions(k)
    PROVE  CachedAt(k, DeviceByte(k, i)) = i
<1>1. i \in 1..256 /\ (k = "partition" => i <= 32)
  BY IndicesAssumption DEF Positions
<1>2. CASE k = "partition"
  BY <1>1, <1>2 DEF CachedAt, DeviceByte
<1>3. CASE k # "partition"
  BY <1>1, <1>3 DEF CachedAt, DeviceByte
<1>4. QED
  BY <1>2, <1>3

\* What an answer holds are fields of the cache.
LEMMA FieldsTyped ==
    ASSUME NEW k, NEW t \in Levels
    PROVE  Fields(k, t) \in SUBSET AllFields
<1>1. /\ ZoneFields(t) \subseteq AllFields /\ OutputFields(t) \subseteq AllFields
      /\ PartitionFields(t) \subseteq AllFields
  BY DEF ZoneFields, OutputFields, PartitionFields, AllFields, Levels
<1>2. QED
  BY <1>1 DEF Fields

\* A query writes nothing, or that its position has no name, or the fields of the answer
\* it holds, at the position that is named.
Stores(c, e, v) ==
    \/ /\ query[c].at = "received" /\ query[c].frame.reply = "refused"
       /\ e = <<query[c].kind, query[c].index>> /\ v = Empty
    \/ /\ query[c].at = "settled" /\ query[c].kind = query[c].frame.kind
       /\ e = <<query[c].frame.kind, query[c].frame.index>> /\ e \in Configured
       /\ v = Fields(e[1], query[c].frame.type)

LEMMA QueryStores ==
    ASSUME Typed, NEW c \in Queriers, QuerySteps(c)
    PROVE  \/ UNCHANGED known
           \/ \E e \in Entries, v \in (SUBSET AllFields) \cup {Empty} :
                  Stores(c, e, v) /\ known' = [known EXCEPT ![e] = v]
<1>1. /\ query[c] \in Queries /\ QueryTyped(query[c])
      /\ query[c].kind \in Kinds /\ query[c].index \in Positions(query[c].kind)
  BY DEF Typed, QueryTyped, Queries
<1>2. \A k \in Kinds : \A i \in Positions(k) : <<k, i>> \in Entries
  BY DEF Entries, Positions
<1>3. CASE Refused(c)
  <2>1. /\ query[c].at = "received" /\ query[c].frame.reply = "refused"
        /\ UNCHANGED known \/ known' = [known EXCEPT ![<<query[c].kind, query[c].index>>] = Empty]
    BY <1>3, Zenon DEF Refused
  <2>2. Stores(c, <<query[c].kind, query[c].index>>, Empty)
    BY <2>1 DEF Stores
  <2>3. Empty \in (SUBSET AllFields) \cup {Empty}
    OBVIOUS
  <2>4. <<query[c].kind, query[c].index>> \in Entries
    BY <1>1, <1>2
  <2>5. QED
    BY <2>1, <2>2, <2>3, <2>4, Zenon
<1>4. CASE StoreAnswer(c) /\ known' # known
  <2> DEFINE f == query[c].frame
             k == query[c].kind
             i == f.index
             v == Fields(k, f.type)
  <2>1. /\ query[c].at = "settled" /\ f.reply = "name" /\ f.type \in TypesOf(k)
        /\ known' = [known EXCEPT ![<<k, CachedAt(k, DeviceByte(f.kind, f.index))>>] = v]
    BY <1>4, Zenon DEF StoreAnswer
  <2>2. f \in Frames
    BY <1>1, <2>1 DEF QueryTyped
  <2>3. /\ f.kind \in Kinds /\ f.type \in TypesOf(f.kind) /\ f.type \in Levels
        /\ i \in Positions(f.kind) /\ <<f.kind, i>> \in Configured
    BY <2>1, <2>2 DEF Frames
  <2>4. f.kind = k
    BY <1>1, <2>1, <2>3, KindOfType
  <2>5. CachedAt(k, DeviceByte(f.kind, f.index)) = i
    BY <1>1, <2>3, <2>4, ByteLeadsBack
  <2>6. v \in (SUBSET AllFields) \cup {Empty}
    BY <2>3, FieldsTyped
  <2>7. <<k, i>> \in Entries /\ known' = [known EXCEPT ![<<k, i>>] = v]
    BY <1>1, <1>2, <2>1, <2>3, <2>4, <2>5
  <2>8. Stores(c, <<k, i>>, v)
    BY <2>1, <2>3, <2>4 DEF Stores
  <2> HIDE DEF k, i, v
  <2>9. QED
    BY <2>6, <2>7, <2>8, Zenon
<1>5. QED
  BY <1>3, <1>4 DEF QuerySteps, LoadType, LoadConfirmed, PanelAnswers, QueryFails, StoreType,
                    StoreConfirmed

\* No step but a query's writes to the names of the cache.
LEMMA OnlyQueriesStore ==
    [NamesNext]_namesVars => UNCHANGED known \/ \E c \in Queriers : QuerySteps(c)
BY StepsAre DEF namesVars, StrayRefusal, LinePasses, StoreConfig, ResetTypes, ResetConfirmed

\* The entries hold fields, or that the position has no name.
LEMMA KnownAlwaysTyped == NamesSpec => []KnownTyped
<1>1. NamesInit => KnownTyped
  BY DEF NamesInit, KnownTyped
<1>2. Typed /\ KnownTyped /\ [NamesNext]_namesVars => KnownTyped'
  <2> SUFFICES ASSUME Typed, KnownTyped, [NamesNext]_namesVars PROVE KnownTyped'
    OBVIOUS
  <2>1. CASE UNCHANGED known
    BY <2>1 DEF KnownTyped
  <2>2. ASSUME NEW c \in Queriers, QuerySteps(c) PROVE KnownTyped'
    BY <2>2, QueryStores DEF KnownTyped
  <2>3. QED
    BY <2>1, <2>2, OnlyQueriesStore
<1>3. NamesInv => Typed
  BY DEF NamesInv
<1>4. QED
  BY <1>1, <1>2, <1>3, NamesAlwaysInv, PTL DEF NamesSpec

\* A name is stored where the panel has it (client.rs:386, 412; names.rs:45): no step of any
\* task writes another entry than that of the position its query was refused, or, of the
\* answer it took, its own or a late one of another query, the position that is named.
THEOREM AlwaysStoredWhereAnswered == NamesSpec => StoredWhereAnswered
<1> DEFINE Storing == \A e \in Entries : known'[e] # known[e] =>
                          \E c \in Queriers : Stores(c, e, known'[e])
<1>1. Typed /\ KnownTyped /\ [NamesNext]_namesVars => Storing
  <2> SUFFICES ASSUME Typed, KnownTyped, [NamesNext]_namesVars, NEW e \in Entries,
                      known'[e] # known[e]
               PROVE  \E c \in Queriers : Stores(c, e, known'[e])
    OBVIOUS
  <2>1. PICK c \in Queriers : QuerySteps(c)
    BY OnlyQueriesStore
  <2>2. PICK f \in Entries, v \in (SUBSET AllFields) \cup {Empty} :
            Stores(c, f, v) /\ known' = [known EXCEPT ![f] = v]
    BY <2>1, QueryStores
  <2>3. f = e /\ known'[e] = v
    BY <2>2 DEF KnownTyped
  <2>4. QED
    BY <2>2, <2>3
<1>2. NamesInv => Typed
  BY DEF NamesInv
<1>3. QED
  <2>1. NamesSpec => [][Storing]_namesVars
    BY <1>1, <1>2, NamesAlwaysInv, KnownAlwaysTyped, PTL DEF NamesSpec
  <2>2. QED
    BY <2>1 DEF StoredWhereAnswered, Stores

\* Every variable keeps its type, and a query has types of its kind left to try until it
\* is over: the loops of query_*_internal never run out in mid-query.
THEOREM NamesTyped == NamesSpec => []NamesTypeOK
<1>1. NamesInv /\ KnownTyped => NamesTypeOK
  <2> SUFFICES ASSUME Typed, KnownTyped PROVE NamesTypeOK
    BY DEF NamesInv
  <2>1. ASSUME NEW c \in Queriers
        PROVE  /\ query[c].at \in {"idle", "level", "confirmed", "ask", "received", "typed", "settled"}
               /\ query[c].kind \in Kinds /\ query[c].index \in Positions(query[c].kind)
               /\ query[c].at \in {"ask", "received", "typed", "settled"} =>
                      query[c].left # {} /\ query[c].left \subseteq TypesOf(query[c].kind)
    BY DEF Typed, QueryTyped, Queries
  <2>2. session_type \in [Kinds -> {0, 1, 4, 5, 16, 17, 18, 19}]
    BY DEF Typed, Levels
  <2>3. QED
    BY <2>1, <2>2 DEF Typed, KnownTyped, NamesTypeOK
<1>2. QED
  BY <1>1, NamesAlwaysInv, KnownAlwaysTyped, PTL

==============================================================================
