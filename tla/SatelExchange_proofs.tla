------------------------ MODULE SatelExchange_proofs ------------------------
(***************************************************************************)
(* Proofs about SatelExchange, for any clients, commands, numbers of       *)
(* requests and changes, and capacity of the channel.                      *)
(*                                                                         *)
(* Shapes says what each place of the pipeline can hold.  On it stand      *)
(* three arguments: Aligned (as long as nothing timed out at most one      *)
(* frame or command that is not a read is under way, and belongs to the    *)
(* request being served), Heralded (which refusals were told of) and       *)
(* Carried (the newest version is in the cache or on its way to it).       *)
(***************************************************************************)
EXTENDS SatelExchange, TLAPS

-----------------------------------------------------------------------------
(* The invariant. *)

Elems(s) == {s[i] : i \in 1..Len(s)}

\* At most one position holds an element of S.
AtMostOne(s, S) == \A i, j \in 1..Len(s) : s[i] \in S /\ s[j] \in S => i = j

\* No two requests have the asker or the serial in common.
Apart(s) == \A i, j \in 1..Len(s) : s[i].by = s[j].by \/ s[i].serial = s[j].serial => i = j

InExchange == step \in {"reading", "forwarding"}

\* Only a read comes without a request, and only clients ask for one.
Sent  == {f \in Frames : f.kind # "read" => f.of \in Serials}
Asked == {r \in Requests : r.command = "read" => r.by \in Clients}

Shapes ==
    /\ value \in Values /\ cache \in Values /\ serials \in 0..MaxRequests
    /\ outbox \in Seq(Asked) /\ to_panel \in Seq(Asked)
    /\ queue \in Seq(Asked) /\ \A r \in Elems(queue) : r.by \in Clients
    /\ from_panel \in Seq(Sent)
    /\ channel \in Seq(Sent) /\ Len(channel) <= ChannelCapacity
    /\ step \in {"idle", "reading", "forwarding", "pushing"}
    /\ IF InExchange THEN serving \in Asked ELSE serving = NoRequest
    /\ IF step \in {"forwarding", "pushing"} THEN held \in Sent ELSE held = NoFrame
    /\ answer \in [Clients -> Values \cup {NoAnswer}]
    /\ last \in [request : Asked, frame : Sent] \cup {[request |-> NoRequest, frame |-> NoFrame]}
    /\ late \in BOOLEAN /\ lost \in BOOLEAN /\ overtaken \in BOOLEAN
    /\ announced \subseteq Serials

\* Not a read, and so ends no exchange but its own.
OddCommands == {r \in Requests : r.command # "read"}
OddFrames   == {f \in Frames : f.kind # "read"}

Answering(f, r) == /\ f.of = r.serial /\ r.command # "read"
                   /\ f.kind = "refused" => r.command \in {"name", "control"}

\* The frames the worker has still to pass on or to judge.
Unread == Elems(from_panel) \cup (IF step = "forwarding" THEN {held} ELSE {})

Aligned ==
    /\ outbox = <<>>
    /\ \A r \in Elems(to_panel) \cap OddCommands : InExchange /\ r = serving
    /\ \A f \in Unread \cap OddFrames : InExchange /\ Answering(f, serving)
    /\ AtMostOne(to_panel, OddCommands) /\ AtMostOne(from_panel, OddFrames)
    /\ Unread \cap OddFrames # {} => Elems(to_panel) \cap OddCommands = {}
    /\ step = "forwarding" /\ held \in OddFrames => Elems(from_panel) \cap OddFrames = {}
    /\ step = "pushing" => held \notin OddFrames
    /\ LastIsAligned

\* A refusal is known of, or about to be.
Told(s) == s \in announced \/ \E f \in Elems(channel) : f.kind = "refused" /\ f.of = s

\* Whoever waits or is served has a serial and an asker of its own, which has nothing
\* else to apply; the next serial is new.
Queued ==
    /\ Apart(queue)
    /\ \A r \in Elems(queue) : r.serial # serving.serial /\ r.by # serving.by
    /\ \A r \in Elems(queue) \cup {serving, last.request} : r.serial <= serials
    /\ \A r \in Elems(queue) \cup {serving} : r.by \in Clients => answer[r.by] = NoAnswer

\* Nobody has been told of the refusal of a request that waits or is being served.
Heralded ==
    /\ \A s \in Serials : Told(s) => s <= serials
    /\ \A r \in Elems(queue) : ~Told(r.serial) /\ r.serial # last.request.serial
    /\ InExchange => ~Told(serving.serial) /\ serving.serial # last.request.serial
    /\ step = "forwarding" => IsForwarded(held, serving)
    /\ last.frame.kind = "refused" =>
           IF last.request.command = "control"
           THEN last.frame.of \in announced \/ last.frame \in Elems(channel)
           ELSE ~Told(last.request.serial)

\* The versions on their way to the cache.
Versions ==
    {f.value : f \in {f \in Elems(from_panel) \cup Elems(channel) \cup {held} : f.kind = "read"}}
        \cup {answer[c] : c \in {c \in Clients : answer[c] # NoAnswer}}

Carried ==
    /\ cache <= value /\ \A v \in Versions : v <= value
    /\ ~lost /\ ~overtaken => cache = value \/ value \in Versions

ExchangeInv ==
    /\ Shapes
    /\ Queued
    /\ ~late => Aligned /\ Heralded
    /\ Carried

-----------------------------------------------------------------------------
(* Sequences. *)

\* The empty sequence has no elements.
LEMMA EmptyElems == Elems(<<>>) = {}
  BY DEF Elems

\* The elements of a sequence over S are in S.
LEMMA ElemsTyped ==
    ASSUME NEW S, NEW s \in Seq(S)
    PROVE  Elems(s) \subseteq S
  BY DEF Elems

\* What Append does to the elements.
LEMMA AppendElems ==
    ASSUME NEW S, NEW s \in Seq(S), NEW x \in S
    PROVE  /\ Append(s, x) \in Seq(S)
           /\ Elems(Append(s, x)) = Elems(s) \cup {x}
<1>1. /\ Append(s, x) \in Seq(S) /\ Len(Append(s, x)) = Len(s) + 1 /\ Len(s) \in Nat
      /\ \A i \in 1..Len(s) : Append(s, x)[i] = s[i]
      /\ Append(s, x)[Len(s) + 1] = x
  OBVIOUS
<1>2. Elems(Append(s, x)) \subseteq Elems(s) \cup {x}
  BY <1>1 DEF Elems
<1>3. Elems(s) \subseteq Elems(Append(s, x))
  <2>1. \A i \in 1..Len(s) : i \in 1..Len(Append(s, x)) /\ Append(s, x)[i] = s[i]
    BY <1>1
  <2>2. QED
    BY <2>1 DEF Elems
<1>4. x \in Elems(Append(s, x))
  BY <1>1 DEF Elems
<1>5. QED
  BY <1>1, <1>2, <1>3, <1>4

\* What Head and Tail do to the elements.
LEMMA TailElems ==
    ASSUME NEW S, NEW s \in Seq(S), s # <<>>
    PROVE  /\ Head(s) \in S /\ Tail(s) \in Seq(S)
           /\ Elems(s) = {Head(s)} \cup Elems(Tail(s))
<1>1. /\ Head(s) \in S /\ Tail(s) \in Seq(S) /\ Len(Tail(s)) = Len(s) - 1
      /\ Len(s) \in Nat \ {0} /\ Head(s) = s[1]
      /\ \A i \in 1..Len(Tail(s)) : Tail(s)[i] = s[i + 1]
  OBVIOUS
<1>2. Elems(s) \subseteq {Head(s)} \cup Elems(Tail(s))
  <2>1. ASSUME NEW i \in 1..Len(s) PROVE s[i] = Head(s) \/ s[i] \in Elems(Tail(s))
    <3>1. CASE i = 1
      BY <1>1, <3>1
    <3>2. CASE i # 1
      <4>1. i - 1 \in 1..Len(Tail(s)) /\ Tail(s)[i - 1] = s[i]
        BY <1>1, <3>2
      <4>2. QED
        BY <4>1 DEF Elems
    <3>3. QED
      BY <3>1, <3>2
  <2>2. QED
    BY <2>1 DEF Elems
<1>3. Elems(Tail(s)) \subseteq Elems(s)
  <2>1. \A i \in 1..Len(Tail(s)) : i + 1 \in 1..Len(s) /\ Tail(s)[i] = s[i + 1]
    BY <1>1
  <2>2. QED
    BY <2>1 DEF Elems
<1>4. Head(s) \in Elems(s)
  BY <1>1 DEF Elems
<1>5. QED
  BY <1>1, <1>2, <1>3, <1>4

\* An element of S may be appended where there is none yet.
LEMMA AppendOnce ==
    ASSUME NEW T, NEW s \in Seq(T), NEW x \in T, NEW S,
           AtMostOne(s, S), x \in S => Elems(s) \cap S = {}
    PROVE  AtMostOne(Append(s, x), S)
<1>1. /\ Len(Append(s, x)) = Len(s) + 1 /\ Len(s) \in Nat
      /\ \A i \in 1..Len(s) : Append(s, x)[i] = s[i]
      /\ Append(s, x)[Len(s) + 1] = x
  OBVIOUS
<1>2. x \in S => \A i \in 1..Len(s) : s[i] \notin S
  BY DEF Elems
<1>3. QED
  BY <1>1, <1>2 DEF AtMostOne

\* Behind a head that is in S nothing else is.
LEMMA TailOnce ==
    ASSUME NEW T, NEW s \in Seq(T), s # <<>>, NEW S, AtMostOne(s, S)
    PROVE  /\ AtMostOne(Tail(s), S)
           /\ Head(s) \in S => Elems(Tail(s)) \cap S = {}
<1>1. /\ Len(Tail(s)) = Len(s) - 1 /\ Len(s) \in Nat \ {0} /\ Head(s) = s[1]
      /\ \A i \in 1..Len(Tail(s)) : Tail(s)[i] = s[i + 1]
  OBVIOUS
<1>2. AtMostOne(Tail(s), S)
  BY <1>1 DEF AtMostOne
<1>3. ASSUME Head(s) \in S, NEW i \in 1..Len(Tail(s)), Tail(s)[i] \in S PROVE FALSE
  BY <1>1, <1>3 DEF AtMostOne
<1>4. QED
  BY <1>2, <1>3 DEF Elems

\* Who has neither asker nor serial in common with the others may join them.
LEMMA AppendApart ==
    ASSUME NEW T, NEW s \in Seq(T), NEW x \in T, Apart(s),
           \A r \in Elems(s) : r.by # x.by /\ r.serial # x.serial
    PROVE  Apart(Append(s, x))
<1>1. /\ Len(Append(s, x)) = Len(s) + 1 /\ Len(s) \in Nat
      /\ \A i \in 1..Len(s) : Append(s, x)[i] = s[i]
      /\ Append(s, x)[Len(s) + 1] = x
  OBVIOUS
<1>2. \A i \in 1..Len(s) : s[i].by # x.by /\ s[i].serial # x.serial
  BY DEF Elems
<1>3. QED
  BY <1>1, <1>2 DEF Apart

\* The head has neither asker nor serial in common with those behind it.
LEMMA TailApart ==
    ASSUME NEW T, NEW s \in Seq(T), s # <<>>, Apart(s)
    PROVE  /\ Apart(Tail(s))
           /\ \A r \in Elems(Tail(s)) : r.by # Head(s).by /\ r.serial # Head(s).serial
<1>1. /\ Len(Tail(s)) = Len(s) - 1 /\ Len(s) \in Nat \ {0} /\ Head(s) = s[1]
      /\ \A i \in 1..Len(Tail(s)) : Tail(s)[i] = s[i + 1]
  OBVIOUS
<1>2. Apart(Tail(s))
  BY <1>1 DEF Apart
<1>3. \A i \in 1..Len(Tail(s)) : Tail(s)[i].by # Head(s).by /\ Tail(s)[i].serial # Head(s).serial
  BY <1>1 DEF Apart
<1>4. QED
  BY <1>2, <1>3 DEF Elems

-----------------------------------------------------------------------------
(* Shapes. *)

\* Pseudo frames and requests stand for none.
LEMMA NoneIsNone ==
    /\ NoRequest \notin Asked /\ NoRequest.serial = 0 /\ NoRequest.by = Worker
    /\ NoFrame \notin Sent /\ NoFrame.kind = "none"
    /\ NoAnswer \notin Values /\ Worker \notin Clients
  BY NamesAssumption, LimitsAssumption
     DEF NoRequest, NoFrame, NoAnswer, Asked, Sent, Requests, Frames, Serials, Values

\* What a command is answered with.
LEMMA AnswersShape ==
    ASSUME NEW r \in Asked, value \in Values, NEW f \in Answers(r)
    PROVE  /\ f \in Sent /\ f.of = r.serial
           /\ f.value = value
           /\ f.kind = "read" <=> r.command = "read"
           /\ f.kind = "refused" => r.command \in {"name", "control"}
<1>1. r.command \in {"read", "name", "control", "ping"} /\ r.serial \in Serials
  BY NamesAssumption DEF Asked, Requests, ClientCommands
<1>2. QED
  BY <1>1 DEF Answers, Sent, Frames

\* The initial state has the shapes.
LEMMA InitShapes == Init => Shapes
<1> SUFFICES ASSUME Init PROVE Shapes
  OBVIOUS
<1>1. /\ \A S : <<>> \in Seq(S)
      /\ Len(<<>>) = 0 /\ Elems(<<>>) = {}
  BY EmptyElems
<1>2. 0 \in Values /\ 0 \in 0..MaxRequests /\ 0 <= ChannelCapacity
  BY LimitsAssumption DEF Values
<1>3. QED
  BY <1>1, <1>2 DEF Init, Shapes, InExchange

\* A request is written, or stays in the buffer.
LEMMA WriteShapes ==
    ASSUME Shapes, NEW r \in Asked, Write(r)
    PROVE  /\ outbox' \in Seq(Asked) /\ to_panel' \in Seq(Asked)
           /\ late' \in BOOLEAN
           /\ \/ step' = "reading" /\ serving' = r
              \/ step' = "idle" /\ serving' = serving
<1>1. outbox \in Seq(Asked) /\ to_panel \in Seq(Asked) /\ late \in BOOLEAN
  BY DEF Shapes
<1>2. <<>> \in Seq(Asked) /\ to_panel \o outbox \in Seq(Asked)
  BY <1>1
<1>3. Append(to_panel \o outbox, r) \in Seq(Asked) /\ Append(outbox, r) \in Seq(Asked)
  BY <1>1, <1>2, AppendElems
<1>4. QED
  BY <1>1, <1>2, <1>3 DEF Write

\* A frame of the panel ends the exchange or does not.
LEMMA ReadShapes ==
    ASSUME Shapes, InExchange, NEW f \in Sent, Read(f)
    PROVE  /\ \/ step' = "reading" /\ serving' = serving
              \/ step' = "idle" /\ serving' = NoRequest
           /\ answer' \in [Clients -> Values \cup {NoAnswer}]
           /\ last' \in [request : Asked, frame : Sent] \cup {[request |-> NoRequest, frame |-> NoFrame]}
<1>1. serving \in Asked /\ f.value \in Values /\ answer \in [Clients -> Values \cup {NoAnswer}]
  BY DEF Shapes, Sent, Frames
<1>2. QED
  BY <1>1, SMTT(30) DEF Read, Deliver, Shapes

\* Every step keeps the shapes.
LEMMA ShapesKept == Shapes /\ [Next]_vars => Shapes'
<1> SUFFICES ASSUME Shapes, [Next]_vars PROVE Shapes'
  OBVIOUS
<1> USE DEF panel, worker, clients, history
<1>1. CASE Change
  <2>1. value' \in Values
    BY <1>1, LimitsAssumption DEF Change, Shapes, Values
  <2>2. from_panel' \in Seq(Sent)
    <3>1. [kind |-> "read", of |-> 0, value |-> value + 1] \in Sent
      BY <2>1, <1>1 DEF Change, Sent, Frames
    <3>2. QED
      BY <1>1, <3>1, AppendElems DEF Change, Shapes
  <2>3. QED
    BY <1>1, <2>1, <2>2 DEF Change, Shapes, InExchange
<1>2. CASE PanelHandles
  <2>1. Head(to_panel) \in Asked /\ to_panel' \in Seq(Asked)
    BY <1>2, TailElems DEF PanelHandles, Shapes
  <2>2. from_panel' \in Seq(Sent)
    <3>1. from_panel \in Seq(Sent) /\ value \in Values
      BY DEF Shapes
    <3>2. ASSUME NEW f \in Answers(Head(to_panel)) PROVE Append(from_panel, f) \in Seq(Sent)
      BY <2>1, <3>1, AnswersShape, AppendElems
    <3>3. QED
      BY <1>2, <3>1, <3>2 DEF PanelHandles
  <2>3. QED
    BY <1>2, <2>1, <2>2 DEF PanelHandles, Shapes, InExchange
<1>3. ASSUME NEW c \in Clients, NEW command \in Commands, Ask(c, command) PROVE Shapes'
  <2> DEFINE r == [command |-> command, serial |-> serials + 1, by |-> c]
  <2>1. serials' \in 0..MaxRequests /\ r \in Asked /\ r.by \in Clients
    BY <1>3, LimitsAssumption DEF Ask, Shapes, Asked, Requests, Serials
  <2> HIDE DEF r
  <2>2. queue' = Append(queue, r) /\ queue \in Seq(Asked)
    BY <1>3 DEF Ask, Shapes, r
  <2>3. queue' \in Seq(Asked) /\ Elems(queue') = Elems(queue) \cup {r}
    BY <2>1, <2>2, AppendElems
  <2>4. \A q \in Elems(queue)' : q.by \in Clients
    BY <2>1, <2>3 DEF Shapes, Elems
  <2>5. QED
    BY <1>3, <2>1, <2>3, <2>4 DEF Ask, Shapes, InExchange
<1>4. ASSUME NEW c \in Clients, ApplyAnswer(c) PROVE Shapes'
  <2>1. cache' \in Values /\ answer' \in [Clients -> Values \cup {NoAnswer}] /\ overtaken' \in BOOLEAN
    BY <1>4 DEF ApplyAnswer, Shapes
  <2>2. QED
    BY <1>4, <2>1 DEF ApplyAnswer, Shapes, InExchange
<1>5. CASE TakeRequest
  <2>1. /\ queue # <<>> /\ queue \in Seq(Asked) /\ ~InExchange
        /\ queue' = Tail(queue) /\ Write(Head(queue)) /\ serving = NoRequest
    BY <1>5 DEF TakeRequest, LeaveSelect, Shapes, InExchange
  <2>2. /\ Head(queue) \in Asked /\ queue' \in Seq(Asked)
        /\ Elems(queue) = {Head(queue)} \cup Elems(queue')
    BY <2>1, TailElems
  <2>3. /\ outbox' \in Seq(Asked) /\ to_panel' \in Seq(Asked) /\ late' \in BOOLEAN
        /\ \/ step' = "reading" /\ serving' = Head(queue)
           \/ step' = "idle" /\ serving' = serving
    BY <2>1, <2>2, WriteShapes
  <2>4. \A q \in Elems(queue)' : q.by \in Clients
    BY <2>2 DEF Shapes, Elems
  <2>5. held' = NoFrame /\ lost' \in BOOLEAN
    BY <1>5 DEF TakeRequest, LeaveSelect, Shapes
  <2>6. QED
    BY <1>5, <2>1, <2>2, <2>3, <2>4, <2>5 DEF TakeRequest, Shapes, InExchange
<1>6. CASE Tick
  <2>1. held' = NoFrame /\ lost' \in BOOLEAN /\ serving = NoRequest
    BY <1>6 DEF Tick, LeaveSelect, Shapes, InExchange
  <2>2. CASE step' = "idle" /\ UNCHANGED <<serials, outbox, to_panel, serving, late>>
    BY <1>6, <2>1, <2>2 DEF Tick, Shapes, InExchange
  <2> DEFINE r == [command |-> "ping", serial |-> serials + 1, by |-> Worker]
  <2>3. CASE serials < MaxRequests /\ serials' = serials + 1 /\ Write(r)
    <3>1. serials' \in 0..MaxRequests /\ r \in Asked
      BY <2>3, LimitsAssumption DEF Shapes, Asked, Requests, Serials
    <3>2. /\ outbox' \in Seq(Asked) /\ to_panel' \in Seq(Asked) /\ late' \in BOOLEAN
          /\ \/ step' = "reading" /\ serving' = r
             \/ step' = "idle" /\ serving' = serving
      BY <2>3, <3>1, WriteShapes
    <3> HIDE DEF r
    <3>3. QED
      BY <1>6, <2>1, <3>1, <3>2 DEF Tick, Shapes, InExchange
  <2>4. QED
    BY <1>6, <2>2, <2>3 DEF Tick
<1>7. CASE ReadFrame
  <2> DEFINE f == Head(from_panel)
  <2>1. /\ step = "reading" /\ from_panel # <<>> /\ from_panel \in Seq(Sent)
        /\ from_panel' = Tail(from_panel)
    BY <1>7 DEF ReadFrame, Shapes
  <2>2. f \in Sent /\ from_panel' \in Seq(Sent)
    BY <2>1, TailElems
  <2>3. CASE Read(f) /\ UNCHANGED <<held, channel>>
    <3>1. /\ \/ step' = "reading" /\ serving' = serving
             \/ step' = "idle" /\ serving' = NoRequest
          /\ answer' \in [Clients -> Values \cup {NoAnswer}]
          /\ last' \in [request : Asked, frame : Sent] \cup {[request |-> NoRequest, frame |-> NoFrame]}
      BY <2>1, <2>2, <2>3, ReadShapes DEF InExchange
    <3>2. QED
      BY <1>7, <2>1, <2>2, <2>3, <3>1 DEF ReadFrame, Shapes, InExchange
  <2>4. CASE step' = "forwarding" /\ held' = f /\ UNCHANGED <<last, answer, serving, channel>>
    BY <1>7, <2>1, <2>2, <2>4 DEF ReadFrame, Shapes, InExchange
  <2>5. QED
    BY <1>7, <2>3, <2>4 DEF ReadFrame
<1>8. CASE Forward
  <2>1. /\ step = "forwarding" /\ InExchange /\ held \in Sent /\ Read(held)
        /\ channel' = Append(channel, held) /\ Len(channel) < ChannelCapacity
        /\ channel \in Seq(Sent)
    BY <1>8 DEF Forward, Shapes, InExchange
  <2>2. channel' \in Seq(Sent) /\ Len(channel') <= ChannelCapacity
    BY <2>1, AppendElems, LimitsAssumption
  <2>3. /\ \/ step' = "reading" /\ serving' = serving
           \/ step' = "idle" /\ serving' = NoRequest
        /\ answer' \in [Clients -> Values \cup {NoAnswer}]
        /\ last' \in [request : Asked, frame : Sent] \cup {[request |-> NoRequest, frame |-> NoFrame]}
    BY <2>1, ReadShapes
  <2>4. QED
    BY <1>8, <2>1, <2>2, <2>3 DEF Forward, Shapes, InExchange
<1>9. CASE ReadTimeout
  BY <1>9 DEF ReadTimeout, Shapes, InExchange
<1>10. CASE ReceivePush
  <2> DEFINE f == Head(from_panel)
  <2>1. /\ step = "idle" /\ from_panel # <<>> /\ from_panel \in Seq(Sent)
        /\ from_panel' = Tail(from_panel) /\ channel \in Seq(Sent)
    BY <1>10 DEF ReceivePush, Shapes
  <2>2. f \in Sent /\ from_panel' \in Seq(Sent)
    BY <2>1, TailElems
  <2>3. \/ UNCHANGED <<step, held, channel>>
        \/ Len(channel) < ChannelCapacity /\ channel' = Append(channel, f) /\ UNCHANGED <<step, held>>
        \/ step' = "pushing" /\ held' = f /\ UNCHANGED channel
    BY <1>10 DEF ReceivePush
  <2>4. channel' \in Seq(Sent) /\ Len(channel') <= ChannelCapacity
    <3>1. Append(channel, f) \in Seq(Sent) /\ Len(Append(channel, f)) = Len(channel) + 1
      BY <2>1, <2>2, AppendElems
    <3>2. Len(channel) \in Nat /\ Len(channel) <= ChannelCapacity
      BY <2>1 DEF Shapes
    <3> HIDE DEF f
    <3>3. CASE UNCHANGED channel
      BY <2>1, <3>2, <3>3
    <3>4. CASE Len(channel) < ChannelCapacity /\ channel' = Append(channel, f)
      BY <3>1, <3>2, <3>4, LimitsAssumption
    <3>5. QED
      BY <2>3, <3>3, <3>4
  <2> HIDE DEF f
  <2>5. QED
    BY <1>10, <2>1, <2>2, <2>3, <2>4 DEF ReceivePush, Shapes, InExchange
<1>11. CASE PassPush
  <2>1. /\ step = "pushing" /\ held \in Sent /\ channel \in Seq(Sent)
        /\ channel' = Append(channel, held) /\ Len(channel) < ChannelCapacity
    BY <1>11 DEF PassPush, Shapes
  <2>2. channel' \in Seq(Sent) /\ Len(channel') <= ChannelCapacity
    BY <2>1, AppendElems, LimitsAssumption
  <2>3. QED
    BY <1>11, <2>1, <2>2 DEF PassPush, Shapes, InExchange
<1>12. CASE HandleAutoFrame
  <2> DEFINE f == Head(channel)
  <2>1. channel # <<>> /\ channel \in Seq(Sent) /\ channel' = Tail(channel)
    BY <1>12 DEF HandleAutoFrame, Shapes
  <2>2. f \in Sent /\ channel' \in Seq(Sent) /\ Len(channel') <= ChannelCapacity
    BY <2>1, TailElems, LimitsAssumption DEF Shapes
  <2>3. f.value \in Values /\ (f.kind = "refused" => f.of \in Serials)
    BY <2>2 DEF Sent, Frames
  <2>4. cache' \in Values /\ overtaken' \in BOOLEAN /\ announced' \subseteq Serials
    BY <1>12, <2>3 DEF HandleAutoFrame, Shapes
  <2>5. QED
    BY <1>12, <2>2, <2>4 DEF HandleAutoFrame, Shapes, InExchange
<1>13. CASE UNCHANGED vars
  BY <1>13 DEF vars, Shapes, InExchange, Elems
<1>14. QED
  BY <1>1, <1>2, <1>3, <1>4, <1>5, <1>6, <1>7, <1>8, <1>9, <1>10, <1>11, <1>12, <1>13 DEF Next

-----------------------------------------------------------------------------
(* Queued. *)

\* Serials are positive, and the queue holds requests of clients.
LEMMA QueueTyped ==
    ASSUME Shapes, NEW r \in Elems(queue)
    PROVE  r \in Asked /\ r.by \in Clients /\ r.by # Worker /\ r.serial \in Serials
<1>1. r \in Asked
  BY ElemsTyped DEF Shapes
<1>2. QED
  BY <1>1, NoneIsNone DEF Shapes, Asked, Requests

\* The end of an exchange leaves the queue alone and hands its request to last.
LEMMA ExchangeSteps ==
    ASSUME Shapes, ReadFrame \/ Forward \/ ReadTimeout
    PROVE  /\ UNCHANGED <<queue, serials>>
           /\ serving' \in {serving, NoRequest}
           /\ last'.request \in {last.request, serving}
           /\ \A c \in Clients : answer'[c] # answer[c] => serving' = NoRequest /\ c = serving.by
  BY DEF ReadFrame, Forward, ReadTimeout, Read, Deliver, clients, history

\* Every step keeps the requests apart.
LEMMA QueuedKept == Shapes /\ Queued /\ [Next]_vars => Queued'
<1> SUFFICES ASSUME Shapes, Queued, [Next]_vars PROVE Queued'
  OBVIOUS
<1>0. /\ \A r \in Elems(queue) : r \in Asked /\ r.by \in Clients /\ r.by # Worker /\ r.serial \in Serials
      /\ queue \in Seq(Asked) /\ serials \in Nat /\ Apart(queue)
      /\ serving.serial \in Nat /\ last.request.serial \in Nat
  <2>1. serials \in Nat /\ queue \in Seq(Asked) /\ serving.serial \in Nat /\ last.request.serial \in Nat
    BY LimitsAssumption, NoneIsNone DEF Shapes, Asked, Requests, Serials
  <2>2. QED
    BY <2>1, QueueTyped DEF Queued
<1>1. ASSUME NEW c \in Clients, NEW command \in Commands, Ask(c, command) PROVE Queued'
  <2> DEFINE r == [command |-> command, serial |-> serials + 1, by |-> c]
  <2>1. /\ queue' = Append(queue, r) /\ serials' = serials + 1 /\ serials + 1 \in Serials
        /\ serving' = serving /\ last' = last /\ serving.by # c
        /\ \A i \in 1..Len(queue) : queue[i].by # c
    BY <1>1, <1>0, LimitsAssumption DEF Ask, worker, history, Serials
  <2>2. r \in Asked /\ r.by = c /\ r.serial = serials + 1
    BY <2>1 DEF Asked, Requests
  <2> HIDE DEF r
  <2>3. /\ \A q \in Elems(queue) : q.by # r.by /\ q.serial # r.serial
    BY <1>0, <2>1, <2>2, SMTT(30) DEF Elems, Queued, Serials
  <2>4. Apart(queue') /\ Elems(queue') = Elems(queue) \cup {r}
    BY <1>0, <2>1, <2>2, <2>3, AppendApart, AppendElems
  <2>5. r.serial # serving.serial /\ r.serial # last.request.serial
    BY <1>0, <2>2 DEF Queued
  <2>6. \A q \in Elems(queue') : q.serial # serving.serial /\ q.by # serving.by
    BY <2>1, <2>2, <2>4, <2>5 DEF Queued
  <2>7. \A q \in Elems(queue') \cup {serving, last.request} : q.serial <= serials + 1
    BY <1>0, <2>2, <2>4 DEF Queued, Serials
  <2>8. answer' = answer /\ answer[c] = NoAnswer
    BY <1>1 DEF Ask
  <2>9. QED
    BY <2>1, <2>2, <2>4, <2>6, <2>7, <2>8 DEF Queued
<1>2. CASE TakeRequest
  <2>1. /\ queue # <<>> /\ queue' = Tail(queue) /\ UNCHANGED <<serials, last, answer>>
        /\ serving' = Head(queue) \/ serving' = serving
    BY <1>2 DEF TakeRequest, Write
  <2>2. /\ Elems(queue) = {Head(queue)} \cup Elems(queue') /\ Apart(queue')
        /\ \A r \in Elems(queue') : r.by # Head(queue).by /\ r.serial # Head(queue).serial
    BY <1>0, <2>1, TailElems, TailApart
  <2>3. QED
    BY <2>1, <2>2 DEF Queued
<1>3. CASE Tick
  <2>1. UNCHANGED <<queue, last, answer>>
    BY <1>3 DEF Tick
  <2>2. CASE UNCHANGED <<serials, serving>>
    BY <2>1, <2>2 DEF Queued, Elems
  <2>3. CASE /\ serials' = serials + 1
             /\ serving' = [command |-> "ping", serial |-> serials + 1, by |-> Worker]
    <3>1. /\ serving'.serial = serials + 1 /\ serving'.by = Worker /\ Elems(queue') = Elems(queue)
          /\ Worker \notin Clients
      BY <2>1, <2>3, NamesAssumption
    <3>2. QED
      BY <1>0, <2>1, <2>3, <3>1 DEF Queued, Serials
  <2>4. CASE serials' = serials + 1 /\ serving' = serving
    BY <1>0, <2>1, <2>4 DEF Queued, Serials
  <2>5. QED
    BY <1>3, <2>2, <2>3, <2>4 DEF Tick, Write
<1>4. CASE ReadFrame \/ Forward \/ ReadTimeout
  <2>1. /\ UNCHANGED <<queue, serials>>
        /\ serving' \in {serving, NoRequest} /\ last'.request \in {last.request, serving}
        /\ \A c \in Clients : answer'[c] # answer[c] => serving' = NoRequest /\ c = serving.by
    BY <1>4, ExchangeSteps
  <2>2. 0 \notin Serials
    BY DEF Serials
  <2>3. QED
    BY <1>0, <2>1, <2>2, NoneIsNone DEF Queued
<1>5. ASSUME NEW c \in Clients, ApplyAnswer(c) PROVE Queued'
  <2>1. /\ UNCHANGED <<queue, serving, last, serials>>
        /\ \A d \in Clients : answer'[d] = answer[d] \/ answer'[d] = NoAnswer
    BY <1>5 DEF ApplyAnswer, worker, Shapes
  <2>2. QED
    BY <2>1 DEF Queued
<1>6. CASE UNCHANGED <<queue, serving, last, serials, answer>>
  BY <1>6 DEF Queued
<1>7. QED
  BY <1>1, <1>2, <1>3, <1>4, <1>5, <1>6
     DEF Next, vars, Change, PanelHandles, ReceivePush, PassPush, HandleAutoFrame,
         worker, clients, history

-----------------------------------------------------------------------------
(* Carried. *)

\* A version is carried by a frame or by an answer.
LEMMA VersionsAre ==
    \A v : v \in Versions <=>
        \/ \E f \in Elems(from_panel) \cup Elems(channel) \cup {held} : f.kind = "read" /\ f.value = v
        \/ \E c \in Clients : answer[c] = v /\ v # NoAnswer
  BY DEF Versions

\* Whatever is carried is a version of the panel's state.
LEMMA VersionsTyped == Shapes => Versions \subseteq Values
<1> SUFFICES ASSUME Shapes PROVE Versions \subseteq Values
  OBVIOUS
<1>1. \A f \in Elems(from_panel) \cup Elems(channel) : f \in Sent
  BY ElemsTyped DEF Shapes
<1>2. held \in Sent \/ held.kind # "read"
  BY NoneIsNone DEF Shapes
<1>3. \A f \in Sent : f.value \in Values
  BY DEF Sent, Frames
<1>4. \A c \in Clients : answer[c] # NoAnswer => answer[c] \in Values
  BY DEF Shapes
<1>5. \A f \in Elems(from_panel) \cup Elems(channel) \cup {held} : f.kind = "read" => f.value \in Values
  BY <1>1, <1>2, <1>3
<1>6. QED
  BY <1>4, <1>5, VersionsAre

\* Versions move on, or are dropped with a cancelled branch.
LEMMA CarriedMoves ==
    ASSUME Carried, UNCHANGED <<value, cache>>,
           Versions' \subseteq Versions,
           ~lost' => ~lost /\ Versions \subseteq Versions',
           ~overtaken' => ~overtaken
    PROVE  Carried'
  BY DEF Carried

\* A version is applied: an older one over a newer is an overtaking.
LEMMA CarriedApplied ==
    ASSUME Shapes, Carried, NEW v \in Versions, cache' = v,
           UNCHANGED <<value, lost>>,
           Versions' \subseteq Versions, Versions \subseteq Versions' \cup {v},
           overtaken' = (overtaken \/ v < cache)
    PROVE  Carried'
<1>1. v \in Nat /\ cache \in Nat /\ value \in Nat /\ overtaken \in BOOLEAN
  BY VersionsTyped, LimitsAssumption DEF Shapes, Values
<1>2. v <= value /\ \A w \in Versions' : w <= value
  BY DEF Carried
<1>3. ASSUME ~lost', ~overtaken' PROVE v = value \/ value \in Versions'
  <2>1. ~overtaken /\ ~(v < cache) /\ ~lost
    BY <1>3, Zenon
  <2>2. cache = value \/ value \in Versions
    BY <2>1 DEF Carried
  <2>3. QED
    BY <1>1, <1>2, <2>1, <2>2
<1>4. QED
  BY <1>2, <1>3 DEF Carried

\* A frame that is judged is given to its asker, who had nothing to apply, or it was
\* none that is applied.
LEMMA ReadVersions ==
    ASSUME Shapes, Queued, InExchange, NEW f \in Sent, Read(f)
    PROVE  /\ \A c \in Clients : answer'[c] # answer[c] =>
                  f.kind = "read" /\ answer'[c] = f.value /\ answer[c] = NoAnswer
           /\ f.kind = "read" /\ f.kind \in Expected(serving) =>
                  \E c \in Clients : answer'[c] = f.value /\ f.value # NoAnswer
<1>1. serving \in Asked /\ answer \in [Clients -> Values \cup {NoAnswer}] /\ f.value # NoAnswer
  BY NoneIsNone DEF Shapes, Sent, Frames
<1>2. serving.by \in Clients => answer[serving.by] = NoAnswer
  BY DEF Queued
<1>3. \A c \in Clients : answer'[c] # answer[c] =>
          f.kind = "read" /\ answer'[c] = f.value /\ answer[c] = NoAnswer
  BY <1>1, <1>2 DEF Read, Deliver
<1>4. ASSUME f.kind = "read", f.kind \in Expected(serving)
      PROVE \E c \in Clients : answer'[c] = f.value /\ f.value # NoAnswer
  <2>1. serving.command = "read"
    BY <1>1, <1>4, NamesAssumption DEF Expected, Asked, Requests, ClientCommands
  <2>2. serving.by \in Clients /\ IsTarget(f, serving)
    BY <1>1, <1>4, <2>1 DEF Asked, IsTarget
  <2>3. QED
    BY <1>1, <1>4, <2>1, <2>2 DEF Read, Deliver
<1>5. QED
  BY <1>3, <1>4

\* Every step keeps the newest version on its way.
LEMMA CarriedKept == Shapes /\ Queued /\ Carried /\ [Next]_vars => Carried'
<1> SUFFICES ASSUME Shapes, Queued, Carried, [Next]_vars PROVE Carried'
  OBVIOUS
<1> USE DEF panel, worker, clients, history
<1>1. CASE Change
  <2> DEFINE f == [kind |-> "read", of |-> 0, value |-> value + 1]
  <2>1. /\ value' = value + 1 /\ from_panel' = Append(from_panel, f)
        /\ UNCHANGED <<held, channel, answer, cache, lost, overtaken>>
    BY <1>1 DEF Change
  <2>2. value \in Nat /\ cache \in Nat /\ value + 1 \in Values
    BY <1>1, LimitsAssumption DEF Change, Shapes, Values
  <2>3. f \in Sent /\ f.kind = "read" /\ f.value = value + 1
    BY <2>2 DEF Sent, Frames
  <2> HIDE DEF f
  <2>4. Elems(from_panel') = Elems(from_panel) \cup {f}
    BY <2>1, <2>3, AppendElems DEF Shapes
  <2>5. Versions' = Versions \cup {value + 1}
    BY <2>1, <2>3, <2>4 DEF Versions
  <2>6. \A v \in Versions : v \in Nat
    BY VersionsTyped, LimitsAssumption DEF Values
  <2>7. QED
    BY <2>1, <2>2, <2>5, <2>6 DEF Carried
<1>2. CASE PanelHandles
  <2>1. UNCHANGED <<value, held, channel, answer, cache, lost, overtaken>>
    BY <1>2 DEF PanelHandles
  <2>2. CASE UNCHANGED from_panel
    BY <2>1, <2>2, CarriedMoves DEF Versions
  <2>3. ASSUME NEW f \in Answers(Head(to_panel)), from_panel' = Append(from_panel, f)
        PROVE  Carried'
    <3>1. f \in Sent /\ f.value = value
      BY <1>2, TailElems, AnswersShape DEF PanelHandles, Shapes
    <3>2. Elems(from_panel') = Elems(from_panel) \cup {f}
      BY <2>3, <3>1, AppendElems DEF Shapes
    <3>3. Versions \subseteq Versions' /\ Versions' \subseteq Versions \cup {value}
      BY <2>1, <3>1, <3>2 DEF Versions
    <3>4. value \in Nat
      BY LimitsAssumption DEF Shapes, Values
    <3>5. QED
      BY <2>1, <3>3, <3>4 DEF Carried
  <2>4. QED
    BY <1>2, <2>2, <2>3 DEF PanelHandles
<1>3. ASSUME NEW c \in Clients, ApplyAnswer(c) PROVE Carried'
  <2>1. /\ answer[c] \in Versions /\ cache' = answer[c]
        /\ overtaken' = (overtaken \/ answer[c] < cache)
        /\ UNCHANGED <<value, lost, from_panel, channel, held>>
        /\ answer' = [answer EXCEPT ![c] = NoAnswer]
    BY <1>3, VersionsAre DEF ApplyAnswer
  <2>2. /\ \A d \in Clients \ {c} : answer'[d] = answer[d]
        /\ answer'[c] = NoAnswer
    BY <2>1 DEF Shapes
  <2>3. Versions' \subseteq Versions /\ Versions \subseteq Versions' \cup {answer[c]}
    BY <2>1, <2>2 DEF Versions
  <2>4. QED
    BY <2>1, <2>3, CarriedApplied
<1>4. CASE TakeRequest \/ Tick
  <2>1. /\ UNCHANGED <<value, from_panel, channel, answer, cache, overtaken>>
        /\ held' = NoFrame /\ lost' = (lost \/ step = "pushing")
        /\ step \in {"idle", "pushing"}
    BY <1>4 DEF TakeRequest, Tick, LeaveSelect
  <2>2. Versions' \subseteq Versions
    BY <2>1, NoneIsNone DEF Versions
  <2>3. ~lost' => ~lost /\ held = NoFrame
    BY <2>1 DEF Shapes
  <2>4. ~lost' => ~lost /\ Versions \subseteq Versions'
    BY <2>1, <2>3 DEF Versions
  <2>5. QED
    BY <2>1, <2>2, <2>4, CarriedMoves
<1>5. CASE ReadFrame
  <2> DEFINE f == Head(from_panel)
  <2>1. /\ UNCHANGED <<value, cache, lost, overtaken, channel>>
        /\ step = "reading" /\ InExchange /\ held = NoFrame
        /\ from_panel # <<>> /\ from_panel' = Tail(from_panel) /\ from_panel \in Seq(Sent)
    BY <1>5 DEF ReadFrame, Shapes, InExchange
  <2>2. f \in Sent /\ Elems(from_panel) = {f} \cup Elems(from_panel')
    BY <2>1, TailElems
  <2>3. \/ ~IsForwarded(f, serving) /\ Read(f) /\ UNCHANGED held
        \/ held' = f /\ UNCHANGED answer
    BY <1>5 DEF ReadFrame
  <2> HIDE DEF f
  <2>4. CASE held' = f /\ UNCHANGED answer
    <3>1. Versions' = Versions
      BY <2>1, <2>2, <2>4, NoneIsNone DEF Versions
    <3>2. QED
      BY <2>1, <3>1, CarriedMoves
  <2>5. CASE ~IsForwarded(f, serving) /\ Read(f) /\ UNCHANGED held
    <3>1. /\ \A c \in Clients : answer'[c] # answer[c] =>
                 f.kind = "read" /\ answer'[c] = f.value /\ answer[c] = NoAnswer
          /\ f.kind = "read" /\ f.kind \in Expected(serving) =>
                 \E c \in Clients : answer'[c] = f.value /\ f.value # NoAnswer
      BY <2>1, <2>2, <2>5, ReadVersions
    <3>2. f.kind = "read" => f.kind \in Expected(serving)
      BY <2>5 DEF IsForwarded, IsResult
    <3>3. Versions' \subseteq Versions
      BY <2>1, <2>2, <2>5, <3>1 DEF Versions
    <3>4. Versions \subseteq Versions'
      BY <2>1, <2>2, <2>5, <3>1, <3>2 DEF Versions
    <3>5. QED
      BY <2>1, <3>3, <3>4, CarriedMoves
  <2>6. QED
    BY <2>3, <2>4, <2>5
<1>6. CASE Forward
  <2>1. /\ UNCHANGED <<value, cache, lost, overtaken, from_panel>>
        /\ InExchange /\ held \in Sent /\ held' = NoFrame /\ Read(held)
        /\ channel' = Append(channel, held) /\ channel \in Seq(Sent)
    BY <1>6 DEF Forward, Shapes, InExchange
  <2>2. Elems(channel') = Elems(channel) \cup {held}
    BY <2>1, AppendElems
  <2>3. \A c \in Clients : answer'[c] # answer[c] =>
            held.kind = "read" /\ answer'[c] = held.value /\ answer[c] = NoAnswer
    BY <2>1, ReadVersions
  <2>4. Versions' \subseteq Versions /\ Versions \subseteq Versions'
    BY <2>1, <2>2, <2>3, NoneIsNone DEF Versions
  <2>5. QED
    BY <2>1, <2>4, CarriedMoves
<1>7. CASE ReceivePush
  <2> DEFINE f == Head(from_panel)
  <2>1. /\ UNCHANGED <<value, cache, lost, overtaken, answer>>
        /\ from_panel # <<>> /\ from_panel' = Tail(from_panel) /\ from_panel \in Seq(Sent)
        /\ held = NoFrame /\ channel \in Seq(Sent)
    BY <1>7 DEF ReceivePush, Shapes
  <2>2. f \in Sent /\ Elems(from_panel) = {f} \cup Elems(from_panel')
    BY <2>1, TailElems
  <2>3. Elems(Append(channel, f)) = Elems(channel) \cup {f}
    BY <2>1, <2>2, AppendElems
  <2>4. \/ f.kind = "accepted" /\ UNCHANGED <<held, channel>>
        \/ channel' = Append(channel, f) /\ UNCHANGED held
        \/ held' = f /\ UNCHANGED channel
    BY <1>7 DEF ReceivePush
  <2> HIDE DEF f
  <2>5. Elems(channel') \cup {held'} \cup Elems(from_panel') \cup {f}
            = Elems(channel) \cup {held'} \cup Elems(from_panel)
        /\ (f.kind = "read" => f \in Elems(channel') \cup {held'})
        /\ (held' \in {NoFrame, f})
    BY <2>1, <2>2, <2>3, <2>4
  <2>6. Versions' \subseteq Versions /\ Versions \subseteq Versions'
    BY <2>1, <2>2, <2>5, NoneIsNone DEF Versions
  <2>7. QED
    BY <2>1, <2>6, CarriedMoves
<1>8. CASE PassPush
  <2>1. /\ UNCHANGED <<value, cache, lost, overtaken, answer, from_panel>>
        /\ held \in Sent /\ held' = NoFrame
        /\ channel' = Append(channel, held) /\ channel \in Seq(Sent)
    BY <1>8 DEF PassPush, Shapes
  <2>2. Elems(channel') = Elems(channel) \cup {held}
    BY <2>1, AppendElems
  <2>3. Versions' = Versions
    BY <2>1, <2>2, NoneIsNone DEF Versions
  <2>4. QED
    BY <2>1, <2>3, CarriedMoves
<1>9. CASE HandleAutoFrame
  <2> DEFINE f == Head(channel)
  <2>1. /\ UNCHANGED <<value, lost, answer, from_panel, held>>
        /\ channel # <<>> /\ channel' = Tail(channel) /\ channel \in Seq(Sent)
        /\ cache' = IF f.kind = "read" THEN f.value ELSE cache
        /\ overtaken' = (overtaken \/ cache' < cache)
    BY <1>9 DEF HandleAutoFrame, Shapes
  <2>2. Elems(channel) = {f} \cup Elems(channel')
    BY <2>1, TailElems
  <2> HIDE DEF f
  <2>3. CASE f.kind = "read"
    <3>1. f.value \in Versions /\ Versions' \subseteq Versions /\ Versions \subseteq Versions' \cup {f.value}
      BY <2>1, <2>2, <2>3 DEF Versions
    <3>2. QED
      BY <2>1, <2>3, <3>1, CarriedApplied
  <2>4. CASE f.kind # "read"
    <3>1. Versions' = Versions
      BY <2>1, <2>2, <2>4 DEF Versions
    <3>2. overtaken' = overtaken /\ cache' = cache
      BY <2>1, <2>4, LimitsAssumption DEF Shapes, Values
    <3>3. QED
      BY <2>1, <3>1, <3>2, CarriedMoves
  <2>5. QED
    BY <2>3, <2>4
<1>10. CASE UNCHANGED <<value, cache, lost, overtaken, answer, from_panel, held, channel>>
  BY <1>10, CarriedMoves DEF Versions
<1>11. QED
  BY <1>1, <1>2, <1>3, <1>4, <1>5, <1>6, <1>7, <1>8, <1>9, <1>10
     DEF Next, vars, Ask, ReadTimeout

-----------------------------------------------------------------------------
(* Aligned. *)

\* No odd command and no odd frame is under way.
Clear == /\ Elems(to_panel) \cap OddCommands = {}
         /\ Unread \cap OddFrames = {}

\* A clear line is aligned, whatever is served.
LEMMA ClearIsAligned ==
    ASSUME Clear, outbox = <<>>, step = "pushing" => held \notin OddFrames, LastIsAligned
    PROVE  Aligned
  BY DEF Clear, Aligned, AtMostOne, Unread, Elems

\* Between exchanges, and while a read is served, the line is clear.
LEMMA AlignedIsClear ==
    ASSUME Aligned, ~InExchange \/ serving.command = "read"
    PROVE  Clear
  BY DEF Aligned, Clear, Answering, OddCommands

\* A frame that is not a read is the last odd thing under way.
LEMMA OddIsLast ==
    ASSUME Shapes, Aligned, from_panel # <<>>, Head(from_panel) \in OddFrames
    PROVE  /\ Elems(to_panel) \cap OddCommands = {}
           /\ Elems(Tail(from_panel)) \cap OddFrames = {}
           /\ InExchange /\ Answering(Head(from_panel), serving)
<1>1. from_panel \in Seq(Sent)
  BY DEF Shapes
<1>2. Head(from_panel) \in Elems(from_panel)
  BY <1>1, TailElems
<1>3. Head(from_panel) \in Unread \cap OddFrames
  BY <1>2 DEF Unread
<1>4. QED
  BY <1>1, <1>3, TailOnce DEF Aligned

\* A frame that ends an exchange is a read that was asked for, or odd.
LEMMA TargetIsAligned ==
    ASSUME Shapes, InExchange, NEW f \in Sent, Read(f), LastIsAligned,
           f \in OddFrames => Answering(f, serving)
    PROVE  /\ LastIsAligned'
           /\ step' = "idle" => f \in OddFrames \/ serving.command = "read"
<1>1. serving \in Asked /\ f \in Frames
  BY DEF Shapes, Sent
<1>2. f.kind = "read" \/ f \in OddFrames
  BY <1>1 DEF OddFrames
<1>3. f.kind = "read" /\ IsTarget(f, serving) => serving.command = "read"
  BY <1>1 DEF IsTarget, IsResult, Expected
<1>4. CASE IsTarget(f, serving) /\ last' = [request |-> serving, frame |-> f]
  BY <1>2, <1>3, <1>4 DEF LastIsAligned, Answering
<1>5. CASE step' = "reading" /\ last' = last
  BY <1>5 DEF LastIsAligned
<1>6. QED
  BY <1>2, <1>3, <1>4, <1>5 DEF Read, Deliver

\* The initial state is aligned.
LEMMA InitAligned == Init => Aligned
<1> SUFFICES ASSUME Init PROVE Aligned
  OBVIOUS
<1>1. Clear /\ outbox = <<>>
  BY EmptyElems DEF Init, Clear, Unread
<1>2. LastIsAligned
  BY DEF Init, LastIsAligned, NoRequest, NoFrame
<1>3. QED
  BY <1>1, <1>2, ClearIsAligned DEF Init

\* A request is written when the line is clear.
LEMMA WriteAligned ==
    ASSUME Shapes, Aligned, ~InExchange, NEW r \in Asked, Write(r), ~late',
           UNCHANGED <<from_panel, last>>, held' = NoFrame
    PROVE  Aligned'
<1>1. /\ to_panel' = Append(to_panel \o outbox, r) /\ outbox' = <<>> /\ outbox = <<>>
      /\ step' = "reading" /\ serving' = r /\ to_panel \in Seq(Asked)
  BY DEF Write, Aligned, Shapes
<1>2. to_panel' = Append(to_panel, r)
  BY <1>1
<1>3. Elems(to_panel') = Elems(to_panel) \cup {r}
  BY <1>1, <1>2, AppendElems
<1>4. Elems(to_panel) \cap OddCommands = {} /\ Unread \cap OddFrames = {}
  BY AlignedIsClear DEF Clear
<1>5. Unread' \cap OddFrames = {} /\ AtMostOne(from_panel', OddFrames) /\ LastIsAligned'
  BY <1>1, <1>4 DEF Unread, Aligned, LastIsAligned
<1>6. AtMostOne(to_panel', OddCommands)
  BY <1>1, <1>2, <1>4, AppendOnce DEF Aligned
<1>7. QED
  BY <1>1, <1>3, <1>4, <1>5, <1>6 DEF Aligned, InExchange

\* Every step but a timeout keeps the line aligned.
LEMMA AlignedKept == Shapes /\ (~late => Aligned) /\ [Next]_vars => (~late' => Aligned')
<1> SUFFICES ASSUME Shapes, ~late => Aligned, [Next]_vars, ~late' PROVE Aligned'
  OBVIOUS
<1> USE DEF panel, worker, clients, history
<1>0. ~late
  BY Zenon DEF Next, vars, Change, PanelHandles, Ask, ApplyAnswer, TakeRequest, Tick, Write,
     ReadFrame, Forward, ReadTimeout, ReceivePush, PassPush, HandleAutoFrame
<1>H. Aligned
  BY <1>0
<1>1. CASE Change
  <2> DEFINE f == [kind |-> "read", of |-> 0, value |-> value + 1]
  <2>1. /\ from_panel' = Append(from_panel, f) /\ from_panel \in Seq(Sent)
        /\ UNCHANGED <<to_panel, outbox, step, serving, held, last>>
    BY <1>1 DEF Change, Shapes
  <2>2. f \in Sent /\ f \notin OddFrames
    BY <1>1, LimitsAssumption DEF Change, Shapes, Values, Sent, Frames, OddFrames
  <2> HIDE DEF f
  <2>3. Elems(from_panel') = Elems(from_panel) \cup {f} /\ AtMostOne(from_panel', OddFrames)
    BY <1>H, <2>1, <2>2, AppendElems, AppendOnce DEF Aligned
  <2>4. Unread' \cap OddFrames = Unread \cap OddFrames
    BY <2>1, <2>2, <2>3 DEF Unread
  <2>5. QED
    BY <1>H, <2>1, <2>2, <2>3, <2>4 DEF Aligned, InExchange, LastIsAligned
<1>2. CASE PanelHandles
  <2> DEFINE r == Head(to_panel)
  <2>1. /\ to_panel # <<>> /\ to_panel' = Tail(to_panel) /\ to_panel \in Seq(Asked)
        /\ from_panel \in Seq(Sent)
        /\ UNCHANGED <<outbox, step, serving, held, last>>
    BY <1>2 DEF PanelHandles, Shapes
  <2>2. /\ r \in Asked /\ Elems(to_panel) = {r} \cup Elems(to_panel')
        /\ AtMostOne(to_panel', OddCommands)
        /\ r \in OddCommands => Elems(to_panel') \cap OddCommands = {}
    BY <1>H, <2>1, TailElems, TailOnce DEF Aligned
  <2>3. CASE UNCHANGED from_panel
    BY <1>H, <2>1, <2>2, <2>3 DEF Aligned, InExchange, LastIsAligned, Unread
  <2>4. ASSUME NEW f \in Answers(r), from_panel' = Append(from_panel, f)
        PROVE  Aligned'
    <3>1. /\ f \in Sent /\ f.of = r.serial /\ (f.kind = "read" <=> r.command = "read")
          /\ f.kind = "refused" => r.command \in {"name", "control"}
      BY <2>2, <2>4, AnswersShape DEF Shapes
    <3>2. /\ f \in OddFrames <=> r \in OddCommands
          /\ f \in OddFrames => Answering(f, r)
      BY <2>2, <3>1 DEF OddFrames, OddCommands, Asked, Sent, Answering
    <3> HIDE DEF r
    <3>3. f \in OddFrames => InExchange /\ r = serving /\ Unread \cap OddFrames = {}
      BY <1>H, <2>2, <3>2 DEF Aligned
    <3>4. /\ Elems(from_panel') = Elems(from_panel) \cup {f}
          /\ AtMostOne(from_panel', OddFrames)
      <4>1. f \in OddFrames => Elems(from_panel) \cap OddFrames = {}
        BY <3>3 DEF Unread
      <4>2. QED
        BY <1>H, <2>1, <2>4, <3>1, <4>1, AppendElems, AppendOnce DEF Aligned
    <3>5. Unread' = Unread \cup {f}
      BY <2>1, <3>4 DEF Unread
    <3>6. \A g \in Unread' \cap OddFrames : InExchange' /\ Answering(g, serving')
      BY <1>H, <2>1, <3>2, <3>3, <3>5 DEF Aligned, InExchange
    <3>7. Unread' \cap OddFrames # {} => Elems(to_panel') \cap OddCommands = {}
      BY <1>H, <2>2, <3>2, <3>5 DEF Aligned
    <3>8. step' = "forwarding" /\ held' \in OddFrames => Elems(from_panel') \cap OddFrames = {}
      BY <1>H, <2>1, <3>3, <3>4 DEF Aligned, Unread
    <3>9. QED
      BY <1>H, <2>1, <2>2, <3>4, <3>6, <3>7, <3>8 DEF Aligned, InExchange, LastIsAligned
  <2>5. QED
    BY <1>2, <2>3, <2>4 DEF PanelHandles
<1>3. CASE TakeRequest
  <2>1. /\ ~InExchange /\ Write(Head(queue)) /\ held' = NoFrame /\ UNCHANGED <<from_panel, last>>
        /\ queue # <<>> /\ queue \in Seq(Asked)
    BY <1>3 DEF TakeRequest, LeaveSelect, InExchange, Shapes
  <2>2. Head(queue) \in Asked
    BY <2>1, TailElems
  <2>3. QED
    BY <1>H, <2>1, <2>2, WriteAligned
<1>4. CASE Tick
  <2> DEFINE r == [command |-> "ping", serial |-> serials + 1, by |-> Worker]
  <2>1. ~InExchange /\ held' = NoFrame /\ UNCHANGED <<from_panel, last>>
    BY <1>4 DEF Tick, LeaveSelect, InExchange
  <2>2. CASE step' = "idle" /\ UNCHANGED <<outbox, to_panel>>
    <3>1. Clear' /\ outbox' = <<>> /\ LastIsAligned'
      BY <1>H, <2>1, <2>2, AlignedIsClear DEF Clear, Unread, Aligned, LastIsAligned
    <3>2. QED
      BY <2>2, <3>1, ClearIsAligned DEF Clear, Aligned, AtMostOne, Unread, Elems
  <2>3. CASE serials < MaxRequests /\ Write(r)
    <3>1. r \in Asked
      BY <2>3, LimitsAssumption DEF Shapes, Asked, Requests, Serials
    <3>2. QED
      BY <1>H, <2>1, <2>3, <3>1, WriteAligned
  <2>4. QED
    BY <1>4, <2>2, <2>3 DEF Tick
<1>5. CASE ReadFrame
  <2> DEFINE f == Head(from_panel)
  <2>1. /\ from_panel # <<>> /\ from_panel' = Tail(from_panel) /\ from_panel \in Seq(Sent)
        /\ step = "reading" /\ InExchange
        /\ UNCHANGED <<to_panel, outbox>>
    BY <1>5 DEF ReadFrame, Shapes, InExchange
  <2>2. /\ f \in Sent /\ Elems(from_panel) = {f} \cup Elems(from_panel')
        /\ AtMostOne(from_panel', OddFrames)
    BY <1>H, <2>1, TailElems, TailOnce DEF Aligned
  <2>3. f \in OddFrames => /\ Elems(to_panel) \cap OddCommands = {}
                           /\ Elems(from_panel') \cap OddFrames = {}
                           /\ Answering(f, serving)
    BY <1>H, <2>1, OddIsLast
  <2>4. \/ Read(f) /\ UNCHANGED held
        \/ step' = "forwarding" /\ held' = f /\ UNCHANGED <<serving, last>>
    BY <1>5 DEF ReadFrame
  <2> HIDE DEF f
  <2>5. CASE Read(f)
    <3>1. /\ LastIsAligned'
          /\ step' = "idle" => f \in OddFrames \/ serving.command = "read"
      BY <1>H, <2>1, <2>2, <2>3, <2>5, TargetIsAligned DEF Aligned
    <3>2. CASE step' = "idle"
      <4>1. Elems(to_panel) \cap OddCommands = {} /\ Elems(from_panel') \cap OddFrames = {}
        BY <1>H, <2>2, <2>3, <3>1, <3>2, AlignedIsClear DEF Clear, Unread
      <4>2. QED
        BY <1>H, <2>1, <2>2, <3>1, <3>2, <4>1 DEF Aligned, Unread
    <3>3. CASE step' = "reading" /\ serving' = serving
      BY <1>H, <2>1, <2>2, <3>1, <3>3 DEF Aligned, Unread, InExchange
    <3>4. QED
      BY <2>5, <3>2, <3>3 DEF Read
  <2>6. CASE step' = "forwarding" /\ held' = f /\ UNCHANGED <<serving, last>>
    <3>1. Unread' = Unread
      BY <2>1, <2>2, <2>6 DEF Unread
    <3>2. QED
      BY <1>H, <2>1, <2>2, <2>3, <2>6, <3>1 DEF Aligned, InExchange, LastIsAligned
  <2>7. QED
    BY <2>4, <2>5, <2>6
<1>6. CASE Forward
  <2>1. /\ step = "forwarding" /\ InExchange /\ held \in Sent /\ Read(held)
        /\ UNCHANGED <<to_panel, from_panel, outbox>>
    BY <1>6 DEF Forward, Shapes, InExchange
  <2>2. held \in OddFrames => /\ Elems(to_panel) \cap OddCommands = {}
                              /\ Elems(from_panel) \cap OddFrames = {}
                              /\ Answering(held, serving)
    BY <1>H, <2>1 DEF Aligned, Unread
  <2>3. /\ LastIsAligned'
        /\ step' = "idle" => held \in OddFrames \/ serving.command = "read"
    BY <1>H, <2>1, <2>2, TargetIsAligned DEF Aligned
  <2>4. CASE step' = "idle"
    <3>1. Elems(to_panel) \cap OddCommands = {} /\ Elems(from_panel) \cap OddFrames = {}
      BY <1>H, <2>2, <2>3, <2>4, AlignedIsClear DEF Clear, Unread
    <3>2. QED
      BY <1>H, <2>1, <2>3, <2>4, <3>1 DEF Aligned, Unread
  <2>5. CASE step' = "reading" /\ serving' = serving
    BY <1>H, <2>1, <2>3, <2>5 DEF Aligned, Unread, InExchange
  <2>6. QED
    BY <2>1, <2>4, <2>5 DEF Read
<1>7. CASE ReceivePush
  <2> DEFINE f == Head(from_panel)
  <2>1. /\ from_panel # <<>> /\ from_panel' = Tail(from_panel) /\ from_panel \in Seq(Sent)
        /\ step = "idle" /\ ~InExchange /\ UNCHANGED <<to_panel, outbox, last>>
        /\ \/ step' = "idle"
           \/ step' = "pushing" /\ held' = f
    BY <1>7 DEF ReceivePush, Shapes, InExchange
  <2>2. Elems(from_panel) = {f} \cup Elems(from_panel') /\ AtMostOne(from_panel', OddFrames)
    BY <1>H, <2>1, TailElems, TailOnce DEF Aligned
  <2>3. Clear
    BY <1>H, <2>1, AlignedIsClear
  <2>4. /\ Elems(to_panel') \cap OddCommands = {} /\ Unread' \cap OddFrames = {}
        /\ f \notin OddFrames
    BY <2>1, <2>2, <2>3 DEF Clear, Unread
  <2> HIDE DEF f
  <2>5. QED
    BY <1>H, <2>1, <2>2, <2>4 DEF Aligned, LastIsAligned
<1>8. CASE PassPush
  <2>1. step = "pushing" /\ step' = "idle" /\ UNCHANGED <<to_panel, from_panel, outbox, serving, last>>
    BY <1>8 DEF PassPush
  <2>2. QED
    BY <1>H, <2>1 DEF Aligned, Unread, InExchange, LastIsAligned
<1>9. CASE UNCHANGED <<to_panel, from_panel, outbox, step, serving, held, last>>
  BY <1>H, <1>9 DEF Aligned, Unread, InExchange, LastIsAligned
<1>10. CASE ReadTimeout
  BY <1>10 DEF ReadTimeout
<1>11. QED
  BY <1>1, <1>2, <1>3, <1>4, <1>5, <1>6, <1>7, <1>8, <1>9, <1>10
     DEF Next, vars, Ask, ApplyAnswer, HandleAutoFrame

-----------------------------------------------------------------------------
(* Heralded. *)

\* Nobody has been told of anything yet.
LEMMA InitHeralded == Init => Heralded
<1> SUFFICES ASSUME Init PROVE Heralded
  OBVIOUS
<1>1. Elems(queue) = {} /\ \A s : ~Told(s)
  BY EmptyElems DEF Init, Told
<1>2. QED
  BY <1>1 DEF Init, Heralded, InExchange, NoFrame

\* A frame enters the channel.
LEMMA ToldMore ==
    ASSUME Shapes, NEW f \in Sent, channel' = Append(channel, f), UNCHANGED announced
    PROVE  /\ \A s : Told(s)' <=> Told(s) \/ (f.kind = "refused" /\ f.of = s)
           /\ Elems(channel') = Elems(channel) \cup {f}
<1>1. Elems(channel') = Elems(channel) \cup {f}
  BY AppendElems DEF Shapes
<1>2. QED
  BY <1>1 DEF Told

\* Nothing a refusal is told with, nor who may be told of, changes.
LEMMA HeraldedStays ==
    ASSUME Heralded, \A s : Told(s)' <=> Told(s),
           UNCHANGED <<queue, serving, last, serials>>,
           InExchange' => InExchange,
           step' = "forwarding" => step = "forwarding" /\ held' = held,
           last.frame.of \in announced \/ last.frame \in Elems(channel) =>
               last.frame.of \in announced' \/ last.frame \in Elems(channel')
    PROVE  Heralded'
<1>1. Elems(queue') = Elems(queue)
  OBVIOUS
<1>2. step' = "forwarding" => IsForwarded(held', serving')
  BY DEF Heralded
<1>3. QED
  BY <1>1, <1>2 DEF Heralded

\* A request begins to be served.
LEMMA HeraldedServes ==
    ASSUME Heralded, UNCHANGED <<channel, announced, last>>,
           serials' \in {serials, serials + 1}, serials \in Nat,
           Elems(queue') \subseteq Elems(queue), step' = "reading",
           ~Told(serving'.serial), serving'.serial # last.request.serial
    PROVE  Heralded'
<1>1. \A s : Told(s)' <=> Told(s)
  BY DEF Told
<1>2. \A s \in Serials : Told(s)' => s <= serials'
  BY <1>1 DEF Heralded, Serials
<1>3. QED
  BY <1>1, <1>2 DEF Heralded, InExchange

\* Every step but a timeout keeps the refusals heralded.
LEMMA HeraldedKept ==
    Shapes /\ Queued /\ (~late => Aligned /\ Heralded) /\ [Next]_vars => (~late' => Heralded')
<1> SUFFICES ASSUME Shapes, Queued, ~late => Aligned /\ Heralded, [Next]_vars, ~late'
             PROVE  Heralded'
  OBVIOUS
<1> USE DEF panel, worker, clients, history
<1>0. ~late
  BY Zenon DEF Next, vars, Change, PanelHandles, Ask, ApplyAnswer, TakeRequest, Tick, Write,
     ReadFrame, Forward, ReadTimeout, ReceivePush, PassPush, HandleAutoFrame
<1>H. Aligned /\ Heralded /\ serials \in Nat
  BY <1>0, LimitsAssumption DEF Shapes
<1>1. CASE UNCHANGED <<channel, announced, queue, serving, step, held, last, serials>>
  BY <1>H, <1>1, HeraldedStays DEF Told, InExchange
<1>2. ASSUME NEW c \in Clients, NEW command \in Commands, Ask(c, command) PROVE Heralded'
  <2> DEFINE r == [command |-> command, serial |-> serials + 1, by |-> c]
  <2>1. /\ queue' = Append(queue, r) /\ queue \in Seq(Asked) /\ serials' = serials + 1
        /\ serials + 1 \in Serials
        /\ UNCHANGED <<channel, announced, serving, step, held, last>>
    BY <1>2, <1>H, LimitsAssumption DEF Ask, Serials, Shapes
  <2>2. r \in Asked /\ r.serial = serials + 1
    BY <2>1 DEF Asked, Requests
  <2> HIDE DEF r
  <2>3. Elems(queue') = Elems(queue) \cup {r}
    BY <2>1, <2>2, AppendElems
  <2>4. \A s : Told(s)' <=> Told(s)
    BY <2>1 DEF Told
  <2>5. ~Told(r.serial) /\ r.serial # last.request.serial
    BY <1>H, <2>1, <2>2 DEF Heralded, Queued
  <2>6. \A s \in Serials : Told(s)' => s <= serials'
    BY <1>H, <2>1, <2>4 DEF Heralded, Serials
  <2>7. \A q \in Elems(queue') : ~Told(q.serial)' /\ q.serial # last'.request.serial
    BY <1>H, <2>1, <2>3, <2>4, <2>5 DEF Heralded
  <2>8. QED
    BY <1>H, <2>1, <2>4, <2>6, <2>7 DEF Heralded, InExchange
<1>3. CASE TakeRequest
  <2>1. /\ queue # <<>> /\ queue' = Tail(queue) /\ queue \in Seq(Asked)
        /\ serving' = Head(queue) /\ step' = "reading"
        /\ UNCHANGED <<channel, announced, last, serials>>
    BY <1>3 DEF TakeRequest, Write, Shapes
  <2>2. Elems(queue) = {Head(queue)} \cup Elems(queue')
    BY <2>1, TailElems
  <2>3. ~Told(serving'.serial) /\ serving'.serial # last.request.serial
    BY <1>H, <2>1, <2>2 DEF Heralded
  <2>4. QED
    BY <1>H, <2>1, <2>2, <2>3, HeraldedServes
<1>4. CASE Tick
  <2>1. UNCHANGED <<channel, announced, last, queue>> /\ ~InExchange
    BY <1>4 DEF Tick, LeaveSelect, InExchange
  <2>2. CASE step' = "idle" /\ UNCHANGED <<serials, serving>>
    <3>1. \A s : Told(s)' <=> Told(s)
      BY <2>1 DEF Told
    <3>2. QED
      BY <1>H, <2>1, <2>2, <3>1, HeraldedStays DEF InExchange
  <2>3. CASE /\ serials < MaxRequests /\ serials' = serials + 1 /\ step' = "reading"
             /\ serving' = [command |-> "ping", serial |-> serials + 1, by |-> Worker]
    <3>1. serving'.serial = serials + 1 /\ serials + 1 \in Serials
      BY <1>H, <2>3, LimitsAssumption DEF Serials
    <3>2. ~Told(serials + 1) /\ serials + 1 # last.request.serial
      BY <1>H, <3>1 DEF Heralded, Queued
    <3>3. QED
      BY <1>H, <2>1, <2>3, <3>1, <3>2, HeraldedServes
  <2>4. QED
    BY <1>4, <2>2, <2>3 DEF Tick, Write
<1>5. CASE ReadFrame
  <2> DEFINE f == Head(from_panel)
  <2>1. /\ from_panel # <<>> /\ from_panel \in Seq(Sent) /\ step = "reading" /\ InExchange
        /\ UNCHANGED <<channel, announced, queue, serials>>
    BY <1>5 DEF ReadFrame, Shapes, InExchange, Forward
  <2>2. \A s : Told(s)' <=> Told(s)
    BY <2>1 DEF Told
  <2>3. \/ ~IsForwarded(f, serving) /\ Read(f)
        \/ IsForwarded(f, serving) /\ step' = "forwarding" /\ held' = f /\ UNCHANGED <<last, serving>>
    BY <1>5 DEF ReadFrame
  <2> HIDE DEF f
  <2>4. CASE IsForwarded(f, serving) /\ step' = "forwarding" /\ held' = f /\ UNCHANGED <<last, serving>>
    BY <1>H, <2>1, <2>2, <2>4 DEF Heralded, InExchange
  <2>5. CASE step' = "reading" /\ UNCHANGED <<last, serving>>
    BY <1>H, <2>1, <2>2, <2>5, HeraldedStays
  <2>6. CASE ~IsForwarded(f, serving) /\ step' = "idle" /\ last' = [request |-> serving, frame |-> f]
    <3>1. \A r \in Elems(queue) : r.serial # serving.serial
      BY DEF Queued
    <3>2. ~Told(serving.serial)
      BY <1>H, <2>1 DEF Heralded
    <3>3. f.kind = "refused" => serving.command \in {"name", "read", "ping"}
      BY <2>6 DEF IsForwarded, IsResult, Expected
    <3>4. last'.request = serving /\ last'.frame = f
      BY <2>6
    <3>5. QED
      BY <1>H, <2>1, <2>2, <2>6, <3>1, <3>2, <3>3, <3>4 DEF Heralded, InExchange
  <2>7. QED
    BY <2>3, <2>4, <2>5, <2>6 DEF Read, Deliver
<1>6. CASE Forward
  <2>1. /\ step = "forwarding" /\ InExchange /\ held \in Sent /\ Read(held)
        /\ channel' = Append(channel, held)
        /\ UNCHANGED <<announced, queue, serials>>
    BY <1>6 DEF Forward, Shapes, InExchange
  <2>2. /\ \A s : Told(s)' <=> Told(s) \/ (held.kind = "refused" /\ held.of = s)
        /\ Elems(channel') = Elems(channel) \cup {held}
    BY <2>1, ToldMore
  <2>3. /\ IsForwarded(held, serving) /\ ~Told(serving.serial)
        /\ serving.serial # last.request.serial
    BY <1>H, <2>1 DEF Heralded
  <2>4. held.kind = "refused" => /\ held.of = serving.serial /\ serving.command = "control"
                                 /\ IsTarget(held, serving)
    <3>1. held.kind = "refused" => held \in Unread \cap OddFrames
      BY <2>1 DEF Unread, OddFrames, Sent
    <3>2. QED
      BY <1>H, <2>3, <3>1 DEF Aligned, Answering, IsForwarded, IsResult, IsTarget
  <2>5. \A s \in Serials : Told(s)' => s <= serials'
    BY <1>H, <2>1, <2>2, <2>4 DEF Heralded, Queued
  <2>6. \A r \in Elems(queue') : r.serial # serving.serial /\ ~Told(r.serial)'
    BY <1>H, <2>1, <2>2, <2>4 DEF Heralded, Queued
  <2>7. CASE step' = "idle" /\ last' = [request |-> serving, frame |-> held]
    <3>1. last'.request = serving /\ last'.frame = held
      BY <2>7
    <3>2. QED
      BY <2>2, <2>4, <2>5, <2>6, <2>7, <3>1 DEF Heralded, InExchange
  <2>8. CASE ~IsTarget(held, serving) /\ step' = "reading" /\ UNCHANGED <<last, serving>>
    <3>1. \A s : Told(s)' <=> Told(s)
      BY <2>2, <2>4, <2>8
    <3>2. QED
      BY <1>H, <2>1, <2>2, <2>8, <3>1, HeraldedStays
  <2>9. QED
    BY <2>1, <2>7, <2>8 DEF Read, Deliver
<1>7. CASE ReceivePush \/ PassPush
  <2>1. /\ UNCHANGED <<announced, queue, serving, last, serials>>
        /\ step \in {"idle", "pushing"} /\ step' \in {"idle", "pushing"} /\ ~InExchange
    BY <1>7 DEF ReceivePush, PassPush, InExchange
  <2>2. PICK f : (f \in Sent /\ f.kind = "read" /\ channel' = Append(channel, f)) \/ channel' = channel
    <3>1. CASE ReceivePush
      <4>1. from_panel # <<>> /\ from_panel \in Seq(Sent)
        BY <3>1 DEF ReceivePush, Shapes
      <4>2. Head(from_panel) \in Sent /\ Head(from_panel) \in Unread
        BY <4>1, TailElems DEF Unread
      <4>3. Head(from_panel).kind = "read"
        BY <1>H, <2>1, <4>2, AlignedIsClear DEF Clear, OddFrames, Sent
      <4>4. QED
        BY <3>1, <4>2, <4>3 DEF ReceivePush
    <3>2. CASE PassPush
      BY <1>H, <3>2 DEF PassPush, Shapes, Aligned, OddFrames, Sent
    <3>3. QED
      BY <1>7, <3>1, <3>2
  <2>3. (\A s : Told(s)' <=> Told(s)) /\ Elems(channel) \subseteq Elems(channel')
    <3>1. CASE channel' = channel
      BY <2>1, <3>1 DEF Told
    <3>2. CASE f \in Sent /\ f.kind = "read" /\ channel' = Append(channel, f)
      BY <2>1, <3>2, ToldMore
    <3>3. QED
      BY <2>2, <3>1, <3>2
  <2>4. QED
    BY <1>H, <2>1, <2>3, HeraldedStays DEF InExchange
<1>8. CASE HandleAutoFrame
  <2> DEFINE f == Head(channel)
  <2>1. /\ UNCHANGED <<queue, serving, last, serials, step, held>>
        /\ channel # <<>> /\ channel' = Tail(channel) /\ channel \in Seq(Sent)
        /\ announced' = IF f.kind = "refused" THEN announced \cup {f.of} ELSE announced
    BY <1>8 DEF HandleAutoFrame, Shapes
  <2>2. Elems(channel) = {f} \cup Elems(channel')
    BY <2>1, TailElems
  <2> HIDE DEF f
  <2>3. \A s : Told(s)' <=> Told(s)
    BY <2>1, <2>2 DEF Told
  <2>4. last.frame.kind = "refused" /\ (last.frame.of \in announced \/ last.frame \in Elems(channel)) =>
            last.frame.of \in announced' \/ last.frame \in Elems(channel')
    BY <2>1, <2>2
  <2>5. QED
    BY <1>H, <2>1, <2>3, <2>4 DEF Heralded, InExchange
<1>9. CASE ReadTimeout
  BY <1>9 DEF ReadTimeout
<1>10. QED
  BY <1>1, <1>2, <1>3, <1>4, <1>5, <1>6, <1>7, <1>8, <1>9
     DEF Next, vars, Change, PanelHandles, ApplyAnswer

-----------------------------------------------------------------------------
(* The invariant holds. *)

\* The initial state satisfies the invariant.
LEMMA InitInv == Init => ExchangeInv
<1> SUFFICES ASSUME Init PROVE ExchangeInv
  OBVIOUS
<1>1. Elems(from_panel) = {} /\ Elems(channel) = {} /\ Elems(queue) = {} /\ Len(queue) = 0
  BY EmptyElems DEF Init
<1>2. Queued
  BY <1>1 DEF Init, Queued, Apart, NoRequest
<1>3. Carried
  <2>1. Versions = {}
    BY <1>1, NoneIsNone, VersionsAre DEF Init
  <2>2. QED
    BY <2>1 DEF Init, Carried
<1>4. QED
  BY <1>2, <1>3, InitShapes, InitAligned, InitHeralded DEF ExchangeInv

\* Every step keeps the invariant.
LEMMA InvKept == ExchangeInv /\ [Next]_vars => ExchangeInv'
<1> SUFFICES ASSUME ExchangeInv, [Next]_vars PROVE ExchangeInv'
  OBVIOUS
<1>1. Shapes /\ Queued /\ (~late => Aligned /\ Heralded) /\ Carried
  BY DEF ExchangeInv
<1>2. Shapes' /\ Queued' /\ Carried'
  BY <1>1, ShapesKept, QueuedKept, CarriedKept
<1>3. ~late' => Aligned' /\ Heralded'
  BY <1>1, AlignedKept, HeraldedKept
<1>4. QED
  BY <1>2, <1>3 DEF ExchangeInv

\* In every reachable state.
LEMMA ExchangeAlwaysInv == Spec => []ExchangeInv
  BY InitInv, InvKept, PTL DEF Spec

-----------------------------------------------------------------------------
(* What follows. *)

\* The places of the pipeline hold requests and frames.
LEMMA ShapesAreTypes == Shapes => TypeOK
<1> SUFFICES ASSUME Shapes PROVE TypeOK
  OBVIOUS
<1>1. Asked \subseteq Requests /\ Sent \subseteq Frames
  BY DEF Asked, Sent
<1>2. Seq(Asked) \subseteq Seq(Requests) /\ Seq(Sent) \subseteq Seq(Frames)
  BY <1>1
<1>3. /\ outbox \in Seq(Requests) /\ to_panel \in Seq(Requests) /\ queue \in Seq(Requests)
      /\ from_panel \in Seq(Frames) /\ channel \in Seq(Frames)
  BY <1>2 DEF Shapes
<1>4. /\ serving \in Requests \cup {NoRequest} /\ held \in Frames \cup {NoFrame}
      /\ last \in [request : Requests \cup {NoRequest}, frame : Frames \cup {NoFrame}]
  BY <1>1 DEF Shapes
<1>5. QED
  BY <1>3, <1>4 DEF Shapes, TypeOK

\* Every variable keeps its type, and the channel to the state worker, which the worker
\* fills only where a slot is free, never exceeds its capacity (client.rs:130, worker.rs:295).
THEOREM ExchangeTyped == Spec => []TypeOK
<1>1. ExchangeInv => TypeOK
  BY ShapesAreTypes DEF ExchangeInv
<1>2. QED
  BY <1>1, ExchangeAlwaysInv, PTL

\* As long as nothing timed out, the exchange gives every command its own answer,
\* whatever pushes arrive in between (worker.rs:268-304).
THEOREM AnswersAlwaysAligned == Spec => []AnswersAligned
<1>1. ExchangeInv => AnswersAligned
  BY DEF ExchangeInv, Aligned, AnswersAligned
<1>2. QED
  BY <1>1, ExchangeAlwaysInv, PTL

\* What Heralded says of the answer given last is what RefusalsAnnounced asks.
LEMMA HeraldedIsAnnounced == ExchangeInv => RefusalsAnnounced
<1> SUFFICES ASSUME ExchangeInv, ~late, last.frame.kind = "refused"
             PROVE  (\/ last.frame.of \in announced
                     \/ \E i \in 1..Len(channel) : channel[i] = last.frame)
                        <=> last.request.command = "control"
  BY DEF RefusalsAnnounced
<1>1. Aligned /\ Heralded
  BY DEF ExchangeInv
<1>2. last.frame.of = last.request.serial
  BY <1>1 DEF Aligned, LastIsAligned
<1>3. last.frame \in Elems(channel) <=> \E i \in 1..Len(channel) : channel[i] = last.frame
  BY DEF Elems
<1>4. CASE last.request.command = "control"
  BY <1>1, <1>3, <1>4 DEF Heralded
<1>5. CASE last.request.command # "control"
  BY <1>1, <1>2, <1>3, <1>5 DEF Heralded, Told
<1>6. QED
  BY <1>4, <1>5

\* As long as nothing timed out, a refused control command is broadcast, or queued for
\* it, before its caller is told, and a refused name query is not (worker.rs:293-304).
THEOREM RefusalsAlwaysAnnounced == Spec => []RefusalsAnnounced
  BY HeraldedIsAnnounced, ExchangeAlwaysInv, PTL

\* When nothing is under way no version is on its way.
LEMMA QuietCarriesNone == Quiescent => Versions = {}
  BY NoneIsNone, EmptyElems, VersionsAre DEF Quiescent

\* When nothing is under way the cache shows the panel's state, unless a push was
\* dropped with a cancelled branch or an older version was applied over a newer one:
\* no exchange swallows a push (worker.rs:293-300, 677-680).
THEOREM PushesAlwaysReach == Spec => []PushesReachCache
<1>1. ExchangeInv => PushesReachCache
  BY QuietCarriesNone DEF ExchangeInv, Carried, PushesReachCache
<1>2. QED
  BY <1>1, ExchangeAlwaysInv, PTL

=============================================================================
