----------------------------- MODULE NameSession -----------------------------
(***************************************************************************)
(* The name queries (0xEE) of the client (src/client.rs) and the level of  *)
(* device types they settle on for a session.                              *)
(*                                                                         *)
(* A panel knows some device types of a kind of position; the extended     *)
(* ones carry more parameters.  A query tries the types from the highest   *)
(* to the lowest, and the first answer fixes the type for the session:     *)
(* session_*_type and session_*_confirmed, atomics that every task reads   *)
(* and writes without a lock.  The vectors of types in the code are        *)
(* descending, so a set and its maximum stand for them.                    *)
(*                                                                         *)
(* The worker hands a query the next 0xEE or 0xEF that comes, whatever it  *)
(* answers (worker.rs:302): line holds the answers nobody has read yet, of *)
(* queries and other commands that were given up.                          *)
(***************************************************************************)
EXTENDS Integers, FiniteSets, Sequences

CONSTANTS
    Queriers,     \* tasks that call the name getters
    Indices,      \* numbers of the positions, 1..=io_count in the code
    Configured,   \* pairs of kind and number the panel has a name for
    Panels,       \* the panels there may be: the device types each understands
    MaxResets,    \* bound: configurations replaced and connects
    MaxLate       \* bound: answers that are late at a time

Kinds == {"zone", "output", "partition"}

ASSUME IndicesAssumption == Indices \subseteq 1..256 /\ 1 \in Indices

ASSUME ResetsAssumption == MaxResets \in Nat /\ MaxLate \in Nat

\* Every panel understands the basic types.
ASSUME PanelsAssumption ==
    \A p \in Panels : /\ p \in [Kinds -> SUBSET {0, 1, 4, 5, 16, 17, 18, 19}]
                      /\ \A k \in Kinds : CASE k = "zone" -> p[k] \subseteq {5, 1} /\ 1 \in p[k]
                            [] k = "output" -> p[k] \subseteq {17, 4} /\ 4 \in p[k]
                            [] OTHER -> p[k] \subseteq {19, 18, 16, 0} /\ 0 \in p[k]

VARIABLES
    extended_name_read,  \* the configuration
    session_type,        \* session_{zone,output,partition}_type
    session_confirmed,   \* session_{zone,output,partition}_confirmed
    panel_types,         \* the device types the panel understands
    query,               \* the query each task is at
    line,                \* answers to 0xEE and others' refusals that nobody has read
    known,               \* fields the cache holds of each position
    reloading,           \* what a reload has still to do
    resets,
    disturbed            \* history: a query has met a reset, or taken another's answer

namesVars == <<extended_name_read, session_type, session_confirmed, panel_types,
               query, line, known, reloading, resets, disturbed>>

-----------------------------------------------------------------------------
(* Device types. *)

TypesOf(kind) ==
    CASE kind = "zone" -> {5, 1}
      [] kind = "output" -> {17, 4}
      [] OTHER -> {19, 18, 16, 0}

IsTop(types, t)    == t \in types /\ \A u \in types : u <= t
IsBottom(types, t) == t \in types /\ \A u \in types : t <= u
Top(types)    == CHOOSE t \in types : IsTop(types, t)
Bottom(types) == CHOOSE t \in types : IsBottom(types, t)

\* The type a session starts from.
SessionStart(kind, extended) ==
    CASE kind = "zone" -> IF extended THEN 5 ELSE 1
      [] kind = "output" -> IF extended THEN 17 ELSE 4
      [] OTHER -> IF extended THEN 19 ELSE 0

\* The types a query will try.
ZoneTypesToTry(extended, type, confirmed) ==
    IF ~extended THEN {1}
    ELSE IF confirmed THEN {type}
    ELSE IF type = 5 THEN {5, 1} ELSE {1}

OutputTypesToTry(extended, type, confirmed) ==
    IF ~extended THEN {4}
    ELSE IF confirmed THEN {type}
    ELSE IF type = 17 THEN {17, 4} ELSE {4}

PartitionTypesToTry(extended, type, confirmed) ==
    IF ~extended THEN {0}
    ELSE IF confirmed THEN {type}
    ELSE IF type \in {19, 18, 16} THEN {t \in {19, 18, 16, 0} : t <= type} ELSE {0}

TypesToTry(kind, extended, type, confirmed) ==
    CASE kind = "zone" -> ZoneTypesToTry(extended, type, confirmed)
      [] kind = "output" -> OutputTypesToTry(extended, type, confirmed)
      [] OTHER -> PartitionTypesToTry(extended, type, confirmed)

-----------------------------------------------------------------------------
(* What an answer holds. *)

ZoneFields(type) ==
    {"name", "reaction"} \cup IF type = 5 THEN {"partition"} ELSE {}

OutputFields(type) ==
    {"name", "function", "control"} \cup IF type = 17 THEN {"duration"} ELSE {}

PartitionFields(type) ==
    {"name", "partition_type"}
        \cup (IF type >= 16 THEN {"object_number"} ELSE {})
        \cup (IF type >= 18 THEN {"options", "auto_arm_defer"} ELSE {})
        \cup (IF type = 19 THEN {"dependent_partitions"} ELSE {})

Fields(kind, type) ==
    CASE kind = "zone" -> ZoneFields(type)
      [] kind = "output" -> OutputFields(type)
      [] OTHER -> PartitionFields(type)

AllFields == {"name", "reaction", "partition", "function", "control", "duration",
              "partition_type", "object_number", "options", "auto_arm_defer",
              "dependent_partitions"}

\* params_read_at alone: the position was asked for and has no name.
Empty == {"read"}

Positions(kind) == {i \in Indices : kind = "partition" => i <= 32}

\* Slip: positions counted from zero, as in the masks.
DeviceByteFromZero(kind, i) == i - 1

\* The byte that names a position on the wire: zone_id as u8, and 0 for 256.
DeviceByte(kind, i) == IF kind # "partition" /\ i = 256 THEN 0 ELSE i % 256

\* The entry of the cache that an answer for the byte is written to.
CachedAt(kind, byte) ==
    IF kind = "partition" THEN (((byte - 1) % 65536) % 32) + 1
    ELSE IF byte = 0 THEN 256 ELSE byte

-----------------------------------------------------------------------------
\* An answer as it comes, with the type and the position it tells of.
NoFrame == [reply |-> "none", kind |-> "zone", index |-> 1, type |-> 0]
Refusal == [NoFrame EXCEPT !.reply = "refused"]

NoQuery == [at |-> "idle", kind |-> "zone", index |-> 1, extended |-> FALSE,
            type |-> 0, left |-> {}, frame |-> NoFrame, sync |-> FALSE]

Entries == {e \in Kinds \X Indices : e[2] \in Positions(e[1])}

NamesInit ==
    /\ extended_name_read \in BOOLEAN
    /\ session_type = [k \in Kinds |-> SessionStart(k, extended_name_read)]
    /\ session_confirmed = [k \in Kinds |-> FALSE]
    /\ panel_types \in Panels
    /\ query = [c \in Queriers |-> NoQuery]
    /\ line = <<>>
    /\ known = [e \in Entries |-> {}]
    /\ reloading = "no"
    /\ resets = 0
    /\ disturbed = FALSE

InFlight(c) == query[c].at # "idle"

Session == <<session_type, session_confirmed>>
Config  == <<extended_name_read, reloading, resets, panel_types>>

-----------------------------------------------------------------------------
(* The queries: query_{zone,output,partition}_internal. *)

\* get_*_name and get_*_params, or the first position of get_all_*_names, which
\* needs the version of the panel; here the client has been connected.
BeginAt(c, kind, i, sync) ==
    query' = [query EXCEPT ![c] = [at |-> "level", kind |-> kind, index |-> i,
        extended |-> extended_name_read, type |-> 0, left |-> {}, frame |-> NoFrame,
        sync |-> sync]]

GetName(c, kind, i) ==
    /\ ~InFlight(c) /\ i \in Positions(kind)
    /\ BeginAt(c, kind, i, FALSE)
    /\ UNCHANGED <<Config, Session, line, known, disturbed>>

GetZoneName(c, i)      == GetName(c, "zone", i)
GetOutputName(c, i)    == GetName(c, "output", i)
GetPartitionName(c, i) == GetName(c, "partition", i)

First(kind) == CHOOSE i \in Positions(kind) : \A j \in Positions(kind) : i <= j

GetAllNames(c, kind) ==
    /\ ~InFlight(c)
    /\ BeginAt(c, kind, First(kind), TRUE)
    /\ UNCHANGED <<Config, Session, line, known, disturbed>>

GetAllZoneNames(c)      == GetAllNames(c, "zone")
GetAllOutputNames(c)    == GetAllNames(c, "output")
GetAllPartitionNames(c) == GetAllNames(c, "partition")

LoadType(c) ==
    /\ query[c].at = "level"
    /\ query' = [query EXCEPT ![c].at = "confirmed", ![c].type = session_type[query[c].kind]]
    /\ UNCHANGED <<Config, Session, line, known, disturbed>>

LoadConfirmed(c) ==
    LET q == query[c] IN
    /\ q.at = "confirmed"
    /\ query' = [query EXCEPT ![c].at = "ask", ![c].extended = FALSE,
           ![c].left = TypesToTry(q.kind, q.extended, q.type, session_confirmed[q.kind])]
    /\ UNCHANGED <<Config, Session, line, known, disturbed>>

Asked(q) == Top(q.left)

\* What the panel answers, uniformly for the positions of a kind: it names a configured
\* one if it knows the type, and else refuses.
Answers(q) ==
    IF <<q.kind, q.index>> \in Configured /\ Asked(q) \in panel_types[q.kind]
    THEN {[reply |-> reply, kind |-> q.kind, index |-> q.index, type |-> Asked(q)] :
              reply \in {"name", "short"}}
    ELSE {Refusal}

\* A name of the type that was asked for.
Matches(q, frame) == frame.reply # "refused" /\ frame.type = Asked(q)

\* The next answer that comes is the query's; behind a late one its own is late.
PanelAnswers(c) ==
    LET q == query[c] IN
    /\ q.at = "ask"
    /\ \E own \in Answers(q) :
        LET arrived == Append(line, own) IN
        /\ query' = [query EXCEPT ![c].at = "received", ![c].frame = Head(arrived)]
        /\ line' = Tail(arrived)
        /\ disturbed' = (disturbed \/ (line # <<>> /\ ~Matches(q, Head(line))))
    /\ UNCHANGED <<Config, Session, known>>

\* What follows a query: the next position of get_all_*_names, whatever became of
\* this one, or nothing.
NextQuery(c) ==
    LET q == query[c]
        later == {i \in Positions(q.kind) : i > q.index}
    IN  IF q.sync /\ later # {}
        THEN BeginAt(c, q.kind, CHOOSE i \in later : \A j \in later : i <= j, TRUE)
        ELSE query' = [query EXCEPT ![c] = NoQuery]

\* exchange returned an error, which ? hands on.  The answer may come yet: the command is
\* with the panel, or still in the buffer of the worker.
QueryFails(c) ==
    /\ query[c].at = "ask"
    /\ NextQuery(c)
    /\ \/ UNCHANGED line
       \/ /\ Len(line) < MaxLate
          /\ \E own \in Answers(query[c]) : line' = Append(line, own)
    /\ UNCHANGED <<Config, Session, known, disturbed>>

\* 0xEF: on to the next type; after the last, the position has no name.
Refused(c) ==
    LET q == query[c]
        left == q.left \ {Asked(q)}
    IN
    /\ q.at = "received" /\ q.frame.reply = "refused"
    /\ IF left # {}
       THEN /\ query' = [query EXCEPT ![c].at = "ask", ![c].left = left, ![c].frame = NoFrame]
            /\ UNCHANGED known
       ELSE /\ known' = [known EXCEPT ![<<q.kind, q.index>>] = Empty]
            /\ NextQuery(c)
    /\ UNCHANGED <<Config, Session, line, disturbed>>

\* Slip: the type is tried again without being the session's.
StoreTypeNever(c) ==
    /\ query[c].at = "received" /\ query[c].frame.reply # "refused"
    /\ query' = [query EXCEPT ![c].at = "typed"]
    /\ UNCHANGED <<Config, Session, line, known, disturbed>>

\* 0xEE: the type that was asked for becomes the session's if it is lower than the one
\* loaded,
StoreType(c) ==
    LET q == query[c] IN
    /\ q.at = "received" /\ q.frame.reply # "refused"
    /\ query' = [query EXCEPT ![c].at = "typed"]
    /\ IF Asked(q) < q.type
       THEN session_type' = [session_type EXCEPT ![q.kind] = Asked(q)]
       ELSE UNCHANGED session_type
    /\ UNCHANGED <<Config, session_confirmed, line, known, disturbed>>

\* then it is confirmed,
StoreConfirmed(c) ==
    /\ query[c].at = "typed"
    /\ query' = [query EXCEPT ![c].at = "settled"]
    /\ session_confirmed' = [session_confirmed EXCEPT ![query[c].kind] = TRUE]
    /\ UNCHANGED <<Config, session_type, line, known, disturbed>>

\* and then the frame is parsed.  One of another kind, or too short for its type, is an
\* error; else its fields go into the cache, where it says.
StoreAnswer(c) ==
    LET q == query[c]
        frame == q.frame
        entry == <<q.kind, CachedAt(q.kind, DeviceByte(frame.kind, frame.index))>>
    IN
    /\ q.at = "settled"
    /\ IF frame.reply = "name" /\ frame.type \in TypesOf(q.kind)
       THEN known' = [known EXCEPT ![entry] = Fields(q.kind, frame.type)]
       ELSE UNCHANGED known
    /\ NextQuery(c)
    /\ UNCHANGED <<Config, Session, line, disturbed>>

QuerySteps(c) ==
    \/ LoadType(c) \/ LoadConfirmed(c)
    \/ PanelAnswers(c) \/ QueryFails(c)
    \/ Refused(c) \/ StoreType(c) \/ StoreConfirmed(c) \/ StoreAnswer(c)

QueryZone(c)      == query[c].kind = "zone" /\ QuerySteps(c)
QueryOutput(c)    == query[c].kind = "output" /\ QuerySteps(c)
QueryPartition(c) == query[c].kind = "partition" /\ QuerySteps(c)

-----------------------------------------------------------------------------
(* What else is on the line. *)

\* Another command is given up, and then refused.
StrayRefusal ==
    /\ Len(line) < MaxLate
    /\ line' = Append(line, Refusal)
    /\ UNCHANGED <<Config, Session, query, known, disturbed>>

\* Between two exchanges the worker reads what comes; a lost connection takes it all.
LinePasses ==
    /\ line # <<>> /\ line' = Tail(line)
    /\ UNCHANGED <<Config, Session, query, known, disturbed>>

-----------------------------------------------------------------------------
(* Configurations and connects. *)

\* hot_reload_config and reload_config store the configuration first.
StoreConfig(extended, how) ==
    /\ reloading = "no" /\ resets < MaxResets
    /\ how = "hot" => extended # extended_name_read
    /\ extended_name_read' = extended
    /\ reloading' = how
    /\ resets' = resets + 1
    /\ UNCHANGED <<Session, panel_types, query, line, known, disturbed>>

\* The end of hot_reload_config, and connect at the end of reload_config or alone: the
\* types are stored first, and then that none is confirmed.  The connection is a new
\* one, perhaps to another panel, unless there was one and connect is refused.
ResetTypes ==
    /\ reloading \in {"hot", "full"}
    /\ session_type' = [k \in Kinds |-> SessionStart(k, extended_name_read)]
    /\ \/ UNCHANGED <<panel_types, line>>
       \/ reloading = "full" /\ panel_types' \in Panels /\ line' = <<>>
    /\ reloading' = "types reset"
    /\ disturbed' = (line' # <<>> \/ \E c \in Queriers : InFlight(c))
    /\ UNCHANGED <<extended_name_read, session_confirmed, resets, query, known>>

ResetConfirmed ==
    /\ reloading = "types reset" /\ reloading' = "no"
    /\ session_confirmed' = [k \in Kinds |-> FALSE]
    /\ UNCHANGED <<extended_name_read, session_type, panel_types, resets, query, line, known,
                   disturbed>>

NamesNext ==
    \/ \E c \in Queriers :
        \/ \E i \in Indices : GetZoneName(c, i) \/ GetOutputName(c, i) \/ GetPartitionName(c, i)
        \/ GetAllZoneNames(c) \/ GetAllOutputNames(c) \/ GetAllPartitionNames(c)
        \/ QueryZone(c) \/ QueryOutput(c) \/ QueryPartition(c)
    \/ StrayRefusal \/ LinePasses
    \/ \E extended \in BOOLEAN, how \in {"hot", "full"} : StoreConfig(extended, how)
    \/ ResetTypes \/ ResetConfirmed

NamesSpec == NamesInit /\ [][NamesNext]_namesVars

-----------------------------------------------------------------------------
(* Properties. *)

\* Every variable keeps its type; a query has types left to try until it is over.
NamesTypeOK ==
    /\ extended_name_read \in BOOLEAN
    /\ session_type \in [Kinds -> {0, 1, 4, 5, 16, 17, 18, 19}]
    /\ session_confirmed \in [Kinds -> BOOLEAN]
    /\ panel_types \in Panels
    /\ \A c \in Queriers :
        /\ query[c].at \in {"idle", "level", "confirmed", "ask", "received", "typed", "settled"}
        /\ InFlight(c) => query[c].kind \in Kinds /\ query[c].index \in Positions(query[c].kind)
        /\ query[c].at \in {"ask", "received", "typed", "settled"} =>
               /\ query[c].left # {}
               /\ query[c].left \subseteq TypesOf(query[c].kind)
    /\ Len(line) <= MaxLate
    /\ known \in [Entries -> (SUBSET AllFields) \cup {Empty}]
    /\ reloading \in {"no", "hot", "full", "types reset"}
    /\ resets \in 0..MaxResets
    /\ disturbed \in BOOLEAN

\* The type that serves a kind best under the configuration.
Best(kind) ==
    IF extended_name_read THEN Top(panel_types[kind]) ELSE Bottom(TypesOf(kind))

\* A session settles on the best type of the panel: what is confirmed (client.rs:406,
\* 606, 822) is neither a type the panel does not know nor a poorer one than it
\* could give, though queries, other commands' answers and a reset come in any order.
\* Not so if a query was under way when the types were reset, or took for its own a
\* stray refusal or a name of a type it had not asked for (worker.rs:302).
ConfirmedIsBest ==
    ~disturbed /\ reloading = "no" =>
        \A k \in Kinds : session_confirmed[k] => session_type[k] = Best(k)

\* A name is stored where the panel has it (client.rs:386, 412; names.rs:45), even if it is
\* the late answer of another query: what is written is either that a position whose query
\* was refused has no name, or the fields of a position the panel has named, 256 and its
\* byte 0 included, and not those of another kind.
StoredWhereAnswered ==
    [][\A e \in Entries : known'[e] # known[e] =>
          \E c \in Queriers :
             \/ /\ query[c].at = "received" /\ query[c].frame.reply = "refused"
                /\ e = <<query[c].kind, query[c].index>> /\ known'[e] = Empty
             \/ /\ query[c].at = "settled" /\ query[c].kind = query[c].frame.kind
                /\ e = <<query[c].frame.kind, query[c].frame.index>> /\ e \in Configured
                /\ known'[e] = Fields(e[1], query[c].frame.type)]_namesVars

=============================================================================
