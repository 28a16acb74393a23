---------------------------- MODULE MCClientData ----------------------------
(***************************************************************************)
(* What the calls of the clients and the pushes make of the state of the   *)
(* crate: five parts with no state in common, checked side by side.  A     *)
(* behaviour takes the steps of one part, chosen at the start.             *)
(***************************************************************************)
EXTENDS NameSession, StateCache, TroubleFrames, ControlCommands, MCStateLocks, TLC

CONSTANTS q1, q2

VARIABLES
    part,
    focus    \* the kind of position that is queried, or a category of the state

allVars == <<part, focus, namesVars, cacheVars, troublesVars, controlVars, vars>>

-----------------------------------------------------------------------------
(* Values. *)

MCConfigured == {<<"zone", 1>>, <<"output", 256>>, <<"partition", 1>>}

\* All panels for zones and outputs; for partitions the best and one that knows
\* neither of the two highest types.
MCPanels ==
    {[zone |-> z, output |-> o, partition |-> p] :
        z \in {{5, 1}, {1}}, o \in {{17, 4}, {4}}, p \in {{19, 18, 16, 0}, {16, 0}}}

\* Two groups of categories that are not mixed in a behaviour.
Group(lead) == IF lead = "violation" THEN {"violation", "trouble", "version"}
               ELSE {"partition_alarm", "output", "report"}

MCPositions == [violation |-> {1, 129}, trouble |-> {1}, version |-> {1},
                partition_alarm |-> {1}, output |-> {1, 2}, report |-> {1}]

TroubleOptions == {"system_troubles", "troubles_memory"}

\* None, each alone, all but one, all, and those of the troubles.
MCOptionSets ==
    {{}, Options, TroubleOptions} \cup {{o} : o \in Options} \cup {Options \ {o} : o \in Options}

MCNewOptions == {{}, TroubleOptions, Options \ {"outputs_state"}}

MCControlOps == {<<"arm", 0>>, <<"force_arm", 7>>, <<"disarm", 0>>, <<"clear_alarm", 0>>,
                 <<"set_output_on", 0>>, <<"set_output_toggle", 0>>, <<"set_satel_time", 0>>}

MCUserCodes  == {<<1, 2, 3>>}
MCGivenCodes == {<<1, 10, 2, 3>>, <<1, 2>>}

Queriers2 == Permutations({q1, q2})

-----------------------------------------------------------------------------
(* The parts. *)

\* One kind at a time is queried; the panel knows all types of the others.
OtherKinds == \A k \in Kinds \ {focus} : panel_types[k] = TypesOf(k)

\* Some zone is inverted or none is.
MCInverted == inverted \in IF focus = "violation" THEN {{}, {1}} ELSE {{}}

MCInit ==
    /\ part \in {"names", "cache", "troubles", "control", "locks"}
    /\ focus \in CASE part = "names" -> Kinds
                   [] part = "cache" -> {"violation", "partition_alarm"}
                   [] OTHER -> {"zone"}
    /\ NamesInit /\ OtherKinds
    /\ part # "names" => extended_name_read /\ \A k \in Kinds : panel_types[k] = TypesOf(k)
    /\ CacheInit
    /\ MCInverted
    /\ part # "cache" => emit_unchanged /\ subscribed
    /\ TroublesInit
    /\ part # "troubles" => wanted = {}
    /\ ControlInit
    /\ part # "control" => user_code = NoCode /\ refusing
    /\ Init

Begins(c) == ~InFlight(c) /\ InFlight(c)'

\* All names are read by one task at a time, with no late answer about.
NamesReadInTurn ==
    \A c \in Queriers : query'[c].sync => line' = <<>> /\ \A d \in Queriers \ {c} :
        IF focus = "output" THEN ~query'[d].sync ELSE ~InFlight(d)'

\* Beside the zones an output is queried, which fails: its answer is late.
OutputInVain(c) ==
    /\ focus = "zone" /\ resets' = 0
    /\ query'[c].kind = "output" /\ query'[c].index = 256 /\ ~query'[c].sync
    /\ query'[c].at \in {"level", "confirmed", "ask"}
    /\ \A d \in Queriers \ {c} : ~InFlight(d)'

\* A reload meets queries of zone 1 before a name is stored, and answers late by then;
\* zone 1 is queried again unless they have met.  Zone 256 is queried by one task, with
\* no late answer about.
ZonesReloaded ==
    /\ resets' > resets => (\A e \in Entries : known[e] = {}) /\ \A c \in Queriers :
           query[c].kind = "zone" /\ query[c].index = 1 /\ ~query[c].sync
    /\ resets > 0 => Len(line') <= Len(line) /\ \A c \in Queriers : Begins(c) =>
           ~disturbed /\ query'[c].index = 1 /\ ~query'[c].sync
    /\ \A c \in Queriers : query'[c] # NoQuery /\ query'[c].index = 256 =>
           line' = <<>> /\ \A d \in Queriers \ {c} : query'[d].index = 1

OneQuery == \A c, d \in Queriers : InFlight(c)' /\ InFlight(d)' => c = d

\* Outputs have as many types as zones, and are queried without reloads and late
\* answers; a partition with reloads, or by one task at a time with late answers.
NamesPart ==
    /\ part = "names" /\ NamesNext
    /\ UNCHANGED <<part, focus, cacheVars, troublesVars, controlVars, vars>>
    /\ OtherKinds' /\ NamesReadInTurn
    /\ \A c \in Queriers : InFlight(c)' => query'[c].kind = focus \/ OutputInVain(c)
    /\ CASE focus = "zone" -> ZonesReloaded
         [] focus = "output" -> resets' = 0 /\ line' = <<>>
         [] OTHER -> line' # <<>> \/ (disturbed /\ resets = 0) => resets' = 0 /\ OneQuery

CachePart ==
    /\ part = "cache" /\ CacheNext
    /\ UNCHANGED <<part, focus, namesVars, troublesVars, controlVars, vars>>
    /\ \A t \in Updaters : work'[t].at # "idle" => work'[t].category \in Group(focus)
    /\ MCInverted'

\* Connected, with the first options asked for.
Settled == /\ link = "up" /\ ~auto_read_dirty /\ ~refused /\ ~astray
           /\ storing = "no" /\ exchanging = NoMask /\ option_changes = 0

\* Trouble frames are pushed when they alone are wanted, and asked for when nothing is;
\* the options change and the connection breaks while no frame is about.
TroublesPart ==
    /\ part = "troubles"
    /\ \/ /\ trouble_frames = 0
          /\ \/ \E options \in MCNewOptions, how \in {"hot", "full"} : StoreOptions(options, how)
             \/ RaiseDirty \/ ReloadDisconnects
             \/ Connect \/ ConnectMask \/ ResendMask
             \/ MaskAnswered \/ MaskFails \/ LoseConnection
       \/ /\ Settled
          /\ \/ wanted = TroubleOptions /\ \E cmd \in TroubleCommands : PushTroubles(cmd)
             \/ wanted = {} /\ \E cmd \in TroubleCommands : GetTroubles(cmd)
    /\ UNCHANGED <<part, focus, namesVars, cacheVars, controlVars, vars>>

\* Any call comes first; one that comes later disarms.
ControlPart ==
    /\ part = "control" /\ ControlNext
    /\ controls > 0 => \A c \in Controllers : control'[c].op \in {control[c].op, <<"disarm", 0>>}
    /\ UNCHANGED <<part, focus, namesVars, cacheVars, troublesVars, vars>>

LocksPart ==
    /\ part = "locks" /\ Next
    /\ UNCHANGED <<part, focus, namesVars, cacheVars, troublesVars, controlVars>>

MCNext == NamesPart \/ CachePart \/ TroublesPart \/ ControlPart \/ LocksPart

MCSpec == MCInit /\ [][MCNext]_allVars

-----------------------------------------------------------------------------
\* The type invariants of the names, the cache, the troubles and the control calls
\* (src/client.rs, src/state.rs); that of the locks is a property of its own.
ClientDataTypeOK == NamesTypeOK /\ CacheTypeOK /\ TroublesTypeOK /\ ControlTypeOK

=============================================================================
