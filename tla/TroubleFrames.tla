---------------------------- MODULE TroubleFrames ----------------------------
(***************************************************************************)
(* What is pushed, and what the trouble frames say (src/worker.rs,         *)
(* src/auto_requester.rs, src/parsers/system.rs).                          *)
(*                                                                         *)
(* The mask of 0x7F asks for a command by the bit of its number; the state *)
(* worker sends each pushed command to its category.  The worker builds    *)
(* the mask, and after the answer its report, each from the configuration  *)
(* of that moment, which clients replace meanwhile.  A trouble frame is    *)
(* read twice: decode_troubles, by a table of fields, for the cache and    *)
(* the events, and process_troubles_part*, slice by slice, for the caller. *)
(* A frame is the set of the bits that are set in its data; a key of the   *)
(* cache is <<trouble, number, memory>>.                                   *)
(***************************************************************************)
EXTENDS Integers, FiniteSets, Sequences

CONSTANTS
    OptionSets,       \* sets of auto_read_* options that may be on
    MaxOptionChanges, \* bound: configurations replaced
    MaxTroubleFrames  \* bound: trouble frames received

SystemCommands == {27, 28, 29, 30, 31, 44, 45, 48}
MemoryCommands == {32, 33, 34, 35, 36, 46, 47, 49}
TroubleCommands == SystemCommands \cup MemoryCommands

Options == {"zones_violation", "zones_tamper", "zones_alarm", "zones_tamper_alarm",
            "zones_alarm_memory", "zones_tamper_alarm_memory", "zones_bypass",
            "zones_no_violation_trouble", "zones_long_violation_trouble",
            "partitions_armed_suppressed", "partitions_armed_really", "partitions_alarm",
            "partitions_alarm_memory", "partitions_entry_time", "partitions_exit_time",
            "outputs_state", "system_troubles", "troubles_memory"}

ASSUME OptionSetsAssumption == OptionSets \subseteq SUBSET Options

VARIABLES
    wanted,         \* the auto_read_* options that are on
    auto_read_dirty,
    storing,        \* how a reload has stored its options that it has still to act on
    link,           \* the connection: down, before the mask of a connect, or up
    exchanging,     \* the mask on its way to the panel, or NoMask
    asked,          \* commands the panel has accepted to push over this connection
    active,         \* options the last report calls Active
    refused,        \* the last mask was answered with an error code
    astray,         \* history: the last answer taken for the mask's was another's
    option_changes,
    trouble_flags,  \* keys of the troubles that are present, to the cache
    shown,          \* history: the data of the last frame of each trouble command
    trouble_frames

Reload   == <<wanted, auto_read_dirty, storing, option_changes>>
Mask     == <<exchanging, asked, active, refused, astray>>
Pushing  == <<Reload, link, Mask>>
Cached   == <<trouble_flags, shown, trouble_frames>>

troublesVars == <<Pushing, Cached>>

NoMask == {-1}

-----------------------------------------------------------------------------
(* The push mask, and the way of a push. *)

\* Slip: the bits of a byte counted from the highest.
MaskBitsReversed(byte, bits) == {8 * byte + 7 - b : b \in bits}

MaskBits(byte, bits) == {8 * byte + b : b \in bits}

\* satel_connection_worker_connect_build_push_mask; all of it fits in 12 bytes.
MaskOf(option) ==
    CASE option = "zones_violation" -> MaskBits(0, {0})
      [] option = "zones_tamper" -> MaskBits(0, {1})
      [] option = "zones_alarm" -> MaskBits(0, {2})
      [] option = "zones_tamper_alarm" -> MaskBits(0, {3})
      [] option = "zones_alarm_memory" -> MaskBits(0, {4})
      [] option = "zones_tamper_alarm_memory" -> MaskBits(0, {5})
      [] option = "zones_bypass" -> MaskBits(0, {6})
      [] option = "zones_no_violation_trouble" -> MaskBits(0, {7})
      [] option = "zones_long_violation_trouble" -> MaskBits(1, {0})
      [] option = "partitions_armed_suppressed" -> MaskBits(1, {1})
      [] option = "partitions_armed_really" -> MaskBits(1, {2})
      [] option = "partitions_alarm" -> MaskBits(2, {3})
      [] option = "partitions_alarm_memory" -> MaskBits(2, {5})
      [] option = "partitions_entry_time" -> MaskBits(1, {6})
      [] option = "partitions_exit_time" -> MaskBits(1, {7}) \cup MaskBits(2, {0})
      [] option = "outputs_state" -> MaskBits(2, {7})
      [] option = "system_troubles" -> MaskBits(3, 2..7) \cup MaskBits(5, {4, 5}) \cup MaskBits(6, {0})
      [] option = "troubles_memory" -> MaskBits(4, 0..4) \cup MaskBits(5, {6, 7}) \cup MaskBits(6, {1})

PushMask(options) == UNION {MaskOf(option) : option \in options}

\* handle_auto_frame: the category a command is written to.
Category(cmd) ==
    CASE cmd = 0 -> "zones_violation"
      [] cmd = 1 -> "zones_tamper"
      [] cmd = 2 -> "zones_alarm"
      [] cmd = 3 -> "zones_tamper_alarm"
      [] cmd = 4 -> "zones_alarm_memory"
      [] cmd = 5 -> "zones_tamper_alarm_memory"
      [] cmd = 6 -> "zones_bypass"
      [] cmd = 7 -> "zones_no_violation_trouble"
      [] cmd = 8 -> "zones_long_violation_trouble"
      [] cmd = 9 -> "partitions_armed_suppressed"
      [] cmd = 10 -> "partitions_armed_really"
      [] cmd = 14 -> "partitions_entry_time"
      [] cmd \in {15, 16} -> "partitions_exit_time"
      [] cmd = 19 -> "partitions_alarm"
      [] cmd = 21 -> "partitions_alarm_memory"
      [] cmd = 23 -> "outputs_state"
      [] cmd \in SystemCommands \cup {26} -> "system_troubles"
      [] cmd \in MemoryCommands -> "troubles_memory"
      [] OTHER -> "none"

-----------------------------------------------------------------------------
(* Fields of a trouble frame, one key for each unit of width bits. *)

Field(first, units, width, start, memory, trouble) ==
    {[first |-> first, units |-> units, width |-> width, start |-> start,
      memory |-> memory, trouble |-> trouble]}

Bitmask(offset, length, start, memory, trouble) ==
    Field(8 * offset, 8 * length, 1, start, memory, trouble)

BitmaskLimit(offset, limit, start, memory, trouble) ==
    Field(8 * offset, limit, 1, start, memory, trouble)

ModuleMask(offset, memory, trouble) == Bitmask(offset, 1, 1, memory, trouble)

\* A bit each, from the first bit of a byte on.
Flags(offset, start, memory, troubles) ==
    UNION {Field(8 * offset + i - 1, 1, 1, start, memory, troubles[i]) : i \in DOMAIN troubles}

\* decode_system_troubles: its 24 flags; MainBoardOutOverload has four numbers.
SystemTroubles(memory) ==
    BitmaskLimit(40, 4, 1, memory, "MainBoardOutOverload")
    \cup Flags(40, 0, memory, <<"unused", "unused", "unused", "unused",
         "MainBoardKpdPowerOverload", "MainBoardExPowerOverload", "MainBoardBatteryLow",
         "MainBoardAcLoss", "MainBoardDataBusDt1", "MainBoardDataBusDt2", "MainBoardDataBusDtm",
         "RtcLoss", "NoDtrSignal", "MainBoardBatteryMissing", "ExternalModemInitTrouble",
         "ExternalModemCmdTrouble", "TelephoneLineNoVoltage", "TelephoneLineBadSignal",
         "TelephoneLineNoSignal", "MonitoringStation1Trouble", "MonitoringStation2Trouble",
         "EepromRtcTrouble", "RamMemoryError", "MainPanelRestartMemory">>)

EthmPtsaStatus(memory) ==
    Flags(46, 0, memory, <<"EthmMonitoringStation1Error", "EthmMonitoringStation2Error",
         "GprsMonitoringStation1Error", "GprsMonitoringStation2Error", "TimeServerTrouble",
         "GsmInitError", "IpMonitoringStation1Trouble", "IpMonitoringStation2Trouble">>)

GsmFlags ==
    <<"GsmEthmStation1Error", "GsmEthmStation2Error", "GsmGprsSim1Station1Error",
      "GsmGprsSim1Station2Error", "GsmGprsSim2Station1Error", "GsmGprsSim2Station2Error",
      "GsmSmsSim1Station1Error", "GsmSmsSim1Station2Error", "GsmSmsSim2Station1Error",
      "GsmSmsSim2Station2Error", "GsmSimPinError1", "GsmSimPinError2", "GsmSimLoggingError1",
      "GsmSimLoggingError2", "GsmSimCreditLow1", "GsmSimCreditLow2", "GsmSimSmsError1",
      "GsmSimSmsError2", "GsmJamming", "GsmSettingsCrcError", "GsmModuleMissing",
      "GsmModuleChanged", "GsmServerConnError", "GsmMailServerConnError",
      "GsmNtpServerConnError">>

\* The reserved bits are told of when they are set, and only then.
GsmBlock(memory) ==
    UNION {Flags(8 * m, m, memory, GsmFlags)
           \cup Field(64 * m + 25, 7, 1, 64 * m + 25, memory, "GenericTrouble")
           \cup Field(64 * m + 32, 1, 16, m, memory, "CmeError1")
           \cup Field(64 * m + 48, 1, 16, m, memory, "CmeError2") : m \in 0..7}

-----------------------------------------------------------------------------
(* get_rules: the fields of each command. *)

RulesPart1(memory) ==
    Bitmask(0, 16, 1, memory, "TechnicalZoneTrouble")
    \cup Bitmask(16, 8, 1, memory, "ExpanderAcLoss")
    \cup Bitmask(24, 8, 1, memory, "ExpanderBatteryLow")
    \cup Bitmask(32, 8, 1, memory, "ExpanderBatteryMissing")
    \cup SystemTroubles(memory)
    \cup ModuleMask(43, memory, "EthmPingTrouble")
    \cup ModuleMask(44, memory, "EthmServerIdError")
    \cup ModuleMask(45, memory, "EthmSatelServerConnectionError")
    \cup EthmPtsaStatus(memory)

RulesPart2(memory) ==
    Bitmask(0, 8, 1, memory, "ExpanderCardReaderHeadA")
    \cup Bitmask(8, 8, 1, memory, "ExpanderCardReaderHeadB")
    \cup Bitmask(16, 8, 1, memory, "ExpanderSupplyOverload")
    \cup Bitmask(24, 2, 1, memory, "ExpanderAcuJammedOrShortCircuit")

RulesMemoryPart2 ==
    RulesPart2(TRUE)
    \cup ModuleMask(26, TRUE, "KeypadRestart")
    \cup Bitmask(27, 8, 1, TRUE, "ExpanderRestart")
    \cup Field(280, 1, 16, 0, FALSE, "PanelCmeError")
    \cup Field(296, 1, 16, 0, TRUE, "PanelCmeError")

Wireless(offset, start, memory) ==
    Bitmask(offset, 15, start, memory, "WirelessDeviceLowBattery")
    \cup Bitmask(offset + 15, 15, start, memory, "WirelessDeviceNoComm")
    \cup Bitmask(offset + 30, 15, start, memory, "WirelessOutputNoComm")

RulesPart3 == Field(0, 15, 8, 1, FALSE, "AcuJamLevel") \cup Wireless(15, 17, FALSE)

\* Slip: the modules of the second group are numbered from 1 again.
RulesMemoryPart3FromOne ==
    BitmaskLimit(0, 14, 1, FALSE, "ExpanderAcuJammedOrShortCircuit")
    \cup BitmaskLimit(2, 14, 1, TRUE, "ExpanderAcuJammedOrShortCircuit")
    \cup Wireless(15, 17, TRUE)

RulesMemoryPart3 ==
    BitmaskLimit(0, 14, 17, FALSE, "ExpanderAcuJammedOrShortCircuit")
    \cup BitmaskLimit(2, 14, 17, TRUE, "ExpanderAcuJammedOrShortCircuit")
    \cup Wireless(15, 17, TRUE)

RulesPart4(memory) ==
    Bitmask(0, 8, 1, memory, "ExpanderNoComm")
    \cup Bitmask(8, 8, 1, memory, "ExpanderSubstituted")
    \cup ModuleMask(16, memory, "KeypadNoComm")
    \cup ModuleMask(17, memory, "KeypadSubstituted")
    \cup ModuleMask(18, memory, "EthmNoLanCable")
    \cup Bitmask(19, 8, 1, memory, "ExpanderTamper")
    \cup ModuleMask(27, memory, "KeypadTamper")
    \cup ModuleMask(28, memory, "KeypadInitError")
    \cup Field(232, 1, 8, 0, memory, "AuxiliaryStmTroubles")

RulesPart5 ==
    ModuleMask(0, FALSE, "MasterKeyFobLowBattery")
    \cup Bitmask(1, 30, 1, FALSE, "UserKeyFobLowBattery")

RulesZones(start) ==
    Bitmask(0, 16, start, TRUE, "ZoneLongViolationTrouble")
    \cup Bitmask(16, 16, start, TRUE, "ZoneNoViolationTrouble")
    \cup Bitmask(32, 16, start, TRUE, "ZoneTamperTrouble")

RulesPart7 ==
    Bitmask(0, 16, 129, FALSE, "TechnicalZoneTrouble")
    \cup Bitmask(16, 16, 129, TRUE, "TechnicalZoneTrouble")
    \cup Field(256, 15, 8, 16, FALSE, "AcuJamLevel")

RulesOf == [cmd \in TroubleCommands |->
    CASE cmd \in {27, 32} -> RulesPart1(cmd = 32)
      [] cmd = 28 -> RulesPart2(FALSE)
      [] cmd = 33 -> RulesMemoryPart2
      [] cmd = 29 -> RulesPart3
      [] cmd = 34 -> RulesMemoryPart3
      [] cmd \in {30, 35} -> RulesPart4(cmd = 35)
      [] cmd = 31 -> RulesPart5
      [] cmd = 36 -> RulesZones(1)
      [] cmd \in {44, 46} -> Wireless(0, 137, cmd = 46)
      [] cmd = 45 -> RulesPart7
      [] cmd = 47 -> RulesZones(129)
      [] cmd \in {48, 49} -> GsmBlock(cmd = 49)]

\* The least data a frame of the command must have; the parts ask for as much.
DataLen(cmd) ==
    CASE cmd \in {27, 32} -> 47 [] cmd = 28 -> 26 [] cmd = 33 -> 39 [] cmd \in {29, 34} -> 60
      [] cmd \in {30, 35} -> 30 [] cmd = 31 -> 31 [] cmd \in {36, 47} -> 48
      [] cmd \in {44, 46} -> 45 [] cmd = 45 -> 47 [] cmd \in {48, 49} -> 64

\* The keys of a table of fields that a frame has set.
SetKeys(fields, bits) ==
    UNION {{<<f.trouble, f.start + ((b - f.first) \div f.width), f.memory>> :
                f \in {f \in fields : f.first <= b /\ b < f.first + f.units * f.width}} : b \in bits}

Known(keys) == {k \in keys : k[1] # "unused"}

\* What update_troubles_internal inserts, present or not.
Writes(cmd, key) ==
    \E f \in RulesOf[cmd] : /\ f.trouble = key[1] /\ f.memory = key[3]
                            /\ key[1] # "GenericTrouble"
                            /\ key[2] \in f.start .. f.start + f.units - 1

-----------------------------------------------------------------------------
(* process_troubles_part*: the slices of the frame, for the caller.  The items *)
(* of a slice are numbered as the getters of client.rs say of each part.       *)

Slice(from, to, number, memory, trouble) ==
    Field(8 * from, 8 * (to - from), 1, number, memory, trouble)

Byte(at, memory, trouble) == Field(8 * at, 1, 8, 0, memory, trouble)

\* Wireless devices are numbered from 1: the zone or the output 17.
Devices(from, number, memory) ==
    Slice(from, from + 15, number + 16, memory, "WirelessDeviceLowBattery")
    \cup Slice(from + 15, from + 30, number + 16, memory, "WirelessDeviceNoComm")
    \cup Slice(from + 30, from + 45, number + 16, memory, "WirelessOutputNoComm")

Part1(memory) ==
    Slice(0, 16, 1, memory, "TechnicalZoneTrouble")
    \cup Slice(16, 24, 1, memory, "ExpanderAcLoss")
    \cup Slice(24, 32, 1, memory, "ExpanderBatteryLow")
    \cup Slice(32, 40, 1, memory, "ExpanderBatteryMissing")
    \cup SystemTroubles(memory)
    \cup Byte(43, memory, "EthmPingTrouble")
    \cup Byte(44, memory, "EthmServerIdError")
    \cup Byte(45, memory, "EthmSatelServerConnectionError")
    \cup EthmPtsaStatus(memory)

Part2(memory) ==
    Slice(0, 8, 1, memory, "ExpanderCardReaderHeadA")
    \cup Slice(8, 16, 1, memory, "ExpanderCardReaderHeadB")
    \cup Slice(16, 24, 1, memory, "ExpanderSupplyOverload")
    \cup Slice(24, 26, 1, memory, "ExpanderAcuJammedOrShortCircuit")

MemoryPart2 ==
    Part2(TRUE)
    \cup Slice(26, 27, 1, TRUE, "KeypadRestart")
    \cup Slice(27, 35, 1, TRUE, "ExpanderRestart")
    \cup Field(8 * 35, 1, 16, 0, FALSE, "PanelCmeError")
    \cup Field(8 * 37, 1, 16, 0, TRUE, "PanelCmeError")

Part3 == Field(0, 15, 8, 1, FALSE, "AcuJamLevel") \cup Devices(15, 1, FALSE)

MemoryPart3 ==
    Slice(0, 2, 17, FALSE, "ExpanderAcuJammedOrShortCircuit")
    \cup Slice(2, 4, 17, TRUE, "ExpanderAcuJammedOrShortCircuit")
    \cup Devices(15, 1, TRUE)

Part4(memory) ==
    Slice(0, 8, 1, memory, "ExpanderNoComm")
    \cup Slice(8, 16, 1, memory, "ExpanderSubstituted")
    \cup Slice(16, 17, 1, memory, "KeypadNoComm")
    \cup Slice(17, 18, 1, memory, "KeypadSubstituted")
    \cup Slice(18, 19, 1, memory, "EthmNoLanCable")
    \cup Slice(19, 27, 1, memory, "ExpanderTamper")
    \cup Slice(27, 28, 1, memory, "KeypadTamper")
    \cup Slice(28, 29, 1, memory, "KeypadInitError")
    \cup Byte(29, memory, "AuxiliaryStmTroubles")

Part5 ==
    Slice(0, 1, 1, FALSE, "MasterKeyFobLowBattery")
    \cup Slice(1, 31, 1, FALSE, "UserKeyFobLowBattery")

ZonesPart(number) ==
    Slice(0, 16, number, TRUE, "ZoneLongViolationTrouble")
    \cup Slice(16, 32, number, TRUE, "ZoneNoViolationTrouble")
    \cup Slice(32, 48, number, TRUE, "ZoneTamperTrouble")

Part7 ==
    Slice(0, 16, 129, FALSE, "TechnicalZoneTrouble")
    \cup Slice(16, 32, 129, TRUE, "TechnicalZoneTrouble")
    \cup Field(8 * 32, 15, 8, 16, FALSE, "AcuJamLevel")

\* Eight chunks of eight bytes; the reserved bits of the fourth are left out.
Part8(memory) ==
    UNION {Flags(8 * address, address, memory, GsmFlags)
           \cup Field(8 * (8 * address + 4), 1, 16, address, memory, "CmeError1")
           \cup Field(8 * (8 * address + 6), 1, 16, address, memory, "CmeError2") : address \in 0..7}

PartOf == [cmd \in TroubleCommands |->
    CASE cmd \in {27, 32} -> Part1(cmd = 32)
      [] cmd = 28 -> Part2(FALSE)
      [] cmd = 33 -> MemoryPart2
      [] cmd = 29 -> Part3
      [] cmd = 34 -> MemoryPart3
      [] cmd \in {30, 35} -> Part4(cmd = 35)
      [] cmd = 31 -> Part5
      [] cmd = 36 -> ZonesPart(1)
      [] cmd \in {44, 46} -> Devices(0, 121, cmd = 46)
      [] cmd = 45 -> Part7
      [] cmd = 47 -> ZonesPart(129)
      [] cmd \in {48, 49} -> Part8(cmd = 49)]

-----------------------------------------------------------------------------
TroublesInit ==
    /\ wanted \in OptionSets
    /\ auto_read_dirty = FALSE /\ storing = "no"
    /\ link = "down"
    /\ exchanging = NoMask /\ asked = {}
    /\ active = {} /\ refused = FALSE /\ astray = FALSE
    /\ option_changes = 0
    /\ trouble_flags = {}
    /\ shown = [cmd \in TroubleCommands |-> {}]
    /\ trouble_frames = 0

\* hot_reload_config and reload_config store the options under the lock.
StoreOptions(options, how) ==
    /\ storing = "no" /\ option_changes < MaxOptionChanges
    /\ options # wanted
    /\ wanted' = options /\ storing' = how
    /\ option_changes' = option_changes + 1
    /\ UNCHANGED <<auto_read_dirty, link, Mask, Cached>>

\* hot_reload_config raises the flag afterwards.
RaiseDirty ==
    /\ storing = "hot" /\ storing' = "no"
    /\ auto_read_dirty' = TRUE
    /\ UNCHANGED <<wanted, option_changes, link, Mask, Cached>>

\* reload_config has the worker disconnect, between its exchanges, and raises no flag;
\* its connect is Connect, and without a connection it does neither.
ReloadDisconnects ==
    /\ storing = "full" /\ storing' = "no"
    /\ link # "connecting" /\ exchanging = NoMask
    /\ link' = "down"
    /\ UNCHANGED <<wanted, auto_read_dirty, option_changes, Mask, Cached>>

\* connect lowers the flag first.  The panel pushes nothing yet over a new connection.
Connect ==
    /\ link = "down" /\ link' = "connecting"
    /\ auto_read_dirty' = FALSE
    /\ asked' = {} /\ refused' = FALSE /\ astray' = FALSE
    /\ UNCHANGED <<wanted, storing, option_changes, exchanging, active, Cached>>

\* The end of connect: with no option on it sends no mask, and has no report.
ConnectMask ==
    /\ link = "connecting" /\ exchanging = NoMask
    /\ IF wanted # {} THEN exchanging' = PushMask(wanted) /\ UNCHANGED link
                      ELSE link' = "up" /\ UNCHANGED exchanging
    /\ UNCHANGED <<Reload, asked, active, refused, astray, Cached>>

\* The tick: the flag, and then the mask, with no option on too.
ResendMask ==
    /\ link = "up" /\ exchanging = NoMask /\ auto_read_dirty
    /\ auto_read_dirty' = FALSE
    /\ exchanging' = PushMask(wanted)
    /\ UNCHANGED <<wanted, storing, option_changes, link, asked, active, refused, astray, Cached>>

\* The answer, or the late one of another command, by which the panel may have refused
\* the mask or have it still to come.  The report tells of the options that are on now;
\* an error code is no error here.
MaskAnswered ==
    /\ exchanging # NoMask /\ exchanging' = NoMask
    /\ link' = "up"
    /\ \/ asked' = exchanging /\ active' = wanted /\ refused' = FALSE /\ astray' = FALSE
       \/ /\ asked' \in {asked, exchanging}
          /\ \/ active' = wanted /\ refused' = FALSE /\ astray' = TRUE
             \/ active' = {} /\ refused' = TRUE /\ UNCHANGED astray
    /\ UNCHANGED <<Reload, Cached>>

\* A timeout or a broken line: the tick raises the flag again, and connect has failed.
\* The panel may have taken the mask.
MaskFails ==
    /\ exchanging # NoMask /\ exchanging' = NoMask
    /\ \/ link = "up" /\ auto_read_dirty' = TRUE /\ link' \in {"up", "down"}
       \/ link = "connecting" /\ link' = "down" /\ UNCHANGED auto_read_dirty
    /\ asked' \in {asked, exchanging}
    /\ UNCHANGED <<wanted, storing, option_changes, active, refused, astray, Cached>>

\* The connection is lost, or disconnected.
LoseConnection ==
    /\ link # "down" /\ exchanging = NoMask
    /\ link' = "down"
    /\ UNCHANGED <<Reload, Mask, Cached>>

\* update_troubles_internal: every key of the table is inserted, present or not.
UpdateTroubles(cmd, bits) ==
    /\ trouble_frames < MaxTroubleFrames
    /\ trouble_frames' = trouble_frames + 1
    /\ trouble_flags' = {k \in trouble_flags : ~Writes(cmd, k)} \cup Known(SetKeys(RulesOf[cmd], bits))
    /\ shown' = [shown EXCEPT ![cmd] = bits]

\* What a frame may say: at most one bit, and none while another command shows one.
Datas(cmd) == {{}} \cup IF \A c \in TroubleCommands : shown[c] = {}
                        THEN {{b} : b \in 0 .. 8 * DataLen(cmd) - 1} ELSE {}

\* Pushes come over a connection, in its handshake too.
PushTroubles(cmd) ==
    /\ link # "down" /\ cmd \in asked
    /\ \E bits \in Datas(cmd) : UpdateTroubles(cmd, bits)
    /\ UNCHANGED Pushing

\* get_troubles and get_troubles_{,memory_}part*; the answer may be applied when the
\* connection is gone.
GetTroubles(cmd) ==
    /\ \E bits \in Datas(cmd) : UpdateTroubles(cmd, bits)
    /\ UNCHANGED Pushing

TroublesNext ==
    \/ \E options \in OptionSets, how \in {"hot", "full"} : StoreOptions(options, how)
    \/ RaiseDirty \/ ReloadDisconnects
    \/ Connect \/ ConnectMask \/ ResendMask
    \/ MaskAnswered \/ MaskFails \/ LoseConnection
    \/ \E cmd \in TroubleCommands : PushTroubles(cmd) \/ GetTroubles(cmd)

TroublesSpec == TroublesInit /\ [][TroublesNext]_troublesVars

-----------------------------------------------------------------------------
(* Properties. *)

\* Every variable keeps its type.
TroublesTypeOK ==
    /\ wanted \subseteq Options /\ active \subseteq Options
    /\ asked \subseteq 0..95
    /\ exchanging = NoMask \/ exchanging \subseteq 0..95
    /\ auto_read_dirty \in BOOLEAN /\ refused \in BOOLEAN /\ astray \in BOOLEAN
    /\ storing \in {"no", "hot", "full"} /\ link \in {"down", "connecting", "up"}
    /\ exchanging # NoMask => link # "down"
    /\ option_changes \in 0..MaxOptionChanges
    /\ \A k \in trouble_flags : k[2] \in 0..511 /\ k[3] \in BOOLEAN
    /\ \A cmd \in TroubleCommands : shown[cmd] \subseteq 0 .. 8 * DataLen(cmd) - 1
    /\ trouble_frames \in 0..MaxTroubleFrames

\* The configuration, the mask, the dispatch and the report agree on a connection with
\* no change under way (worker.rs:412-640, auto_requester.rs:72-184, system.rs:931): the
\* panel pushes a command exactly when the category it is written to is wanted, and if
\* any is, the options called Active are those, however reloads and connects fell
\* between the building of a mask, its answer and the report.  Not so after an error code
\* or an answer that was another's; and a connect with no option on sends no mask
\* (worker.rs:441), so that the report keeps what it said of an earlier connection.
AskedIsWanted ==
    link = "up" /\ ~auto_read_dirty /\ storing = "no" /\ exchanging = NoMask /\ ~refused /\ ~astray =>
        /\ \A cmd \in 0..95 : cmd \in asked <=> Category(cmd) \in wanted
        /\ wanted # {} => active = wanted

\* A byte of part 1 stands for its eight modules; there are 30 ACU modules.
Whole(k) == IF k[1] \in {"EthmPingTrouble", "EthmServerIdError", "EthmSatelServerConnectionError"}
            THEN <<k[1], 0, k[3]>> ELSE k

Comparable(keys) ==
    {Whole(k) : k \in {k \in keys : /\ k[1] \notin {"GenericTrouble", "unused"}
                                    /\ k[1] = "ExpanderAcuJammedOrShortCircuit" => k[2] <= 30}}

\* The cache holds what the last frames said (client_internal.rs:390-426): a trouble is
\* present to the cache exactly when the part that has it (system.rs:533-928) shows it in
\* the last frame of its command; no other frame, of another part or of the memory,
\* touches it, and no bit is read as another device.
FlagsAreLastFrames ==
    Comparable(trouble_flags) = Comparable(UNION {SetKeys(PartOf[cmd], shown[cmd]) : cmd \in TroubleCommands})

=============================================================================
