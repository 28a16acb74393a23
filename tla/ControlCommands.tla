--------------------------- MODULE ControlCommands ---------------------------
(***************************************************************************)
(* The control calls of the client (src/client.rs 1826-2100): arming,      *)
(* disarming, clearing, outputs, the clock.                                *)
(*                                                                         *)
(* A call checks the number of its object, resolves the user code, sends a *)
(* frame of the command, the code in BCD and a mask with one bit, and      *)
(* turns the result code of the panel into its own.  A mask is the set of  *)
(* its bits.                                                               *)
(*                                                                         *)
(* exchange, which the worker does for one caller at a time, takes the     *)
(* next result frame for its own (worker.rs:302).  An exchange given up    *)
(* leaves its command in the write buffer or with the panel, and the       *)
(* result comes to whoever asks next: commands and results are what is     *)
(* under way to the panel and back.  Frames carry the number of their      *)
(* call, for the properties only.                                          *)
(***************************************************************************)
EXTENDS Integers, FiniteSets, Sequences

CONSTANTS
    Controllers,  \* tasks that make control calls
    ControlOps,   \* pairs of the operations called, <<name, mode>>
    Numbers,      \* numbers of objects that are passed, valid or not
    UserCodes,    \* codes the panel knows, sequences of digits
    GivenCodes,   \* codes configured or passed: characters, over 9 if no digits
    MaxControls   \* bound: calls, changes of the configured code, other commands

NoCode == <<>>
Digits == 0..9

ASSUME CodesAssumption ==
    /\ UserCodes \subseteq Seq(Digits)
    /\ NoCode \notin GivenCodes

VARIABLES
    user_code,   \* the code of the configuration, or NoCode
    control,     \* the call each task is at
    commands,    \* frames under way to the panel: buffered, sent, not yet looked at
    results,     \* result frames the panel has given and nobody has read
    done,        \* history: what the panel has done, for which call, on whose code
    refusing,    \* the panel cannot arm: a zone is violated
    controls

Wire == <<commands, results>>

controlVars == <<user_code, control, Wire, done, refusing, controls>>

-----------------------------------------------------------------------------
(* Frames. *)

\* The command byte; any other mode arms in mode 0.
CommandByte(op) ==
    CASE op[1] = "arm" -> IF op[2] \in 1..3 THEN 128 + op[2] ELSE 128
      [] op[1] = "force_arm" -> IF op[2] \in 1..3 THEN 160 + op[2] ELSE 160
      [] op[1] = "disarm" -> 132
      [] op[1] = "clear_alarm" -> 133
      [] op[1] = "set_output_on" -> 136
      [] op[1] = "set_output_off" -> 137
      [] op[1] = "set_satel_time" -> 142
      [] op[1] = "set_output_toggle" -> 145

Arms(op)      == op[1] \in {"arm", "force_arm"}
OfPartition(op) == Arms(op) \/ op[1] \in {"disarm", "clear_alarm"}
OfOutput(op)  == op[1] \in {"set_output_on", "set_output_off", "set_output_toggle"}

ValidNumber(op, n) == /\ OfPartition(op) => n \in 1..32
                      /\ OfOutput(op) => n \in 1..256

\* Slip: the number of the object is the index of its bit.
ObjectMaskByNumber(op, n) ==
    IF OfPartition(op) \/ OfOutput(op) THEN {<<n \div 8, n % 8>>} ELSE {}

\* mask[idx / 8] |= 1 << (idx % 8); the clock has no mask.
ObjectMask(op, n) ==
    IF OfPartition(op) \/ OfOutput(op) THEN {<<(n - 1) \div 8, (n - 1) % 8>>} ELSE {}

\* format_user_code: sixteen half bytes; characters that are no digits are skipped,
\* and digits after the sixteenth.
Bcd(code) ==
    LET digits == SelectSeq(code, LAMBDA c : c \in Digits)
    IN  [i \in 1..16 |-> IF i <= Len(digits) THEN digits[i] ELSE 15]

-----------------------------------------------------------------------------
NoCommand == [command |-> 0, code |-> <<>>, mask |-> {}, call |-> 0]

NoControl == [at |-> "idle", op |-> <<"none", 0>>, number |-> 0, code |-> NoCode,
              frame |-> NoCommand, doubtful |-> FALSE, result |-> "none"]

\* A command that is none of these and that the panel answers with a result code.
OtherCommand == [NoCommand EXCEPT !.command = 238]

ControlInit ==
    /\ user_code \in GivenCodes \cup {NoCode}
    /\ control = [c \in Controllers |-> NoControl]
    /\ commands = <<>> /\ results = <<>>
    /\ done = {}
    /\ refusing \in BOOLEAN
    /\ controls = 0

\* resolve_code: the code passed, or that of the configuration.
Resolved(code) == IF code # NoCode THEN code ELSE user_code

\* A control call, until its command is in the channel of the worker.
Call(c, op, n, code) ==
    LET call == [NoControl EXCEPT !.op = op, !.number = n, !.code = Resolved(code)] IN
    /\ control[c].at \in {"idle", "over"} /\ controls < MaxControls
    /\ controls' = controls + 1
    /\ control' = [control EXCEPT ![c] =
           IF ~ValidNumber(op, n) THEN [call EXCEPT !.at = "over", !.result = "NoAccess"]
           ELSE IF call.code = NoCode THEN [call EXCEPT !.at = "over", !.result = "InvalidUserCode"]
           ELSE [call EXCEPT !.at = "queued",
                    !.frame = [command |-> CommandByte(op), code |-> Bcd(call.code),
                               mask |-> ObjectMask(op, n), call |-> controls']]]
    /\ UNCHANGED <<user_code, Wire, done, refusing>>

Arm(c, op, n, code)    == Arms(op) /\ Call(c, op, n, code)
Disarm(c, n, code)     == \E op \in ControlOps : op[1] = "disarm" /\ Call(c, op, n, code)
ClearAlarm(c, n, code) == \E op \in ControlOps : op[1] = "clear_alarm" /\ Call(c, op, n, code)
SetSatelTime(c, code)  == \E op \in ControlOps : op[1] = "set_satel_time" /\ Call(c, op, 0, code)

SetOutputToggle(c, n, code) ==
    \E op \in ControlOps : op[1] = "set_output_toggle" /\ Call(c, op, n, code)

SetOutput(c, n, code) ==
    \E op \in ControlOps : op[1] \in {"set_output_on", "set_output_off"} /\ Call(c, op, n, code)

\* Bits of a mask, as the panel counts its objects.
ObjectsOf(frame) == {8 * b[1] + b[2] + 1 : b \in frame.mask}

Exchanging == \E c \in Controllers : control[c].at = "exchange"

Quiet == commands = <<>> /\ results = <<>>

\* The worker sends the command, behind what its buffer still holds.
Exchange(c) ==
    /\ control[c].at = "queued" /\ ~Exchanging
    /\ control' = [control EXCEPT ![c].at = "exchange", ![c].doubtful = ~Quiet]
    /\ commands' = Append(commands, control[c].frame)
    /\ UNCHANGED <<user_code, results, done, refusing, controls>>

\* The panel does what a frame says, now (0x00) or soon (0xFF), or answers why not.
Codes(frame) ==
    IF frame.command = OtherCommand.command THEN {8, 255}
    ELSE IF \A u \in UserCodes : Bcd(u) # frame.code THEN {1}
    ELSE IF frame.command \in 128..131 /\ refusing THEN {17, 18} ELSE {0, 255, 2, 8}

\* The frame of its result may have no code, and may get lost.
PanelActs ==
    LET frame == Head(commands) IN
    /\ commands # <<>> /\ commands' = Tail(commands)
    /\ \E code \in Codes(frame) :
        /\ \/ \E bytes \in {<<code>>, <<>>} :
                 results' = Append(results, [call |-> frame.call, bytes |-> bytes])
           \/ UNCHANGED results
        /\ done' = IF code \in {0, 255}
                   THEN done \cup {[command |-> frame.command, objects |-> ObjectsOf(frame),
                                    code |-> frame.code, call |-> frame.call]}
                   ELSE done
    /\ UNCHANGED <<user_code, control, refusing, controls>>

\* Slip: an error code the panel does not explain is no error.
HandleResultUnknownIsOk(bytes) ==
    LET code == IF bytes = <<>> THEN 255 ELSE bytes[1] IN
    CASE code = 1 -> "InvalidUserCode"
      [] code = 2 -> "NoAccess"
      [] code \in {17, 18} -> "CanNotArm"
      [] OTHER -> "ok"

\* handle_result_code: a result frame that ends before its code is taken for 0xFF.
HandleResult(bytes) ==
    LET code == IF bytes = <<>> THEN 255 ELSE bytes[1] IN
    CASE code \in {0, 255} -> "ok"
      [] code = 1 -> "InvalidUserCode"
      [] code = 2 -> "NoAccess"
      [] code \in {17, 18} -> "CanNotArm"
      [] OTHER -> "IntegraResultError"

\* exchange returns the next result frame, whichever command it answers.
CallReturns(c) ==
    /\ control[c].at = "exchange" /\ results # <<>>
    /\ results' = Tail(results)
    /\ LET bytes == Head(results).bytes IN
        control' = [control EXCEPT ![c].at = "over", ![c].result = HandleResult(bytes),
                        ![c].doubtful = control[c].doubtful \/ bytes = <<>>]
    /\ UNCHANGED <<user_code, commands, done, refusing, controls>>

\* exchange returns an error: the command has not been sent, or its result is still to
\* come, or the command too.
ExchangeFails(c) ==
    /\ control[c].at \in {"queued", "exchange"}
    /\ control' = [control EXCEPT ![c].at = "over", ![c].result = "error"]
    /\ UNCHANGED <<user_code, Wire, done, refusing, controls>>

\* Another command is sent and given up.
OthersGiveUp ==
    /\ ~Exchanging /\ controls < MaxControls
    /\ controls' = controls + 1
    /\ commands' = Append(commands, OtherCommand)
    /\ UNCHANGED <<user_code, control, results, done, refusing>>

\* Between two exchanges the worker reads what comes, and a lost connection takes all.
ResultPasses ==
    /\ ~Exchanging /\ results # <<>>
    /\ results' = Tail(results)
    /\ UNCHANGED <<user_code, control, commands, done, refusing, controls>>

Reconnect ==
    /\ ~Exchanging /\ ~Quiet
    /\ commands' = <<>> /\ results' = <<>>
    /\ UNCHANGED <<user_code, control, done, refusing, controls>>

\* A configuration with another code; the panel is ready to arm, or no longer.
ReplaceUserCode(code) ==
    /\ controls < MaxControls /\ code # user_code
    /\ user_code' = code /\ controls' = controls + 1
    /\ UNCHANGED <<control, Wire, done, refusing>>

ZonesChange ==
    /\ commands # <<>>
    /\ refusing' = ~refusing
    /\ UNCHANGED <<user_code, control, Wire, done, controls>>

ControlNext ==
    \/ \E c \in Controllers, code \in GivenCodes \cup {NoCode} :
        \/ \E n \in Numbers :
            \/ \E op \in ControlOps : Arm(c, op, n, code)
            \/ Disarm(c, n, code) \/ ClearAlarm(c, n, code)
            \/ SetOutput(c, n, code) \/ SetOutputToggle(c, n, code)
        \/ SetSatelTime(c, code)
    \/ \E c \in Controllers : Exchange(c) \/ CallReturns(c) \/ ExchangeFails(c)
    \/ PanelActs
    \/ OthersGiveUp \/ ResultPasses \/ Reconnect
    \/ \E code \in GivenCodes \cup {NoCode} : ReplaceUserCode(code)
    \/ ZonesChange

ControlSpec == ControlInit /\ [][ControlNext]_controlVars

-----------------------------------------------------------------------------
(* Properties. *)

\* Every variable keeps its type; a code that is sent has sixteen half bytes.
ControlTypeOK ==
    /\ user_code \in GivenCodes \cup {NoCode}
    /\ \A c \in Controllers :
        /\ control[c].at \in {"idle", "queued", "exchange", "over"}
        /\ control[c].at \in {"queued", "exchange"} =>
               /\ control[c].frame.code \in [1..16 -> 0..15]
               /\ control[c].frame.mask \subseteq (0..31) \X (0..7)
        /\ control[c].doubtful \in BOOLEAN
    /\ Len(commands) + Len(results) <= MaxControls
    /\ \A e \in done : e.command \in 128..163 \cup {OtherCommand.command}
    /\ refusing \in BOOLEAN /\ controls \in 0..MaxControls

\* A call that returns Ok has been done (client.rs:1826-2089): for this call, by its
\* command, on its object and no other, on the code resolved when it was called, though
\* the configuration may have another by now.  Not so if the call is doubtful: a command
\* given up before, or its result, was still under way when this one was sent, and
\* exchange may have taken that result (worker.rs:302); or the frame had no code.
OkMeansDone ==
    \A c \in Controllers : control[c].result = "ok" /\ ~control[c].doubtful =>
        \E e \in done : /\ e.call = control[c].frame.call
                        /\ e.command = CommandByte(control[c].op)
                        /\ e.code = Bcd(control[c].code)
                        /\ OfPartition(control[c].op) \/ OfOutput(control[c].op) =>
                               e.objects = {control[c].number}

=============================================================================
