------------------------------ MODULE Fastboot ------------------------------
(***************************************************************************)
(* The fastboot protocol engine of tboot (src/src/fastboot.c) together    *)
(* with the command handlers it dispatches to (src/src/aboot.c).          *)
(*                                                                         *)
(* One thread runs fastboot_handler: it opens the transport, runs         *)
(* fastboot_command_loop until the session state is STATE_ERROR, closes   *)
(* the transport and reopens it.  Every command is one 64-byte line; the  *)
(* engine matches it against the registered prefixes, consults the        *)
(* low-battery gate and runs the handler under action_mutex.  A handler   *)
(* answers with frames INFO, DATA, OKAY and FAIL written by usb_write;    *)
(* each write may fail, which sets STATE_ERROR.                           *)
(*                                                                         *)
(* A handler runs to completion while the engine waits, so each handler   *)
(* is one step whose outcome is a record                                  *)
(*   [sent : frames the host received,                                    *)
(*    err  : a transport operation failed,                                *)
(*    st   : fastboot_state when the handler returns,                     *)
(*    fin  : "read" (loop goes on), "halted" (the device rebooted),       *)
(*           "crashed" (undefined behaviour in _fastboot_ack) or          *)
(*           "exited" (die() ended the process)].                         *)
(* The streaming pipeline inside flash: is modelled in StreamFlash; here  *)
(* only the frames and state it leaves behind are kept.                   *)
(***************************************************************************)
EXTENDS Integers, Sequences, SequencesExt, FiniteSets

CONSTANTS
    DownloadMax,   \* download_max, the capacity of the download area
    DownLens,      \* lengths a host may put in download: and flash:<plugin>:
    Lines,         \* command lines the host may send, as token sequences
    MaxCmds,       \* bound on the number of command lines read
    MaxConns       \* bound on the number of times the transport is opened

ASSUME DownloadMax \in Nat /\ DownLens \subseteq Nat
ASSUME MaxCmds \in Nat /\ MaxConns \in Nat \ {0}

(* Command prefixes, tokenised so that a byte prefix is a token prefix.   *)
Oem        == <<"oem">>
Boot       == <<"boot">>
Reboot     == <<"reboot">>
RebootBl   == <<"reboot", "-bootloader">>
Erase      == <<"erase", ":">>
Flash      == <<"flash", ":">>
Getvar     == <<"getvar", ":">>
Download   == <<"download", ":">>
OemPush    == <<"oem", " push">>

(* The fastboot_register calls in the order they run:                     *)
(* aboot_register_commands, then fastboot_init (which never returns).     *)
Registrations == <<Oem, Boot, Reboot, RebootBl, Erase, Flash, Getvar, Download>>

(* The cmds[] table of the low-battery gate.                              *)
GateCmds == { <<"flash">>, <<"erase">>, <<"oem", " system">> }

Frames == {"INFO", "DATA", "OKAY", "FAIL"}
IsTerminal(f) == f \in {"OKAY", "FAIL"}

VARIABLES
    state,       \* fastboot_state: OFFLINE, COMMAND, COMPLETE or ERROR
    hpc,         \* where the fastboot thread is
    cmdlist,     \* the registered prefixes, head first
    line,        \* the command line being processed
    handler,     \* the prefix whose handler was selected
    batteryLow,  \* what check_battery() would report now
    dlSize,      \* download_size
    areaSrc,     \* which command last wrote the download area
    out,         \* history: frames the host received for this command
    answers,     \* history: _fastboot_ack calls that answered this command
    cmdErr,      \* history: a transport error happened in this command
    errSeen,     \* history: a transport error happened on this connection
    lastDl,      \* history: outcome of the latest download: command
    pushed,      \* history: the files oem push saved, as [src, size]
    cmds,        \* number of command lines read
    conns,       \* number of times the transport was opened
    alarm,       \* the idle alarm (alarm(2)) is pending
    lcd          \* lcd_state: lcd_state_on, lcd_state_dim or lcd_state_off

vars == <<state, hpc, cmdlist, line, handler, batteryLow, dlSize, areaSrc,
          out, answers, cmdErr, errSeen, lastDl, pushed, cmds, conns, alarm, lcd>>

-----------------------------------------------------------------------------
(* fastboot_register: the new descriptor becomes the head of cmdlist.     *)
RegisterAppend(list, p) == Append(list, p)
Register(list, p) == <<p>> \o list

(* The loop in fastboot_command_loop: the first descriptor, from the      *)
(* head, whose prefix is a byte prefix of the line.                       *)
Matches(l) == SelectSeq(cmdlist, LAMBDA p : IsPrefix(p, l))

(* The low-battery gate: strncmp of the line against each cmds[] entry.   *)
Gated(l) == \E g \in GateCmds : IsPrefix(g, l)

(* A handler starts in STATE_COMMAND with nothing sent.                   *)
Start == {[sent |-> <<>>, err |-> FALSE, st |-> "COMMAND", fin |-> "read", acks |-> 0]}

(* Apply a step to every outcome in which the process is still running.   *)
Lift(S, F(_)) == UNION { IF o.fin = "crashed" THEN {o} ELSE F(o) : o \in S }

(* One pass of the do-while in _fastboot_ack(code, reason): usb_write of  *)
(* code followed by at most 59 bytes of reason.  If usb_write fails the   *)
(* state becomes ERROR and "reason" moves back by strlen(code)+1 bytes;   *)
(* the loop then reads memory before the string (undefined behaviour):    *)
(* it stops at some NUL byte, or the process faults.  A gadget write of   *)
(* at most 64 bytes to the gadget endpoint is taken to transfer whole or *)
(* fail; after a short one the loop would resend the rest of reason.      *)
AckFrame(o, c) ==
    IF o.st # "COMMAND" THEN {o}
    ELSE {[o EXCEPT !.sent = Append(@, c)]}
           \cup {[o EXCEPT !.err = TRUE, !.st = "ERROR", !.fin = f]
                   : f \in {"read", "crashed"}}

(* _fastboot_ack(code, reason) for a reason that takes n frames (n is 1   *)
(* or 2): after a write that succeeded the loop goes on while reason has *)
(* bytes left; the state test is made once, before the loop.              *)
AckFrames(o, c, n) ==
    IF n = 1 THEN AckFrame(o, c)
    ELSE UNION { IF r.err THEN {r} ELSE AckFrame(r, c) : r \in AckFrame(o, c) }

(* The ack calls that wrote frames: the state was COMMAND on entry.       *)
Answered(o) == o.acks + (IF o.st = "COMMAND" THEN 1 ELSE 0)

(* fastboot_info: the state is left as it is.                             *)
Info(S) == Lift(S, LAMBDA o : AckFrame(o, "INFO"))

(* fastboot_okay / fastboot_fail: the ack, then STATE_COMPLETE whatever   *)
(* the state was, ERROR included.                                         *)
(* (fastboot_info sends long texts as several INFO frames; one stands    *)
(* for them, as nothing here depends on their number.)                    *)
AckNoComplete(S, c, n) ==
    Lift(S, LAMBDA o : { [r EXCEPT !.acks = Answered(o)] : r \in AckFrames(o, c, n) })
Ack(S, c, n) ==
    Lift(S, LAMBDA o : { [r EXCEPT !.st = "COMPLETE", !.acks = Answered(o)]
                           : r \in AckFrames(o, c, n) })
Okay(S) == Ack(S, "OKAY", 1)
Fail(S) == Ack(S, "FAIL", 1)
(* fastboot_okay of a reason longer than 59 bytes.                        *)
OkayLong(S) == Ack(S, "OKAY", 2)

(* response_data: usb_write of "DATA%08lx"; a failed write sets ERROR.     *)
ResponseData(S) ==
    Lift(S, LAMBDA o : {[o EXCEPT !.sent = Append(@, "DATA")],
                        [o EXCEPT !.err = TRUE, !.st = "ERROR"]})

(* usb_read / usb_read_progress of a payload: a read error or a short     *)
(* count makes the handler fail; usb_read sets ERROR, and the callers     *)
(* that see a short count set it themselves.                              *)
UsbRead(S) == Lift(S, LAMBDA o : {o, [o EXCEPT !.err = TRUE, !.st = "ERROR"]})

(* The outcomes in which the last transport call succeeded, and the rest. *)
Ok(S)  == { o \in S : o.st = "COMMAND" }
Bad(S) == S \ Ok(S)

(* The engine's check after the handler returns: fastboot_fail("unknown  *)
(* reason") while the state is still COMMAND.                              *)
Fallback(o) == IF o.st = "COMMAND" THEN Fail({o}) ELSE {o}

(* The end of a command: record what the host got, and go back to the   *)
(* top of the loop unless the device rebooted or the process faulted.     *)
Finish(o) ==
    \E f \in Fallback(o) :
        /\ out' = out \o f.sent
        /\ answers' = f.acks
        /\ state' = f.st
        /\ cmdErr' = f.err
        /\ errSeen' = (errSeen \/ f.err)
        /\ hpc' = f.fin

-----------------------------------------------------------------------------
(* Handler outcomes.  Arguments the model does not track (partition      *)
(* names, plugin results, variable names) become choices among the       *)
(* handler's paths.                                                       *)

(* cmd_getvar: the value of one variable, or the INFO listing of all.     *)
GetvarOut == Okay(Start) \cup Okay(Info(Start))

(* list_partitions (cmd_erase and cmd_stream_flash with an empty name).   *)
ListPartitions == Okay(Info(Start))

(* cmd_download(len), with the new download_size (dl, <<>> if kept) and whether the    *)
(* payload arrived (done).  download_size is cleared before the length    *)
(* check.                                                                 *)
DownloadOutNoReset(n) ==
    LET d == ResponseData(Start)
        r == UsbRead(Ok(d))
    IN  IF n > DownloadMax
        THEN {[o |-> x, dl |-> <<>>, done |-> FALSE] : x \in Fail(Start)}
        ELSE {[o |-> x, dl |-> <<>>, done |-> FALSE] : x \in Bad(d) \cup Bad(r)}
             \cup {[o |-> x, dl |-> <<n>>, done |-> TRUE] : x \in Okay(Ok(r))}
DownloadOutNoLimit(n) ==
    LET d == ResponseData(Start)
        r == UsbRead(Ok(d))
    IN  {[o |-> x, dl |-> <<0>>, done |-> FALSE] : x \in Bad(d) \cup Bad(r)}
          \cup {[o |-> x, dl |-> <<n>>, done |-> TRUE] : x \in Okay(Ok(r))}
DownloadOut(n) ==
    LET d == ResponseData(Start)
        r == UsbRead(Ok(d))
    IN  IF n > DownloadMax
        THEN {[o |-> x, dl |-> <<0>>, done |-> FALSE] : x \in Fail(Start)}
        ELSE {[o |-> x, dl |-> <<0>>, done |-> FALSE] : x \in Bad(d) \cup Bad(r)}
             \cup {[o |-> x, dl |-> <<n>>, done |-> TRUE] : x \in Okay(Ok(r))}

(* cmd_stream_flash, with whether download_to overwrote the download area *)
(* (area).  Paths: a parse or resolve failure; list_partitions; a plugin  *)
(* target, whose payload download_to reads into the download area         *)
(* without touching download_size; a device target, whose streaming       *)
(* pipeline (module StreamFlash) ends in OKAY, or FAIL after a pipeline   *)
(* failure or a usb_read fault.                                           *)
PluginFlashOut(n) ==
    LET d == ResponseData(Start)
        r == UsbRead(Ok(d))
    IN  IF n > DownloadMax
        THEN {[o |-> x, area |-> FALSE] : x \in Fail(Fail(Start))}
        ELSE {[o |-> x, area |-> FALSE] : x \in Fail(Bad(d))}
             \cup {[o |-> x, area |-> TRUE] :
                     x \in Fail(Bad(r)) \cup Okay(Ok(r)) \cup Fail(Ok(r))}
DeviceFlashOut ==
    LET d == ResponseData(Start)
    IN  Fail(Bad(d)) \cup Okay(Ok(d)) \cup Fail(UsbRead(Ok(d)))
FlashOut(n) ==
    PluginFlashOut(n)
      \cup {[o |-> x, area |-> FALSE] :
              x \in Fail(Start) \cup ListPartitions \cup DeviceFlashOut}

(* die(): exit(1), with no answer to the host.                           *)
Die(S) == Lift(S, LAMBDA o : {[o EXCEPT !.fin = "exited"]})

(* erase_partition: a failed find_part_device() calls die(); a node that  *)
(* is not a block device, a device with no fstab volume, a volume that is *)
(* not ext4 and a failed make_ext4fs_quick() return -1 ("fail"); else 0  *)
(* ("ok").                                                                 *)
ErasePartition == {"die", "fail", "ok"}

(* cmd_erase: an empty name lists the partitions, an unknown one fails;   *)
(* otherwise the result of erase_partition is FAIL (non-zero) or OKAY.    *)
EraseOut ==
    ListPartitions \cup Fail(Start)
      \cup UNION { CASE r = "die"  -> Die(Start)
                     [] r = "fail" -> Fail(Start)
                     [] r = "ok"   -> Okay(Start) : r \in ErasePartition }

(* cmd_oem: "oem push" saves download_size bytes of the download area to *)
(* a file (saved) and answers fastboot_okay(tmpfile), the push directory  *)
(* joined to the host's file name, which may be longer than 59 bytes;     *)
(* other sub-commands list, run a plugin callback, or are unknown.        *)
OemOut(l) ==
    IF l = OemPush
    THEN {[o |-> x, saved |-> FALSE] : x \in Okay(Info(Start)) \cup Fail(Start)}
         \cup {[o |-> x, saved |-> TRUE] : x \in Okay(Start) \cup OkayLong(Start)}
    ELSE {[o |-> x, saved |-> FALSE] :
            x \in Okay(Info(Start)) \cup Fail(Start) \cup Okay(Start)}

(* cmd_boot is a stub that fails.                                         *)
BootOut == Fail(Start)

(* cmd_reboot / cmd_reboot_bl: OKAY, then preos_reboot, which either      *)
(* reboots the device or returns.                                         *)
RebootOut ==
    UNION { IF o.fin = "crashed" THEN {o} ELSE {o, [o EXCEPT !.fin = "halted"]}
              : o \in Okay(Start) }

-----------------------------------------------------------------------------
(* The backlight state machine of backlight_control.c.  lcd_state is a     *)
(* function pointer; each state function takes an event and returns the   *)
(* next state, switching the panel (brightness, fb0 blank) on the way.     *)
(* The sysfs writes are left out: they may fail and only print.            *)

(* Mutant: an idle panel is turned off at once.                           *)
LcdOnSkipDim(ev) == IF ev = "LCD_IDLE" THEN "off" ELSE "on"
(* lcd_state_on: LCD_IDLE dims (set_bl_brightness of the dim level).      *)
LcdOn(ev) == IF ev = "LCD_IDLE" THEN "dim" ELSE "on"

(* lcd_state_dim: LCD_IDLE turns off (lcd_lightoff), the others turn on   *)
(* (lcd_lighton).                                                         *)
LcdDim(ev) == IF ev = "LCD_IDLE" THEN "off" ELSE "on"

(* lcd_state_off: every event but LCD_IDLE turns on (lcd_lighton).         *)
LcdOff(ev) == IF ev = "LCD_IDLE" THEN "off" ELSE "on"

(* lcd_state = lcd_state(ev): call the current state function.            *)
LcdState(s, ev) ==
    CASE s = "on"  -> LcdOn(ev)
      [] s = "dim" -> LcdDim(ev)
      [] s = "off" -> LcdOff(ev)

-----------------------------------------------------------------------------
Init ==
    /\ state = "OFFLINE"
    /\ hpc = "open"
    /\ cmdlist = FoldLeft(Register, <<>>, Registrations)
    /\ line = <<>>
    /\ handler = <<>>
    /\ batteryLow \in BOOLEAN
    /\ dlSize = 0
    /\ areaSrc = "none"
    /\ out = <<>>
    /\ answers = 0
    /\ cmdErr = FALSE
    /\ errSeen = FALSE
    /\ lastDl = [len |-> 0, ok |-> FALSE]
    /\ pushed = {}
    /\ cmds = 0
    /\ conns = 0
    /\ alarm \in BOOLEAN
    /\ lcd = "on"

Data == <<cmdlist, dlSize, areaSrc, lastDl, pushed>>
Screen == <<alarm, lcd>>

(* fastboot_handler: open /dev/android_adb (a failed open sleeps and      *)
(* retries, which changes nothing) and enter fastboot_command_loop.       *)
OpenDevice ==
    /\ hpc = "open"
    /\ conns < MaxConns
    /\ hpc' = "read"
    /\ errSeen' = FALSE
    /\ conns' = conns + 1
    /\ UNCHANGED <<state, line, handler, batteryLow, out, answers, cmdErr, cmds, Data, Screen>>

(* Top of the loop: usb_read of a 64-byte line.  On success the state    *)
(* becomes COMMAND; on failure usb_read sets ERROR.                       *)
ReadCommand ==
    /\ hpc = "read"
    /\ state # "ERROR"
    /\ cmds < MaxCmds
    /\ \E l \in Lines :
          /\ line' = l
          /\ state' = "COMMAND"
          /\ hpc' = "dispatch"
          /\ out' = <<>>
          /\ answers' = 0
          /\ cmdErr' = FALSE
          /\ cmds' = cmds + 1
    /\ alarm' = FALSE
    /\ lcd' = LcdState(lcd, "LCD_COMMAND")
    /\ UNCHANGED <<handler, batteryLow, errSeen, conns, Data>>

ReadFails ==
    /\ hpc = "read"
    /\ state # "ERROR"
    /\ state' = "ERROR"
    /\ errSeen' = TRUE
    /\ UNCHANGED <<hpc, line, handler, batteryLow, out, answers, cmdErr, cmds, conns, Data, Screen>>

(* The loop ends when the state is ERROR: state OFFLINE, close(fb_fp).    *)
LoopExit ==
    /\ hpc = "read"
    /\ state = "ERROR"
    /\ state' = "OFFLINE"
    /\ hpc' = "open"
    /\ UNCHANGED <<line, handler, batteryLow, out, answers, cmdErr, errSeen, cmds, conns, Data, Screen>>

(* No registered prefix matches: fastboot_fail("unknown command").        *)
UnknownCommand ==
    /\ hpc = "dispatch"
    /\ Matches(line) = <<>>
    /\ \E o \in Fail(Start) : Finish(o)
    /\ UNCHANGED <<line, handler, batteryLow, cmds, conns, Data, Screen>>

(* A prefix matches, check_battery() reports low and the line starts     *)
(* with a gated command: fastboot_fail and back to the top.               *)
BatteryGate ==
    /\ hpc = "dispatch"
    /\ Matches(line) # <<>>
    /\ batteryLow
    /\ Gated(line)
    /\ \E o \in Fail(Start) : Finish(o)
    /\ UNCHANGED <<line, handler, batteryLow, cmds, conns, Data, Screen>>

(* Otherwise action_mutex is taken and the first match's handler runs.   *)
SelectHandler ==
    /\ hpc = "dispatch"
    /\ Matches(line) # <<>>
    /\ ~(batteryLow /\ Gated(line))
    /\ handler' = Head(Matches(line))
    /\ hpc' = "run"
    /\ UNCHANGED <<state, line, batteryLow, out, answers, cmdErr, errSeen, cmds, conns, Data, Screen>>

Running(h) == hpc = "run" /\ handler = h

(* RESET_ALARM once the handler has returned to the loop: alarm(0) and a  *)
(* new alarm of LCD_DIM_TIMEOUT seconds.  A handler that reboots or       *)
(* faults never returns.                                                  *)
Rearm == alarm' = (hpc' = "read") /\ UNCHANGED lcd

RunGetvar ==
    /\ Running(Getvar)
    /\ \E o \in GetvarOut : Finish(o)
    /\ UNCHANGED <<line, handler, batteryLow, cmds, conns, Data>>
    /\ Rearm

(* The payload of download: is read into the download area.              *)
RunDownload ==
    /\ Running(Download)
    /\ \E n \in DownLens : \E r \in DownloadOut(n) :
          /\ Finish(r.o)
          /\ dlSize' = IF r.dl = <<>> THEN dlSize ELSE Head(r.dl)
          /\ areaSrc' = IF "DATA" \in ToSet(r.o.sent) THEN "download" ELSE areaSrc
          /\ lastDl' = [len |-> n, ok |-> r.done]
    /\ UNCHANGED <<line, handler, batteryLow, cmds, conns, cmdlist, pushed>>
    /\ Rearm

RunFlash ==
    /\ Running(Flash)
    /\ \E n \in DownLens : \E r \in FlashOut(n) :
          /\ Finish(r.o)
          /\ areaSrc' = IF r.area THEN "flash" ELSE areaSrc
    /\ UNCHANGED <<line, handler, batteryLow, cmds, conns, cmdlist, dlSize, lastDl, pushed>>
    /\ Rearm

RunErase ==
    /\ Running(Erase)
    /\ \E o \in EraseOut : Finish(o)
    /\ UNCHANGED <<line, handler, batteryLow, cmds, conns, Data>>
    /\ Rearm

(* oem push writes (data, sz) = (download_base, download_size).           *)
RunOem ==
    /\ Running(Oem)
    /\ \E r \in OemOut(line) :
          /\ Finish(r.o)
          /\ pushed' = IF r.saved THEN pushed \cup {[src |-> areaSrc, size |-> dlSize]}
                                  ELSE pushed
    /\ UNCHANGED <<line, handler, batteryLow, cmds, conns, cmdlist, dlSize, areaSrc, lastDl>>
    /\ Rearm

RunBoot ==
    /\ Running(Boot)
    /\ \E o \in BootOut : Finish(o)
    /\ UNCHANGED <<line, handler, batteryLow, cmds, conns, Data>>
    /\ Rearm

RunReboot ==
    /\ hpc = "run"
    /\ handler \in {Reboot, RebootBl}
    /\ \E o \in RebootOut : Finish(o)
    /\ UNCHANGED <<line, handler, batteryLow, cmds, conns, Data>>
    /\ Rearm

(* The battery level, read by check_battery(), changes on its own.        *)
BatteryChange ==
    /\ batteryLow' = ~batteryLow
    /\ UNCHANGED <<state, hpc, line, handler, out, answers, cmdErr, errSeen, cmds, conns, Data, Screen>>

(* The idle alarm fires: its handler (in tboot.c) feeds LCD_IDLE to the   *)
(* state machine and may arm the alarm again.  The signal can arrive      *)
(* whatever the fastboot thread is doing.                                 *)
Idle ==
    /\ alarm
    /\ lcd' = LcdState(lcd, "LCD_IDLE")
    /\ alarm' \in BOOLEAN
    /\ UNCHANGED <<state, hpc, line, handler, batteryLow, out, answers, cmdErr, errSeen,
                   cmds, conns, Data>>

Engine ==
    \/ OpenDevice \/ ReadCommand \/ ReadFails \/ LoopExit
    \/ UnknownCommand \/ BatteryGate \/ SelectHandler
Handlers ==
    \/ RunGetvar \/ RunDownload \/ RunFlash \/ RunErase
    \/ RunOem \/ RunBoot \/ RunReboot

Next == Engine \/ Handlers \/ BatteryChange \/ Idle

Spec == Init /\ [][Next]_vars

-----------------------------------------------------------------------------
(* Properties *)

TypeOK ==
    /\ state \in {"OFFLINE", "COMMAND", "COMPLETE", "ERROR"}
    /\ hpc \in {"open", "read", "dispatch", "run", "halted", "crashed", "exited"}
    /\ line \in Lines \cup {<<>>}
    /\ handler \in ToSet(Registrations) \cup {<<>>}
    /\ batteryLow \in BOOLEAN
    /\ dlSize \in 0..DownloadMax
    /\ areaSrc \in {"none", "download", "flash"}
    /\ out \in Seq(Frames) /\ answers \in Nat
    /\ cmdErr \in BOOLEAN /\ errSeen \in BOOLEAN
    /\ lastDl \in [len : DownLens \cup {0}, ok : BOOLEAN]
    /\ pushed \subseteq [src : {"none", "download", "flash"}, size : 0..DownloadMax]
    /\ cmds \in 0..MaxCmds /\ conns \in 0..MaxConns
    /\ alarm \in BOOLEAN /\ lcd \in {"on", "dim", "off"}

(* Every command that met no transport error is answered by exactly one   *)
(* call of fastboot_okay or fastboot_fail, and the host's last frame is  *)
(* its OKAY or FAIL: handlers that call fastboot_fail twice (download_to, *)
(* then cmd_stream_flash) answer once, as the second call finds the state *)
(* COMPLETE, and the "unknown reason" fallback adds no answer after a     *)
(* handler that answered.                                                 *)
OneAnswerPerCommand ==
    (hpc \in {"read", "halted"} /\ cmds > 0 /\ ~cmdErr) =>
        /\ answers = 1
        /\ IsTerminal(Last(out))

(* The fastboot protocol: a command gets exactly one OKAY or FAIL frame,  *)
(* and it is the last.  _fastboot_ack sends a reason of more than 59      *)
(* bytes in several frames that each start with the code, so oem push's  *)
(* fastboot_okay(tmpfile) with a long file name sends two OKAYs.          *)
ExactlyOneTerminalAck ==
    (hpc \in {"read", "halted"} /\ cmds > 0 /\ ~cmdErr) =>
        /\ Len(SelectSeq(out, IsTerminal)) = 1
        /\ IsTerminal(Last(out))

(* download_size, which oem push hands on as the payload length, is      *)
(* never more than the download area holds and is non-zero only if the   *)
(* latest download: command received its whole payload, of that length:  *)
(* a failed download clears what an earlier one left.                    *)
DownloadSizeSound ==
    /\ dlSize <= DownloadMax
    /\ dlSize # 0 => lastDl.ok /\ lastDl.len = dlSize

(* The prefix loop in fastboot_command_loop selects the most specific     *)
(* registered command for every line: "reboot-bootloader" is never taken *)
(* for "reboot", whatever the registration order of the two.              *)
DispatchMostSpecific ==
    hpc = "run" =>
        \A p \in ToSet(Registrations) : IsPrefix(p, line) => Len(p) <= Len(handler)

(* The state diagram in backlight_control.h, which lcd_state must follow. *)
Diagram == INSTANCE BacklightDiagram WITH lcd <- lcd

(* Every change of lcd_state, by a command line or by the idle alarm, is  *)
(* an edge of the diagram in backlight_control.h: the panel dims before   *)
(* it goes off, and only an event other than LCD_IDLE lights it again.    *)
BacklightFollowsDiagram == Diagram!Spec

(* Spec 4.3/7: a transport error forces ERROR, which ends the command     *)
(* loop; no further command line is dispatched on that connection.        *)
TransportErrorEndsSession ==
    hpc = "dispatch" => ~errSeen

(* Spec 3/9: the download area holds the most recently downloaded         *)
(* payload, so the file oem push saves from (download_base,              *)
(* download_size) is bytes a download: command put there.               *)
PushSavesDownload ==
    \A p \in pushed : p.size # 0 => p.src = "download"

=============================================================================
