------------------------------- MODULE Uevent -------------------------------
(***************************************************************************)
(* The uevent monitor of src/src/uevent.c: uevent_thread opens a netlink   *)
(* socket for kobject uevents, reads the sysfs file of every device of     *)
(* the current platform once (uevent_status_init), then for each "change" *)
(* uevent whose path starts with a known device path re-reads that        *)
(* device's file into uevent_status, which usb_status, charger_status and *)
(* battery_capacity return to the other threads.                          *)
(*                                                                         *)
(* The environment is the kernel: a device's sysfs value changes and the  *)
(* kernel broadcasts a "change@<path>" uevent to the bound socket.  The   *)
(* socket's receive queue holds QueueMax messages; one more is dropped and *)
(* the next recv fails with ENOBUFS.  Other uevents (other actions, other *)
(* devices, child paths, malformed messages) come from Noise.              *)
(*                                                                         *)
(* A uevent is a record: kind "uevent", "short" (fewer bytes than "a@/d") *)
(* or "noat" (no "@/"), its action, its device path and whether the path  *)
(* goes below the device (child).  strncmp(dm->path, p, strlen(dm->path)) *)
(* is a prefix test, so a child path matches its device.                  *)
(* The UI callback passed as arg (tboot.c) keeps no state here.           *)
(***************************************************************************)
EXTENDS Integers, Sequences, SequencesExt

CONSTANTS
    Plat,        \* get_current_platform()
    Present,     \* the device paths this kernel has: their sysfs files exist
    Caps,        \* capacities the battery's sysfs file can show
    Noise,       \* the other uevents the kernel can send
    QueueMax,    \* messages the socket's receive queue holds
    MaxChanges,  \* bound on sysfs value changes
    MaxNoise     \* bound on other uevents sent

BLACKBAY == 1
REDRIDGE == 2
REDHOOKBAY == 3

(* char *uevent_action[]: the actions parse_uevent acts on ("add" and      *)
(* "remove" are #if 0'd out).                                              *)
UeventAction == <<"change">>

(* struct device_mapping uevent_path[], in table order; the terminating   *)
(* TYPE_UNKNOWN entry is the end of the sequence.                          *)
E(pl, ty, pa, fi) == [plat |-> pl, type |-> ty, path |-> pa, file |-> fi]
UsbPath == "/devices/virtual/usb_mode/usb0"
Table == <<
    E(BLACKBAY, "USB", UsbPath, "state"),
    E(BLACKBAY, "BATTERY", "/devices/pci0000:00/0000:00:00.4/i2c-1/1-0036/power_supply/max17042_battery", "capacity"),
    E(BLACKBAY, "CHARGER", "/devices/platform/intel_msic/msic_battery/power_supply/msic_charger", "online"),
    E(BLACKBAY, "USB", UsbPath, "state"),
    E(BLACKBAY, "BATTERY", "/devices/pci0000:00/0000:00:00.4/i2c-1/1-0036/power_supply/max170xx_battery", "capacity"),
    E(BLACKBAY, "CHARGER", "/devices/ipc/msic_battery/power_supply/msic_charger", "online"),
    E(REDRIDGE, "USB", UsbPath, "state"),
    E(REDRIDGE, "BATTERY", "/devices/pci0000:00/0000:00:00.4/i2c-1/1-0036/power_supply/max17042_battery", "capacity"),
    E(REDRIDGE, "CHARGER", "/devices/pci0000:00/0000:00:00.4/i2c-1/1-0006/power_supply/smb347-mains", "online"),
    E(REDRIDGE, "BATTERY", "/devices/pci0000:00/0000:00:00.4/i2c-1/1-0036/power_supply/max170xx_battery", "capacity"),
    E(REDHOOKBAY, "USB", UsbPath, "state"),
    E(REDHOOKBAY, "BATTERY", "/devices/pci0000:00/0000:00:00.5/i2c-2/2-0036/power_supply/max17047_battery", "capacity"),
    E(REDHOOKBAY, "CHARGER", "/devices/pci0000:00/0000:00:00.5/i2c-2/2-006b", "online") >>

TypeOf(path) == CHOOSE t \in {Table[k].type : k \in DOMAIN Table} :
                    \E k \in DOMAIN Table : Table[k].path = path /\ Table[k].type = t

(* enum status *)
STATUS_DISCONNECTED == 0
STATUS_CONNECTED == 1
STATUS_UNKOWN == 2

(* What a device's sysfs file can hold: its text as a word (str) and      *)
(* what atoi makes of it (num).  A charger's "online" can be 2 as well    *)
(* (the code tests atoi(buf) for non-zero).                                *)
Word(w) == [str |-> w, num |-> 0]
Num(n) == [str |-> "", num |-> n]
FileValues(path) ==
    CASE TypeOf(path) = "USB"     -> {Word("CONFIGURED"), Word("DISCONNECTED"),
                                      Word("SUSPENDED")}
      [] TypeOf(path) = "CHARGER" -> {Num(0), Num(1), Num(2)}
      [] TypeOf(path) = "BATTERY" -> {Num(c) : c \in Caps}

VARIABLES
    upc,       \* "socket", "bind", "init", "loop" or "exited"
    i,         \* the table index of uevent_status_init
    status,    \* static struct uevent_status, zero-initialised
    net,       \* the socket's receive queue
    overflow,  \* a uevent was dropped: the next recv fails with ENOBUFS
    sysfs,     \* sysfs[p]: the value of the file of device p
    failed,    \* history: failed[p]: the latest read of p's file failed
    changes,   \* number of sysfs changes so far
    noise      \* number of other uevents sent so far

vars == <<upc, i, status, net, overflow, sysfs, failed, changes, noise>>
Kernel == <<sysfs, changes, noise>>

(* usb_status(), charger_status(), battery_capacity().                    *)
usb_status == status.usb
charger_status == status.charger
battery_capacity == status.capacity

Init ==
    /\ upc = "socket" /\ i = 1
    /\ status = [usb |-> 0, charger |-> 0, capacity |-> 0]
    /\ net = <<>> /\ overflow = FALSE
    /\ sysfs \in [Present -> UNION {FileValues(p) : p \in Present}]
    /\ \A p \in Present : sysfs[p] \in FileValues(p)
    /\ failed = [p \in Present |-> FALSE]
    /\ changes = 0 /\ noise = 0

(* The first uevent_path entry of the current platform whose path is a    *)
(* prefix of the uevent's path; 0 is the TYPE_UNKNOWN terminator.         *)
MatchFirst(m) ==
    LET M == {k \in DOMAIN Table : Table[k].plat = Plat /\ Table[k].path = m.dev}
    IN  IF M = {} THEN 0 ELSE Min(M)

(* Mutant: the charger's status is atoi(buf) itself.                       *)
NewStatusRaw(st, ty, v) ==
    CASE ty = "USB" -> [st EXCEPT !.usb = IF v.str = "CONFIGURED" THEN STATUS_CONNECTED
                                          ELSE IF v.str = "DISCONNECTED" THEN STATUS_DISCONNECTED
                                          ELSE STATUS_UNKOWN]
      [] ty = "CHARGER" -> [st EXCEPT !.charger = v.num]
      [] ty = "BATTERY" -> [st EXCEPT !.capacity = v.num]
(* The status a device's file contents give: the strncmp chain for USB,   *)
(* atoi for the charger and the battery.                                  *)
NewStatus(st, ty, v) ==
    CASE ty = "USB" ->
           [st EXCEPT !.usb = CASE v.str = "CONFIGURED"   -> STATUS_CONNECTED
                                [] v.str = "DISCONNECTED" -> STATUS_DISCONNECTED
                                [] OTHER                  -> STATUS_UNKOWN]
      [] ty = "CHARGER" ->
           [st EXCEPT !.charger = IF v.num # 0 THEN STATUS_CONNECTED ELSE STATUS_DISCONNECTED]
      [] ty = "BATTERY" -> [st EXCEPT !.capacity = v.num]

(* parse_uevent(m): an action not in uevent_action, or a path of no       *)
(* device of this platform, returns; a file that does not exist (open     *)
(* fails) returns; read may fail and return; otherwise the status of the  *)
(* entry's type is set from the file.                                      *)
ParseUevent(m) ==
    LET k == MatchFirst(m)
        dm == Table[k]
    IN  IF m.act \notin ToSet(UeventAction) \/ k = 0 \/ dm.path \notin Present
        THEN UNCHANGED <<status, failed>>
        ELSE \/ /\ failed' = [failed EXCEPT ![dm.path] = TRUE]
                /\ UNCHANGED status
             \/ /\ status' = NewStatus(status, dm.type, sysfs[dm.path])
                /\ failed' = [failed EXCEPT ![dm.path] = FALSE]

(* socket(PF_NETLINK, ...) may fail: the thread returns.                  *)
Socket ==
    /\ upc = "socket"
    /\ upc' \in {"bind", "exited"}
    /\ UNCHANGED <<i, status, net, overflow, failed, Kernel>>

(* bind to the uevent multicast group may fail: close and return.         *)
Bind ==
    /\ upc = "bind"
    /\ upc' \in {"init", "exited"}
    /\ UNCHANGED <<i, status, net, overflow, failed, Kernel>>

(* Mutant: uevent_status_init is not called.                              *)
StatusInitNone ==
    /\ upc = "init"
    /\ upc' = "loop"
    /\ UNCHANGED <<i, status, net, overflow, failed, Kernel>>

(* uevent_status_init, one table entry per step: an entry of the current  *)
(* platform is parsed as "change@<path>".  Then the loop starts.           *)
StatusInit ==
    /\ upc = "init"
    /\ IF i > Len(Table)
       THEN /\ upc' = "loop"
            /\ UNCHANGED <<i, status, failed>>
       ELSE /\ i' = i + 1
            /\ IF Table[i].plat = Plat
               THEN ParseUevent([kind |-> "uevent", act |-> "change",
                                 dev |-> Table[i].path, child |-> FALSE])
               ELSE UNCHANGED <<status, failed>>
            /\ UNCHANGED upc
    /\ UNCHANGED <<net, overflow, Kernel>>

(* One pass of while (1): recv fails after an overflow and the loop       *)
(* breaks (close, return); a message shorter than "a@/d" or without "@/" *)
(* is skipped; any other is parsed.  recv blocks on an empty queue.       *)
Recv ==
    /\ upc = "loop"
    /\ net # <<>> \/ overflow
    /\ IF overflow
       THEN /\ upc' = "exited" /\ net' = <<>> /\ overflow' = FALSE
            /\ UNCHANGED <<status, failed>>
       ELSE LET m == Head(net) IN
            /\ net' = Tail(net)
            /\ IF m.kind \in {"short", "noat"}
               THEN UNCHANGED <<status, failed>>
               ELSE ParseUevent(m)
            /\ UNCHANGED <<upc, overflow>>
    /\ UNCHANGED <<i, Kernel>>

(* The kernel delivers a uevent to the socket once it is bound and until  *)
(* it is closed; a full queue drops it and flags ENOBUFS.                 *)
Bound == upc \in {"init", "loop"}
Deliver(m) ==
    IF ~Bound THEN UNCHANGED <<net, overflow>>
    ELSE IF Len(net) < QueueMax
         THEN net' = Append(net, m) /\ UNCHANGED overflow
         ELSE overflow' = TRUE /\ UNCHANGED net

(* A device's value changes, and the kernel sends "change@<path>".        *)
SysfsChange ==
    /\ changes < MaxChanges
    /\ \E p \in Present : \E v \in FileValues(p) \ {sysfs[p]} :
          /\ sysfs' = [sysfs EXCEPT ![p] = v]
          /\ Deliver([kind |-> "uevent", act |-> "change", dev |-> p, child |-> FALSE])
    /\ changes' = changes + 1
    /\ UNCHANGED <<upc, i, status, failed, noise>>

(* Some other uevent.                                                      *)
OtherUevent ==
    /\ noise < MaxNoise
    /\ \E m \in Noise : Deliver(m)
    /\ noise' = noise + 1
    /\ UNCHANGED <<upc, i, status, failed, sysfs, changes>>

Thread == Socket \/ Bind \/ StatusInit \/ Recv

Next == Thread \/ SysfsChange \/ OtherUevent

(* uevent_thread is a thread of its own; it blocks only in recv, on an    *)
(* empty queue.                                                           *)
Spec == Init /\ [][Next]_vars /\ WF_vars(Thread)

-----------------------------------------------------------------------------
(* Properties *)

TypeOK ==
    /\ upc \in {"socket", "bind", "init", "loop", "exited"}
    /\ i \in 1..Len(Table) + 1
    /\ status \in [usb : {0, 1, 2}, charger : {0, 1}, capacity : {0} \cup Caps]
    /\ Len(net) <= QueueMax /\ overflow \in BOOLEAN
    /\ failed \in [Present -> BOOLEAN]
    /\ changes \in 0..MaxChanges /\ noise \in 0..MaxNoise

(* The status the getters report for present device p matches its file.   *)
Reflects(p) == NewStatus(status, TypeOf(p), sysfs[p]) = status

(* The comment of uevent_thread: the status follows the devices.  Once    *)
(* the kernel stops changing them, each present device's status ends up   *)
(* matching its sysfs file, unless the thread has quit or the latest read *)
(* of that file failed: no change is missed between socket setup,         *)
(* uevent_status_init and the receive loop.                               *)
StatusFollowsSysfs ==
    <>[](upc = "exited" \/ \A p \in Present : failed[p] \/ Reflects(p))

=============================================================================
