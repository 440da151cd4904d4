------------------------------- MODULE Battery -------------------------------
(***************************************************************************)
(* The battery monitor of src/src/battery.c as charging_mode               *)
(* (src/src/charging.c) drives it: battery_init once, then battery_status  *)
(* once a minute, forever, on the same struct battery.                     *)
(*                                                                         *)
(* battery_init_dirs collects the power_supply entries whose type is       *)
(* "Battery" into bat->dirs; battery_status reads the uevent file of       *)
(* bat->dirs[bat->wd_index] line by line and keeps what it finds in the    *)
(* struct, which is never reset between calls.                             *)
(*                                                                         *)
(* Pointers are abstracted: a dirs[] slot holds the readdir position of    *)
(* the entry whose path it points to, NULL, or Junk (a non-zero value read *)
(* from uninitialised heap memory).  A uevent line is its key, its value  *)
(* as a word (str) and what atoi makes of that value (num); a uevent key is *)
(* the sequence of its '_'-separated words after POWER_SUPPLY_, so that    *)
(* strstr(line, key) is a search for a contiguous run of words.            *)
(***************************************************************************)
EXTENDS Integers, Sequences, SequencesExt, TLC

CONSTANTS
    Supplies,   \* /sys/class/power_supply in readdir order: "Battery" or "Other"
    Files,      \* Files[k]: the contents the uevent file of entry k can have
    WdGarbage,  \* values the never-initialised bat->wd_index can hold
    Garbage,    \* values an uninitialised dirs[] slot can hold: NULL, Junk
    NULL,       \* the zero pointer
    Junk        \* a non-zero pointer read from uninitialised heap memory

STATUS              == <<"STATUS">>
CAPACITY            == <<"CAPACITY">>
CHARGE_FULL_DESIGN  == <<"CHARGE", "FULL", "DESIGN">>
CHARGE_EMPTY_DESIGN == <<"CHARGE", "EMPTY", "DESIGN">>
CHARGE_FULL         == <<"CHARGE", "FULL">>
CHARGE_EMPTY        == <<"CHARGE", "EMPTY">>
CHARGE_NOW          == <<"CHARGE", "NOW">>

(* The keys in the order of the else-if chain of battery_status.          *)
Keys == <<STATUS, CAPACITY, CHARGE_FULL_DESIGN, CHARGE_FULL,
          CHARGE_EMPTY_DESIGN, CHARGE_EMPTY, CHARGE_NOW>>

(* The struct field each charge key is stored in.                         *)
ChargeField ==
    CHARGE_FULL_DESIGN :> "charge_full_design" @@
    CHARGE_EMPTY_DESIGN :> "charge_empty_design" @@
    CHARGE_FULL :> "charge_full" @@ CHARGE_EMPTY :> "charge_empty" @@
    CHARGE_NOW :> "charge_now"

VARIABLES
    pc,      \* "start", "init_dirs", "idle", "status", "exited", "undefined"
    entry,   \* the readdir position battery_init_dirs is at
    i,       \* the i of battery_init_dirs, never reset between entries
    bat,     \* struct battery
    ret,     \* what the last battery_status returned, NULL before any
    file,    \* history: the uevent contents the returning call read
    leaked   \* history: a string from key_value or strdup became unreachable

vars == <<pc, entry, i, bat, ret, file, leaked>>

(* strstr(line, key) != NULL, on words.                                    *)
StrStr(line, key) ==
    \E n \in 0..(Len(line.key) - Len(key)) :
        SubSeq(line.key, n + 1, n + Len(key)) = key

(* The key the else-if chain takes for a line, <<>> when none matches.    *)
KeyOf(line) ==
    LET M == {n \in 1..Len(Keys) : StrStr(line, Keys[n])}
    IN  IF M = {} THEN <<>> ELSE Keys[Min(M)]

(* C division of int, truncating toward zero.                             *)
CDiv(a, b) ==
    LET q == (IF a < 0 THEN -a ELSE a) \div (IF b < 0 THEN -b ELSE b)
    IN  IF (a < 0) = (b < 0) THEN q ELSE -q

Init ==
    /\ pc = "start" /\ entry = 1 /\ i = 0
    /\ bat = [dirs |-> <<>>, wd_index |-> 0, nr_dirs |-> 0,
              charge_full_design |-> -1, charge_empty_design |-> 0,
              charge_full |-> -1, charge_empty |-> 0, charge_now |-> -1,
              status |-> NULL, capacity |-> -1]
    /\ ret = NULL /\ file = <<>> /\ leaked = FALSE

(* charging_mode calls battery_init: either malloc fails and charging_mode *)
(* returns, or the fields get their initial values, wd_index is left as   *)
(* malloc found it, dirs gets one uninitialised slot, and                 *)
(* battery_init_dirs starts, or returns at once when opendir fails.       *)
BatteryInit ==
    /\ pc = "start"
    /\ \/ /\ pc' = "exited"
          /\ UNCHANGED bat
       \/ \E w \in WdGarbage, g \in Garbage, opened \in BOOLEAN :
             /\ bat' = [bat EXCEPT !.dirs = <<g>>, !.wd_index = w,
                                   !.nr_dirs = 1]
             /\ pc' = IF opened THEN "init_dirs" ELSE "idle"
    /\ UNCHANGED <<entry, i, ret, file, leaked>>

(* while (bat->dirs[i]) i++: the first NULL slot at or after i, or -1    *)
(* when the loop runs off the end of the array.                           *)
FirstFree(d, from) ==
    LET J == {j \in from..(Len(d) - 1) : d[j + 1] = NULL}
    IN  IF J = {} THEN -1 ELSE Min(J)

(* Puts entry k into the first free slot of d, the array of n slots.      *)
Place(d, n, k) ==
    LET j == FirstFree(d, i) IN
    IF j = -1
    THEN pc' = "undefined" /\ UNCHANGED <<bat, i>>
    ELSE /\ bat' = [bat EXCEPT !.dirs = [d EXCEPT ![j + 1] = k], !.nr_dirs = n]
         /\ i' = j /\ UNCHANGED pc

(* Mutant: realloc asks for one more slot instead of nr_dirs.             *)
NewSlotsOne(n) == 1
(* The slots realloc adds when nr_dirs doubles from n.                    *)
NewSlots(n) == n

(* One readdir entry of battery_init_dirs.  An entry whose type file is   *)
(* not "Battery" is skipped.  Otherwise, when the last slot is non-zero   *)
(* ("battery dirs full"), the array is doubled by realloc, whose new      *)
(* slots are uninitialised; a failed realloc leaves bat->dirs NULL and    *)
(* returns.  Then the entry's path goes into the first NULL slot from i.  *)
ScanEntry ==
    /\ pc = "init_dirs" /\ entry <= Len(Supplies)
    /\ entry' = entry + 1
    /\ IF Supplies[entry] # "Battery"
       THEN UNCHANGED <<pc, i, bat>>
       ELSE LET d == bat.dirs
                n == bat.nr_dirs
                full == d[n] # NULL
            IN  \/ /\ full
                   /\ bat' = [bat EXCEPT !.dirs = <<>>, !.nr_dirs = 2 * n]
                   /\ pc' = "idle" /\ UNCHANGED i
                \/ \E g \in IF full THEN [1..NewSlots(n) -> Garbage] ELSE {<<>>} :
                      Place(d \o g, IF full THEN 2 * n ELSE n, entry)
    /\ UNCHANGED <<ret, file, leaked>>

(* readdir returns NULL: closedir, and battery_init returns bat.          *)
ScanEnd ==
    /\ pc = "init_dirs" /\ entry > Len(Supplies)
    /\ pc' = "idle"
    /\ UNCHANGED <<entry, i, bat, ret, file, leaked>>

(* One pass of charging_mode's while (1): call battery_status.  With      *)
(* bat->dirs NULL it returns -1 at once.  The comparison and the debug    *)
(* print that follow only feed the (commented-out) splash screen.         *)
Poll ==
    /\ pc = "idle"
    /\ IF bat.dirs = <<>>
       THEN ret' = -1 /\ UNCHANGED pc
       ELSE pc' = "status" /\ UNCHANGED ret
    /\ UNCHANGED <<entry, i, bat, file, leaked>>

(* One line of the fgets loop, over the accumulator [b, done, leaked].    *)
(* Every key_value match is a strndup.  A status line replaces           *)
(* bat->status without freeing the old string, and "Full" returns with    *)
(* capacity 100.  A capacity line returns at once when a status is known, *)
(* before free(value).  The charge lines are stored and freed.            *)
ScanLine(acc, line) ==
    LET b == acc.b
        k == KeyOf(line)
        v == line.str
    IN  CASE acc.done -> acc
          [] k = STATUS ->
                [acc EXCEPT !.b = [b EXCEPT !.status = v,
                                   !.capacity = IF v = "Full" THEN 100 ELSE @],
                            !.done = (v = "Full"),
                            !.leaked = @ \/ b.status # NULL]
          [] k = CAPACITY ->
                [acc EXCEPT !.b = [b EXCEPT !.capacity = line.num],
                            !.done = (b.status # NULL),
                            !.leaked = @ \/ b.status # NULL]
          [] k \in DOMAIN ChargeField ->
                [acc EXCEPT !.b = [b EXCEPT ![ChargeField[k]] = line.num]]
          [] OTHER -> acc

(* charge_full <= 0 || charge_now <= 0 || charge_full == charge_empty     *)
NoCharge(b) ==
    b.charge_full <= 0 \/ b.charge_now <= 0 \/ b.charge_full = b.charge_empty

(* capacity = charge_now * 100 / (charge_full - charge_empty)             *)
Computed(b) == CDiv(b.charge_now * 100, b.charge_full - b.charge_empty)

(* battery_status returns 0; the file read is recorded for the properties. *)
Return0(b, f, lk) ==
    /\ bat' = b /\ ret' = 0 /\ pc' = "idle" /\ file' = f /\ leaked' = lk

(* wd_index++; continue: the next directory, in the same call.            *)
NextDir(b, lk) ==
    /\ bat' = [b EXCEPT !.wd_index = @ + 1] /\ leaked' = lk
    /\ UNCHANGED <<pc, ret, file>>

(* Mutant: no "Unknown" status when the driver gives none.                *)
EndOfFileNoFallback(b, f, lk) ==
    IF b.capacity < 0 /\ NoCharge(b) THEN NextDir(b, lk)
    ELSE LET c == IF b.capacity < 0 THEN Computed(b) ELSE b.capacity IN
         IF c < 0 THEN NextDir([b EXCEPT !.capacity = c], lk)
         ELSE Return0([b EXCEPT !.capacity = c], f, lk)

(* After the fgets loop: with no capacity yet, compute it from the        *)
(* charges or move to the next directory; a negative capacity moves on    *)
(* too; otherwise a missing status becomes strdup("Unknown") and the call *)
(* returns 0.  A capacity left from an earlier call counts as found.      *)
EndOfFile(b, f, lk) ==
    IF b.capacity < 0 /\ NoCharge(b) THEN NextDir(b, lk)
    ELSE LET c == IF b.capacity < 0 THEN Computed(b) ELSE b.capacity IN
         IF c < 0 THEN NextDir([b EXCEPT !.capacity = c], lk)
         ELSE Return0([b EXCEPT !.capacity = c,
                               !.status = IF @ = NULL THEN "Unknown" ELSE @],
                      f, lk)

(* One pass of the while (bat->dirs[bat->wd_index]) loop of               *)
(* battery_status.  An index outside the array, or a Junk slot used as a  *)
(* path, is undefined behaviour; a NULL slot or a failed fopen returns    *)
(* -1; otherwise the uevent file, with whatever contents it has now, is   *)
(* scanned line by line and the call returns or moves on.                 *)
DirStep ==
    /\ pc = "status"
    /\ LET w == bat.wd_index IN
       IF w < 0 \/ w >= bat.nr_dirs
       THEN pc' = "undefined" /\ UNCHANGED <<bat, ret, file, leaked>>
       ELSE LET s == bat.dirs[w + 1] IN
            CASE s = NULL ->
                    ret' = -1 /\ pc' = "idle" /\ UNCHANGED <<bat, file, leaked>>
              [] s = Junk ->
                    pc' = "undefined" /\ UNCHANGED <<bat, ret, file, leaked>>
              [] OTHER ->
                    \/ ret' = -1 /\ pc' = "idle" /\ UNCHANGED <<bat, file, leaked>>
                    \/ \E f \in Files[s] :
                          LET a == FoldLeft(ScanLine,
                                     [b |-> bat, done |-> FALSE, leaked |-> leaked], f)
                          IN  IF a.done THEN Return0(a.b, f, a.leaked)
                              ELSE EndOfFile(a.b, f, a.leaked)
    /\ UNCHANGED <<entry, i>>

(* charging_mode has returned, or the process hit undefined behaviour.    *)
Stopped == pc \in {"exited", "undefined"} /\ UNCHANGED vars

Next == BatteryInit \/ ScanEntry \/ ScanEnd \/ Poll \/ DirStep \/ Stopped

Spec == Init /\ [][Next]_vars

-----------------------------------------------------------------------------
(* Properties *)

Slot == (1..Len(Supplies)) \cup {NULL, Junk}

TypeOK ==
    /\ pc \in {"start", "init_dirs", "idle", "status", "exited", "undefined"}
    /\ entry \in 1..Len(Supplies) + 1
    /\ i \in Nat
    /\ bat.dirs \in Seq(Slot) /\ bat.nr_dirs \in Nat
    /\ bat.dirs # <<>> => Len(bat.dirs) = bat.nr_dirs
    /\ bat.wd_index \in Int /\ bat.capacity \in Int
    /\ ret \in {NULL, 0, -1} /\ leaked \in BOOLEAN

Returned0 == pc = "idle" /\ ret = 0

(* charging_mode does strcmp(bat->status, buf) and prints the capacity    *)
(* whenever battery_status returns 0: a call that returns 0 has set a     *)
(* status string and a non-negative capacity, whatever the driver's       *)
(* uevent file lacked.                                                    *)
UsableStatus == Returned0 => bat.status # NULL /\ bat.capacity >= 0

(* The capacity the uevent file reports: 100 when the status is Full,     *)
(* else the POWER_SUPPLY_CAPACITY value, else the one computed from the   *)
(* charges; -1 when the file gives none of them.                          *)
FileCapacity(f) ==
    LET Line(key) == {m \in ToSet(f) : m.key = key}
        Num(key) == {l.num : l \in Line(key)}
        Charge(key) == IF Num(key) = {} THEN -1 ELSE Min(Num(key))
        b == [charge_full |-> Charge(CHARGE_FULL),
              charge_empty |-> Max({0} \cup {Charge(CHARGE_EMPTY)}),
              charge_now |-> Charge(CHARGE_NOW)]
    IN  CASE "Full" \in {l.str : l \in Line(STATUS)} -> 100
          [] Num(CAPACITY) # {} -> Min(Num(CAPACITY))
          [] ~NoCharge(b) -> Computed(b)
          [] OTHER -> -1

(* The comment "try to find battery capacity": a call that returns 0      *)
(* reports the capacity of the uevent file it has just read.             *)
CapacityFromCurrentFile == Returned0 => bat.capacity = FileCapacity(file)

(* A capacity is a percentage: a call that returns 0 reports 0..100.      *)
CapacityInRange == Returned0 => bat.capacity \in 0..100

(* bat->dirs and bat->wd_index are only read inside the array and after   *)
(* being set: the process never reaches undefined behaviour.              *)
NoUndefinedRead == pc # "undefined"

(* charging_mode polls once a minute forever: every string key_value or   *)
(* strdup allocates is freed or kept in bat->status.                     *)
NoLeak == ~leaked

=============================================================================
