------------------------------ MODULE MCBattery ------------------------------
(* Battery with two battery directories and one other supply, as the      *)
(* comment of battery_init_dirs describes, and uevent files shaped like   *)
(* the kernel's power_supply uevent: status first, then capacity.         *)
EXTENDS Battery

(* A line with a numeric value, and one with a word (atoi gives 0).      *)
N(k, n) == [key |-> k, str |-> "", num |-> n]
W(k, w) == [key |-> k, str |-> w, num |-> 0]
CAPACITY_LEVEL == <<"CAPACITY", "LEVEL">>

(* A fuel gauge that reports a capacity.                                  *)
Gauge(st, c) == <<W(STATUS, st), N(CAPACITY, c), W(CAPACITY_LEVEL, "Normal")>>
(* A gauge whose driver reports no status line.                           *)
NoStatus(c) == <<N(CAPACITY, c), W(CAPACITY_LEVEL, "Normal")>>
(* A battery that reports only charges.                                   *)
Charges(full, empty, now) ==
    <<W(STATUS, "Charging"), N(CHARGE_FULL_DESIGN, 10), N(CHARGE_FULL, full),
      N(CHARGE_EMPTY, empty), N(CHARGE_NOW, now)>>

MCSupplies == <<"Battery", "Other", "Battery">>
MCWdGarbage == {0, 1, 3}

MCFiles == [k \in 1..3 |->
              CASE k = 1 -> {Gauge("Discharging", 50), Gauge("Full", 100),
                             NoStatus(40), <<W(STATUS, "Unknown")>>}
                [] k = 2 -> {}
                [] k = 3 -> {Charges(8, 0, 6), Charges(8, 0, 4), Charges(8, 9, 6)}]

(* A supply whose driver gives a status and nothing else, before a       *)
(* charge-only battery that discharges between two polls.                 *)
MCFilesStale == [k \in 1..3 |->
                   CASE k = 1 -> {<<W(STATUS, "Charging")>>}
                     [] k = 2 -> {}
                     [] k = 3 -> {Charges(8, 0, 6), Charges(8, 0, 4)}]

(* Uninitialised heap memory, and heap memory that happens to be zero.    *)
MCGarbage == {NULL, Junk}
MCZeroed == {NULL}
MCWdZero == {0}

(* One battery whose uevent file has no capacity yet on the first poll    *)
(* (charging_mode sleeps 3 s for the first battery_status to be right).   *)
MCSuppliesOne == <<"Battery">>
MCFilesEarly == [k \in 1..1 |-> {<<W(STATUS, "Unknown")>>, Gauge("Discharging", 50)}]

(* A charge-only battery with a non-zero empty charge.                    *)
MCFilesEmpty == [k \in 1..3 |->
                   IF k = 3 THEN {Charges(8, 2, 7)} ELSE {}]
=============================================================================
