------------------------------ MODULE MCUevent ------------------------------
(* A Blackbay device on the new kernel interfaces: the old battery and    *)
(* charger paths of the table do not exist, so uevent_status_init fails  *)
(* to open them.  Two battery capacities, a queue of one message and      *)
(* two changes, so the queue can overflow; the other uevents are an    *)
(* "add", a path of no known device, a child of the USB device and the    *)
(* two malformed kinds.                                                   *)
EXTENDS Uevent

MCPlat == BLACKBAY
MCBattery == "/devices/pci0000:00/0000:00:00.4/i2c-1/1-0036/power_supply/max170xx_battery"
MCCharger == "/devices/ipc/msic_battery/power_supply/msic_charger"
MCPresent == {UsbPath, MCBattery, MCCharger}
MCCaps == {15, 80}
U(k, a, d, c) == [kind |-> k, act |-> a, dev |-> d, child |-> c]
MCNoise == { U("uevent", "add", MCBattery, FALSE),
             U("uevent", "change", "/devices/virtual/net/lo", FALSE),
             U("uevent", "change", UsbPath, TRUE),
             U("short", "change", UsbPath, FALSE),
             U("noat", "change", UsbPath, FALSE) }
MCQueueMax == 1
MCMaxChanges == 2
MCMaxNoise == 1
=============================================================================
