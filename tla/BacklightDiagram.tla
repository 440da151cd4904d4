-------------------------- MODULE BacklightDiagram --------------------------
(***************************************************************************)
(* The backlight state machine as the comment of                          *)
(* src/src/backlight_control.h draws it: three states, and an edge for    *)
(* each event that changes the state.  An event with no edge leaves the   *)
(* state alone (a stuttering step).                                       *)
(***************************************************************************)
VARIABLE lcd

(* The panel starts lit.                                                   *)
Init == lcd = "on"

(* on --> LCD_IDLE --> dim                                                 *)
Dim == lcd = "on" /\ lcd' = "dim"

(* dim --> LCD_IDLE --> off                                                *)
Off == lcd = "dim" /\ lcd' = "off"

(* dim, off --> LCD_COMMAND, LCD_KEY, LCD_USB_EVENT --> on                 *)
Wake == lcd \in {"dim", "off"} /\ lcd' = "on"

Next == Dim \/ Off \/ Wake

Spec == Init /\ [][Next]_lcd
=============================================================================
