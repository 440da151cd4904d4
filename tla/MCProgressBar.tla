---------------------------- MODULE MCProgressBar ----------------------------
(* ProgressBar with the percents the handlers pass: tboot_ui_bouncebar,   *)
(* tboot_ui_hidebar, a filling progress value, an emptying one, and one   *)
(* out of range.                                                          *)
EXTENDS ProgressBar

MCPercents == {BAR_BOUNCE, 0, 50, -50, 150}
MCMaxCalls == 4
=============================================================================
