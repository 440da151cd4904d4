------------------------------- MODULE TbootUi -------------------------------
(***************************************************************************)
(* The two parts of the tboot screen the command handlers write to: the   *)
(* progress bar (ProgressBar) and the log window (TextArea).  The macros  *)
(* of src/src/tboot_ui.h tie them: tboot_ui_info and tboot_ui_error hide   *)
(* the bar (tboot_ui_hidebar, tboot_ui_textbar(0, ...)) and then log the   *)
(* line; tboot_ui_warn only logs; the handlers also call tboot_ui_textbar *)
(* and tboot_ui_bouncebar themselves.  All of these run on the fastboot   *)
(* thread; the bounce threads of the bar run beside it.                   *)
(*                                                                         *)
(* tboot_ui_info is one step: a bounce thread that runs between its two   *)
(* calls reads only bar->percent, which the second call does not touch,   *)
(* so it sees the same state either way.                                  *)
(***************************************************************************)
EXTENDS ProgressBar, TextArea

barVars == <<percent, flags, calls, tpc>>
logVars == taVars
uiVars == <<barVars, logVars>>

UiInit == Init /\ LogInit

(* tboot_ui_textbar / tboot_ui_bouncebar called by a handler.             *)
SetBar == \E p \in Percents : TextBar(p) /\ UNCHANGED logVars

(* tboot_ui_warn(...).                                                     *)
Warn == \E m \in Msgs : TextLine(m) /\ UNCHANGED barVars

(* tboot_ui_info(...) and tboot_ui_error(...), which differ in colour.     *)
InfoOrError == \E m \in Msgs : TextBar(0) /\ TextLine(m)

Bounce(t) == BounceThread(t) /\ UNCHANGED logVars

UiNext == SetBar \/ Warn \/ InfoOrError \/ \E t \in Threads : Bounce(t)

(* As in ProgressBar: every bounce thread is scheduled; the fastboot      *)
(* thread may stop logging at any point.                                  *)
UiSpec == UiInit /\ [][UiNext]_uiVars /\ \A t \in Threads : WF_uiVars(Bounce(t))

-----------------------------------------------------------------------------
(* Properties *)

UiTypeOK == TypeOK /\ LogTypeOK
=============================================================================
