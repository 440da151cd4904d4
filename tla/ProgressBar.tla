----------------------------- MODULE ProgressBar -----------------------------
(***************************************************************************)
(* The progress bar of the text bar window: tboot_ui_textbar               *)
(* (src/src/tboot_ui.c, with tboot_ui_bouncebar and tboot_ui_hidebar as    *)
(* its BAR_BOUNCE and 0 forms), textbar_refresh and the bounce thread      *)
(* bouncebar_refresh (src/libminui/minui.c).                               *)
(*                                                                         *)
(* The command handlers call tboot_ui_textbar from the fastboot thread,    *)
(* one call at a time.  Each refresh that draws a bounce bar starts a      *)
(* thread that is never joined and animates the bar until it sees          *)
(* bar->percent != BAR_BOUNCE at the end of a frame.  Nothing but that     *)
(* read of bar->percent ties the threads to the caller.                    *)
(*                                                                         *)
(* Drawing (colours, rectangles, text) is left out: a frame is one step.   *)
(* ui.tb and its bar exist (tboot_ui_init ran), so the NULL checks of      *)
(* tboot_ui_textbar, textbar_refresh and bouncebar_refresh pass.           *)
(***************************************************************************)
EXTENDS Integers, FiniteSets

CONSTANTS
    Percents,   \* the percent arguments the callers pass
    MaxCalls    \* bound on the number of tboot_ui_textbar calls

BAR_BOUNCE == 101
BF_PROGRESS == "BF_PROGRESS"
BF_FILLOUT == "BF_FILLOUT"

(* Every call can start at most one thread, so MaxCalls ids are enough.   *)
Threads == 1..MaxCalls

VARIABLES
    percent,   \* bar->percent
    flags,     \* bar->flags, as the set of its bits
    calls,     \* number of tboot_ui_textbar calls so far
    tpc        \* tpc[t]: "none" (not created), "frame", "check", "exited"

vars == <<percent, flags, calls, tpc>>

Live == {t \in Threads : tpc[t] \in {"frame", "check"}}

(* bar_init(..., BF_PROGRESS | BF_FILLOUT, 0, ...) in tboot_ui_init.      *)
Init ==
    /\ percent = 0
    /\ flags = {BF_PROGRESS, BF_FILLOUT}
    /\ calls = 0
    /\ tpc = [t \in Threads |-> "none"]

(* The bar flags for a new percent: a progress bar that fills out or      *)
(* empties out, or a bounce bar; hiding the bar (0) fills out.            *)
NewFlags(p, fl) ==
    IF p # BAR_BOUNCE
    THEN IF p < 0 THEN (fl \cup {BF_PROGRESS}) \ {BF_FILLOUT}
                  ELSE fl \cup {BF_PROGRESS, BF_FILLOUT}
    ELSE fl \ {BF_PROGRESS}

(* textbar_refresh(tb, 0) after the bar changed: a hidden bar or a        *)
(* progress bar is drawn and flipped; a bounce bar gets a new thread      *)
(* (pthread_create may fail, and only prints).                            *)
Refresh(p, fl) ==
    IF p # 0 /\ BF_PROGRESS \notin fl
    THEN \E created \in BOOLEAN :
            tpc' = IF created
                   THEN [tpc EXCEPT ![calls + 1] = "frame"]
                   ELSE tpc
    ELSE UNCHANGED tpc

(* Mutant: || written as &&, so no percent is out of range.              *)
InvalidAnd(p) == p < -100 /\ p > 100 /\ p # BAR_BOUNCE
(* "(percent < -100 || percent > 100) && percent != BAR_BOUNCE"           *)
Invalid(p) == (p < -100 \/ p > 100) /\ p # BAR_BOUNCE

(* tboot_ui_textbar(p, ...).  An out-of-range percent returns, and so does *)
(* a failed textline_init.  The new text line replaces the old one; when  *)
(* the percent is the bar's own, only the text is redrawn                 *)
(* (textbar_refresh(tb, 1)); otherwise the flags and the percent change   *)
(* and the bar is refreshed.                                              *)
TextBar(p) ==
    /\ calls < MaxCalls
    /\ calls' = calls + 1
    /\ IF Invalid(p)
       THEN UNCHANGED <<percent, flags, tpc>>
       ELSE \/ UNCHANGED <<percent, flags, tpc>>
            \/ /\ p = percent
               /\ UNCHANGED <<percent, flags, tpc>>
            \/ /\ p # percent
               /\ flags' = NewFlags(p, flags)
               /\ percent' = p
               /\ Refresh(p, flags')

(* One frame of bouncebar_refresh: fill the bar, draw the bouncing third, *)
(* usleep, move, Flip.                                                    *)
Frame(t) ==
    /\ tpc[t] = "frame"
    /\ tpc' = [tpc EXCEPT ![t] = "check"]
    /\ UNCHANGED <<percent, flags, calls>>

(* Mutant: the thread tests the percent it saw when it started.           *)
CheckStale(t) ==
    /\ tpc[t] = "check"
    /\ tpc' = [tpc EXCEPT ![t] = "frame"]
    /\ UNCHANGED <<percent, flags, calls>>

(* } while (bar->percent == BAR_BOUNCE): another frame, or the thread      *)
(* returns (it is never joined).                                          *)
Check(t) ==
    /\ tpc[t] = "check"
    /\ tpc' = [tpc EXCEPT ![t] = IF percent = BAR_BOUNCE THEN "frame"
                                                          ELSE "exited"]
    /\ UNCHANGED <<percent, flags, calls>>

Caller == \E p \in Percents : TextBar(p)

BounceThread(t) == Frame(t) \/ Check(t)

Next == Caller \/ \E t \in Threads : BounceThread(t)

(* The scheduler runs every runnable thread: each bounce thread keeps     *)
(* drawing and testing.  The caller needs no fairness: it may stop.      *)
Spec == Init /\ [][Next]_vars /\ \A t \in Threads : WF_vars(BounceThread(t))

-----------------------------------------------------------------------------
(* Properties *)

(* The valid values of bar->percent listed above tboot_ui_textbar.       *)
TypeOK ==
    /\ percent \in (-100..100) \cup {BAR_BOUNCE}
    /\ flags \subseteq {BF_PROGRESS, BF_FILLOUT}
    /\ calls \in 0..MaxCalls
    /\ tpc \in [Threads -> {"none", "frame", "check", "exited"}]

(* Once the bar stops bouncing (a progress bar or hidebar), the bounce    *)
(* animation ends: every bounce thread returns, unless the bar is made a  *)
(* bounce bar again first.                                                *)
BounceStops == (percent # BAR_BOUNCE) ~> (percent = BAR_BOUNCE \/ Live = {})

(* One bounce bar, one animation: at most one bounce thread draws at a    *)
(* time.                                                                  *)
AtMostOneBounceThread == Cardinality(Live) <= 1

=============================================================================
