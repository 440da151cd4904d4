----------------------------- MODULE UsbProgress -----------------------------
(***************************************************************************)
(* usb_read_progress (src/src/fastboot.c): the payload read of            *)
(* cmd_download and download_to.  A payload shorter than one transfer is  *)
(* one usb_read; a longer one is read in slices of about 1% of its        *)
(* length rounded up to a multiple of the transfer size, the last slice   *)
(* clipped to what is left.                                               *)
(*                                                                         *)
(* usb_read(buf, n) itself reads in transfers of at most Xfer bytes and   *)
(* stops at the first short transfer, so it returns n, a short count, or  *)
(* -1 on a read error.                                                    *)
(***************************************************************************)
EXTENDS Integers

CONSTANTS
    Lens,    \* payload lengths the host may announce
    Xfer     \* the largest transfer of usb_read and the slice alignment, 4096

ASSUME Lens \subseteq Nat /\ Xfer \in Nat \ {0}

VARIABLES
    len,       \* the len argument
    pc,        \* "start", "loop" or "done"
    slice,     \* slice
    finished,  \* finished
    result,    \* the return value, once pc = "done"
    fault,     \* the transport returned a short count or an error
    asked,     \* history: the sum of the sizes passed to usb_read
    last,      \* history: the size of the latest usb_read, 0 before any
    aligned    \* history: every usb_read before the latest was a multiple of Xfer

vars == <<len, pc, slice, finished, result, fault, asked, last, aligned>>

(* roundup(x, y) of usb_read_progress.                                    *)
RoundUp(x, y) == ((x + (y - 1)) \div y) * y

(* What usb_read(buf, n) can return: n; a short count when a transfer     *)
(* comes back short (the loop breaks instead of reading on); -1 when     *)
(* read() fails.                                                          *)
UsbRead(n) == {n, -1} \cup (IF n > 0 THEN {n - 1} ELSE {})

Init ==
    /\ len \in Lens
    /\ pc = "start"
    /\ slice = 0 /\ finished = 0 /\ result = 0
    /\ fault = FALSE
    /\ asked = 0 /\ last = 0 /\ aligned = TRUE

(* History: one more usb_read of n bytes.                                *)
Record(n) ==
    /\ asked' = asked + n /\ last' = n
    /\ aligned' = (aligned /\ last % Xfer = 0)

(* Entry: below one transfer, a single usb_read whose count is returned   *)
(* as it is; otherwise slice = roundup(len / 100, Xfer), computed by       *)
(* SliceOf.                                                               *)
StartWith(SliceOf(_)) ==
    /\ pc = "start"
    /\ IF len < Xfer
       THEN \E r \in UsbRead(len) :
               /\ result' = r /\ fault' = (r # len)
               /\ Record(len) /\ pc' = "done"
               /\ UNCHANGED slice
       ELSE /\ slice' = SliceOf(len)
            /\ pc' = "loop"
            /\ UNCHANGED <<result, fault, asked, last, aligned>>
    /\ UNCHANGED <<len, finished>>

(* Mutant: the slice is not rounded up to the transfer size.              *)
StartUnaligned == StartWith(LAMBDA n : n \div 100)
Start == StartWith(LAMBDA n : RoundUp(n \div 100, Xfer))

(* Mutant: the next slice is not clipped to what is left.                 *)
NextSliceUnclipped(sl, fin) == sl
(* "if (finished + slice > len) slice = len - finished".                  *)
NextSlice(sl, fin) == IF fin + sl > len THEN len - fin ELSE sl

(* One pass of the while (1) loop: a zero slice becomes the whole length; *)
(* read the slice (anything but a full slice returns -1); count it;      *)
(* return -1 past len, finished at len; otherwise clip the next slice.    *)
(* The percentage only feeds tboot_ui_textbar and is left out.            *)
Iterate ==
    /\ pc = "loop"
    /\ LET sl == IF slice = 0 THEN len ELSE slice IN
       \E r \in UsbRead(sl) :
          /\ Record(sl)
          /\ IF r # sl
             THEN /\ result' = -1 /\ fault' = TRUE /\ pc' = "done"
                  /\ UNCHANGED <<slice, finished>>
             ELSE LET fin == finished + sl IN
                  /\ finished' = fin
                  /\ UNCHANGED fault
                  /\ IF fin >= len
                     THEN /\ result' = IF fin > len THEN -1 ELSE fin
                          /\ pc' = "done" /\ UNCHANGED slice
                     ELSE /\ slice' = NextSlice(sl, fin)
                          /\ UNCHANGED <<result, pc>>
    /\ UNCHANGED len

(* The caller has the result.                                             *)
Returned == pc = "done" /\ UNCHANGED vars

Next == Start \/ Iterate \/ Returned

Spec == Init /\ [][Next]_vars

-----------------------------------------------------------------------------
(* Properties *)

TypeOK ==
    /\ len \in Lens
    /\ pc \in {"start", "loop", "done"}
    /\ slice \in 0..len /\ finished \in 0..len
    /\ result \in Int /\ fault \in BOOLEAN
    /\ asked \in Nat /\ last \in Nat /\ aligned \in BOOLEAN

(* A read that meets no short or failed transfer returns len, having     *)
(* asked usb_read for slices that add up to exactly len; the slices of a *)
(* long payload are, all but the last, multiples of the transfer size    *)
(* (the roundup the comment in usb_read_progress says avoids a hang).    *)
ReadsWholePayload ==
    (pc = "done" /\ ~fault) =>
        /\ result = len
        /\ asked = len
        /\ aligned

(* Spec 4.1: the transport read loops on short reads until length bytes   *)
(* are read or an error occurs, so its caller sees len or an error.       *)
ShortReadRetried == pc = "done" => result \in {len, -1}

=============================================================================
