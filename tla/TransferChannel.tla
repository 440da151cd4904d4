-------------------------- MODULE TransferChannel --------------------------
(***************************************************************************)
(* The double buffer of the streaming flash as spec section 9 describes    *)
(* it: a bounded channel of depth Cap between the thread that reads the    *)
(* payload from the host and the thread that writes it to the device.     *)
(* A chunk is named by the payload offset it starts at.  The producer     *)
(* puts chunks in payload order while the channel has room; the consumer  *)
(* takes any chunk in the channel, each at most once.  Neither side is    *)
(* fair: a chunk may stay in the channel for ever, so a refinement of     *)
(* this module rules out duplication and overwriting, not loss.           *)
(*                                                                         *)
(* The channel is a set, not a queue: the order in which chunks are taken *)
(* is left free here, because the slots of cmd_stream_flash() do not keep *)
(* it (StreamFlash's InOrderDelivery, a violation run).                    *)
(***************************************************************************)
EXTENDS Naturals, Sequences, SequencesExt, FiniteSets

CONSTANTS
  Cap,      \* the number of chunks the channel holds at most
  Offsets   \* the payload offsets a chunk may start at

VARIABLES
  put,      \* the chunks put into the channel, in the order they were put
  held,     \* the chunks in the channel
  taken     \* the chunks taken out of the channel, in the order taken

chanVars == <<put, held, taken>>

Init == put = <<>> /\ held = {} /\ taken = <<>>

(* A chunk enters when the channel has room, and starts past every chunk  *)
(* put before it.                                                          *)
Put(o) ==
  /\ Cardinality(held) < Cap
  /\ put = <<>> \/ o > Last(put)
  /\ put' = Append(put, o)
  /\ held' = held \cup {o}
  /\ UNCHANGED taken

(* A chunk in the channel leaves it to the consumer.                       *)
Take(o) ==
  /\ o \in held
  /\ held' = held \ {o}
  /\ taken' = Append(taken, o)
  /\ UNCHANGED put

Next == \E o \in Offsets : Put(o) \/ Take(o)

Spec == Init /\ [][Next]_chanVars
=============================================================================
