--------------------------- MODULE MCStreamFlash ---------------------------
(* StreamFlash with buffers of 2 abstract bytes, the code's 2 buffers, and *)
(* payloads 0..7: shorter than one buffer, exactly one, a multiple of the  *)
(* buffer size, and up to four chunks, so that both buffers are reused and *)
(* a reused buffer may end short.  An abstract byte is two payload bytes *)
(* for the magic test, so a one-byte payload leaves two bytes of the test *)
(* to the buffer's old contents.  Headers: gzip, "BZh9", "BZ01", "BZh0"    *)
(* (no digit 1-9) and one lone 1f; a new buffer holds zeros (a 4 MiB malloc   *)
(* is a fresh mmap) or, as far as C says, anything, here a gzip magic.     *)
EXTENDS StreamFlash

MCSize == 2
MCNrBuffer == 2
MCLens == 0 .. 7
MCHeaders == {<<31, 139, 8, 0>>, <<66, 90, 104, 57>>, <<66, 90, 48, 49>>,
              <<66, 90, 104, 48>>, <<31, 0, 0, 0>>}
MCStale == {<<0, 0, 0, 0>>, <<31, 139, 0, 0>>}
MCBytesPerUnit == 2
=============================================================================
