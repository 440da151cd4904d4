---------------------------- MODULE StreamFlash ----------------------------
(***************************************************************************)
(* The streaming flash pipeline of tboot: cmd_stream_flash() and its       *)
(* reader() thread, src/src/aboot.c.                                       *)
(*                                                                         *)
(* The command thread (the producer) reads the payload of "flash:<part>:  *)
(* <len>" from the USB transport into NR_BUFFER transfer buffers, in      *)
(* chunks of at most SIZE bytes.  The reader thread (the consumer) writes  *)
(* each full buffer into a popen()ed "dd"/"gzip | dd"/"bzip2 | dd"         *)
(* pipeline.  The two threads share buf[i]->len (guarded by the buffer's   *)
(* mutex) and the unsynchronised flags writer_finished and pipe_broken.    *)
(*                                                                         *)
(* Data is abstracted to the offset at which a chunk starts in the         *)
(* payload: buf[i]->data holds the chunk starting at slot[i].off.  A       *)
(* critical section under buf[i]->mutex is one step: both threads only     *)
(* touch buf[i] while holding its mutex.                                   *)
(***************************************************************************)
EXTENDS Integers, Sequences, SequencesExt, FiniteSets

CONSTANTS
  Size,      \* SIZE: capacity of one transfer buffer, in abstract bytes
  NrBuffer,  \* NR_BUFFER: number of transfer buffers
  Lens,      \* lengths the host may announce in "flash:<part>:<len>"
  Headers,   \* the first four bytes a payload may start with
  Stale,     \* four bytes a freshly allocated transfer buffer may hold
  BytesPerUnit \* bytes of the payload per abstract byte, for the magic test

ASSUME /\ Size \in Nat \ {0}
       /\ NrBuffer \in Nat \ {0, 1}
       /\ Lens \subseteq Nat /\ Lens # {}
       /\ Headers \subseteq [1 .. 4 -> 0 .. 255]
       /\ Stale \subseteq [1 .. 4 -> 0 .. 255]
       /\ BytesPerUnit \in Nat \ {0}

Slots == 0 .. NrBuffer - 1
MaxLen == Max(Lens)

VARIABLES
  len,            \* payload length parsed from the command argument
  target,         \* what part_name resolved to: "none", "plugin", or one of
                  \* Devices: "disk", an ext4 partition of type Linux, another
  ppc,            \* where the command thread is in cmd_stream_flash()
  rpc,            \* where the reader thread is; "none" before pthread_create
  mem,            \* buf[i]: "null", "live", or "freed" (dangling pointer)
  frees,          \* buffer_free() calls on the allocation held in buf[i]
  slot,           \* buf[i]->len and the payload offset held in buf[i]->data
  pi,             \* the command thread's slot index i
  ri,             \* the reader's slot index i
  size,           \* the command thread's chunk size variable
  finished,       \* bytes of the payload read from the transport
  emptyCounter,   \* the reader's empty_counter
  writerFinished, \* writer_finished
  pipeBroken,     \* pipe_broken
  sinkDead,       \* the popen()ed pipeline has exited (dd/gzip failed)
  readerExit,     \* value the reader passed to pthread_exit; read after join
  joined,         \* joined
  dataSent,       \* the DATA<len> handshake was written to the host
  usbFault,       \* a usb_read()/usb_write() failed or came up short
  ack,            \* terminal acknowledgement: "none", "OKAY", "FAIL"
  filled,         \* history: offsets of the chunks stored into buffers
  written,        \* history: offsets of the chunks written to the pipeline
  superblock,     \* check_ext_superblock(): "unread", "ext" or "none" found
  fsRan,          \* history: the tools ext4_filesystem_checks() ran
  fmt             \* the payload's first bytes (head), what buf[0] held
                  \* before them (stale), and the filter chosen

vars == <<len, target, ppc, rpc, mem, frees, slot, pi, ri, size, finished,
          emptyCounter, writerFinished, pipeBroken, sinkDead, readerExit,
          joined, dataSent, usbFault, ack, filled, written, superblock, fsRan,
          fmt>>

(* The destinations of the streaming path: the whole disk ("disk"), or a *)
(* partition whose fstab volume is ext4 and whose partition type is Linux *)
(* ("linux") or something else ("other").                                  *)
Devices == {"disk", "linux", "other"}

ReaderAlive == rpc \in {"loop", "check", "close"}

Fail == ack' = "FAIL" /\ ppc' = "out"

-----------------------------------------------------------------------------
(* The command thread.                                                     *)

Init ==
  /\ len \in Lens
  /\ target = "none"
  /\ ppc = "resolve"
  /\ rpc = "none"
  /\ mem = [s \in Slots |-> "null"]
  /\ frees = [s \in Slots |-> 0]
  /\ slot = [s \in Slots |-> [len |-> 0, off |-> 0]]
  /\ pi = 0 /\ ri = 0 /\ size = 0 /\ finished = 0
  /\ emptyCounter = 0 /\ writerFinished = 0 /\ pipeBroken = 0
  /\ sinkDead = FALSE /\ readerExit = 0 /\ joined = FALSE
  /\ dataSent = FALSE /\ usbFault = FALSE /\ ack = "none"
  /\ filled = <<>> /\ written = <<>>
  /\ superblock = "unread" /\ fsRan = <<>>
  /\ fmt \in [head : Headers, stale : Stale, filter : {"none"}]

(* Parse "<part>:<len>" and resolve the target: a malformed argument, an   *)
(* unknown partition or a non-ext4 volume fails; an empty name lists the   *)
(* partitions and returns at once; a name in flash_cmds takes the plugin   *)
(* path; "disk" or an ext4 partition takes the streaming path.             *)
(* find_part() gives the partition's type, which decides the checks after *)
(* the write.                                                              *)
Resolve ==
  /\ ppc = "resolve"
  /\ \/ target' = "none" /\ Fail
     \/ target' = "none" /\ ack' = "OKAY" /\ ppc' = "done"
     \/ target' = "plugin" /\ ppc' = "plugin" /\ UNCHANGED ack
     \/ target' \in Devices /\ ppc' = "handshake" /\ UNCHANGED ack
  /\ UNCHANGED <<fmt, superblock, fsRan, len, rpc, mem, frees, slot, pi, ri, size, finished,
                 emptyCounter, writerFinished, pipeBroken, sinkDead,
                 readerExit, joined, dataSent, usbFault, filled, written>>

(* Plugin path: download_to() the whole payload, then call the flash_cmds  *)
(* callback; both failures and success continue at error/finish, i.e. at   *)
(* the cleanup of label out.                                               *)
Plugin ==
  /\ ppc = "plugin"
  /\ ppc' = "out"
  /\ \/ usbFault' = TRUE /\ ack' = "FAIL"
     \/ usbFault' = FALSE /\ ack' \in {"OKAY", "FAIL"}
  /\ UNCHANGED <<fmt, superblock, fsRan, len, target, rpc, mem, frees, slot, pi, ri, size, finished,
                 emptyCounter, writerFinished, pipeBroken, sinkDead,
                 readerExit, joined, dataSent, filled, written>>

(* streaming_download(NULL, len, 1): send DATA<len> to the host.           *)
Handshake ==
  /\ ppc = "handshake"
  /\ \/ dataSent' = TRUE /\ ppc' = "alloc" /\ UNCHANGED <<usbFault, ack>>
     \/ usbFault' = TRUE /\ Fail /\ UNCHANGED dataSent
  /\ UNCHANGED <<fmt, superblock, fsRan, len, target, rpc, mem, frees, slot, pi, ri, size, finished,
                 emptyCounter, writerFinished, pipeBroken, sinkDead,
                 readerExit, joined, filled, written>>

(* buffer_init(size): an empty buffer (len 0) with its mutex, or NULL when *)
(* malloc or pthread_mutex_init fails, after freeing what it had taken.    *)
BufferInit == [len |-> 0, off |-> 0]

(* buffer_free(buf) frees data and buf, and does nothing for NULL.        *)
BufferFree(s) == IF mem[s] = "null" THEN frees[s] ELSE frees[s] + 1

(* buffer_init() each buffer; if the k-th allocation fails, buf[k] is      *)
(* NULL and buffers 0..k-1 are freed but left dangling in buf[].           *)
AllocBuffers ==
  /\ ppc = "alloc"
  /\ \E k \in 0 .. NrBuffer :
       IF k = NrBuffer
       THEN /\ mem' = [s \in Slots |-> "live"]
            /\ frees' = [s \in Slots |-> 0]
            /\ slot' = [s \in Slots |-> BufferInit]
            /\ ppc' = "first_read" /\ UNCHANGED ack
       ELSE /\ mem' = [s \in Slots |-> IF s < k THEN "freed" ELSE "null"]
            /\ frees' = [s \in Slots |-> IF s < k THEN 1 ELSE 0]
            /\ UNCHANGED slot
            /\ Fail
  /\ UNCHANGED <<fmt, superblock, fsRan, len, target, rpc, pi, ri, size, finished, emptyCounter,
                 writerFinished, pipeBroken, sinkDead, readerExit, joined,
                 dataSent, usbFault, filled, written>>

(* Read the first chunk into buf[0] to sniff the stream magic.             *)
FirstRead ==
  /\ ppc = "first_read"
  /\ LET sz == IF len > Size THEN Size ELSE len IN
       /\ size' = sz
       /\ \/ /\ slot' = [slot EXCEPT ![0] = [len |-> sz, off |-> 0]]
             /\ finished' = sz
             /\ filled' = IF sz > 0 THEN <<0>> ELSE <<>>
             /\ ppc' = "start_reader"
             /\ UNCHANGED <<usbFault, ack>>
          \/ /\ sz > 0
             /\ usbFault' = TRUE /\ Fail
             /\ UNCHANGED <<slot, finished, filled>>
  /\ UNCHANGED <<fmt, superblock, fsRan, len, target, rpc, mem, frees, pi, ri, emptyCounter,
                 writerFinished, pipeBroken, sinkDead, readerExit, joined,
                 dataSent, written>>

(* The four bytes the magic test reads from buf[0]->data: those the first *)
(* read stored, then whatever the buffer held before.                      *)
Magic ==
  [j \in 1 .. 4 |-> IF j <= size * BytesPerUnit THEN fmt.head[j]
                                                ELSE fmt.stale[j]]

(* Mutant: bzip2 only with "BZh", not "BZ0".                               *)
FilterOfOnlyH(m) ==
  IF m[1] = 31 /\ m[2] = 139 THEN "gzip"
  ELSE IF m[1] = 66 /\ m[2] = 90 /\ m[3] = 104 /\ m[4] \in 49 .. 57
  THEN "bzip2"
  ELSE "dd"

(* The magic test: 1f 8b is gzip; 'B' 'Z' then 'h' or '0' then a digit    *)
(* 1-9 is bzip2; anything else is written raw by dd.                       *)
FilterOf(m) ==
  IF m[1] = 31 /\ m[2] = 139 THEN "gzip"
  ELSE IF m[1] = 66 /\ m[2] = 90 /\ m[3] \in {104, 48} /\ m[4] \in 49 .. 57
  THEN "bzip2"
  ELSE "dd"

(* Pick the filter from the magic, asprintf() the command line, popen()   *)
(* it, clear writer_finished and pipe_broken, and pthread_create() the     *)
(* reader; the command thread continues at i = 1.                          *)
StartReader ==
  /\ ppc = "start_reader"
  /\ fmt' = [fmt EXCEPT !.filter = FilterOf(Magic)]
  /\ \/ /\ Fail
        /\ UNCHANGED <<rpc, ri, pi, emptyCounter, writerFinished, pipeBroken>>
     \/ /\ writerFinished' = 0 /\ pipeBroken' = 0
        /\ Fail
        /\ UNCHANGED <<rpc, ri, pi, emptyCounter>>
     \/ /\ writerFinished' = 0 /\ pipeBroken' = 0
        /\ rpc' = "loop" /\ ri' = 0 /\ emptyCounter' = 0
        /\ pi' = 1
        /\ ppc' = "produce" /\ UNCHANGED ack
  /\ UNCHANGED <<superblock, fsRan, len, target, mem, frees, slot, size,
                 finished, sinkDead,
                 readerExit, joined, dataSent, usbFault, filled, written>>

(* Mutant: the loop never sets writer_finished.                           *)
ProduceLoopExitNoFinishFlag ==
  /\ ppc = "produce"
  /\ ~(finished < len /\ pipeBroken = 0)
  /\ IF pipeBroken # 0 THEN ppc' = "drain" ELSE ppc' = "join"
  /\ UNCHANGED <<fmt, superblock, fsRan, len, target, rpc, mem, frees, slot, pi, ri, size, finished,
                 emptyCounter, writerFinished, pipeBroken, sinkDead,
                 readerExit, joined, dataSent, usbFault, ack, filled, written>>

(* Mutant: a broken pipe fails the command without draining the host.     *)
ProduceLoopExitNoDrain ==
  /\ ppc = "produce"
  /\ ~(finished < len /\ pipeBroken = 0)
  /\ IF pipeBroken # 0
     THEN Fail /\ UNCHANGED writerFinished
     ELSE writerFinished' = 1 /\ ppc' = "join" /\ UNCHANGED ack
  /\ UNCHANGED <<fmt, superblock, fsRan, len, target, rpc, mem, frees, slot, pi, ri, size, finished,
                 emptyCounter, pipeBroken, sinkDead, readerExit, joined,
                 dataSent, usbFault, filled, written>>

(* The while loop ends: on a broken pipe drain the transport, otherwise    *)
(* set writer_finished and go to join the reader.                          *)
ProduceLoopExit ==
  /\ ppc = "produce"
  /\ ~(finished < len /\ pipeBroken = 0)
  /\ IF pipeBroken # 0
     THEN ppc' = "drain" /\ UNCHANGED writerFinished
     ELSE writerFinished' = 1 /\ ppc' = "join"
  /\ UNCHANGED <<fmt, superblock, fsRan, len, target, rpc, mem, frees, slot, pi, ri, size, finished,
                 emptyCounter, pipeBroken, sinkDead, readerExit, joined,
                 dataSent, usbFault, ack, filled, written>>

(* buf[i] still holds data: unlock it and try the next buffer.             *)
ProduceSkipFull ==
  /\ ppc = "produce"
  /\ finished < len /\ pipeBroken = 0
  /\ slot[pi].len # 0
  /\ pi' = (pi + 1) % NrBuffer
  /\ UNCHANGED <<fmt, superblock, fsRan, len, target, ppc, rpc, mem, frees, slot, ri, size, finished,
                 emptyCounter, writerFinished, pipeBroken, sinkDead,
                 readerExit, joined, dataSent, usbFault, ack, filled,
                 written>>

(* Mutant: no test of buf[i]->len, so a full buffer is refilled.          *)
ProduceChunkOverwrite ==
  /\ ppc = "produce"
  /\ finished < len /\ pipeBroken = 0
  /\ LET sz == IF finished + size > len THEN len - finished ELSE size IN
       /\ size' = sz
       /\ slot' = [slot EXCEPT ![pi] = [len |-> sz, off |-> finished]]
       /\ filled' = Append(filled, finished)
       /\ finished' = finished + sz
       /\ pi' = (pi + 1) % NrBuffer
  /\ UNCHANGED <<fmt, superblock, fsRan, len, target, ppc, rpc, mem, frees, ri, emptyCounter,
                 writerFinished, pipeBroken, sinkDead, readerExit, joined,
                 dataSent, usbFault, ack, written>>

(* Mutant: the last chunk is not clipped to what is left of the payload.   *)
ProduceChunkUnclipped ==
  /\ ppc = "produce"
  /\ finished < len /\ pipeBroken = 0
  /\ slot[pi].len = 0
  /\ slot' = [slot EXCEPT ![pi] = [len |-> size, off |-> finished]]
  /\ filled' = Append(filled, finished)
  /\ finished' = finished + size
  /\ pi' = (pi + 1) % NrBuffer
  /\ UNCHANGED <<fmt, superblock, fsRan, len, target, ppc, rpc, mem, frees, ri, size, emptyCounter,
                 writerFinished, pipeBroken, sinkDead, readerExit, joined,
                 dataSent, usbFault, ack, written>>

(* buf[i] is empty: clip size to what is left, read a chunk into it under  *)
(* its mutex and move to the next buffer; a failed read fails the command. *)
ProduceChunk ==
  /\ ppc = "produce"
  /\ finished < len /\ pipeBroken = 0
  /\ slot[pi].len = 0
  /\ LET sz == IF finished + size > len THEN len - finished ELSE size IN
       /\ size' = sz
       /\ \/ /\ slot' = [slot EXCEPT ![pi] = [len |-> sz, off |-> finished]]
             /\ filled' = Append(filled, finished)
             /\ finished' = finished + sz
             /\ pi' = (pi + 1) % NrBuffer
             /\ UNCHANGED <<ppc, usbFault, ack>>
          \/ /\ usbFault' = TRUE /\ Fail
             /\ UNCHANGED <<slot, filled, finished, pi>>
  /\ UNCHANGED <<fmt, superblock, fsRan, len, target, rpc, mem, frees, ri, emptyCounter,
                 writerFinished, pipeBroken, sinkDead, readerExit, joined,
                 dataSent, written>>

(* pipe_broken: read and discard the rest of the payload so that the host  *)
(* can read the FAIL; a failed read breaks out of the drain loop.          *)
DrainChunk ==
  /\ ppc = "drain"
  /\ finished < len
  /\ LET sz == IF finished + size > len THEN len - finished ELSE size IN
       /\ size' = sz
       /\ \/ finished' = finished + sz /\ UNCHANGED <<ppc, usbFault, ack>>
          \/ usbFault' = TRUE /\ Fail /\ UNCHANGED finished
  /\ UNCHANGED <<fmt, superblock, fsRan, len, target, rpc, mem, frees, slot, pi, ri, emptyCounter,
                 writerFinished, pipeBroken, sinkDead, readerExit, joined,
                 dataSent, filled, written>>

DrainEnd ==
  /\ ppc = "drain"
  /\ finished >= len
  /\ Fail
  /\ UNCHANGED <<fmt, superblock, fsRan, len, target, rpc, mem, frees, slot, pi, ri, size, finished,
                 emptyCounter, writerFinished, pipeBroken, sinkDead,
                 readerExit, joined, dataSent, usbFault, filled, written>>

(* pthread_join() the reader; fail unless every byte was read and the      *)
(* reader exited with 0.                                                   *)
Join ==
  /\ ppc = "join"
  /\ rpc = "exited"
  /\ joined' = TRUE
  /\ IF finished # len \/ readerExit # 0
     THEN Fail
     ELSE ppc' = "post" /\ UNCHANGED ack
  /\ UNCHANGED <<fmt, superblock, fsRan, len, target, rpc, mem, frees, slot, pi, ri, size, finished,
                 emptyCounter, writerFinished, pipeBroken, sinkDead,
                 readerExit, dataSent, usbFault, filled, written>>

(* The tools ext4_filesystem_checks() runs through execute_command().    *)
ExtTools == <<"e2fsck", "resize2fs", "tune2fs">>

(* The tools run up to and including the n-th, which fails if n is not    *)
(* the last one run successfully; each entry is a tool and whether it     *)
(* returned 0 (execute_command() gives -1 when vasprintf() or system()    *)
(* fails, else the exit status).                                           *)
ToolLog(n, failed) ==
  [j \in 1 .. n |-> [tool |-> ExtTools[j], ok |-> ~(failed /\ j = n)]]

(* Mutant: the exit status of resize2fs is not tested.                     *)
Ext4ChecksNoResizeTest ==
  {ToolLog(1, TRUE), ToolLog(3, TRUE), ToolLog(3, FALSE)}
  \cup {[j \in 1 .. 3 |-> [tool |-> ExtTools[j], ok |-> j # 2]]}

(* ext4_filesystem_checks(): e2fsck -fn, resize2fs -Ff and tune2fs -C 1,  *)
(* in this order; the first that fails ends the checks with -1, so the   *)
(* result is that of the last tool run.                                    *)
Ext4Checks == {ToolLog(n, TRUE) : n \in 1 .. 3} \cup {ToolLog(3, FALSE)}

(* check_ext_superblock(): -1 ("fail") if find_part_device(), open(),   *)
(* lseek() or read() fails, else whether s_magic is EXT3_SUPER_MAGIC.      *)
CheckExtSuperblock == {"fail", "ext", "none"}

(* The checks after a complete write, from sync() to label finish.  The   *)
(* whole disk is opened for BLKRRPART, which fails the command if the     *)
(* open fails; it has no partition, so no checks follow.  A partition of  *)
(* type Linux has its superblock read by check_ext_superblock() (a failed *)
(* lookup, open, lseek or read fails the command); an ext superblock runs *)
(* ext4_filesystem_checks(), whose failure fails the command.  Any other  *)
(* partition, and a Linux one with no ext superblock, gets OKAY.           *)
PostChecks ==
  /\ ppc = "post"
  /\ ppc' = "out"
  /\ \/ target = "disk" /\ ack' \in {"OKAY", "FAIL"}
        /\ UNCHANGED <<superblock, fsRan>>
     \/ target = "other" /\ ack' = "OKAY" /\ UNCHANGED <<superblock, fsRan>>
     \/ /\ target = "linux"
        /\ \E sb \in CheckExtSuperblock :
             \/ sb = "fail" /\ ack' = "FAIL" /\ UNCHANGED <<superblock, fsRan>>
             \/ sb = "none" /\ superblock' = sb /\ ack' = "OKAY"
                /\ UNCHANGED fsRan
             \/ /\ sb = "ext" /\ superblock' = sb
                /\ \E log \in Ext4Checks :
                     /\ fsRan' = log
                     /\ ack' = IF Last(log).ok THEN "OKAY" ELSE "FAIL"
  /\ UNCHANGED <<fmt, len, target, rpc, mem, frees, slot, pi, ri, size, finished,
                 emptyCounter, writerFinished, pipeBroken, sinkDead,
                 readerExit, joined, dataSent, usbFault, filled, written>>

(* Label out: buffer_free() every buf[i] and set it to NULL, then          *)
(* pthread_cancel(t_reader) unless the reader was joined.                  *)
Cleanup ==
  /\ ppc = "out"
  /\ frees' = [s \in Slots |-> BufferFree(s)]
  /\ mem' = [s \in Slots |-> "null"]
  /\ ppc' = "done"
  /\ UNCHANGED <<fmt, superblock, fsRan, len, target, rpc, slot, pi, ri, size, finished,
                 emptyCounter, writerFinished, pipeBroken, sinkDead,
                 readerExit, joined, dataSent, usbFault, ack, filled,
                 written>>

-----------------------------------------------------------------------------
(* The reader thread.  It dereferences buf[i] on every iteration, so it    *)
(* can only step while buf[i] is live.                                     *)

ReaderLoopExit ==
  /\ rpc = "loop"
  /\ ~(emptyCounter < NrBuffer /\ pipeBroken = 0)
  /\ rpc' = "close"
  /\ UNCHANGED <<fmt, superblock, fsRan, len, target, ppc, mem, frees, slot, pi, ri, size, finished,
                 emptyCounter, writerFinished, pipeBroken, sinkDead,
                 readerExit, joined, dataSent, usbFault, ack, filled,
                 written>>

(* buf[i]->len is 0: unlock, then look at writer_finished.                 *)
ReaderFindEmpty ==
  /\ rpc = "loop"
  /\ emptyCounter < NrBuffer /\ pipeBroken = 0
  /\ mem[ri] = "live"
  /\ slot[ri].len = 0
  /\ rpc' = "check"
  /\ UNCHANGED <<fmt, superblock, fsRan, len, target, ppc, mem, frees, slot, pi, ri, size, finished,
                 emptyCounter, writerFinished, pipeBroken, sinkDead,
                 readerExit, joined, dataSent, usbFault, ack, filled,
                 written>>

ReaderCheckFinished ==
  /\ rpc = "check"
  /\ emptyCounter' = IF writerFinished # 0 THEN emptyCounter + 1
                                            ELSE emptyCounter
  /\ ri' = (ri + 1) % NrBuffer
  /\ rpc' = "loop"
  /\ UNCHANGED <<fmt, superblock, fsRan, len, target, ppc, mem, frees, slot, pi, size, finished,
                 writerFinished, pipeBroken, sinkDead, readerExit, joined,
                 dataSent, usbFault, ack, filled, written>>

(* buf[i] holds a chunk: fwrite() it to the pipeline, mark it empty.       *)
ReaderWrite ==
  /\ rpc = "loop"
  /\ emptyCounter < NrBuffer /\ pipeBroken = 0
  /\ mem[ri] = "live"
  /\ slot[ri].len # 0
  /\ ~sinkDead
  /\ written' = Append(written, slot[ri].off)
  /\ slot' = [slot EXCEPT ![ri].len = 0]
  /\ ri' = (ri + 1) % NrBuffer
  /\ UNCHANGED <<fmt, superblock, fsRan, len, target, ppc, rpc, mem, frees, pi, size, finished,
                 emptyCounter, writerFinished, pipeBroken, sinkDead,
                 readerExit, joined, dataSent, usbFault, ack, filled>>

(* fwrite() into a pipeline that has exited: EPIPE raises SIGPIPE, whose   *)
(* handler sets pipe_broken; the short write ends the reader with -1.      *)
ReaderShortWrite ==
  /\ rpc = "loop"
  /\ emptyCounter < NrBuffer /\ pipeBroken = 0
  /\ mem[ri] = "live"
  /\ slot[ri].len # 0
  /\ sinkDead
  /\ pipeBroken' = 1
  /\ readerExit' = -1
  /\ rpc' = "exited"
  /\ UNCHANGED <<fmt, superblock, fsRan, len, target, ppc, mem, frees, slot, pi, ri, size, finished,
                 emptyCounter, writerFinished, sinkDead, joined, dataSent,
                 usbFault, ack, filled, written>>

(* pclose() the pipeline; a non-zero exit status ends the reader with -1.  *)
ReaderClose ==
  /\ rpc = "close"
  /\ readerExit' = IF sinkDead THEN -1 ELSE 0
  /\ rpc' = "exited"
  /\ UNCHANGED <<fmt, superblock, fsRan, len, target, ppc, mem, frees, slot, pi, ri, size, finished,
                 emptyCounter, writerFinished, pipeBroken, sinkDead, joined,
                 dataSent, usbFault, ack, filled, written>>

-----------------------------------------------------------------------------
(* The environment: the dd/gzip/bzip2 pipeline may exit at any time        *)
(* (corrupt input, image larger than the partition, device error).         *)
SinkFail ==
  /\ ReaderAlive
  /\ ~sinkDead
  /\ sinkDead' = TRUE
  /\ UNCHANGED <<fmt, superblock, fsRan, len, target, ppc, rpc, mem, frees, slot, pi, ri, size,
                 finished, emptyCounter, writerFinished, pipeBroken,
                 readerExit, joined, dataSent, usbFault, ack, filled,
                 written>>

(* cmd_stream_flash() has returned to the command loop.                    *)
Returned ==
  /\ ppc = "done"
  /\ UNCHANGED vars

Producer ==
  \/ Resolve \/ Plugin \/ Handshake \/ AllocBuffers \/ FirstRead
  \/ StartReader \/ ProduceLoopExit \/ ProduceSkipFull \/ ProduceChunk
  \/ DrainChunk \/ DrainEnd \/ Join \/ PostChecks \/ Cleanup

Reader ==
  \/ ReaderLoopExit \/ ReaderFindEmpty \/ ReaderCheckFinished
  \/ ReaderWrite \/ ReaderShortWrite \/ ReaderClose

Next == Producer \/ Reader \/ SinkFail \/ Returned

(* Both are kernel-scheduled threads that busy-poll: neither stops for     *)
(* good while it can run.  The pipeline's failure is not forced.           *)
Spec == Init /\ [][Next]_vars /\ WF_vars(Producer) /\ WF_vars(Reader)

-----------------------------------------------------------------------------
(* Properties.                                                             *)

TypeOK ==
  /\ len \in Lens
  /\ target \in {"none", "plugin"} \cup Devices
  /\ superblock \in {"unread", "ext", "none"}
  /\ fsRan \in Seq([tool : {ExtTools[j] : j \in 1 .. 3}, ok : BOOLEAN])
  /\ ppc \in {"resolve", "plugin", "handshake", "alloc", "first_read",
              "start_reader", "produce", "drain", "join", "post", "out",
              "done"}
  /\ rpc \in {"none", "loop", "check", "close", "exited"}
  /\ mem \in [Slots -> {"null", "live", "freed"}]
  /\ frees \in [Slots -> 0 .. 2]
  /\ slot \in [Slots -> [len : 0 .. Size, off : 0 .. MaxLen]]
  /\ pi \in Slots /\ ri \in Slots
  /\ size \in 0 .. Size
  /\ finished \in 0 .. len
  /\ emptyCounter \in 0 .. NrBuffer
  /\ writerFinished \in {0, 1} /\ pipeBroken \in {0, 1}
  /\ sinkDead \in BOOLEAN /\ joined \in BOOLEAN
  /\ readerExit \in {0, -1}
  /\ dataSent \in BOOLEAN /\ usbFault \in BOOLEAN
  /\ ack \in {"none", "OKAY", "FAIL"}
  /\ filled \in Seq(0 .. MaxLen) /\ written \in Seq(0 .. MaxLen)
  /\ fmt \in [head : Headers, stale : Stale,
              filter : {"none", "gzip", "bzip2", "dd"}]

(* The slots of cmd_stream_flash() are the bounded channel of spec       *)
(* section 9, order aside: a chunk enters a slot only while one is empty  *)
(* and only past the chunks before it, and the reader takes each chunk out *)
(* at most once, by fwrite() and then len = 0: nothing is duplicated or    *)
(* overwritten.  The channel has no fairness, so loss (a chunk left in a   *)
(* slot when the reader quits) is not excluded here.  It breaks if the     *)
(* command thread refills a buffer the reader has not drained, if the    *)
(* reader writes a buffer without marking it empty, or if a chunk is read *)
(* again.                                                                 *)
Held == {slot[s].off : s \in {t \in Slots : slot[t].len # 0}}

Channel == INSTANCE TransferChannel
             WITH Cap <- NrBuffer, Offsets <- 0 .. MaxLen,
                  put <- filled, held <- Held, taken <- written

ImplementsChannel == Channel!Spec

(* An ext superblock found on a Linux partition (spec 4.4 step 7) goes   *)
(* through e2fsck -fy, resize2fs and tune2fs, in that order, and OKAY is  *)
(* sent only if all three ran and succeeded: each tool's failure must    *)
(* stop the chain and fail the command.  (OKAY does not mean the whole    *)
(* payload reached the partition: see OkayMeansAllWritten.)               *)
OkayMeansExt4Checked ==
  (target \in Devices /\ ack = "OKAY" /\ superblock = "ext") =>
     /\ Len(fsRan) = 3
     /\ \A j \in 1 .. 3 : fsRan[j] = [tool |-> ExtTools[j], ok |-> TRUE]

(* After a broken pipe the command thread reads and discards the rest of   *)
(* the payload before it sends FAIL, so that the host's byte count stays   *)
(* in step (spec section 8): unless the transport itself failed, a FAIL    *)
(* after pipe_broken comes with all len bytes consumed.                    *)
DrainAccounting ==
  (target \in Devices /\ ack = "FAIL" /\ pipeBroken = 1 /\ ~usbFault)
     => finished = len

(* The format tag of spec section 5, read off the payload's first bytes:  *)
(* "1F 8B .." is GZIP, "B Z h|0" and a digit 1-9 is BZIP2, else RAW.       *)
SpecTag(h) ==
  CASE h[1] = \h1f /\ h[2] = \h8b                           -> "gzip"
    [] h[1] = \h42 /\ h[2] = \h5a /\ h[3] \in {\h68, \h30}
         /\ h[4] \in \h31 .. \h39                           -> "bzip2"
    [] OTHER                                               -> "dd"

(* The pipeline cmd_stream_flash() starts decompresses exactly the format *)
(* the payload is in (spec section 5), for every payload of at least four *)
(* bytes: the magic test of lines 454-466 reads only bytes of the payload *)
(* and classifies them as the spec does.                                   *)
FilterFromPayload ==
  (fmt.filter # "none" /\ size * BytesPerUnit >= 4)
     => fmt.filter = SpecTag(fmt.head)

(* Every flash command terminates: the two busy-polling threads never wait *)
(* on each other for ever, whatever the pipeline does.                     *)
Termination == <>(ppc = "done")

(* The chunks reach the pipeline in the order they came from the host      *)
(* (spec section 3: slots are drained in the cyclic order they are         *)
(* filled).                                                                *)
InOrderDelivery == IsPrefix(written, filled)

(* OKAY for a streamed flash means every chunk read from the host was      *)
(* written to the pipeline.                                                *)
OkayMeansAllWritten ==
  (target \in Devices /\ ack = "OKAY") => written = filled

(* The transfer buffers are released only once the reader thread, which    *)
(* dereferences buf[i] on every iteration, has stopped (spec 4.4 step 8).  *)
BuffersOutliveReader ==
  ReaderAlive => \A s \in Slots : mem[s] = "live"

(* No transfer buffer is freed twice.                                      *)
NoDoubleFree == \A s \in Slots : frees[s] <= 1

(* pthread_cancel(t_reader) is only called on a reader this command has    *)
(* created: a step of label out with joined = 0 never finds the reader     *)
(* uncreated.                                                              *)
CancelOnlyCreatedReader ==
  [][(ppc = "out" /\ ppc' = "done" /\ ~joined) => rpc # "none"]_vars

(* Once DATA<len> is sent the host sends len bytes; whatever the outcome,  *)
(* the command consumes them all before it acknowledges, unless the        *)
(* transport itself failed.                                                *)
HostStreamInSync ==
  (target \in Devices /\ dataSent /\ ack # "none" /\ ~usbFault)
     => finished = len

=============================================================================
