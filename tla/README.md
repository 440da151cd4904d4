# TLA+ models of tboot's fastboot core

These modules model the command and control core of tboot (`src/src/fastboot.c`, `src/src/aboot.c`, `src/src/buffer.c`), its monitors (battery, uevents) and the parts of its UI that hold state (progress bar, log window, theme file), and TLC checks them. tboot is a bootloader agent: it takes fastboot commands from a host over the adb gadget device, downloads payloads, and streams images to partitions.

## 1. Inventory

### Parts and how they interact

| Part | Code | State | Operations |
|---|---|---|---|
| Transport | `usb_read`, `usb_write`, `usb_read_progress` (fastboot.c 113-235) | `fb_fp`, `fastboot_state` (a failure sets `STATE_ERROR`) | read of n bytes (it stops at a short transfer); write; progress read in 4096-aligned slices |
| Command registry | `fastboot_register`, `fastboot_publish`, `fastboot_getvar` (60-96) | `cmdlist` and `varlist`, both built by prepending | register, lookup by prefix, publish, lookup by name |
| Protocol engine | `fastboot_handler`, `fastboot_command_loop` (476-574), `_fastboot_ack`, `fastboot_info/okay/fail` (238-282) | `fastboot_state` OFFLINE/COMMAND/COMPLETE/ERROR, `action_mutex` | open the device; read a line; dispatch on the first matching prefix; battery gate; run the handler under `action_mutex`; send the "unknown reason" fallback; leave the loop on ERROR; reopen |
| Download | `cmd_download`, `response_data`, `download_to`, `streaming_download` (312-400) | `download_base`, `download_max`, `download_size` | clear the size; check capacity; send `DATA<len>`; read the payload; set the size |
| Streaming flash | `cmd_stream_flash` and `reader` (aboot.c 197-251, 326-612) | `buf[NR_BUFFER]` (each with mutex, len, data), `writer_finished`, `pipe_broken`, `t_reader`, `fout` | parse and resolve; plugin path via `download_to`; handshake; allocate buffers; first read and magic sniff; popen the filter; create the reader; producer loop; drain on broken pipe; join; post-write checks; cleanup |
| Transfer buffers | `buffer_init`, `buffer_free` (buffer.c) | heap | allocate and free |
| Other handlers | `cmd_getvar`, `cmd_erase`, `list_partitions`, `cmd_oem` (incl. `oem push`), `cmd_boot`, `cmd_reboot`, `cmd_reboot_bl` | download area (push reads it) | each sends INFO*, then OKAY or FAIL |
| Not reachable | `cmd_flash` (single-shot flash), `cmd_continue`, `pull_file` | | never registered or never called |
| Backlight | `lcd_state_on/dim/off` (backlight_control.c), `CLEAR_ALARM`/`RESET_ALARM` (tboot.h 90-99), fastboot.c 510-511 and 547 | `lcd_state` (a function pointer), the pending `alarm()` | LCD_COMMAND at every command line; LCD_IDLE from the SIGALRM handler (in tboot.c, not in this repository) |
| Battery monitor | `battery_init`, `battery_init_dirs`, `battery_status` (battery.c), driven by `charging_mode` (charging.c) | `struct battery` (dirs, wd_index, status, capacity, charges), never reset between polls | collect battery directories; poll the uevent file once a minute |
| Uevent monitor | `uevent_thread`, `parse_uevent`, `uevent_status_init` (uevent.c) | `uevent_status` (usb, charger, battery capacity), a netlink socket | open and bind the socket; read every device of the platform once; on each "change" uevent of a known device, re-read its sysfs file; quit when recv fails |
| Progress bar | `tboot_ui_textbar` (tboot_ui.c), `textbar_refresh`, `bouncebar_refresh` (minui.c) | `bar->percent`, `bar->flags`, one unjoined thread per bounce bar | set percent; refresh; bounce animation loop |
| Log window | `tboot_ui_textline` (tboot_ui.c 220-244), `textarea_init/putline/refresh` (minui.c 530-711), the macros `tboot_ui_info/warn/error` (tboot_ui.h 44-55) | `ui.ta_log`: a ring of `nr_lines` line buffers of `width/font_width + 1` bytes, `cur_line` | format the message; cut it into pieces that fit the pixel width; copy each into the next ring line; redraw from the newest line up; info and error hide the bar first |
| Theme configuration | `config_parser_init/get/cleanup` (config_parser.c), `tboot_ui_load_config` (tboot_ui.c 575-692) | the file read into a heap buffer `cp->mem`, the line cursor, the colour fields of the text windows | read the file; strip `#` comments with `memmove`; look up each key by splitting lines on `=` with `strtok`; convert with `strtol`; fall back on the defaults |
| Shell and file helpers | `tboot_util.c` | files and child processes | `check_ext_superblock`, `ext4_filesystem_checks`, `execute_command` (in StreamFlash), `erase_partition` and `die` (in Fastboot); the rest in section 5 |
| Collaborators | UI menus and drawing, platform | | only their answers matter |

There is one fastboot thread. It runs every command to completion before it reads the next line, so commands never overlap. The only threads inside a command are the two of a streaming flash: the command thread produces and `reader` consumes. The host interacts through frames. A DATA frame promises that the device will read exactly `len` payload bytes next; any other outcome puts the two sides out of step.

### Hard behaviours

- The streaming flash runs two threads over two slots. Both busy-poll, and each skips a slot that is not ready. The reader reads `writer_finished` after it unlocks the slot. Cleanup frees the buffers, then cancels the reader.
- Every usb call can fail. Such a failure sets ERROR, but the `fastboot_okay/fail` that follows sets COMPLETE. When a write fails, `_fastboot_ack` does pointer arithmetic that is undefined behaviour.
- Partial failures: the second buffer allocation fails; any step after `DATA` was sent fails; `pthread_cancel` is called on a thread that was never created.
- Numeric boundaries: the last chunk must be clipped for lengths L < C, L = C, kC and kC+r. The capacity check must accept `download_max` and reject `download_max + 1`.
- Stale state: the download area and `download_size` survive across commands and reconnects. `download_to` rewrites the area but not the size.
- Dispatch order: `fastboot_register` prepends, so "reboot-bootloader" must be registered after "reboot".

The full list, each hazard at the line where it bites, is `hazards` in `PROJECT.json`.

## 2. Modules

### `StreamFlash.tla`: one `cmd_stream_flash` command and its reader thread

- **Variables.** `ppc` and `rpc` are the program counters of the two threads. `slot[s]` is `buf[s]` as `[len, off]`, where `off` is the offset of the chunk held. `mem[s]` is null, live or freed, and `frees[s]` counts how often buffer s was freed. `pi`/`ri` are the slot indexes of the producer and reader; `size` and `finished` are the code's variables. `emptyCounter`, `writerFinished`, `pipeBroken` and `readerExit` are the code's variables; `joined` is the code's `joined`. `sinkDead` says the popen'd pipeline has exited. `dataSent`, `usbFault` and `ack` are what the host has seen.
- **History variables.** `filled` is the offsets in the order they were read from USB; `written` is the offsets in the order they were written to the pipeline.
- **Atomicity.** Every critical section under `buf[i]->mutex` is one action. The reader's test of `writer_finished` after the unlock is a separate action (`ReaderCheckFinished`), because the code performs it outside the lock.
- **Command thread.** One action per block of the function: `Resolve`, `Plugin`, `Handshake`, `AllocBuffers`, `FirstRead`, `StartReader`, `ProduceSkipFull`, `ProduceChunk`, `ProduceLoopExit`, `DrainChunk`, `DrainEnd`, `Join`, `PostChecks` and `Cleanup` (label `out`).
- **Reader thread.** `ReaderFindEmpty`, `ReaderCheckFinished`, `ReaderWrite`, `ReaderShortWrite`, `ReaderLoopExit` and `ReaderClose`.
- **Buffers.** `BufferInit` and `BufferFree` are `buffer_init` and `buffer_free`; `AllocBuffers` lets the k-th `buffer_init` fail and `Cleanup` frees every non-NULL slot.
- **Post-write checks.** `PostChecks` is the end of the function: a disk target answers from `sync`; an ext4 partition (`linux`) runs `check_ext_superblock` (`CheckExtSuperblock`: error, an ext superblock, or none), and on an ext image `ext4_filesystem_checks` runs `e2fsck`, `resize2fs` and `tune2fs` through `execute_command` until one fails (`Ext4Checks`, each run recorded in the history `fsRan`); only the last tool's status is returned. `superblock` records what the superblock test found.
- **Environment.** `SinkFail` is the pipeline exiting (corrupt image, image larger than the partition).
- **Fairness.** Each thread is weakly fair. Both are kernel-scheduled threads that busy-poll and never block on each other, so neither is starved for good while it can move. The pipeline's failure is not forced.
- **Refinement.** `TransferChannel.tla` is the double buffer as spec section 9 describes it: a bounded channel of depth `Cap` in which the producer puts chunks in payload order while there is room, and the consumer takes each chunk in it at most once. Neither side is fair, so a chunk may stay in the channel for ever. It is a set, not a queue, because the slots do not keep the order (`InOrderDelivery`). `StreamFlash` instantiates it with `put <- filled`, `held <- Held` (the offsets of the slots with `len != 0`) and `taken <- written`, and `ImplementsChannel == Channel!Spec` is checked as a PROPERTY: every step of the two threads is a put, a take or a stutter of the channel, so no chunk is duplicated, overwritten in its slot or read beyond the two slots. The refinement says nothing about loss or order: a chunk left in a slot when the reader quits still refines the channel (`OkayMeansAllWritten` finds exactly that), and the order is `InOrderDelivery`'s.

### `TransferChannel.tla`: the abstract channel of spec section 9

`put`, `held` and `taken`; `Put(o)` needs room and an offset beyond the last one put; `Take(o)` removes a held chunk. No fairness: it is used only as the safety part of the refinement.

### `Fastboot.tla`: the protocol engine with every registered handler

- **Variables.** `state` is `fastboot_state`; `hpc` is where the fastboot thread is; `cmdlist`; `line`; `handler`; `batteryLow`; `dlSize` is `download_size`; `areaSrc` is which command last wrote `download_base`. The history variables are `out` (frames of the current command), `cmdErr`, `errSeen`, `lastDl` and `pushed`.
- **Handler outcomes.** A handler runs to completion while the engine waits, so a handler is one step. Its outcome is the set of records built by composing the code's primitive calls in the order the handler makes them:
  - `Okay`/`Fail` are `_fastboot_ack` followed by STATE_COMPLETE. `AckFrame` is one pass of its do-while (one `usb_write` of the code and at most 59 bytes of reason) and `AckFrames` the loop for a reason of one or two frames; `OkayLong` is the two-frame `fastboot_okay(tmpfile)` of oem push, whose file name comes from the host. A gadget write of at most 64 bytes is taken to be whole or to fail; a short write would add one more frame. `answers` counts the ack calls that wrote;
  - `Info` is one INFO frame;
  - `ResponseData` sends the DATA frame;
  - `UsbRead` reads the payload;
  - `Ok`/`Bad` split the outcomes on whether the last transport call worked.

  A call made after a failure follows the code: a suppressed ack still sets COMPLETE.
- **Registration and dispatch.** `cmdlist` is `FoldLeft(Register, <<>>, Registrations)`, with the registration calls in the order they run. Lines are token sequences chosen so that a byte prefix is a token prefix. A failed `malloc` in `fastboot_register` (fastboot.c 66) drops the command silently; this is not modelled, as it happens only at start-up, before any host connects, and would only remove a command from the list.
- **Engine actions.** `OpenDevice`, `ReadCommand`, `ReadFails`, `LoopExit`, `UnknownCommand`, `BatteryGate` and `SelectHandler`.
- **Handler actions.** `RunGetvar`, `RunDownload`, `RunFlash`, `RunErase`, `RunOem`, `RunBoot` and `RunReboot`. `Finish` is the fallback check after the handler returns.
- **Environment.** `BatteryChange` stands for the level `check_battery()` reads. That function lives outside `src/` and is modelled from the spec.
- **Flash in this module.** Here `flash:` keeps only what its paths send to the host and to the download area. The pipeline is in `StreamFlash`.
- **Erase.** `EraseOut` follows `cmd_erase` into `erase_partition` (`ErasePartition`): a partition it cannot resolve makes `find_part_device` call `die()`, which ends the process (`Die`: the thread's `hpc` becomes `exited`, a terminal place like `crashed`, excluded from `OneAnswerPerCommand`'s premise because nothing is acknowledged); otherwise the result is FAIL or OKAY.

- **Backlight (in this module).** `lcd` is `lcd_state` and `alarm` says whether an idle alarm is pending. `LcdOn`, `LcdDim` and `LcdOff` are the three state functions; `LcdState` is the call through the pointer. `ReadCommand` does `CLEAR_ALARM` and feeds LCD_COMMAND; every handler action ends with `Rearm` (`RESET_ALARM`, only if the loop is reached again). `Idle` is the SIGALRM handler: it feeds LCD_IDLE and may arm the alarm again. It can fire at any point of the loop, since a signal is asynchronous. The sysfs writes of the state functions are left out; they only print on failure.
- **Refinement.** `BacklightDiagram.tla` is the state diagram of the comment in `backlight_control.h` as an abstract spec: `Dim`, `Off` and `Wake` are its edges, and every other event is a stuttering step. `Fastboot` instantiates it (`Diagram == INSTANCE BacklightDiagram WITH lcd <- lcd`), and `BacklightFollowsDiagram == Diagram!Spec` is checked as a PROPERTY: every step of the engine and the idle alarm is a diagram edge on `lcd`.

### `Uevent.tla`: the uevent thread and the kernel that feeds it

- **State.** `upc` is where `uevent_thread` is (socket, bind, init, loop, exited); `i` is the table index of `uevent_status_init`; `status` is `uevent_status` and starts at zero (static storage); `net` is the socket's receive queue and `overflow` the pending ENOBUFS; `sysfs[p]` is the contents of device p's file, as its word and what `atoi` makes of it. `failed[p]` (history) says the latest read of p failed.
- **Table.** `Table` is `uevent_path` entry by entry; `MatchFirst` is the lookup loop (first entry of the platform whose path is a prefix of the uevent's path); `NewStatus` is the if-else chain on the file contents.
- **Thread actions.** `Socket` and `Bind` (each may fail and return), `StatusInit` (one entry per step), `Recv` (ENOBUFS ends the loop; short and `@/`-less messages are skipped; others go to `ParseUevent`). `ParseUevent` returns on an unknown action, an unknown device or a missing file, and may fail on read.
- **Environment.** `SysfsChange` changes a device's value and the kernel sends `change@<path>`; `OtherUevent` sends one of `Noise`. `Deliver` puts a uevent on the queue if the socket is bound, or drops it and flags ENOBUFS when the queue is full.
- **Fairness.** The thread is weakly fair: it is a thread of its own that blocks only in `recv` on an empty queue. The environment has no fairness.

### `UsbProgress.tla`: the payload read of `download:` and `download_to`

`usb_read_progress` with the real transfer size 4096. `Start` takes the single-read path below one transfer or computes `roundup(len / 100, 4096)`; `Iterate` is one pass of its loop (zero slice, read, count, clip). `UsbRead(n)` is what `usb_read` returns: n, a short count or -1. `asked`, `last` and `aligned` are history variables (sum of sizes asked, the latest size, whether all earlier ones were aligned), so the state stays small for lengths near 10^6.

### `Battery.tla`: the battery monitor as `charging_mode` polls it

- **State.** `bat` is `struct battery`; `pc` and `entry`/`i` are the position in `battery_init_dirs` and in the uevent file; `file` is the uevent contents the returning call read; `leaked` says a string from `key_value` or `strdup` became unreachable.
- **Undefined behaviour.** `malloc` memory is not zeroed: `wd_index` starts as any of `WdGarbage` and unused `dirs[]` slots as NULL or `Junk`. `Place` writing past the array is the state "undefined".
- **Actions.** `BatteryInit`, `ScanEntry` (including realloc failure), `ScanEnd`, then `Poll`, `ScanLine` (one line against the else-if chain of keys), `NoCharge`, `Computed`, `Return0`, `NextDir`, `EndOfFile`, `DirStep` and `Stopped`.
- **Keys.** A key is the word sequence after `POWER_SUPPLY_`, and `strstr` is a search for a run of words, so a line matches every key whose words it contains, and the order of the else-if chain (`Keys`) decides which one it takes, as in the code.

### `ConfigParser.tla`: the theme file, from `config_parser_init` to the colours

- **State.** `mem` is the `cp->mem` heap buffer: the file's bytes then the heap bytes after them, since `fread` does not NUL-terminate (`Heap` is the set of what malloc may leave there, each ending in a NUL somewhere). `alen` is the allocated size. `line` is the line cursor, `k` the index of the key being looked up in `KeyOrder`, `value` the strings returned so far, `window`/`infowin` the colour fields. `read`, `written` and `uninitFree` are history variables: the furthest index read and written, and whether the uninitialised `cp` was freed.
- **Actions.** `Open` is `config_parser_init` up to the comment pass (fopen failure, the empty file that frees an uninitialised `cp`, and success). `StripComment` is one `#` removed by `memmove` of `strlen(d)+1` bytes, clamped to the buffer in the model so that the overflow is recorded, not followed. `GetLine` is one line examined by `config_parser_get` (`strchr` for the newline, `strtok` on `=`, compare the key, `Returns` or move on). `Assign` is the `strtol` and the fallbacks of `tboot_ui_load_config`.
- **Operators.** `Strchr`, `Tokens` (`strtok`, RECURSIVE) and `StrToL` are the C library calls. `Lines`, `Uncommented` and `Lookup` are the reference: the file format stated in the header comment, what a correct parser returns.

### `TextArea.tla`: the log window `ui.ta_log`

- **State.** `lines[i]` is the byte content of ring line i, over characters that are model values with a pixel `Advance`, `NL` and `NUL`. `cur` is `cur_line`. `shown` is what the last refresh drew, from the top down. `pieces` (history) is every piece put so far. `logs` counts the calls.
- **Undefined behaviour.** The ring lines come from `malloc` and are never cleared, so `LogInit` lets each start as any member of `Heap`: zeros, a short string, or bytes with no terminator.
- **Operators.** `Vsnprintf` truncates the message to `LINE_LEN_INCHAR - 1`. `BreakLen` is `GetStringBreak`: the longest prefix whose advance fits the width, ended early by a newline that it counts, as the code's test of `pos[ret_str_length - 1]` assumes. `Break` (RECURSIVE) is the `while (length)` loop. `Store` is the `memset`, the `memcpy` of `min(ret_str_length, l->len)` bytes and the newline removal. `PutLines` (RECURSIVE) puts the pieces round the ring. `Text` is what `strlen`/`DrawString` see: the bytes up to the first NUL, or the line followed by heap bytes (`HEAP`) when there is none. `TextareaRefresh` is `textarea_refresh` with the log's flags (`TAF_LIFO` set, `TAF_TOPTODOWN` clear): from `cur_line` backwards, skipping empty lines, each one row higher.
- **Action.** `TextLine(m)` is one `tboot_ui_textline`: `textline_init` of the message may fail and return; otherwise put and refresh, as one step, since only the fastboot thread logs.

### `TbootUi.tla`: the screen as the handlers drive it

It extends `ProgressBar` and `TextArea` and composes them the way the macros of `tboot_ui.h` do. `SetBar` is a handler's own `tboot_ui_textbar` or `tboot_ui_bouncebar`; `Warn` is `tboot_ui_warn` (log only); `InfoOrError` is `tboot_ui_info`/`tboot_ui_error`: `tboot_ui_hidebar` and then the log line, as one step, which is sound because a bounce thread running between the two calls reads only `bar->percent`, and the second call does not touch it. `Bounce(t)` is a bounce thread's step. (It extends rather than instantiates the components: TLC 1.7.4's coverage pass does not terminate on this instance of a module that uses the recursive fold operators.)

### `ProgressBar.tla`: the bar of the text window and its bounce threads

`percent`, `flags`, `calls` and `tpc[t]` per bounce thread. `TextBar(p)` is one `tboot_ui_textbar` call (range check, text-only redraw when the percent is unchanged, otherwise new flags and `Refresh`, which may start a thread). A bounce thread alternates `Frame` and `Check`; `Check` reads `bar->percent` with no lock. Each thread is weakly fair (the kernel schedules it and it never blocks); the caller has no fairness because the command handlers may stop calling.

## 3. Runs

| Run | cfg | Expect | What it shows |
|---|---|---|---|
| streamflash | `MCStreamFlash.cfg` | pass | `ImplementsChannel`: the two threads implement the bounded channel of `TransferChannel` (a refinement): no chunk is written twice or overwritten in its slot before it is written (loss and order are not covered). `OkayMeansExt4Checked`: OKAY for an ext image on a Linux partition means e2fsck, resize2fs and tune2fs all ran, in that order, and succeeded. (OKAY does not mean the whole payload was written: see `OkayMeansAllWritten` below.) `DrainAccounting`: after a broken pipe the whole payload is read before FAIL. `FilterFromPayload`: the filter chosen from the first buffer's magic bytes is the one the spec's table gives for the payload's header, whenever the payload has at least four bytes. `Termination`: the command always returns. |
| sf_inorder | `MCStreamFlash_InOrderDelivery.cfg` | violation | The reader can write chunks out of order: the two threads skip slots independently. |
| sf_buffers_outlive_reader | `MCStreamFlash_BuffersOutliveReader.cfg` | violation | Buffers are freed while the reader still runs (use after free). |
| fastboot | `MCFastboot.cfg` | pass | `OneAnswerPerCommand`: every command without a transport error is answered by exactly one `fastboot_okay`/`fastboot_fail` call that writes, and the last frame is its OKAY or FAIL. `DownloadSizeSound`: `download_size` ≤ capacity, and it is non-zero only after a complete download of that length. `DispatchMostSpecific`: the most specific prefix is chosen. `BacklightFollowsDiagram`: `lcd_state` implements the diagram of `backlight_control.h` (a refinement). |
| fb_error_ends_session | `MCFastboot_TransportErrorEndsSession.cfg` | violation | A transport error does not end the session, because ERROR is overwritten with COMPLETE. |
| usbprogress | `MCUsbProgress.cfg` | pass | `ReadsWholePayload`: a read with no short transfer asks for 4096-aligned slices (all but the last) that add up to exactly `len`, and returns `len`. |
| battery | `MCBattery.cfg` | pass | `UsableStatus`: every `battery_status` that returns 0 leaves a status string and a non-negative capacity, over uninitialised memory and changing uevent files. |
| battery_stale_capacity | `MCBattery_StaleCapacity.cfg` | violation | A capacity computed from the charges is never recomputed on later polls. |
| uevent | `MCUevent.cfg` | pass | `StatusFollowsSysfs`: once the devices stop changing, the status of each ends up matching its sysfs file, unless the thread quit (after an overflow or a socket error) or the latest read of that file failed. Changes racing socket setup and the initial reads are never missed, because the socket is bound before `uevent_status_init` reads the files. |
| ui | `MCTbootUi.cfg` | pass | `BounceStops`: once the bar stops bouncing, by a handler or by `tboot_ui_info/error`, every bounce thread returns (unless it bounces again first). `ShowsLatest`: the bottom rows of the log window are the texts of the last pieces put, in order, each without its newline and blank ones left out; once the ring has wrapped that is all it shows, whatever the heap left in the lines. |
| config | `MCConfigParser.cfg` | pass | `ThemeFollowsFile`: when the file is NUL-terminated by the heap, every key's value is the one the file gives (first line, comments removed) and the colours cascade from them, over every file of up to four characters. |
| pb_two_bounce | `MCProgressBar_AtMostOneBounceThread.cfg` | violation | bounce, progress, bounce leaves two threads animating one bar (`MCProgressBar`, the bar alone). |

Each pass run also checks its module's `TypeOK` (`UiTypeOK` for the composed UI). Some properties stay in the modules without a run of their own (`OkayMeansAllWritten`: OKAY with a chunk left in a slot after the reader quit, through the stale `writer_finished` read of aboot.c 222; `NoDoubleFree`, `CancelOnlyCreatedReader`, `HostStreamInSync` in StreamFlash; `CapacityInRange`, `NoUndefinedRead`, `NoLeak` in Battery; `ShortReadRetried` in UsbProgress; `ExactlyOneTerminalAck` in Fastboot, the protocol's one OKAY or FAIL per command, which oem push breaks with a file name that makes the reason longer than 59 bytes: `_fastboot_ack` sends a frame per 59 bytes, each starting with OKAY, and the host reads the second as the next command's answer). They were found violated while the modules were built and are listed in `hazards`; the runs above are the ones kept.

Every property of a passing run has a mutant in `PROJECT.json`, a plausible bug in the mapped code that TLC finds:
- `writer_finished` never set; no drain; the last chunk not clipped; a full slot overwritten (no `buf[i]->len` test); the result of `resize2fs` not tested;
- the ack without STATE_COMPLETE; `download_size` not cleared; no capacity check; `fastboot_register` appending; `lcd_state_on` turning the panel off at once;
- `uevent_status_init` not called; the charger status stored as `atoi(buf)` itself;
- the slice not rounded up to 4096; the next slice not clipped;
- no fallback to the next battery directory at end of file; `realloc` growing `dirs` by one slot;
- the bounce thread testing the percent it started with; `||` written as `&&` in the range check; the newline left at the end of a log line;
- the filter test that only looks at the first byte;
- a key compared by prefix instead of equality; the line loop that steps past the terminating NUL.

### Bounds

- **MCStreamFlash.** C = 2, two slots (`NR_BUFFER`), L ∈ 0..7: L = 0, L < C, L = C, L = 2C (a slot is reused), three chunks (a slot refilled while the reader lags) and four chunks, the last one short (both slots reused). The code's `SIZE` only scales chunk sizes, so every case depends on L relative to C. For the magic test, an abstract byte is two payload bytes. The headers are gzip, `BZh9`, `BZ01`, `BZh0` and a lone `1f`. A fresh buffer holds zeros or a gzip magic, so payloads under four bytes can be classified by bytes they do not have. The target is a disk alias, an ext4 partition or another partition; the superblock test and each ext4 tool may fail. About 80,700 states.
- **MCConfigParser.** Every file of up to four characters over `w`, `i`, `1`, `=`, `#` and newline: keys, values, empty keys, comments at any place, a line with no newline. The heap after the file is a NUL, a `1` or a whole line `w=1`. Two keys (`window` and `infowin` stand-ins) and one digit.
- **MCFastboot.** Capacity 2, requests 2 and 3; one line per registered command plus "oem system" (gated), "oem push" and the unregistered "continue"; three commands and two connections: enough for download → plugin flash → push, error → next command, and idle → dim → off → command, and oem push with a short and a long file name. About 97,000 states.
- **MCUsbProgress.** The real 4096 and lengths 0, 1, 4095, 4096, 4097, 8191, 8192, 409599-409601, 819201 and 1000000: both paths, where the slice rounds to one transfer, and slices that do not divide `len`.
- **MCBattery.** Three supplies (battery, other, battery), `wd_index` garbage {0, 1, 3} (valid, the other entry, past the end), and uevent files with a full gauge, a discharging gauge, no status, status only, and charge-only batteries.
- **MCUevent.** A Blackbay device on the new kernel paths, so the table's old battery and charger paths fail to open during `uevent_status_init`. Battery capacities {15, 80}, charger online {0, 1, 2}, three USB states; a receive queue of one message and two changes, so the queue overflows; one other uevent among an "add", an unknown path, a child of the USB device and the two malformed kinds. About 235,000 states.
- **MCTbootUi.** Four bar calls over {bounce, 0, 50, -50, 150} (bounce-progress-bounce and an out-of-range value both fit; `tboot_ui_info/error` use one of them to hide the bar), and three log calls into a ring of two lines, two characters wide (advance 2 in a width of 4, so 3-byte lines). The messages are three characters (two pieces), a character and a newline, a bare newline (a blank piece), and five characters, which `vsnprintf` cuts to four (a buffer of 5). Three calls wrap the ring. Every ring line starts as zeros, a short string or unterminated bytes. About 29,800 states. `MCProgressBar` keeps the bar alone for `pb_two_bounce`.

### Fairness

`streamflash`, `uevent` and `ui` check liveness; `fastboot` and `streamflash` check refinements (a refinement to a spec without fairness is a safety property). The two threads of a stream flash and every bounce thread are weakly fair: they are kernel-scheduled, busy-poll or sleep, and never block on one another. The fastboot thread calling `tboot_ui_textbar` has no fairness; `MCTbootUi.cfg` turns deadlock checking off because that caller really may stop (it waits for the host). `MCUevent.cfg` does too: once the kernel sends nothing more the thread blocks in `recv` for good. The uevent thread is weakly fair.

## 4. Findings

Each violation run is a finding, described with its source line in `findings` in `PROJECT.json`:

- **Chunk order.** The spec promises the same cyclic order for producer and consumer; the code lets the two threads skip slots independently.
- **Use after free.** Cleanup frees buffers before the busy-polling reader is cancelled.
- **Transport errors do not end the session.** ERROR is overwritten by COMPLETE.
- **Stale capacity.** `struct battery` is never reset, so a computed capacity sticks.
- **Two bounce threads.** The unlocked percent test lets an old thread keep running next to a new one.

Found while modelling and recorded as hazards without a run:

- `oem push` saves a plugin-flash payload with the size of an earlier download: `download_to` rewrites the area but not `download_size` (`PushSavesDownload` in Fastboot). TLC finds this violated. Its run gave its place to `config` (the project keeps at most twelve runs).
- `config_parser_init` reads the file with `fread` and never NUL-terminates it, so the parser reads heap bytes after the file: with `i=` at the end of the file and a `1` after it in the heap, `infowin` becomes 1 (`ValueFromFile`).
- A `#` whose comment reaches the end of the unterminated buffer makes `memmove` copy `strlen(d)+1` bytes past the allocation (`WritesInsideBuffer`).
- For an empty file, `config_parser_init` jumps to the cleanup that frees `cp` before `cp` was assigned (`NoUninitialisedFree`).

- The log lines are `width / font_width + 1` bytes, with `font_width` the font's maximum advance, but `GetStringBreak` fits as many characters as the pixel width takes. With a proportional font (the theme's `font` key names any TrueType file), a run of narrow glyphs makes a piece longer than the line: `memcpy` leaves it unterminated, the refresh draws heap bytes after it, and the newline removal writes past the buffer (minui.c 637-640). With a glyph of advance 1 beside a maximum of 2, TLC finds `ShowsLatest` violated after one `tboot_ui_textline` of four of them; the `ui` run keeps a monospace font.
- `textarea_init` tests `width < font_height` where the height is meant (minui.c 544): a log window lower than one line of its font gets `nr_lines = 0`, and the first `textarea_putline` divides by zero. The model assumes `NrLines > 0`.

Earlier: `usb_read_progress` returns a short count for payloads under one transfer, where the spec (4.1) says the read loops (`ShortReadRetried` in UsbProgress; TLC finds it violated in two steps). The uevent thread exits for good on the first failed `recv`, which a netlink overflow causes; `StatusFollowsSysfs` allows that outcome, and nothing restarts the thread. And after an unknown or a battery-gated command the idle alarm is cleared and not re-armed (fastboot.c 510, 551), so the panel stays lit until a command succeeds; its consequence depends on the SIGALRM handler, which is not in this repository.

## 5. Not modelled, and why

- `cmd_flash`, `cmd_continue` and `pull_file` are unreachable: they are not registered or have no caller.
- The menus (`menu_*`, `tboot_ui_menu`) are driven only from tboot.c, which is not in this repository; `ta_info` has no writer (`tboot_ui_sysinfo` has no caller); `tboot_ui_adjust` and the rest of minui are layout and DirectFB drawing. Colours and pixel positions of the log are left out.
- The rest of `tboot_util.c` (mount, file writes, `execute_command_oem`, `kexec_linux`, `apply_sw_update`) is file-system and process I/O whose only state is on disk or in child processes; the commands that use it are modelled by the outcomes they send (`RunOem`, `RunBoot`, the plugin path). `array_to_string` and `import_kernel_cmdline` have no caller under `src/`. One defect there is noted, not modelled: when `write` fails with EINTR, `named_file_write` (tboot_util.c 212-219) does not skip the update, so it adds -1 to `what` and `sz`, and a 0 return with a stale EINTR in `errno` loops for ever.
- Config parsing is modelled (ConfigParser), but only for the two keys of one text window; the other windows repeat the same calls.
- `platform.c` is thin wrappers over external libraries.
- The ext4 tools are modelled by their order and exit status, not their effect on the image. The filter command lines themselves are not modelled; the choice among them is.
- The sysfs writes of the backlight, and the LCD_KEY and LCD_USB_EVENT senders (outside this repository).
- `check_battery()` and the UI callback of the uevent thread are in tboot.c, not in this repository. So `Fastboot` keeps the battery-low answer as a free variable instead of composing it with `Uevent`.
- `action_mutex` is also taken by UI worker threads outside `src/`. Its only role here is to serialise handlers, and a single fastboot thread already does that.

## 6. Plan

Done: `StreamFlash` (with the magic test, the post-write checks and the refinement of `TransferChannel`), `Fastboot` (with the backlight, the idle alarm, `erase_partition` and the refinement of `BacklightDiagram`), `UsbProgress`, `Battery`, `Uevent`, `ProgressBar` and `TextArea` composed in `TbootUi`, and `ConfigParser`, each with an MC module and runs.

Still to do:
1. **Abstract flash outcome.** A spec whose only state is the host-visible answer and the bytes on the device, refined by `StreamFlash` under a cfg that rules out the known reordering.
2. **Idle alarm after failed commands.** A run for the missing `RESET_ALARM`, once the alarm handler's behaviour can be pinned down.
3. **Proportional fonts.** A run of `TbootUi` with a narrow glyph, to keep the log overflow above as a checked finding.
