# A formal model of esp-serial-flasher

This directory holds TLA+ models of the esp-serial-flasher library: a C library
with which one microcontroller (the *host*) flashes or starts another one (the
*target*) over UART, USB or SPI. TLC checks the models on small instances, and
TLAPS proves some of their properties for every value of the constants.

The library is sequential: a call sends a command, waits for its answer or for a
timer, and returns. What makes it hard is everything around that: the target
works on its own and may answer late, the line loses and damages frames, a call
can be repeated, a client can abandon a session and start another, boards are
swapped, and on one port the USB driver's task changes the port under the
application's feet. Static variables (`s_target`, `s_reg`, `s_sequence_number`,
`s_md5_context`, `stub_running`, `s_time_end`, ...) carry state from one call to
the next, through all of that. The models are about this state.

## The system

| Part | State it keeps | Operations | What is hard | What makes it correct |
|---|---|---|---|---|
| Flash interface (`esp_loader.c`, `protocol_common.c`) | `s_sequence_number`, `s_target_flash_size`, MD5 context with its region; the target's flashing window | `flash_start`, `_write` (with retries), `_verify`, `_finish` | lost or late frames, retries, abandoned sessions, damaged blocks | a successful verification means the image is in the flash; nothing outside its region changes |
| Erase size (`calc_erase_size`) | none | one function | rounding at block boundaries, a ROM that over-erases | what is flashed was erased |
| Padding and hashing (`flash_write`, `flash_verify`) | payload buffer, MD5 context | padding, counting blocks, hashing | three roundings that have to agree | the digest is that of the image |
| MD5 (`md5_hash.c`) | context: block, bit count, state | init, update, final | pieces of any length, room for the length | pieces do not matter |
| Command exchange (`protocol_uart.c`) | what the line still holds | `send_cmd`, `check_response` | nothing empties the line after a timeout; answers carry only the command code | an answer is the one that was asked for |
| SLIP framing (`slip.c`) | position in the byte stream | `SLIP_send`, `SLIP_receive_packet` | noise, frames cut off, buffers too small | a frame is received as sent, or not at all |
| Connection (`loader_initialize_conn`, `loader_detect_chip`) | trials, `s_target` | reset, SYNC, detection, attach | eight answers to each SYNC, old answers, silence | the chip detected is the chip attached |
| State across calls (`esp_loader.c`, `esp_stubs.c`) | `s_target`, `s_reg`, `s_target_flash_size`, `stub_running` | three connects, reset, every call that uses them | reconnects, failures half way, change of the board | what is remembered fits the attached target |
| Flash chip commands (`spi_flash_command`) | the target's SPI registers, poll counter | detection of the flash size | any of a dozen exchanges may fail; busy chip | only a real size is reported; registers restored |
| Ports' timers | `s_time_end` | `start_timer`, `remaining_time`, `port_read` | wrapping clocks, widths, how a read waits | a timeout comes neither early nor late |
| USB CDC-ACM port | device and stream-buffer handles, semaphore | init, deinit, port calls, disconnect event | two tasks share the handles, on one core or two | no leak and no dangling handle in sessions that do not overlap, an unplug is noticed |
| SPI transport (`protocol_spi.c`) | two sequence bits in the library; status registers, buffer and chip select of the slave | connection, `send_cmd`, `check_response` | toggle bits that disagree, a chip select left low, loops without a timer | every call gets its own answer; what is acknowledged was executed |
| RAM download and stub (`mem_*`, `loader_run_stub`, `load_ram_binary`) | `s_sequence_number`, `stub_running`; the target's RAM | download, start, OHAI | retries without a digest, overlap with the resident stub, an OHAI that may be any frame | what is reported as loaded runs whole; the resident stub is not damaged |
| Target tables (`esp_targets.c`) | none | search by id and by magic value, efuse conversions | two numberings of pins, two forms of the security answer | the name, pins and MAC address are those of the chip |
| Ports: pins, rates, initialisation | what is open, at which rate | init, deinit, reset, enter bootloader, change of rate | each step may fail; polarity | the board is left usable |
| Example programs (`examples/`) and the pin library of lx16 (`pigpio.c`) | the sequence of calls of each main; files of the kernel | connecting, flashing, loading, reading the log | both ends change their rate, and either may fail, with or without a word; programs that give up half way | both ends talk at the same rate; the board is left usable |

A call goes down through *client, flash interface, command exchange, SLIP, port*
and its answer comes back up. Parts share state only through the static
variables of the host, the contents of the line, and the target.

## The modules

Modules are listed with what their variables and actions stand for. Names of
operators are the names of the C functions wherever there is one.

**CommandLink** has the variables of the line (`toTarget`, `toHost`, the open
`call`) and the operators over them: `Send` and `Return` are the two ends of
`send_cmd`; `Answered`, `Skip` are the loop of `check_response`; `Expired` is the
timer of the caller. `MaxLate` is how many frames may outlive the call they belong
to. With `MaxLate = 0` a call gives up only when nothing can arrive any more; with
a larger value its answer may come later and be taken for that of another call.

**FlashSession** extends it with the flash interface and the target. One cell of
the flash holds one block, and the MD5 context is the sequence of blocks it was
fed. A command and its answer are two steps of the host: `FlashStart` sends the
first command, and `SizeDetected`, `SizeNotDetected`, `ParamsSet`, `Begun` are what
`esp_loader_flash_start` does with the answers; `FlashWrite`, `BlockWritten`,
`RetryBlock` are `esp_loader_flash_write` with its `do while`; `FlashVerify`,
`Verified`, `VerifyFails` and `FlashFinish`, `Finished` likewise; `CallFails` is the
`RETURN_ON_ERROR` of all the rest. `Reconnect` is a client that starts over. The
client abandons the session when a call fails, as `flash_binary` does, but it may
verify again. The target (external) handles commands in order; the documents do
not say how it places a block whose sequence number is not the next one, so each
`policy` is tried. `Lose`, `Garble` (a damaged block that passes the one-byte XOR
checksum) and `Refuse` may happen at any time. `SizeDetected` collapses the
register exchanges of the size detection into one; those are SpiFlashCommand's.

**FlashPromise** is the abstract specification of the flash interface: no line, no
commands, no retries, only what a client may rely on. FlashSession implements it
(`KeepsPromise`, with `image` mapped to the blocks acknowledged and `verified` to
the result of the last call).

**FlashImage** is one session without loss at the level of bytes: which sectors
are erased, how many blocks are announced, how the payload is padded, what is
hashed, and what the target makes of it. It extends **ErasePlan** (`calc_erase_size`
and the ROM its comment describes) and **Md5Buffer** (`MD5Init`, `MD5Update`,
`MD5Final` with `MD5Transform` abstracted to the block it is applied to, and the
padding of RFC 1321 as reference), which declare no variables. The client copies
chunks of any size into one buffer that keeps its old bytes, and what lies behind
the buffer is arbitrary, for `flash_write` hashes up to three bytes of it.

**Slip** is the encoder and the receiver of `slip.c`, one byte per step. A call may
be given up at any byte (`Abort`), a frame may be cut off by a reset of the target
(`SendCut`), and noise, such as the boot message, lies in front of it all.

**Commands** has the packed structures of `protocol.h`: of each command its length,
whether its answer carries data, and what it does to the sequence number. RamDownload
and SpiSlave send these.

**Connection** extends CommandLink with `esp_loader_connect`: reset, SYNC with its
trials and its answers (eight in the code), GET_SECURITY_INFO, the magic register,
the efuse words, SPI_ATTACH, and `esp_loader_read_register` afterwards. Answers
carry the session and the register they were read in, which the host does not see.

**LoaderState** has the static variables of the library against the attached
board. A call of the interface is one step with each of its outcomes. A client
that connects again after `connect_with_stub` without `esp_loader_reset_target` is
`careless`: properties of `stub_running` are for clients that are not. When the
code dereferences a null pointer or indexes a table past its end the outcome is
`UNDEFINED` and the behaviour stops.

**Targets** is the table `esp_target` row by row with the searches in it, the layout
of the SPI registers, the decoding of the security information, and the conversions
of efuse words into pins and a MAC address: operators only. A 32-bit word that
exceeds TLC's integers is a pair of halves.

**SpiFlashCommand** is `spi_flash_command` and `esp_loader_flash_detect_size`, one
register exchange per step, any of which may fail before or after the target has
acted; the registers are those Targets gives the chip. `trials` is the `uint32_t`
counter of the polling loop. **ChipQueries** extends it with everything else that is
found out by reading: `loader_detect_chip` with the security information and the
magic values, `loader_read_spi_config`, `loader_read_mac`. The queries and the flash
command take turns on one chip, which has a magic value and burnt efuses.

**StubImages** has the addresses, sizes and entry points of the loaders in
`esp_stubs.c`. **RamDownload** extends CommandLink, Commands and StubImages:
`MemStart`, `Transmit`, `Continue` and `Retry` are `esp_loader_mem_start`, the loops of
`loader_run_stub` and `load_ram_binary`, and `esp_loader_mem_write`; `Finished` and
`Greeted` are `esp_loader_mem_finish` and the wait for OHAI. The RAM is a set of pieces,
each knowing the program and the address it belongs to, so that a shifted or
overwritten program is seen to have a hole. The application is laid out around the
resident stub in four ways. The ROM and the stub are external.

**SpiSlave** is `protocol_spi.c` against a slave (external): one step of the host is
one transaction from chip select low to chip select high; `Poll` is
`handle_slave_state`. `PortFails` ends a function in or before any transaction and
leaves chip select low, so that the slave takes the next transaction for the rest of
the last one. A prompt slave has done its work when the host looks again, a lazy one
takes its time.

**Ports** gives, as data, the pin sequences of all ports, and what an initialisation
or a change of rate can come to. A port whose change of rate reports a rate that it
did not set is `misled`: a terminal that refuses the rate on the Raspberry, or a UART
of the Pico that is too fast. **Programs** carries them out: a program is the
sequence of the operations it has still to do, a call is replaced by those it consists
of, and a library call is one step with the outcomes that other modules give it. It
has the mains of ten examples, the functions of `example_common.c`, the pin library of
the lx16 program, the wires and the target at their other end. `BoardPins` and
`BoardUart` are what the Zephyr and STM32 programs do to the pins before their port;
`OpenUart` opens the UART again for the log and may fail, after which some programs go
on and some do not; `GpioRead`, `GpioWrite` and `WriteFile` are the pin library, file by
file, with the failures it ends at and those it does not look at. Two things a program
may do are remembered in `mishaps`: it gave up with the pins driven (`left`), or a file
of the pin library failed and nobody noticed (`ignored`).

**PortTimer** is the timer of five ports under a loop of `slip.c` that reads again
and again while the target sends bytes the loop does not wait for. The ports
differ in clock, width and in how a read waits.

**UsbCdcPort** has the application's task and the USB driver's task with the
handles, the stream buffers, the open devices and the semaphores; each line of the
init and the deinit that touches shared state is a step (`Clear`, `Delete`,
`ForgetStream`, `Close`, `ForgetDevice`; `SetCallbacks`, `CreateStream`, `Open`,
`StoreHandle`). What exists in the kernel is named by the session that created it, so
that a lost one is seen. `preempts` says which of two schedules a behaviour has: on one
core the driver's task, which has the higher priority, runs until it has nothing to do;
on two (the host may be an ESP32-S3) the tasks interleave freely. A session that begins
while the driver still handles the disconnection of the one before is `overtaking`.
To give up, or to call the driver with, what is gone already is undefined: the program
goes on or aborts.

**MCFlashSession**, **MCSlip** and **MCChipQueries** give TLC a symmetry set, the frames
and the burnt pins. Modules whose names end in **Proofs** hold the theorems; those
of PortTimer, UsbCdcPort and Slip share SerialPortProofs, and those of Programs are in
LoaderStateProofs.

Definitions named `Mut_...` are deliberately wrong variants of the definition that
follows them. No specification uses them; substituted for it, they show that the
property they are listed with in PROJECT.json would be violated by such a bug.

## What the runs check

A run answers several questions about one instance; the number of runs stays
small on purpose.

| Run | Instance | Properties |
|---|---|---|
| FlashSession | 2 block values, 2 cells, images of up to 2 blocks at 2 offsets (so they may wrap), 2 attempts, 3 placement policies, all faults, `MaxLate = 0` | `VerifySound`: SUCCESS of `flash_verify` means the region holds what was written. `AckedImageIsInFlash`: a complete acknowledged image is in place, whatever the retries. `MismatchIsReal`: the first verification reports a mismatch only if there is one. `KeepsPromise`: refinement of FlashPromise, so nothing outside the region changes. `TypeOK` |
| FlashSession_late | 1 cell, all faults, 2 late frames | `VerifySound` although stale answers may be taken for new ones; `CallsReturn`: every call returns |
| FlashImage | images of up to 7 bytes, block sizes 2 to 4, sectors of 2, blocks of 3 sectors, alignment 2, MD5 blocks of 4 with a length field of 1 | `VerdictSound`: the verdict is right whatever lies behind the buffer. `AlignedVerifies`: an aligned image verifies. `ChunkingIrrelevant`: pieces do not matter to the digest. `EraseTight`: the erase size makes the ROM erase what is needed, or a sector more, where it is meant to |
| Slip | 3 frames with escapes, buffer of 2 bytes, 1 abort, 1 cut | `Genuine` (nothing made up or glued together), `LossIsBounded` (back in step after a bounded loss) |
| Connection | 2 chips, 3 sessions, 3 answers to a SYNC, up to 3 late frames, trials 0 to 2 | `DetectsAttached`, `ReadsFresh`: after the SYNC nothing old is taken for new. `ConnectEnds` |
| LoaderState | ESP8266, a chip with and one without GET_SECURITY_INFO, one unknown chip; boards are swapped without limit | `TargetIsAttached` for every client; `FlagIsTrue`, about `stub_running`, for clients that are not careless |
| ChipQueries | all 8 chips with all their magic values, pins of both numberings, default and repeated pins, 2 polls, a known flash id and an unknown one | `DetectedIsReal`: a reported size is that of the attached chip. `ConfigRestored`: the SPI registers are put back. `EfusesAreUnderstood`: pins and MAC address are what was burnt. `DetectReturns` |
| RamDownload | the real stubs of 4 chips, 4 layouts, `ESP_RAM_BLOCK` 6144, 3 attempts, 3 policies, 2 programs, 2 faults, 1 late frame | `LoadedIsWhole`, `ResidentIntact`, `ReportedStubRuns`: what is reported runs, whole, and the stub is not damaged. `CleanLoadsSucceed` (of every step that ends a load): without faults only an overlap is refused, and only the stub of a chip without one is not loaded. `DownloadsEnd` |
| SpiSlave | 2 sessions of 3 commands, a buffer that holds every command but a data block, 2 failures of the port, prompt and lazy slaves | `CleanCallsWork`, `SentIntoBuffer`, `AcknowledgedWereExecuted`: buffers, sequence bits and answers stay in step. `Returns` |
| PortTimer | all five ports, clock of 32 values started at 24 and run past the wrap, three timeouts | `NotEarly`, `WaitBounded` |
| UsbCdcPort | both schedules, 4 sessions | `LeaksOnlyWhenOvertaken`: what is lost is lost to a session that overtook the deinit of another. `IntactWhilePlugged`: the handles of a device that stays do, too, but in such a session. `UnplugNoticed`, on one core |
| Programs | every program on every chip with both polarities, two rates of the lx16 program | `ExchangesHeard`, `LogIsReadable`: both ends talk at one rate, unless the port is `misled`. `BoardIsLeftUsable`: the pins let the application start, unless the program was `left` with them driven. `DriverStaysAway`: the driver of the wireless module keeps off the boot loader, and is back for the new application, also when the program ends between two files |

### Why these bounds

* *FlashSession.* Two blocks are needed for one to displace the other after a
  retry, two cells for a wrapped image, two attempts for one retry. Sessions are
  not counted: a finished or failed one is followed by others over the same flash,
  and the state space is finite without a bound since `seq` starts over with each.
* *FlashSession_late.* Two late frames let one stale answer be taken for that of a
  new call while the new one is still on its way. One cell keeps it small.
* *FlashImage.* Sizes are scaled down together. Seven bytes cover images below,
  at and above every alignment, sector, block, and MD5 block, and every residue for
  the room of the length field. `WordValues = 32` makes the low word of the bit
  count carry into the high word.
* *Slip.* Three frames: one before a fault, one hit by it, one after. A buffer of
  two bytes is smaller than some of them.
* *Connection.* Three sessions, so that an answer may outlive two of them; as many
  late frames as a SYNC has answers, the most the eight answers can outweigh.
* *ChipQueries.* Nothing is scaled but the number of polls, whose value no property
  depends on. One set of pins has numbers on both sides of 32, one uses a pin twice, and one has
  pins an ESP32 cannot have in its efuses.
* *RamDownload.* Addresses, sizes and blocks are the real ones; of the chips one has
  no stub, one has the second segment below the first, one has the largest second
  segment, and one has its segments next to each other. Two programs let an application follow a stub. Two
  faults displace a block and hide it.
* *SpiSlave.* A session has as many commands as the toggle bit needs to come back to
  its old value; two sessions, so that the bits of the first meet the second.
* *Programs.* No bound: a program is finite. The run has 253,092 states.
* *PortTimer.* The clock starts below its wrap and runs more than one longest
  timeout beyond it; the longest timeout is longer than `VTIME` holds.
* *UsbCdcPort.* Four sessions let a failed open, an unplugged one, one that overtakes
  it and a good one follow each other (172,462 states).

### Fairness

`WF(Host)` stands for the fact that the host's loops run on and that its timer
runs out (PortTimer shows when); `WF(Target)` for a target that handles commands
it has received: the bytes of a live target are finite. A dead target is covered
by `Lose`, after which the host times out. No fairness is assumed of the client or
of faults. In ChipQueries `WF(Host)` says that each exchange ends, and the flash
chip has none: it may stay busy for ever. In SpiSlave the host has it for its loops,
which have no timer, and the slave for booting and for the work it has accepted;
`Returns` does not use the latter for a lazy slave. In UsbCdcPort each of the two
tasks has weak fairness, which is what the scheduler of FreeRTOS gives a ready task
when no higher one runs for ever, and each has a core of its own otherwise; the user
has none. Programs has no fairness and no liveness: a program's loops are those of the
calls, which end elsewhere.

## Theorems

| Theorem (module) | What it says | Argument |
|---|---|---|
| `TypeCorrect` (FlashSessionProofs) | `Spec => []TypeOK`, for any flash, faults and late frames | each operator of line, host and target keeps its part of the type; the attempts stay within the retries by `MayRetry` |
| `SoundInvariant`, `VerifySoundness` (FlashSessionProofs) | `MaxLate = 0` and `Spec` give `[]VerifySound` | `SoundInv`: there is at most one frame on the line and it belongs to the open call (`OneFrame`); the MD5 context has been fed exactly the client's image, or is dead (`Md5FollowsImage`); so the digest that arrives is that of the region as it is now (`Md5AnswerIsFresh`) |
| `MismatchIsNeverFalse` (FlashSessionProofs) | `MaxLate = 0` and `Spec` give `[]MismatchIsReal` | the digest that answers is that of the region (`SoundInv`), and INVALID_MD5 is only ever seen between calls, when nothing on the line can change the flash |
| `AckedImageLands` (FlashSessionProofs) | `MaxLate = 0`, images no longer than the flash, and `Spec` give `[]AckedImageIsInFlash` | `LandsInv`: each transmission or block that was not acknowledged uses up a place of the window, so either a place was wasted, and the last block of the image will be refused, or every acknowledged block lies where it belongs; `CellsApart`: cells less than the flash apart differ |
| `PromiseKept` (FlashSessionProofs) | `MaxLate = 0` and `Spec` give `KeepsPromise` | `WindowInv`: while a session is open the target's window is its region; so programming and erasing map to `Program`, an acknowledged block to `Acknowledge`, a verification to `Verify`, and every other step to `NextCall` or a stutter |
| `EraseIsTight` (FlashImageProofs) | `Spec => []EraseTight`, for any sector and block size | the erased sectors are what the ROM makes of what was asked for, whole sectors survive rounding, and asked plus extra is what is needed or one more |
| `PiecesDoNotMatter` (FlashImageProofs) | `Spec => []ChunkingIrrelevant`, for any MD5 block, any width of the length field and of the words, and images of any size cut in any way | `Holds`: an MD5 context is the whole blocks of the message it was fed, the rest of it, and its bit count; `MD5Update` keeps that for a piece that ends in the block, fills it, or goes on over several (`UpdateHolds`), and `MD5Final` makes of it the blocks of RFC 1321 (`FinalIs`), with or without room for the length |
| `VerdictIsSound` (FlashImageProofs) | `Spec => []VerdictSound`, whatever lies behind the client's buffer | `DigestTells`: equal digests are equal messages, of equal length although the bit count wraps, for the padding is read back from the end; `Hashing`: at least the bytes that were written are hashed, and if there are no more, they are the image; the target's region is as long as the image |
| `AlignedImageVerifies` (FlashImageProofs) | `Spec => []AlignedVerifies`, for any block sizes, alignment and sectors | `Placed`: as long as each call fills its block, the target has the bytes written at their places and erased ones behind, the last block's padding included; an aligned image needs no padding in the digest |
| `AttachedIsDetected`, `FreshReads` (ConnectionProofs) | `MaxLate <= SyncAnswers` and `Spec` give `[]DetectsAttached` and `[]ReadsFresh`, for any chips, sessions, trials and faults | `Syncing` with `Outweighed`: the strays of earlier sessions are no more than the answers to the SYNC that are still to be counted, so the last one counted is its own and nothing stale is left behind it; `Synchronised`: from then on the line holds answers to SYNC, which no other command takes for its own, and the open command or its answer; `LateIsBounded`, `Refusing` |
| `CacheIsAttached` (LoaderStateProofs) | a connected client's remembered target, registers and size are the attached chip's, for any set of chips | `CacheInv`; a connect that succeeds has detected a chip of the table, and no other call changes the memory |
| `FlagTellsTruth` (LoaderStateProofs) | `Spec => []FlagIsTrue` | `FlagInv` adds `ClearedByReset`: without a stub connect since the last reset the flag is clear |
| `CommandsReachALoader` (LoaderStateProofs) | `ProgramSpec => []ExchangesHeard`, for any programs of `MainNames` and any rates the user may give | `ProgramInv`: what a program has still to do is a `Plan`, in which each exchange comes after a connect with nothing between that takes the port or the target away, or it is the `Rest` of one and the two ends are `Linked`: the port is open, a loader runs, and the rates agree, or will when the port has followed, or the port is `misled`. A step takes the first operation off (`RestGoesOn`, `PlanGoesOn`) or puts a plan in its place (`PlansJoin`); every program begins with a plan (`StepsPlan`); the two ends change their rates one behind the other (`Paired`), to a rate every port knows (`RatesFit`), so that a failure of either end ends the program's exchanges, and a port that reports success has either followed or is `misled` |
| `TimeoutNotEarly`, `LoopsEndInTime` (SerialPortProofs) | `TimerSpec => []NotEarly` and `TimerSpec => []WaitBounded`: on every kind of port, in the reach of its timer, a loop gives up neither early nor, where the timer counts time, late; for every width of the clock and every timeout below half of it | `TimerInv`: the end of the timer, kept in the port's own clock, lies at most one timeout ahead, and a read waits up to it; `WrappedDifference`, `SameTurn`: such a distance survives the reduction to the clock's width; `VtimeReach`: what `VTIME` can hold |
| `OnlyRealSizes` (ChipQueriesProofs) | `QuerySpec => []DetectedIsReal`, for any chips, pins, polls and ids | `RealInv`: from the clearing of W0 to the lookup, the data register holds what cleared it or the id; `RegistersDiffer`: no other register of any row of the table has its address |
| `RegistersPutBack` (ChipQueriesProofs) | `QuerySpec => []ConfigRestored` | `ConfigInv` says for each step of the exchange which registers hold their old values and which are in the saved copies |
| `SpiAcknowledged` (SpiSlaveProofs) | `Spec => []AcknowledgedWereExecuted`, for any sessions, calls, failures of the port and sizes | `Base`: which statuses, buffers and transactions can be at each place of the host, a target that is not ready has not been written to (`Asleep`), and one left selected has one transaction to get over (`Deselected`). `Honest`: the answers acknowledged, the one lying unread and the one owed are together no more than the commands executed (`Counted`), the host reads only an answer it has not taken before (`AnswerUnread`), and the target holds back nothing it could offer (`Drained`) |
| `SpiSentIntoBuffer` (SpiSlaveProofs) | `Spec => []SentIntoBuffer` | `Announced`: a length the host has seen is 0 or that of the buffer, and a command behind it fits; with `Clean` the buffer of a prompt target is empty |
| `SpiCleanCallsWork` (SpiSlaveProofs) | `Spec => []CleanCallsWork` | `Clean`: for each place of the host, where the target is; TXSTA carries either the initial status, or the toggle bit the host last saw, or, from the end of a command until the host has read it, a new one (`InStep`). `Asked`: a command that asks for data does not reach the bus |
| `RamResidentIntact`, `RamReportedStubRuns` (RamDownloadProofs) | `Spec => []ResidentIntact` and `Spec => []ReportedStubRuns`, for any retries, faults and late frames | `Resident`: while `stub_running` is set, the stub is whole, and no open window and no MEM_BEGIN under way, also a late one, touches it (`Guarded`); a report on the line is that of the stub being loaded, which then runs (`ReportTrue`); nothing follows the command that ends a download (`EndLast`) |
| `RamLoadedIsWhole` (RamDownloadProofs) | `Spec => []LoadedIsWhole`, for any block size, retries and policy of the target | `Orderly`, which asks for `trouble # "late"`: the line holds the open command, its answer, or nothing (`Shape`); either the next slot of the window is that of the next block, and all blocks before lie in place, or the slots have run ahead of the blocks (`NextSlot`, `UsedSlot`): they do not come back, so that the last block of the segment does not fit and is refused (`Loading`). Pieces of a segment are apart from each other and from those of the other segment |
| `RamCleanLoadsSucceed` (RamDownloadProofs) | `Spec => CleanLoadsSucceed`, an action property | `Prompt`, on top of the invariants above: without a fault a command is on the line or has been accepted, the blocks' sequence numbers are the target's count, and the stub that was started has reported (`Answers`). So a step that ends a load is the answer to its last command, the refusal of an overlap (`OverlapMeans`: the comparisons of mem_start find a common byte, and none with the empty stub of a chip that has none), or the wait for the report of such a stub (`PromptStep`) |
| `EfusesUnderstood` (ChipQueriesProofs) | `QuerySpec => []EfusesAreUnderstood`, for any burnt pins and any chips of the table | `Understood`: a known target is the attached chip (`QueriesOK`), since no two rows share a magic value or an id (`MagicsDiffer`, `IdFindsChip`), and the words read so far are its words (`WordsRead`); `FiveBits`, `SixBits`, `Adjusted`: numbers cut into fields and put together again are the same |
| `FramesAreGenuine`, `LossStaysBounded` (SerialPortProofs) | `SlipSpec => []Genuine` and `SlipSpec => []LossIsBounded`, for any frames, noise, buffer, calls given up and frames cut off | each byte on the line has a mark: its frame, its place in it and which half of an escaped byte it is. `FrameCoded`: so has every byte `SLIP_send` makes of a frame, by a least counterexample over its loop. `SlipInv`: the marks on the line follow each other (`Marked`); what the buffer holds is told by the mark of the byte read last (`Reading`); the frames returned lie behind that mark (`Returned`); what is lost was given up or cut off, a cut being paid for when the next frame begins (`Lost`) |
| `LeaksNeedOvertaking`, `HandlesStay` (SerialPortProofs) | `Spec => []LeaksOnlyWhenOvertaken` and `Spec => []IntactWhilePlugged`, for both schedules and any number of sessions | `Inv`: a handle to what exists is that of this session or of an overtaken one, and what has no handle is of an overtaken one (`HandlesHeld`); an init finds the handles given up, or the driver still at it (`BeforeSession`); a deinit of the driver forgets what exists only for a session that overtook it (`DriverUndoes`); a disconnection is handled, and its semaphore given, once in a session and before its handles go (`Signals`); while the device stays the driver has nothing to do (`WhilePlugged`); on one core nothing is overtaken |

Assumptions. Constants have the types their modules state with `ASSUME`; in
particular timeouts are below half the range of the clock, which for 32 bits of
milliseconds is 24 days. The theorems about the contents of the flash assume
`MaxLate = 0`: with more late frames `VerifySound` is false (see the departures).
The two
about Connection assume that no more frames outlive a call than a SYNC has answers;
with more, the strays outweigh the SYNC and the first command after it may get one
of them (the code counts on eight, and the run is at that bound, three and three).
Those about Slip take frames that begin with a byte that is not escaped, as the
direction byte of an answer is, and noise that holds a delimiter only at its end: one
in the middle may pass for the beginning of a frame.
The length of a word in MD5's bit count is a multiple of the bits of a block.
`OnlyRealSizes` assumes that flash ids are none of the model's outcome
names. The USB theorems assume nothing of the schedule; closing an open device is taken
to succeed. GPIO calls of the ports are taken to succeed, and the kernel not to switch
the power of the lx16's module by itself.
The SPI and RAM theorems assume nothing of the faults or of `MaxLate`; `RamBlock` is
above 8 and below 65536, for the length of a command, the block in it, is a `uint16_t`
of its header. What the target, the slave and the line do is external in all of
them: the theorems are about the host against the target the models describe.

`VerifySound` alone is not inductive: a session in the middle of a verification
may hold any digest, and neither is `IntactWhilePlugged`, which an application about
to make a port call may break. `SoundInv`, `WindowInv`, `LandsInv` and `MismatchInv` are the
strengthenings, each built on those before it. `AcknowledgedWereExecuted` needs to
know which answers are under way, `SentIntoBuffer` what the announcement it relies on
was, and the RAM invariants what is still on the line: a MEM_BEGIN that is late, a
window that is open, or a slot wasted some blocks ago may break them many steps
later. Each of `Base`, `Honest`, `Announced`, `Asked`, `Clean`, `Resident`, `Orderly` and
`Prompt` is inductive given those before it, and was first checked by TLC on
the instances of SpiSlave.cfg and RamDownload.cfg; so were `ConnectionInv` and
`ImageInv`, on those of Connection.cfg and FlashImage.cfg, `ProgramInv` on that of
Programs.cfg, but for the types of arguments, and `SlipInv` on that of Slip.cfg, with
the marks as a history variable.

Only model-checked:

* liveness (`CallsReturn`, `ConnectEnds`, `DetectReturns`, `DownloadsEnd`, `Returns`,
  `UnplugNoticed`): the prover has neither fairness nor ENABLED;
* `LogIsReadable`, `BoardIsLeftUsable` and `DriverStaysAway` of Programs: they are about
  where the pins are at each place of each program, so that a proof would go through the
  programs one by one, as TLC does; the programs are finite and run completely.

## Departures that draw the line of a property

Each of these was met while modelling: the code does something a reader may not
expect. Where a property is named it holds exactly because its precondition leaves
the case out; no run is about the case itself.

| Code | What it does | Where the line is drawn |
|---|---|---|
| `protocol_uart.c:132` | any frame with the command code is the answer; a digest asked for by an earlier verification can be taken for the new one when three frames outlive their calls | `VerifySound` is checked up to `MaxLate = 2`, proved for 0 |
| `protocol_uart.c:142` | register answers carry no register: a late one is returned as the value of another register | `ReadsFresh` speaks of sessions that are `calm` |
| `protocol_common.c:97` | a retry takes a new sequence number, so that a lost answer makes a strict target refuse the retry and the call fails although the block is in the flash | `AckedImageIsInFlash` is for complete images |
| `md5_hash.c:160` | `MD5Final` clears the context: a second verification of the same session compares with the digest of nothing and reports INVALID_MD5 | `MismatchIsReal` needs `digest.live` |
| `esp_loader.c:324` | the image size is compared with the flash size only in the call that detects it | `KeepsPromise` and `VerifySound` count cells modulo the flash; `AckedImageLands` assumes an image no longer than the flash |
| `esp_loader.c:367` | the padding to four bytes is hashed, but the target hashes the image size: an intact image of another size fails its verification | `AlignedVerifies` needs `Aligned` |
| `esp_loader.c:485` | a second `connect_with_stub` without a reset returns INVALID_PARAM, as the stub is believed resident | `FlagIsTrue` needs a client that is not `careless`; `CleanLoadsSucceed` is for clients that reset |
| `esp_loader.c:184` | after `connect_secure_download_mode` with a given chip `s_reg` is NULL, and `esp_loader_flash_detect_size` reads through it | the outcome is UNDEFINED in LoaderState |
| `esp_targets.c:223` | an unknown `chip_id` is accepted and the table of targets is indexed past its end | the outcome is UNDEFINED; `TargetIsAttached` holds up to it |
| `protocol_uart.c:35` | with `trials = 0` a connection attempt against a silent target does not end | `ConnectEnds` needs `trials > 0` |
| `esp32_usb_cdc_acm_port.c:121` | 32 bits of a 64-bit microsecond clock: after 71.6 minutes every call times out at once | `InReach` of `NotEarly` |
| `pi_pico_port.c:88` | a read whose deadline wraps gives up at once; a read with no time left waits to the end of the millisecond | `InReach`; not in `WaitBounded` |
| `raspberry_port.c:194` | `VTIME` holds 25.5 s at most, so longer timeouts are cut | `InReach` |
| `raspberry_port.c:318` | the timer counts processor time, so that a target that keeps sending keeps the host waiting | not in `WaitBounded` |
| `esp32_usb_cdc_acm_port.c:127` | a device unplugged between two port calls makes an assertion of the next one abort the program | `IntactWhilePlugged` needs a device that stayed; `UnplugNoticed` counts the abort |
| `esp_loader.c:261` | an image that reaches into the second block by less than its part of the first gets too small an erase size; the ESP8266 ROM then leaves its end as it was | `EraseTight` is for images that stay in the first block or cover the rest of it |
| `esp_loader.c:223`, `:231` | the poll counter is at 2^32 - 1, not 0, when the polls are used up: a slow chip is read too early and reported as not known, and one that is done at the last poll as a timeout | `DetectedIsReal` speaks of the sizes reported; `ConfigRestored` of calls without TIMEOUT |
| `esp32_usb_cdc_acm_port.c:67` | the disconnect event calls the application's callback before the deinit: on another core the application may begin its next session in between, whose stream buffer, device or callback the deinit then gives up or forgets; the session may abort, lose them, or wait for ever for a callback that is gone | `overtaking`: the session is left out of `LeaksOnlyWhenOvertaken` and `IntactWhilePlugged`; `UnplugNoticed` is for one core |
| `esp32_usb_cdc_acm_example/main/main.c:96` | each session creates a binary semaphore, nothing deletes one: the heap of a host left running is used up, and the assertion behind the creation stops it | `semaphores` grows in UsbCdcPort and a creation may fail; `LeaksOnlyWhenOvertaken` is about stream buffers and devices |
| `esp32_usb_cdc_acm_example/main/main.c:52` | a device that goes before the first semaphore is created makes the callback give NULL; later the one of the session before is given | `Give`: the abort is counted by `UnplugNoticed`, and is not one of `intact` |
| `protocol_spi.c:131` | a command too long for the slave's buffer is refused after its announcement was used up; the next call waits for one that does not come | `Returns` needs a session without a refused command |
| `protocol_spi.c:113` | the connection returns SUCCESS although the slave never became ready; a lazy slave is waited for without a timer | `CleanCallsWork` and `Returns` need a slave that was in time (`missed`) |
| `protocol_spi.c:83` | a `uint8_t` counts up to an `int32_t` number of trials: with 256 or more the loop does not end while the slave is not idle | `CounterRange` |
| `protocol_spi.c:71` | the sequence bits are never reset; the slave's INIT state of a new session makes up for it | part of `CleanCallsWork` |
| `esp_loader.c:509` | a late answer acknowledges a block of RAM that has not arrived: the program is shifted, and no digest tells | `LoadedIsWhole` needs `trouble # "late"` |
| `esp_targets.c:302`, `:322` | `q == d` is compared twice, and `hd` never; `pins == 0xffffffff` cannot be true of fields this wide | `EfusesAreUnderstood` names the pins that are compared |
| `esp_targets.c:233` | the search compares the unused magic values, which are 0, so that a magic value of 0 is an ESP32 or ESP8266 | the magic values of ChipQueries are those of chips |
| `esp_loader.c:457` | whether the flash is encrypted is told from the number of set bits of `key_purposes` | translated as it is; no property is about it |
| `pi_pico_port.c:51` | the error of the rate is compared with its sign, so that too high a rate is within tolerance | `TooFast`: the port is `misled`, which `ExchangesHeard` and `LogIsReadable` leave out |
| `raspberry_port.c:115`, `:162` | `speed_t` is unsigned: an unknown rate is not noticed, and the rate stays as it is | `ConvertBaudrate`: the port is `misled`; `LogIsReadable` is for the console's rate |
| `raspberry_port.c:135`, `:172` | what `tcgetattr` and `tcsetattr` return is ignored: a terminal that refuses the rate keeps the old one, and SUCCESS is returned; the commands behind it are sent at a rate the target has left | the port is `misled` |
| `zephyr_example/src/main.c:61`, `stm32_example/Core/Src/main.c:331` | the pins are driven before the port is initialised, and a program that ends or stops there leaves the boot line asserted, or the target held | `left`, which `BoardIsLeftUsable` leaves out |
| `pigpio.c:59`, `:118` | a file that cannot be opened reads as -EINVAL, which is true: the driver is bound while the target is in its boot loader; and the writes to `bind`, `unbind` and the power are not looked at | `ignored`, which `DriverStaysAway`, `BoardIsLeftUsable` and `LogIsReadable` leave out |
| `pigpio.c:128`, `:142`, `:153` | a file that cannot be opened ends the program in the middle of a pin sequence | `left`; `DriverStaysAway` holds there, too |
| `raspberry_example/Src/main.c:63`, `lx16/main.c:209` | the program goes on to the loop that shows the log when `serOpen` has failed, and reads from nothing | `OpenUart`; `LogIsReadable` needs an open port |
| `esp32_example/main/main.c:33` | the result of `uart_set_baudrate` is ignored | `HostRate`: the port is `misled` |
| `raspberry_port.c:240` | the device stays open when the pin library cannot be initialised | `RaspberryInit` |
| `esp32_port.c:97`, `esp32_spi_port.c:133` | the flag that deinit has to free the driver is never cleared | reduced to `owned`, no program opens a port twice |
| `esp32_spi_port.c:109`, `:213` | an init that cannot add the device leaves the bus up; entering the boot loader frees the bus whether or not the port had initialised it, and ignores the results of bringing it up again | `SpiInit`, `SpiEnterBootloader` |
| `raspberry_example/Src/main.c:40`, `lx16/main.c:121` | these programs go on when the port could not be initialised, and all of them when `flash_binary` fails | `Checked`, `FlashImages`; `LogIsReadable` speaks of images that were written |
| `lx16/main.c:208` | the option `-b` is the rate of the log, too: any other than 115200 makes it unreadable | `LogIsReadable` is for that rate |
| `pigpio.c:171` | `serOpen` opens the device twice and returns 1 on an error | one open descriptor more, not in the model |

## Not modelled, and why

* The data path of the USB port (what its stream buffer holds) and its
  control-line sequences: what the driver delivers again after a partial send, and
  what the bridge chip makes of the lines, is decided outside this code.
* `loader_port_change_transmission_rate` of the SPI port: no program calls it. SPI flash commands that send data: no caller sends any.
* `MD5Transform`: a fixed function of a block; replaced by the block itself, which
  is injective, so that equal digests are equal messages.
* The timing of the Zephyr port is that of its kernel.
* The code of the stub images, which is generated; vendored headers; logging; tests,
  which are clients of the library that the models generalise.
* What an efuse or a security flag means for a target beyond its decoding.

## Plan

Modelled first, as the heart of the library: FlashSession on CommandLink, then the
byte counts (FlashImage), the state across calls (LoaderState), the line (Slip,
Connection), the flash chip, the timers and the USB port; then the second transport
(SpiSlave), programs in RAM (RamDownload), the tables (Targets, ChipQueries), and the
ports under the example programs (Ports, Programs). What remains:

1. **UsbCdcPort, data path**: `handle_usb_data` delivering again what a full stream
   buffer has taken in part.
2. A refinement that joins RamDownload to the `RunStub` of LoaderState.

## Running

    tlc -workers 2 -config FlashSession.cfg MCFlashSession
    tlapm FlashSessionProofs.tla
    tlapm RamDownloadProofs.tla

Every cfg names its instance in a comment. The longest run and the longest proof
take less than five minutes each.
