--------------------------- MODULE SpiFlashCommand ---------------------------
(***************************************************************************)
(* spi_flash_command (esp_loader.c): a command to the flash chip, run by   *)
(* reading and writing the target's SPI registers one exchange at a time,  *)
(* and esp_loader_flash_detect_size, which reads the chip's id with it.    *)
(* Every exchange can fail before or after the target has acted, and the   *)
(* function then returns where it stands (RETURN_ON_ERROR).  The chip      *)
(* takes its time: the USR bit of the cmd register says when it is done.   *)
(* What the answers of an exchange can be mistaken for is the matter of    *)
(* Connection.                                                             *)
(***************************************************************************)
EXTENDS Targets, Integers

CONSTANTS
  Chips,     \* targets that may be attached
  Trials,    \* 10 in the code
  Ids,       \* ids of flash chips
  KnownIds,  \* those whose size is in size_mapping
  MaxCalls   \* bound on the calls

Cleared == "cleared"   \* 0 in w0

ASSUME ChipsAssumption  == Chips \subseteq SupportedChips
ASSUME TrialsAssumption == Trials \in Nat \ {0}
ASSUME IdsAssumption    == KnownIds \subseteq Ids /\ Cleared \notin Ids
ASSUME CallsAssumption  == MaxCalls \in Nat

VARIABLES
  pc,       \* the exchange that comes next, or "idle"
  saved,    \* old_spi_usr and old_spi_usr2
  trials,   \* the uint32_t counter; -1 stands for 2^32 - 1
  data,     \* *data_rx, flash_id of the caller
  result,   \* what the last call of esp_loader_flash_detect_size returned
  calls,    \* calls so far
  chip,     \* the target, and s_target
  reg,      \* the target: what its SPI registers hold, by address
  busy,     \* the target: is SPI_CMD_USR set in cmd
  id,       \* the id of its flash chip
  unbroken  \* history: no call has returned TIMEOUT yet

vars == <<pc, saved, trials, data, result, calls, chip, reg, busy, id, unbroken>>

\* s_reg
Address == Registers(chip)

Init ==
  /\ pc = "idle"
  /\ saved = [usr |-> "none", usr2 |-> "none"]
  /\ trials = 0
  /\ data = Cleared
  /\ result = "none"
  /\ calls = 0
  /\ chip \in Chips
  /\ \E old \in Ids : reg = [a \in {Address[r] : r \in DOMAIN Address} |->
                               IF a = Address.w0 THEN old ELSE "boot"]
  /\ busy = FALSE
  /\ id \in Ids
  /\ unbroken = TRUE

-----------------------------------------------------------------------------
(* The host: one esp_loader_read_register or _write_register per step. *)

\* The length of the data received; the ESP8266 has it in usr1.
LengthRegister == IF chip = "ESP8266_CHIP" THEN "usr1" ELSE "miso_dlen"

\* The register writes in front of the command, in their order.  A read sends
\* no data and leaves the length register for sent data alone.
Mut_Prepare == [set_dlen |-> [register |-> LengthRegister, value |-> "command", next |-> "set_usr"],
                set_usr  |-> [register |-> "usr",  value |-> "command", next |-> "set_usr2"],
                set_usr2 |-> [register |-> "usr2", value |-> "command", next |-> "start"]]
Prepare == [set_dlen |-> [register |-> LengthRegister, value |-> "command", next |-> "set_usr"],
            set_usr  |-> [register |-> "usr",  value |-> "command", next |-> "set_usr2"],
            set_usr2 |-> [register |-> "usr2", value |-> "command", next |-> "clear"],
            clear    |-> [register |-> "w0",   value |-> Cleared,   next |-> "start"]]

\* Those behind it.
Mut_Restore == [restore_usr |-> [register |-> "usr", value |-> saved.usr, next |-> "lookup"]]
Restore ==
  [restore_usr  |-> [register |-> "usr",  value |-> saved.usr,  next |-> "restore_usr2"],
   restore_usr2 |-> [register |-> "usr2", value |-> saved.usr2, next |-> "lookup"]]

\* What one of these writes leaves in the registers.
Written(w) == [reg EXCEPT ![Address[w.register]] = w.value]

Return(res) == pc' = "idle" /\ result' = res

DetectSize ==
  /\ pc = "idle" /\ calls < MaxCalls
  /\ pc' = "save_usr"
  /\ calls' = calls + 1
  /\ result' = "PENDING"
  /\ UNCHANGED <<saved, trials, data, reg, busy, id, chip, unbroken>>

Save ==
  /\ \/ pc = "save_usr"  /\ pc' = "save_usr2" /\ saved' = [saved EXCEPT !.usr = reg[Address.usr]]
     \/ pc = "save_usr2" /\ pc' = "set_dlen"  /\ saved' = [saved EXCEPT !.usr2 = reg[Address.usr2]]
  /\ UNCHANGED <<trials, data, result, calls, reg, busy, id, chip, unbroken>>

Write ==
  /\ \/ pc \in DOMAIN Prepare /\ reg' = Written(Prepare[pc]) /\ pc' = Prepare[pc].next
     \/ pc \in DOMAIN Restore /\ reg' = Written(Restore[pc]) /\ pc' = Restore[pc].next
  /\ UNCHANGED <<saved, trials, data, result, calls, busy, id, chip, unbroken>>

\* SPI_CMD_USR is written to cmd: the chip gets to work.
Start ==
  /\ pc = "start"
  /\ busy' = TRUE
  /\ pc' = "poll"
  /\ trials' = Trials
  /\ UNCHANGED <<saved, data, result, calls, reg, id, chip, unbroken>>

\* while (trials--): the counter is decremented before each poll.
Mut_CountDown(n) == n
CountDown(n) == n - 1

Poll ==
  /\ pc = "poll"
  /\ trials # 0
  /\ trials' = CountDown(trials)
  /\ pc' = IF busy THEN "poll" ELSE "check"
  /\ UNCHANGED <<saved, data, result, calls, reg, busy, id, chip, unbroken>>

\* It is decremented once more, below 0, when the polls are used up.
PollsUsedUp ==
  /\ pc = "poll"
  /\ trials = 0
  /\ trials' = -1
  /\ pc' = "check"
  /\ UNCHANGED <<saved, data, result, calls, reg, busy, id, chip, unbroken>>

\* if (trials == 0) return TIMEOUT
Check ==
  /\ pc = "check"
  /\ \/ trials = 0 /\ Return("TIMEOUT") /\ unbroken' = FALSE
     \/ trials # 0 /\ pc' = "read_w0" /\ UNCHANGED <<result, unbroken>>
  /\ UNCHANGED <<saved, trials, data, calls, chip, reg, busy, id>>

ReadData ==
  /\ pc = "read_w0"
  /\ data' = reg[Address.w0]
  /\ pc' = "restore_usr"
  /\ UNCHANGED <<saved, trials, result, calls, reg, busy, id, chip, unbroken>>

\* The size id is looked up in size_mapping; the id stands for its size.
Lookup ==
  /\ pc = "lookup"
  /\ Return(IF data \in KnownIds THEN data ELSE "UNSUPPORTED_CHIP")
  /\ UNCHANGED <<saved, trials, data, calls, reg, busy, id, chip, unbroken>>

-----------------------------------------------------------------------------
(* Failures and the chip (external). *)

\* An exchange times out.  The target has not acted on it, or it has and the
\* answer is lost.
ExchangeFails ==
  /\ pc \notin {"idle", "check", "lookup"}
  /\ pc = "poll" => trials # 0
  /\ Return("TIMEOUT")
  /\ unbroken' = FALSE
  /\ \/ UNCHANGED <<reg, busy>>
     \/ pc \in DOMAIN Prepare /\ reg' = Written(Prepare[pc]) /\ UNCHANGED busy
     \/ pc \in DOMAIN Restore /\ reg' = Written(Restore[pc]) /\ UNCHANGED busy
     \/ pc = "start" /\ busy' = TRUE /\ UNCHANGED reg
  /\ UNCHANGED <<saved, trials, data, calls, chip, id>>

ChipDone ==
  /\ busy
  /\ busy' = FALSE
  /\ reg' = [reg EXCEPT ![Address.w0] = id]
  /\ UNCHANGED <<pc, saved, trials, data, result, calls, id, chip, unbroken>>

Host == Save \/ Write \/ Start \/ Poll \/ PollsUsedUp \/ Check \/ ReadData \/ Lookup

Next == DetectSize \/ Host \/ ExchangeFails \/ ChipDone

\* Every exchange ends; the chip may stay busy for ever.
Spec == Init /\ [][Next]_vars /\ WF_vars(Host)

-----------------------------------------------------------------------------
(* Properties *)

\* Whatever the data register held before, however slow the chip is and
\* wherever earlier calls stopped: a size is returned only when it is that of
\* the attached chip.
DetectedIsReal == result \in Ids => result = id /\ id \in KnownIds

\* As long as no call has returned TIMEOUT, no SPI register of the target has
\* changed after a call but the data register and, on targets that have one
\* of their own, the length register; on the ESP8266 usr1 keeps the length.
ConfigRestored ==
  unbroken /\ pc = "idle" =>
    \A r \in DOMAIN Address \ {"w0", LengthRegister} : reg[Address[r]] = "boot"

\* A call returns, also when the chip never gets done.
DetectReturns == pc = "save_usr" ~> pc = "idle"
=============================================================================
