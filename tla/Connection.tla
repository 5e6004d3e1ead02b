----------------------------- MODULE Connection -----------------------------
(***************************************************************************)
(* esp_loader_connect over the UART: reset, synchronisation with repeated  *)
(* trials (loader_initialize_conn, protocol_uart.c), detection of the chip *)
(* (loader_detect_chip, esp_targets.c), the SPI configuration, and         *)
(* afterwards the register reads of esp_loader_read_register.  The line is *)
(* that of CommandLink: the host's buffer outlives a reset of the target,  *)
(* and answers to an earlier session may still be in it.                   *)
(*                                                                         *)
(* A chip stands for its magic value and its chip_id (that these tell the  *)
(* chips apart is the table's matter, see LoaderState); the value of any   *)
(* other register is named by the register and the session it was read in. *)
(***************************************************************************)
EXTENDS CommandLink, Integers, FiniteSets

CONSTANTS
  Chips,        \* targets that may be attached
  InfoChips,    \* those that know GET_SECURITY_INFO
  EfuseChips,   \* those whose SPI configuration is in the efuses
  Registers,    \* registers a client reads
  SyncAnswers,  \* answers the target gives to SYNC, 8 in the code
  Trials,       \* values of connect_args->trials
  MaxSessions   \* bound on the calls of esp_loader_connect

ASSUME ChipsAssumption    == InfoChips \subseteq Chips /\ EfuseChips \subseteq Chips
ASSUME SyncAssumption     == SyncAnswers \in Nat \ {0}
ASSUME TrialsAssumption   == Trials \subseteq Int
ASSUME SessionsAssumption == MaxSessions \in Nat

VARIABLES
  chip,      \* the target attached
  session,   \* calls of esp_loader_connect so far
  trials,    \* the counter of loader_initialize_conn
  answers,   \* recv_cnt of send_cmd for SYNC
  step,      \* where the client is
  detected,  \* s_target
  asked,     \* the register of the open or the last read
  got,       \* history: what the last successful read asked for and returned
  calm       \* history: no call has expired since the last SYNC command

hostVars == <<trials, answers, step, detected, asked, got>>
vars     == <<linkVars, hostVars, chip, session, calm>>

Magic  == "magic"   \* CHIP_DETECT_MAGIC_REG_ADDR
Efuse  == "efuse"   \* the words with the pins
NoChip == "unknown" \* ESP_UNKNOWN_CHIP
Nothing == [register |-> NoCall, session |-> 0]
NoRead  == [asked |-> NoCall, read |-> Nothing]

Ready == {"off", "up", "failed"}

Command(cmd, register) == [cmd |-> cmd, register |-> register]
Sync == Command("SYNC", NoCall)

\* response_cnt of send_cmd
Mut_OneAnswer(cmd) == 1
ResponseCount(cmd) == IF cmd = "SYNC" THEN SyncAnswers ELSE 1

Init ==
  /\ LinkInit
  /\ chip \in Chips
  /\ session = 0
  /\ trials = 0
  /\ answers = 0
  /\ step = "off"
  /\ detected = NoChip
  /\ asked = NoCall
  /\ got = NoRead
  /\ calm = FALSE

-----------------------------------------------------------------------------
(* loader_initialize_conn *)

\* esp_loader_connect; another board may have been attached since.
Connect(c, n) ==
  /\ step \in Ready /\ call = NoCall /\ session < MaxSessions
  /\ session' = session + 1 /\ chip' = c /\ trials' = n
  /\ answers' = 0
  /\ step' = "sync"
  /\ toTarget' = <<Sync>> /\ call' = Sync.cmd  \* the reset loses what was sent before
  /\ got' = NoRead
  /\ calm' = TRUE
  /\ UNCHANGED <<toHost, detected, asked>>

Accepted == Answered /\ Head(toHost).ok
Refused  == Answered /\ ~Head(toHost).ok

\* The answers that outlive the call, those to come included.
LateAnswers ==
  LET syncs == {i \in DOMAIN toTarget : toTarget[i].cmd = "SYNC"}
  IN  Len(toHost) + Len(toTarget) + (SyncAnswers - 1) * Cardinality(syncs)

TimesOut == Expired /\ LateAnswers <= MaxLate

Fail(inbound) ==
  /\ Return(inbound)
  /\ step' = "failed"

Ask(where, command, inbound) ==
  /\ step' = where
  /\ asked' = IF command.cmd = "READ_REG" THEN command.register ELSE asked
  /\ Send(command, inbound)

\* One of the response_cnt answers; the last one ends the synchronisation.
SyncAnswered ==
  /\ step = "sync"
  /\ Accepted
  /\ \/ /\ answers + 1 < ResponseCount("SYNC")
        /\ answers' = answers + 1
        /\ toHost' = Tail(toHost)
        /\ UNCHANGED <<toTarget, call, step, asked>>
     \/ /\ answers + 1 = ResponseCount("SYNC")
        /\ answers' = 0
        /\ Ask("info", Command("GET_SECURITY_INFO", NoCall), Tail(toHost))
  /\ UNCHANGED <<trials, detected, got, chip, session, calm>>

\* if (--trials == 0) return TIMEOUT: a counter that starts at 0 or below
\* does not get there (its wrap after 2^32 trials is left out).
Mut_LastTrial == FALSE
LastTrial == trials = 1

SyncExpired ==
  /\ step = "sync"
  /\ TimesOut
  /\ trials' = IF trials > 0 THEN trials - 1 ELSE -1
  /\ \/ LastTrial /\ Fail(toHost) /\ UNCHANGED <<answers, asked, calm>>
     \/ /\ ~LastTrial
        /\ Ask("sync", Sync, toHost)
        /\ answers' = 0
        /\ calm' = TRUE
  /\ UNCHANGED <<detected, got, chip, session>>

-----------------------------------------------------------------------------
(* loader_detect_chip, loader_read_spi_config, loader_spi_attach_cmd *)

Configure(c, inbound) ==
  IF c \in EfuseChips THEN Ask("efuse", Command("READ_REG", Efuse), inbound)
  ELSE Ask("attach", Command("SPI_ATTACH", NoCall), inbound)

InfoAnswered ==
  /\ step = "info"
  /\ Accepted
  /\ detected' = Head(toHost).value
  /\ Configure(Head(toHost).value, Tail(toHost))
  /\ UNCHANGED <<trials, answers, got, chip, session, calm>>

\* Any failure of GET_SECURITY_INFO makes the host read the magic value.
NoInfo ==
  /\ step = "info"
  /\ \/ Refused /\ Ask("magic", Command("READ_REG", Magic), Tail(toHost)) /\ UNCHANGED calm
     \/ TimesOut /\ Ask("magic", Command("READ_REG", Magic), toHost) /\ calm' = FALSE
  /\ UNCHANGED <<trials, answers, detected, got, chip, session>>

\* A value that is no chip's magic is INVALID_TARGET.
MagicAnswered ==
  /\ step = "magic"
  /\ Accepted
  /\ got' = [asked |-> asked, read |-> Head(toHost).value]
  /\ \/ /\ Head(toHost).value.register = Magic
        /\ detected' = Head(toHost).value.chip
        /\ Configure(Head(toHost).value.chip, Tail(toHost))
     \/ /\ Head(toHost).value.register # Magic
        /\ Fail(Tail(toHost))
        /\ UNCHANGED <<detected, asked>>
  /\ UNCHANGED <<trials, answers, chip, session, calm>>

EfuseAnswered ==
  /\ step = "efuse"
  /\ Accepted
  /\ got' = [asked |-> asked, read |-> Head(toHost).value]
  /\ Ask("attach", Command("SPI_ATTACH", NoCall), Tail(toHost))
  /\ UNCHANGED <<trials, answers, detected, chip, session, calm>>

Attached ==
  /\ step = "attach"
  /\ Accepted
  /\ Return(Tail(toHost))
  /\ step' = "up"
  /\ UNCHANGED <<trials, answers, detected, asked, got, chip, session, calm>>

ConnectFails ==
  /\ \/ step \in {"magic", "efuse", "attach"}
        /\ \/ Refused /\ Fail(Tail(toHost)) /\ UNCHANGED calm
           \/ TimesOut /\ Fail(toHost) /\ calm' = FALSE
     \/ step = "sync" /\ Refused /\ Fail(Tail(toHost)) /\ UNCHANGED calm
  /\ UNCHANGED <<trials, answers, detected, asked, got, chip, session>>

-----------------------------------------------------------------------------
(* esp_loader_read_register *)

ReadRegister(r) ==
  /\ step = "up" /\ call = NoCall
  /\ Ask("up", Command("READ_REG", r), toHost)
  /\ UNCHANGED <<trials, answers, detected, got, chip, session, calm>>

RegisterRead ==
  /\ step = "up" /\ call # NoCall
  /\ \/ Accepted /\ got' = [asked |-> asked, read |-> Head(toHost).value] /\ Return(Tail(toHost)) /\ UNCHANGED calm
     \/ Refused /\ Return(Tail(toHost)) /\ UNCHANGED <<got, calm>>
     \/ TimesOut /\ Return(toHost) /\ calm' = FALSE /\ UNCHANGED got
  /\ UNCHANGED <<trials, answers, step, detected, asked, chip, session>>

SkipAnswer == Skip /\ UNCHANGED <<hostVars, chip, session, calm>>

-----------------------------------------------------------------------------
(* The target (external). *)

Answer(f) ==
  CASE f.cmd = "GET_SECURITY_INFO" -> [cmd |-> f.cmd, ok |-> chip \in InfoChips, value |-> chip]
    [] f.cmd = "READ_REG" ->
         [cmd |-> f.cmd, ok |-> TRUE,
          value |-> [register |-> f.register, session |-> session, chip |-> chip]]
    [] OTHER -> [cmd |-> f.cmd, ok |-> TRUE, value |-> Nothing]

ServeSync ==
  /\ toTarget # <<>>
  /\ Head(toTarget).cmd = "SYNC"
  /\ toTarget' = Tail(toTarget)
  /\ toHost' = toHost \o [i \in 1 .. SyncAnswers |-> Answer(Sync)]
  /\ UNCHANGED <<call, hostVars, chip, session, calm>>

Serve ==
  /\ toTarget # <<>>
  /\ Head(toTarget).cmd # "SYNC"
  /\ Reply(Answer(Head(toTarget)))
  /\ UNCHANGED <<hostVars, chip, session, calm>>

Refuse ==
  /\ "refuse" \in Faults
  /\ toTarget # <<>>
  /\ Reply([Answer(Head(toTarget)) EXCEPT !.ok = FALSE])
  /\ UNCHANGED <<hostVars, chip, session, calm>>

Lose == (LoseCommand \/ LoseAnswer) /\ UNCHANGED <<hostVars, chip, session, calm>>

-----------------------------------------------------------------------------
Client ==
  \/ \E c \in Chips, n \in Trials : Connect(c, n)
  \/ \E r \in Registers : ReadRegister(r)

Host ==
  \/ SyncAnswered \/ SyncExpired
  \/ InfoAnswered \/ NoInfo \/ MagicAnswered \/ EfuseAnswered \/ Attached \/ ConnectFails
  \/ RegisterRead \/ SkipAnswer

Target == ServeSync \/ Serve

Next == Client \/ Host \/ Target \/ Refuse \/ Lose

\* The host's loops run on and the target answers what it has received; no
\* fairness on the client, nor on noise.
Spec == Init /\ [][Next]_vars /\ WF_vars(Host) /\ WF_vars(Target)

-----------------------------------------------------------------------------
(* Properties *)

\* The eight answers to SYNC bring the host past everything that an earlier
\* session or an earlier trial has left on the line: as long as no more frames
\* than that outlive a call, a chip that was detected without a timeout after
\* the last SYNC is the chip attached.
DetectsAttached == calm /\ step \in {"efuse", "attach", "up"} => detected = chip

\* In such a session every register read returns the register that was asked
\* for, and as this target holds it since its reset.
ReadsFresh ==
  calm /\ got # NoRead => got.read.register = got.asked /\ got.read.session = session

\* A connection attempt with a positive number of trials comes to an end.
ConnectEnds == (step = "sync" /\ trials > 0) ~> (step \in Ready)
=============================================================================
