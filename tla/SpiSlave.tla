------------------------------ MODULE SpiSlave ------------------------------
(***************************************************************************)
(* The commands over SPI (protocol_spi.c): the host is the only master; it *)
(* polls two status registers of the target to learn that a buffer is free *)
(* for a command (RXSTA) or holds an answer (TXSTA).  A status has a bit   *)
(* "init", a bit that toggles with every buffer, and the buffer's length.  *)
(*                                                                         *)
(* One step of the host is one transaction, from chip select low to chip   *)
(* select high.  A failed port call leaves the function at once, with the  *)
(* target still selected: what it then takes the next transaction for      *)
(* depends on how far the failed one went.                                 *)
(*                                                                         *)
(* The target (external) keeps the registers, takes a command when told    *)
(* WR_DONE, and offers an answer until told CMD8.  A prompt one has done   *)
(* what it has to do when the host looks again, a lazy one takes its time. *)
(***************************************************************************)
EXTENDS Commands, Sequences

CONSTANTS
  Calls,        \* the commands a client issues
  Block,        \* data bytes of a data command
  BufferSize,   \* the target's buffer for commands
  Prompt,       \* BOOLEAN or part of it: the targets considered
  Trials,       \* connect_args->trials
  CounterRange, \* values of the uint8_t that counts them, 256 in the code
  MaxSessions,  \* bound on the calls of esp_loader_connect
  MaxCalls,     \* bound on the commands issued
  MaxFaults     \* bound on the failures of the port

ASSUME CallsAssumption  == Calls \subseteq CommandNames
ASSUME PromptAssumption == Prompt \subseteq BOOLEAN
ASSUME SizesAssumption  == {Block, BufferSize, Trials, CounterRange} \subseteq Nat

VARIABLES
  pc,        \* the transaction send_cmd or loader_initialize_conn is at
  op,        \* the command send_cmd was given
  seqRx,     \* s_slave_seq_rx
  seqTx,     \* s_slave_seq_tx
  trial,     \* the counter of the loops of loader_initialize_conn
  answer,    \* buf of check_response
  result,    \* what the last call returned
  connected, \* esp_loader_connect has returned SUCCESS in this session
  slave,     \* the target, see Booting
  prompt,    \* the target is prompt
  missed,    \* history: the target was not idle when it was told READY
  refused,   \* history: a command of the session was longer than the buffer
  faults,    \* failures of the port so far
  sessions, calls,   \* counted against the bounds
  acked, executed    \* history: commands answered with SUCCESS, commands the
                     \* target took whole, in this session

host == <<pc, op, seqRx, seqTx, trial, answer, result, connected>>
vars == <<host, slave, prompt, missed, refused, faults, sessions, calls, acked, executed>>

None == "none"
Junk == "junk"
Context == [block |-> Block, encryption |-> FALSE, stub |-> FALSE]

\* What send_cmd compares with the length of the buffer.
Mut_WithoutData(cmd) == HeaderSize + Fields[cmd]
Size(cmd) == CommandSize(cmd, Context)

Status(init, toggle, len) == [init |-> init, toggle |-> toggle, len |-> len]
Blank     == Status(0, 0, 0)
InitState == Status(1, 1, 0)
Statuses  == {Status(i, t, n) : i \in 0..1, t \in 0..1, n \in {0, BufferSize}}

\* A transaction: its command, the register it is about, what it writes (the
\* initialisation of a status register writes 0).
Transfer(kind, reg, value) == [kind |-> kind, reg |-> reg, value |-> value]
Read(reg)         == Transfer("RDBUF", reg, None)
Write(reg, value) == Transfer("WRBUF", reg, value)
Plain(kind)       == Transfer(kind, None, None)
Nothing           == Plain(None)

\* A target that comes out of reset; open is the transaction it still takes
\* bytes for, next the buffer's toggle bit.
Booting ==
  [mode |-> "boot", CMD |-> None, RXSTA |-> Blank, TXSTA |-> Blank,
   buffer |-> <<>>, done |-> FALSE, owed |-> None, offered |-> None,
   free |-> TRUE, open |-> Nothing]

Init ==
  /\ pc = "idle" /\ op = None /\ result = None
  /\ seqRx = 0 /\ seqTx = 0 /\ trial = 0 /\ answer = None
  /\ connected = FALSE /\ missed = FALSE /\ refused = FALSE
  /\ slave = Booting
  /\ prompt \in Prompt
  /\ faults = 0 /\ sessions = 0 /\ calls = 0
  /\ acked = 0 /\ executed = 0

-----------------------------------------------------------------------------
(* The target (external): what it does between two transactions. *)

Whole(s) == Len(s.buffer) = 1 /\ s.buffer[1] # Junk

SeesReady(s) ==
  IF s.mode = "idle" /\ s.CMD = "READY"
  THEN [s EXCEPT !.mode = "ready", !.RXSTA = InitState, !.TXSTA = InitState]
  ELSE s

OffersFirst(s) ==
  IF s.mode = "ready" /\ s.RXSTA = Blank
  THEN [s EXCEPT !.RXSTA = Status(1, 0, BufferSize)] ELSE s

Works(s) ==
  IF s.mode = "ready" /\ s.done /\ s.owed = None
  THEN [s EXCEPT !.done = FALSE, !.buffer = <<>>,
                 !.owed = IF Whole(s) THEN s.buffer[1] ELSE Junk,
                 !.RXSTA = Status(0, 1 - @.toggle, BufferSize)]
  ELSE s

Publishes(s) ==
  IF s.owed # None /\ s.free /\ s.TXSTA # InitState
  THEN [s EXCEPT !.owed = None, !.offered = s.owed, !.free = FALSE,
                 !.TXSTA = IF @ = Blank THEN Status(1, 0, AnswerSize(0))
                           ELSE Status(0, 1 - @.toggle, AnswerSize(0))]
  ELSE s

Settled(s) == Publishes(Works(OffersFirst(SeesReady(s))))

\* After a transaction; a command counts when the target has taken it.
Slave(s) ==
  /\ slave' = IF prompt THEN Settled(s) ELSE s
  /\ executed' = IF prompt /\ s.done /\ s.owed = None /\ s.mode = "ready" /\ Whole(s)
                 THEN executed + 1 ELSE executed

SlaveBoots ==
  /\ slave.mode = "boot"
  /\ slave' = [slave EXCEPT !.mode = "idle", !.CMD = "IDLE"]
  /\ UNCHANGED <<host, prompt, missed, refused, faults, sessions, calls, acked, executed>>

LazySlave ==
  /\ ~prompt
  /\ \E s \in {SeesReady(slave), OffersFirst(slave), Works(slave), Publishes(slave)} :
       /\ s # slave
       /\ slave' = s
       /\ executed' = IF slave.done /\ ~s.done /\ Whole(slave)
                      THEN executed + 1 ELSE executed
  /\ UNCHANGED <<host, prompt, missed, refused, faults, sessions, calls, acked>>

-----------------------------------------------------------------------------
(* One transaction. *)

Selected(s) == s.open.kind # None

\* The target receives transaction t whole.
Taken(t, s) ==
  CASE t.kind = "WRBUF"   -> [s EXCEPT ![t.reg] = IF t.reg = "CMD" THEN t.value ELSE Blank]
    [] t.kind = "WRDMA"   -> [s EXCEPT !.buffer = Append(@, t.value)]
    [] t.kind = "WR_DONE" -> [s EXCEPT !.done = s.buffer # <<>>]
    [] t.kind = "CMD8"    -> [s EXCEPT !.free = TRUE]
    [] OTHER -> s

\* The target is still selected: t is more data of the transaction it is in.
Absorbed(s) ==
  CASE s.open.kind = "WRDMA" -> [s EXCEPT !.buffer = Append(@, Junk)]
    [] s.open.kind = "WRBUF" /\ s.open.reg # "CMD" -> [s EXCEPT ![s.open.reg] = Status(0, 1, 0)]
    [] OTHER -> s

\* Chip select goes high behind every complete transaction.
Mut_StaysSelected(t, s) ==
  IF ~Selected(s) THEN [Taken(t, s) EXCEPT !.open = t]
  ELSE Absorbed(s)
Transacted(t, s) ==
  IF ~Selected(s) THEN Taken(t, s) ELSE [Absorbed(s) EXCEPT !.open = Nothing]

\* What the host may read: the register or the answer, or any bytes.
Seen(t, s) ==
  CASE ~Selected(s) /\ t.kind = "RDBUF" -> {s[t.reg]}
    [] ~Selected(s) /\ t.kind = "RDDMA" -> {s.offered}
    [] Selected(s) /\ t.kind = "RDBUF" /\ t.reg # "CMD" -> Statuses
    [] OTHER -> {Junk}

Transaction(t) ==
  /\ Slave(Transacted(t, slave))
  /\ UNCHANGED <<prompt, faults, sessions, calls>>

-----------------------------------------------------------------------------
(* esp_loader_connect: loader_initialize_conn, then the read of the magic   *)
(* register by loader_detect_chip.                                          *)

Connect ==
  /\ pc = "idle"
  /\ sessions < MaxSessions
  /\ slave' = Booting
  /\ sessions' = sessions + 1
  /\ pc' = (IF Trials = 0 THEN "say_ready" ELSE "wait_idle")
  /\ op' = None
  /\ trial' = 0 /\ acked' = 0 /\ executed' = 0
  /\ connected' = FALSE /\ missed' = FALSE /\ refused' = FALSE /\ result' = None
  /\ UNCHANGED <<seqRx, seqTx, answer, prompt, faults, calls>>

\* One turn of a loop that waits for the register CMD to hold value; the code
\* behind the loop does not look at why it ended.
Turn(value, after) ==
  LET count == (trial + 1) % CounterRange IN
  \E v \in Seen(Read("CMD"), slave) :
    IF v = value \/ count >= Trials
    THEN trial' = 0 /\ pc' = after ELSE trial' = count /\ pc' = pc

WaitIdle ==
  /\ pc = "wait_idle"
  /\ Turn("IDLE", "say_ready")
  /\ Transaction(Read("CMD"))
  /\ UNCHANGED <<op, seqRx, seqTx, answer, result, connected, missed, refused, acked>>

SayReady ==
  /\ pc = "say_ready"
  /\ Transaction(Write("CMD", "READY"))
  /\ pc' = IF Trials = 0 THEN "poll_rx" ELSE "wait_ready"
  /\ op' = "READ_REG"
  /\ missed' = (slave.mode # "idle")
  /\ UNCHANGED <<seqRx, seqTx, trial, answer, result, connected, refused, acked>>

WaitReady ==
  /\ pc = "wait_ready"
  /\ Turn("READY", "poll_rx")
  /\ Transaction(Read("CMD"))
  /\ UNCHANGED <<op, seqRx, seqTx, answer, result, connected, missed, refused, acked>>

-----------------------------------------------------------------------------
(* send_cmd and check_response. *)

\* An answer with data is refused before the bus is touched.
Call(cmd) ==
  /\ pc = "idle"
  /\ connected
  /\ calls < MaxCalls
  /\ calls' = calls + 1
  /\ op' = cmd
  /\ IF HasAnswerData(cmd)
     THEN result' = "INVALID_PARAM" /\ pc' = pc
     ELSE result' = None /\ pc' = "poll_rx"
  /\ UNCHANGED <<seqRx, seqTx, trial, answer, connected, slave, prompt, missed, refused,
                 faults, sessions, acked, executed>>

\* The call is over; the first one of a session is that of the connection.
Return(r) ==
  /\ pc' = "idle"
  /\ result' = r
  /\ connected' = (connected \/ r = "SUCCESS")
  /\ acked' = IF r = "SUCCESS" THEN acked + 1 ELSE acked

\* handle_slave_state: a status tells that a buffer is new by the toggle bit,
\* except the first one after the slave was initialised.
IsNew(v, seq) == (v.init = 1 /\ v.toggle = 0) \/ v.toggle # seq
Mut_FirstKeepsSequence(v, seq) == IF v.init = 1 /\ v.toggle = 0 THEN seq ELSE v.toggle
SequenceAfter(v, seq) == IF IsNew(v, seq) THEN v.toggle ELSE seq

\* Each status register has its own sequence bit in the library.
Remember(reg, n) ==
  /\ seqRx' = IF reg = "RXSTA" THEN n ELSE seqRx
  /\ seqTx' = IF reg = "TXSTA" THEN n ELSE seqTx

\* One turn of the loop on status register reg: enough is the size the buffer
\* must have, then the next transaction, otherwise the error returned.
Poll(reg, seq, enough, ack, then, otherwise) ==
  \E v \in Seen(Read(reg), slave) :
    /\ Transaction(Read(reg))
    /\ Remember(reg, IF v = Status(1, 1, v.len) THEN seq ELSE SequenceAfter(v, seq))
    /\ CASE v.init = 1 /\ v.toggle = 1 ->
              pc' = ack /\ UNCHANGED <<result, connected, acked>>
         [] ~(v.init = 1 /\ v.toggle = 1) /\ ~IsNew(v, seq) ->
              UNCHANGED <<pc, result, connected, acked>>
         [] OTHER -> IF enough > v.len THEN Return(otherwise)
                     ELSE pc' = then /\ UNCHANGED <<result, connected, acked>>

PollRx ==
  /\ pc = "poll_rx"
  /\ Poll("RXSTA", seqRx, Size(op), "ack_rx", "send", "INVALID_PARAM")
  /\ refused' = (refused \/ result' = "INVALID_PARAM")
  /\ UNCHANGED <<op, trial, answer, missed>>

PollTx ==
  /\ pc = "poll_tx"
  /\ Poll("TXSTA", seqTx, AnswerSize(0), "ack_tx", "read", "INVALID_RESPONSE")
  /\ UNCHANGED <<op, trial, answer, missed, refused>>

\* A transaction after which the call goes on with the next one.
Plainly(from, t, to) ==
  /\ pc = from
  /\ Transaction(t)
  /\ pc' = to
  /\ UNCHANGED <<op, seqRx, seqTx, trial, result, connected, missed, refused, acked>>

AckRx  == Plainly("ack_rx", Write("RXSTA", None), "poll_rx") /\ UNCHANGED answer
AckTx  == Plainly("ack_tx", Write("TXSTA", None), "poll_tx") /\ UNCHANGED answer
SendIt == Plainly("send", Transfer("WRDMA", None, op), "done") /\ UNCHANGED answer
Done   == Plainly("done", Plain("WR_DONE"), "poll_tx") /\ UNCHANGED answer
ReadIt == Plainly("read", Plain("RDDMA"), "end") /\ answer' \in Seen(Plain("RDDMA"), slave)

\* The command code is compared; a target that took junk says so.
Mut_AnyAnswer == TRUE
Accepted == answer = op

Check ==
  /\ pc = "end"
  /\ Transaction(Plain("CMD8"))
  /\ Return(IF Accepted THEN "SUCCESS" ELSE "INVALID_RESPONSE")
  /\ UNCHANGED <<op, seqRx, seqTx, trial, answer, missed, refused>>

\* The transfer of the next transaction, by the place the host is at.
NextTransfer ==
  [wait_idle |-> Read("CMD"), say_ready |-> Write("CMD", "READY"),
   wait_ready |-> Read("CMD"), poll_rx |-> Read("RXSTA"),
   ack_rx |-> Write("RXSTA", None), send |-> Transfer("WRDMA", None, op),
   done |-> Plain("WR_DONE"), poll_tx |-> Read("TXSTA"),
   ack_tx |-> Write("TXSTA", None), read |-> Plain("RDDMA"), end |-> Plain("CMD8")]

\* The port fails, at the preamble (the target has seen nothing) or behind it
\* (the target waits for the rest); no path raises chip select again.
PortFails ==
  /\ pc # "idle"
  /\ faults < MaxFaults
  /\ faults' = faults + 1
  /\ LET t == NextTransfer[pc] IN
     \E seen \in {FALSE, t.kind \notin {"WR_DONE", "CMD8"}} :
       slave' = IF ~seen THEN slave
                ELSE IF Selected(slave) THEN Absorbed(slave)
                ELSE [slave EXCEPT !.open = t,
                                   !.buffer = IF t.kind = "WRDMA" THEN Append(@, Junk) ELSE @]
  /\ pc' = "idle"
  /\ result' = "FAIL"
  /\ UNCHANGED <<op, seqRx, seqTx, trial, answer, connected, prompt, missed, refused,
                 sessions, calls, acked, executed>>

-----------------------------------------------------------------------------
Host ==
  \/ WaitIdle \/ SayReady \/ WaitReady
  \/ PollRx \/ AckRx \/ SendIt \/ Done
  \/ PollTx \/ AckTx \/ ReadIt \/ Check

Next ==
  \/ Connect
  \/ \E cmd \in Calls : Call(cmd)
  \/ Host
  \/ PortFails
  \/ SlaveBoots
  \/ LazySlave

\* The host's loops go on, the target keeps working; neither the client nor
\* the faults are obliged to happen.
Spec == Init /\ [][Next]_vars /\ WF_vars(Host) /\ WF_vars(SlaveBoots) /\ WF_vars(LazySlave)

-----------------------------------------------------------------------------
(* Properties *)

\* With a prompt target that was idle when the host said READY, and a port
\* that has not failed, every call of send_cmd gets its own answer, in every
\* session: neither the sequence bits an earlier session left in the library
\* nor an answer that was already read are mistaken for a new buffer.  Only
\* a command longer than the target's buffer, or one that asks for data, is
\* refused.
CleanCallsWork ==
  prompt /\ ~missed /\ faults = 0 /\ pc = "idle" /\ op # None =>
    result = IF HasAnswerData(op) \/ Size(op) > BufferSize
             THEN "INVALID_PARAM" ELSE "SUCCESS"

\* esp_loader_connect goes on although the target never became ready, yet no
\* command is written into a target that is not: while no transaction failed,
\* a command goes to a target that has announced a buffer big enough for it;
\* one that is prompt has also emptied the buffer of the command before.
SentIntoBuffer ==
  faults = 0 /\ pc = "send" =>
    /\ slave.mode = "ready"
    /\ slave.RXSTA.len >= CommandSize(op, Context)
    /\ prompt => slave.buffer = <<>> /\ ~slave.done

\* However the port fails, a prompt target has executed at least as many
\* commands of the session as the host was told SUCCESS for: a transaction
\* that is lost in an older one, an answer read twice and two commands that
\* ran together never acknowledge a command nobody took.
AcknowledgedWereExecuted == prompt => acked <= executed

\* Without failures of the port, and with a prompt target that was in time,
\* every call returns: the loops that wait for a status have no other end.
\* A command refused for its length is the exception: it has used up the
\* announcement of the buffer, and the call after it may wait for ever.
Returns ==
  pc # "idle" ~> pc = "idle" \/ missed \/ faults > 0 \/ ~prompt \/ refused
=============================================================================
