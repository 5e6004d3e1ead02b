--------------------------- MODULE SpiSlaveProofs ---------------------------
(***************************************************************************)
(* The SPI transport: an acknowledged command was executed however the     *)
(* port fails, and without failures every call gets its own answer, for    *)
(* any number of sessions, calls and faults and any sizes.                 *)
(***************************************************************************)
EXTENDS SpiSlave, SequenceTheorems, TLAPS

-----------------------------------------------------------------------------
(* Types *)

Payloads     == CommandNames \cup {Junk}
StatusType   == [init : 0..1, toggle : 0..1, len : Nat]
TransferType == [kind : {"RDBUF", "WRBUF", "WRDMA", "RDDMA", "WR_DONE", "CMD8", None},
                 reg : {"CMD", "RXSTA", "TXSTA", None},
                 value : Payloads \cup {None, "READY"}]

SlaveType ==
  [mode : {"boot", "idle", "ready"}, CMD : {None, "IDLE", "READY"},
   RXSTA : StatusType, TXSTA : StatusType, buffer : Seq(Payloads), done : BOOLEAN,
   owed : Payloads \cup {None}, offered : Payloads \cup {None}, free : BOOLEAN,
   open : TransferType]

\* The places of the host while it connects, and all of them.
Connecting == {"idle", "wait_idle", "say_ready", "wait_ready", "poll_rx"}
Places     == Connecting \cup {"ack_rx", "send", "done", "poll_tx", "ack_tx", "read", "end"}

LEMMA Names == None \notin Payloads /\ Junk \notin CommandNames /\ "READ_REG" \in CommandNames
  BY DEF Payloads, CommandNames, Fields, None, Junk

LEMMA Sizes ==
  /\ AnswerSize(0) = 10
  /\ \A cmd \in CommandNames : Size(cmd) \in Nat /\ Size(cmd) > 0
  <1>1. \A cmd \in CommandNames : Fields[cmd] \in Nat
    BY DEF CommandNames, Fields
  <1>2. Fields["FLASH_BEGIN"] = 20 /\ Fields["SPI_ATTACH"] = 8
    BY DEF Fields
  <1>3. Context.block \in Nat
    BY SizesAssumption DEF Context
  <1> QED
    BY <1>1, <1>2, <1>3 DEF AnswerSize, Size, CommandSize, HeaderSize, Sent

LEMMA StatusTypes ==
  /\ Blank \in StatusType /\ InitState \in StatusType
  /\ \A i \in 0..1, t \in 0..1, n \in Nat : Status(i, t, n) \in StatusType
  /\ \A v \in StatusType : /\ v.init \in 0..1 /\ v.toggle \in 0..1 /\ v.len \in Nat
                           /\ 1 - v.toggle \in 0..1
                           /\ v = Status(v.init, v.toggle, v.len)
  BY DEF Blank, InitState, Status, StatusType

-----------------------------------------------------------------------------
(* What the target does between two transactions *)

LEMMA WakesType == \A s \in SlaveType : SeesReady(s) \in SlaveType
  BY StatusTypes DEF SlaveType, SeesReady

LEMMA OffersType == \A s \in SlaveType : OffersFirst(s) \in SlaveType
  <1> SUFFICES ASSUME NEW s \in SlaveType PROVE OffersFirst(s) \in SlaveType
    OBVIOUS
  <1> DEFINE r == Status(1, 0, BufferSize)
  <1>1. r \in StatusType
    BY SizesAssumption, StatusTypes
  <1>2. OffersFirst(s) = s \/ OffersFirst(s) = [s EXCEPT !.RXSTA = r]
    BY DEF OffersFirst
  <1> HIDE DEF r
  <1> QED
    BY <1>1, <1>2 DEF SlaveType

LEMMA FirstOfWhole == \A s \in SlaveType : Whole(s) => s.buffer[1] \in CommandNames
  BY DEF SlaveType, Whole, Payloads

LEMMA WorksType == \A s \in SlaveType : Works(s) \in SlaveType
  <1>1. BufferSize \in Nat
    BY SizesAssumption
  <1> SUFFICES ASSUME NEW s \in SlaveType PROVE Works(s) \in SlaveType
    OBVIOUS
  <1> DEFINE o == IF Whole(s) THEN s.buffer[1] ELSE Junk
             r == Status(0, 1 - s.RXSTA.toggle, BufferSize)
  <1>2. o \in Payloads
    BY FirstOfWhole DEF Payloads
  <1>3. r \in StatusType
    <2>1. s.RXSTA \in StatusType
      BY DEF SlaveType
    <2> QED
      BY <1>1, <2>1, StatusTypes
  <1>4. <<>> \in Seq(Payloads)
    OBVIOUS
  <1>5. Works(s) = s \/ Works(s) = [s EXCEPT !.done = FALSE, !.buffer = <<>>, !.owed = o, !.RXSTA = r]
    BY DEF Works
  <1> HIDE DEF o, r
  <1> QED
    BY <1>2, <1>3, <1>4, <1>5 DEF SlaveType

LEMMA PublishesType == \A s \in SlaveType : Publishes(s) \in SlaveType
  <1> SUFFICES ASSUME NEW s \in SlaveType PROVE Publishes(s) \in SlaveType
    OBVIOUS
  <1> DEFINE r == IF s.TXSTA = Blank THEN Status(1, 0, AnswerSize(0))
                  ELSE Status(0, 1 - s.TXSTA.toggle, AnswerSize(0))
  <1>1. r \in StatusType
    BY StatusTypes, Sizes DEF SlaveType
  <1>2. Publishes(s) = s \/ Publishes(s) = [s EXCEPT !.owed = None, !.offered = s.owed, !.free = FALSE, !.TXSTA = r]
    BY DEF Publishes
  <1> HIDE DEF r
  <1> QED
    BY <1>1, <1>2 DEF SlaveType

LEMMA SettledType == \A s \in SlaveType : Settled(s) \in SlaveType
  BY WakesType, OffersType, WorksType, PublishesType DEF Settled

\* A target that takes the command in its buffer.
Takes(s) == s.mode = "ready" /\ s.done /\ s.owed = None

\* The answer it then owes, or owed already.
Owes(s) == IF Takes(s) THEN IF Whole(s) THEN s.buffer[1] ELSE Junk ELSE s.owed

\* Whether that answer can be offered at once.
Offers(s) == Owes(s) # None /\ s.free /\ s.TXSTA # InitState

\* All of what a target that is ready does between two transactions.
LEMMA ReadySettles ==
  ASSUME NEW s \in SlaveType, s.mode = "ready"
  PROVE  LET r == Settled(s) IN
         /\ r.mode = "ready" /\ r.open = s.open
         /\ r.done = (s.done /\ ~Takes(s))
         /\ r.buffer = IF Takes(s) THEN <<>> ELSE s.buffer
         /\ r.owed = IF Offers(s) THEN None ELSE Owes(s)
         /\ r.offered = IF Offers(s) THEN Owes(s) ELSE s.offered
         /\ r.free = (s.free /\ ~Offers(s))
         /\ r.TXSTA = IF ~Offers(s) THEN s.TXSTA
                      ELSE IF s.TXSTA = Blank THEN Status(1, 0, AnswerSize(0))
                      ELSE Status(0, 1 - s.TXSTA.toggle, AnswerSize(0))
         /\ ~Takes(s) => r.RXSTA = OffersFirst(s).RXSTA
         /\ Takes(s) => r.RXSTA.init = 0 /\ r.RXSTA.len = BufferSize
  <1> DEFINE b == OffersFirst(s)
             c == Works(b)
             d == Publishes(c)
  <1>1. Settled(s) = d
    BY DEF Settled, SeesReady
  <1>2. b \in SlaveType /\ c \in SlaveType /\ d \in SlaveType
    BY OffersType, WorksType, PublishesType
  <1>3. \A f \in {"mode", "open", "done", "buffer", "owed", "offered", "free", "TXSTA"} : b[f] = s[f]
    BY DEF OffersFirst, SlaveType
  <1>4. Takes(b) = Takes(s) /\ Whole(b) = Whole(s) /\ Owes(b) = Owes(s)
    BY <1>3 DEF Takes, Whole, Owes
  <1>5. /\ c.mode = "ready" /\ c.open = s.open /\ c.offered = s.offered /\ c.free = s.free
        /\ c.TXSTA = s.TXSTA
        /\ c.done = (s.done /\ ~Takes(s))
        /\ c.buffer = IF Takes(s) THEN <<>> ELSE s.buffer
        /\ c.owed = Owes(s)
        /\ ~Takes(s) => c.RXSTA = b.RXSTA
        /\ Takes(s) => c.RXSTA.init = 0 /\ c.RXSTA.len = BufferSize
    <2> HIDE DEF b
    <2>1. CASE Takes(b)
      <3>1. c = [b EXCEPT !.done = FALSE, !.buffer = <<>>, !.owed = Owes(b),
                          !.RXSTA = Status(0, 1 - @.toggle, BufferSize)]
        BY <2>1 DEF Works, Takes, Owes
      <3> DEFINE r == Status(0, 1 - b.RXSTA.toggle, BufferSize)
      <3>2. c = [b EXCEPT !.done = FALSE, !.buffer = <<>>, !.owed = Owes(b), !.RXSTA = r]
        BY <3>1
      <3>3. r.init = 0 /\ r.len = BufferSize
        BY DEF Status
      <3> HIDE DEF r, c
      <3>4. /\ c.mode = b.mode /\ c.open = b.open /\ c.offered = b.offered /\ c.free = b.free
            /\ c.TXSTA = b.TXSTA /\ c.done = FALSE /\ c.buffer = <<>> /\ c.owed = Owes(b)
            /\ c.RXSTA = r
        BY <1>2, <3>2 DEF SlaveType
      <3>5. b.mode = "ready"
        BY <1>3
      <3> QED
        BY <1>3, <1>4, <2>1, <3>3, <3>4, <3>5
    <2>2. CASE ~Takes(b)
      <3>1. c = b
        BY <2>2 DEF Works, Takes
      <3>2. Owes(s) = s.owed
        BY <1>4, <2>2 DEF Owes
      <3>3. s.done \in BOOLEAN
        BY DEF SlaveType
      <3> QED
        BY <1>3, <1>4, <2>2, <3>1, <3>2, <3>3
    <2> QED
      BY <2>1, <2>2
  <1>6. Offers(s) = (c.owed # None /\ c.free /\ c.TXSTA # InitState)
    BY <1>5 DEF Offers
  <1>7. CASE Offers(s)
    <2> HIDE DEF c
    <2>1. d = [c EXCEPT !.owed = None, !.offered = c.owed, !.free = FALSE,
                        !.TXSTA = IF @ = Blank THEN Status(1, 0, AnswerSize(0))
                                  ELSE Status(0, 1 - @.toggle, AnswerSize(0))]
      BY <1>6, <1>7 DEF Publishes
    <2> DEFINE r == IF c.TXSTA = Blank THEN Status(1, 0, AnswerSize(0))
                    ELSE Status(0, 1 - c.TXSTA.toggle, AnswerSize(0))
    <2>2. d = [c EXCEPT !.owed = None, !.offered = c.owed, !.free = FALSE, !.TXSTA = r]
      BY <2>1
    <2>3. r = IF s.TXSTA = Blank THEN Status(1, 0, AnswerSize(0))
              ELSE Status(0, 1 - s.TXSTA.toggle, AnswerSize(0))
      BY <1>5
    <2> HIDE DEF d, r
    <2>4. /\ d.mode = c.mode /\ d.open = c.open /\ d.offered = c.owed /\ d.free = FALSE
          /\ d.TXSTA = r /\ d.done = c.done /\ d.buffer = c.buffer /\ d.owed = None
          /\ d.RXSTA = c.RXSTA
      BY <1>2, <2>2 DEF SlaveType
    <2> QED
      BY <1>1, <1>5, <1>7, <2>3, <2>4
  <1>8. CASE ~Offers(s)
    <2>1. d = c
      BY <1>6, <1>8 DEF Publishes
    <2>2. s.free \in BOOLEAN
      BY DEF SlaveType
    <2> HIDE DEF c, d
    <2> QED
      BY <1>1, <1>5, <1>8, <2>1, <2>2
  <1> QED
    BY <1>7, <1>8

\* A target that is not ready has nothing to do and nothing to say.
Quiet(s) ==
  /\ s.RXSTA = Blank /\ s.TXSTA = Blank
  /\ s.buffer = <<>> /\ ~s.done /\ s.owed = None /\ s.free

\* A target that has just become ready.
Woken(s) ==
  /\ s.mode = "ready"
  /\ s.RXSTA = InitState /\ s.TXSTA = InitState
  /\ s.buffer = <<>> /\ ~s.done /\ s.owed = None /\ s.free

LEMMA QuietWakes ==
  ASSUME NEW s \in SlaveType, s.mode # "ready", Quiet(s)
  PROVE  LET r == SeesReady(s) IN
         /\ s.mode = "idle" /\ s.CMD = "READY" => Woken(r) /\ r.open = s.open
         /\ ~(s.mode = "idle" /\ s.CMD = "READY") => r = s
  BY DEF SlaveType, Quiet, Woken, SeesReady

LEMMA QuietSettles ==
  ASSUME NEW s \in SlaveType, s.mode # "ready", Quiet(s)
  PROVE  Settled(s) = SeesReady(s)
  <1> DEFINE r == SeesReady(s)
  <1>1. InitState # Blank
    BY DEF InitState, Blank, Status
  <1>2. ~r.done /\ r.owed = None /\ (r.mode = "ready" => r.RXSTA # Blank)
    BY <1>1, QuietWakes DEF Quiet, Woken
  <1> HIDE DEF r
  <1>3. OffersFirst(r) = r /\ Works(r) = r /\ Publishes(r) = r
    BY <1>2 DEF OffersFirst, Works, Publishes
  <1> QED
    BY <1>3 DEF Settled, r

\* The same of each of the four things it does.
LEMMA EachStep ==
  ASSUME NEW s \in SlaveType, NEW r \in {SeesReady(s), OffersFirst(s), Works(s), Publishes(s)}
  PROVE  /\ r \in SlaveType
         /\ r.open = s.open /\ (s.mode = "ready" => r.mode = "ready")
         /\ \/ r.RXSTA = s.RXSTA \/ r.RXSTA.len = BufferSize
            \/ s.mode # "ready" /\ r.RXSTA = InitState
  <1>1. r \in SlaveType
    BY WakesType, OffersType, WorksType, PublishesType
  <1>2. CASE r = SeesReady(s)
    BY <1>1, <1>2 DEF SeesReady, SlaveType
  <1>3. CASE r = OffersFirst(s)
    BY <1>1, <1>3 DEF OffersFirst, SlaveType, Status
  <1>4. CASE r = Works(s)
    <2>1. r = s \/ r.RXSTA = Status(0, 1 - s.RXSTA.toggle, BufferSize)
      BY <1>4 DEF Works, SlaveType
    <2>2. Status(0, 1 - s.RXSTA.toggle, BufferSize).len = BufferSize
      BY DEF Status
    <2>3. r.open = s.open /\ r.mode = s.mode
      BY <1>4 DEF Works, SlaveType
    <2> QED
      BY <1>1, <2>1, <2>2, <2>3
  <1>5. CASE r = Publishes(s)
    <2>1. r.open = s.open /\ r.mode = s.mode /\ r.RXSTA = s.RXSTA
      BY <1>5 DEF Publishes, SlaveType
    <2> QED
      BY <1>1, <2>1
  <1> QED
    BY <1>2, <1>3, <1>4, <1>5

LEMMA SettledOpen == \A s \in SlaveType : Settled(s).open = s.open
  BY EachStep DEF Settled

-----------------------------------------------------------------------------
(* What a transaction does *)

\* The transfers of the host.
Sound(t) ==
  /\ t \in TransferType
  /\ t.kind = "WRBUF" => t.reg # None /\ (t.reg = "CMD" => t.value = "READY")
  /\ t.kind = "WRDMA" => t.value \in Payloads

LEMMA Transfers ==
  /\ \A reg \in {"CMD", "RXSTA", "TXSTA"} : Sound(Read(reg))
  /\ \A reg \in {"RXSTA", "TXSTA"} : Sound(Write(reg, None))
  /\ Sound(Write("CMD", "READY"))
  /\ \A cmd \in CommandNames : Sound(Transfer("WRDMA", None, cmd))
  /\ \A kind \in {"WR_DONE", "RDDMA", "CMD8"} : Sound(Plain(kind))
  <1>1. \A reg \in {"CMD", "RXSTA", "TXSTA"} : Sound(Read(reg))
    BY DEF Sound, TransferType, Read, Transfer
  <1>2. (\A reg \in {"RXSTA", "TXSTA"} : Sound(Write(reg, None))) /\ Sound(Write("CMD", "READY"))
    BY DEF Sound, TransferType, Write, Transfer, None
  <1>3. \A cmd \in CommandNames : Sound(Transfer("WRDMA", None, cmd))
    BY DEF Sound, TransferType, Transfer, Payloads
  <1>4. \A kind \in {"WR_DONE", "RDDMA", "CMD8"} : Sound(Plain(kind))
    BY DEF Sound, TransferType, Plain, Transfer
  <1> QED
    BY <1>1, <1>2, <1>3, <1>4

LEMMA NextTransfers ==
  ASSUME op \in CommandNames \cup {None}, pc \in Places, pc # "idle",
         pc = "send" => op # None
  PROVE  Sound(NextTransfer[pc])
  BY Transfers DEF Places, Connecting, NextTransfer

LEMMA TakenType ==
  ASSUME NEW s \in SlaveType, NEW t, Sound(t)
  PROVE  /\ Taken(t, s) \in SlaveType
         /\ Taken(t, s).open = s.open /\ Taken(t, s).mode = s.mode
  <1>1. CASE t.kind = "WRBUF"
    <2>1. CASE t.reg = "CMD"
      BY <1>1, <2>1 DEF Taken, Sound, SlaveType
    <2>2. CASE t.reg # "CMD"
      <3>1. Taken(t, s) = [s EXCEPT ![t.reg] = Blank] /\ t.reg \in {"RXSTA", "TXSTA"}
        BY <1>1, <2>2 DEF Taken, Sound, TransferType
      <3> QED
        BY <3>1, StatusTypes DEF SlaveType
    <2> QED
      BY <2>1, <2>2
  <1>2. CASE t.kind = "WRDMA"
    <2>1. Append(s.buffer, t.value) \in Seq(Payloads)
      BY <1>2 DEF SlaveType, Sound
    <2>2. Taken(t, s) = [s EXCEPT !.buffer = Append(s.buffer, t.value)]
      BY <1>2 DEF Taken
    <2> QED
      BY <2>1, <2>2 DEF SlaveType
  <1>3. CASE t.kind \in {"WR_DONE", "CMD8"}
    BY <1>3 DEF Taken, SlaveType
  <1>4. CASE t.kind \notin {"WRBUF", "WRDMA", "WR_DONE", "CMD8"}
    BY <1>4 DEF Taken
  <1> QED
    BY <1>1, <1>2, <1>3, <1>4

LEMMA AbsorbedType ==
  ASSUME NEW s \in SlaveType
  PROVE  LET r == Absorbed(s) IN
         /\ r \in SlaveType
         /\ r.open = s.open /\ r.mode = s.mode /\ r.done = s.done /\ r.owed = s.owed
         /\ r.free = s.free /\ r.offered = s.offered
  <1>1. CASE s.open.kind = "WRDMA"
    <2>1. Append(s.buffer, Junk) \in Seq(Payloads)
      BY DEF SlaveType, Payloads
    <2>2. Absorbed(s) = [s EXCEPT !.buffer = Append(s.buffer, Junk)]
      BY <1>1 DEF Absorbed
    <2> QED
      BY <2>1, <2>2 DEF SlaveType
  <1>2. CASE s.open.kind = "WRBUF" /\ s.open.reg # "CMD"
    <2>1. Absorbed(s) = [s EXCEPT ![s.open.reg] = Status(0, 1, 0)]
      BY <1>2 DEF Absorbed
    <2>2. Status(0, 1, 0) \in StatusType
      BY StatusTypes
    <2>3. s.open.reg \in {"RXSTA", "TXSTA", None}
      BY <1>2 DEF SlaveType, TransferType
    <2> QED
      BY <2>1, <2>2, <2>3 DEF SlaveType, None
  <1>3. CASE s.open.kind # "WRDMA" /\ ~(s.open.kind = "WRBUF" /\ s.open.reg # "CMD")
    BY <1>3 DEF Absorbed
  <1> QED
    BY <1>1, <1>2, <1>3

\* Chip select is high behind a complete transaction.
LEMMA TransactedType ==
  ASSUME NEW s \in SlaveType, NEW t, Sound(t)
  PROVE  LET r == Transacted(t, s) IN
         /\ r \in SlaveType /\ ~Selected(r) /\ r.mode = s.mode
         /\ ~Selected(s) => r = Taken(t, s)
         /\ Selected(s) => /\ r.done = s.done /\ r.owed = s.owed /\ r.free = s.free
                           /\ r.offered = s.offered
  <1>1. CASE ~Selected(s)
    BY <1>1, TakenType DEF Transacted, Selected
  <1>2. CASE Selected(s)
    <2>1. Nothing \in TransferType /\ Nothing.kind = None
      BY DEF Nothing, Plain, Transfer, TransferType
    <2>2. Transacted(t, s) = [Absorbed(s) EXCEPT !.open = Nothing]
      BY <1>2 DEF Transacted
    <2> HIDE DEF Nothing
    <2> QED
      BY <1>2, <2>1, <2>2, AbsorbedType DEF SlaveType, Selected
  <1> QED
    BY <1>1, <1>2

\* A read changes nothing of a target that is not selected.
LEMMA ReadsNothing ==
  ASSUME NEW s, ~Selected(s), NEW t, t.kind \in {"RDBUF", "RDDMA"}
  PROVE  Transacted(t, s) = s
  BY DEF Transacted, Taken

LEMMA SeenStatus ==
  ASSUME slave \in SlaveType, NEW reg \in {"RXSTA", "TXSTA"}, NEW v \in Seen(Read(reg), slave)
  PROVE  v \in StatusType /\ (~Selected(slave) => v = slave[reg])
  <1>1. Read(reg).kind = "RDBUF" /\ Read(reg).reg = reg
    BY DEF Read, Transfer
  <1>2. Statuses \subseteq StatusType
    BY SizesAssumption, StatusTypes DEF Statuses
  <1>3. slave[reg] \in StatusType
    BY DEF SlaveType
  <1> QED
    BY <1>1, <1>2, <1>3 DEF Seen

-----------------------------------------------------------------------------
(* Types of the whole state *)

Flags == connected \in BOOLEAN /\ prompt \in BOOLEAN /\ missed \in BOOLEAN

Shape ==
  /\ slave \in SlaveType
  /\ pc \in Places
  /\ op \in CommandNames \cup {None}
  /\ pc \notin {"idle", "wait_idle", "say_ready"} => op # None
  /\ seqRx \in 0..1 /\ seqTx \in 0..1
  /\ answer \in Payloads \cup {None}
  /\ acked \in Nat /\ executed \in Nat /\ faults \in Nat
  /\ Flags

LEMMA SlaveOf ==
  ASSUME Shape, NEW t, Sound(t), Transaction(t)
  PROVE  /\ slave' = IF prompt THEN Settled(Transacted(t, slave)) ELSE Transacted(t, slave)
         /\ slave' \in SlaveType
         /\ ~Selected(slave')
         /\ executed' \in Nat
         /\ prompt' = prompt /\ faults' = faults
  <1>1. Transacted(t, slave) \in SlaveType /\ ~Selected(Transacted(t, slave))
    BY TransactedType DEF Shape
  <1>2. slave' = IF prompt THEN Settled(Transacted(t, slave)) ELSE Transacted(t, slave)
    BY DEF Transaction, Slave
  <1>3. slave' \in SlaveType /\ ~Selected(slave')
    BY <1>1, <1>2, SettledType, SettledOpen DEF Selected
  <1> QED
    BY <1>2, <1>3 DEF Shape, Transaction, Slave

LEMMA SequenceTypes ==
  ASSUME NEW v \in StatusType, NEW n \in 0..1
  PROVE  SequenceAfter(v, n) \in 0..1
  BY StatusTypes DEF SequenceAfter

\* What a poll may come to.
LEMMA Polled ==
  ASSUME Shape, NEW reg \in {"RXSTA", "TXSTA"}, NEW enough, NEW ack, NEW then, NEW otherwise,
         NEW seq, seq = IF reg = "RXSTA" THEN seqRx ELSE seqTx, otherwise # "SUCCESS", Poll(reg, seq, enough, ack, then, otherwise)
  PROVE  \E v \in StatusType :
           /\ ~Selected(slave) => v = slave[reg]
           /\ Transaction(Read(reg))
           /\ reg = "RXSTA" => seqRx' \in 0..1 /\ seqTx' = seqTx
           /\ reg = "TXSTA" => seqTx' \in 0..1 /\ seqRx' = seqRx
           /\ UNCHANGED acked
           /\ \/ /\ v.init = 1 /\ v.toggle = 1 /\ pc' = ack
                 /\ UNCHANGED <<seqRx, seqTx, result, connected>>
              \/ /\ ~(v.init = 1 /\ v.toggle = 1) /\ ~IsNew(v, seq)
                 /\ UNCHANGED <<pc, seqRx, seqTx, result, connected>>
              \/ /\ ~(v.init = 1 /\ v.toggle = 1) /\ IsNew(v, seq)
                 /\ reg = "RXSTA" => seqRx' = v.toggle
                 /\ reg = "TXSTA" => seqTx' = v.toggle
                 /\ UNCHANGED connected
                 /\ \/ enough > v.len /\ pc' = "idle" /\ result' = otherwise
                    \/ ~(enough > v.len) /\ pc' = then /\ UNCHANGED result
  <1>1. PICK v \in Seen(Read(reg), slave) :
          /\ Transaction(Read(reg))
          /\ Remember(reg, IF v = Status(1, 1, v.len) THEN seq ELSE SequenceAfter(v, seq))
          /\ CASE v.init = 1 /\ v.toggle = 1 -> pc' = ack /\ UNCHANGED <<result, connected, acked>>
               [] ~(v.init = 1 /\ v.toggle = 1) /\ ~IsNew(v, seq) ->
                    UNCHANGED <<pc, result, connected, acked>>
               [] OTHER -> IF enough > v.len THEN Return(otherwise)
                           ELSE pc' = then /\ UNCHANGED <<result, connected, acked>>
    BY DEF Poll
  <1>2. v \in StatusType /\ (~Selected(slave) => v = slave[reg])
    BY <1>1, SeenStatus DEF Shape
  <1>3. (v = Status(1, 1, v.len)) = (v.init = 1 /\ v.toggle = 1)
    BY <1>2, StatusTypes DEF Status
  <1> DEFINE n == IF v.init = 1 /\ v.toggle = 1 THEN seq ELSE SequenceAfter(v, seq)
  <1>4. /\ reg = "RXSTA" => seqRx' = n /\ seqTx' = seqTx
        /\ reg = "TXSTA" => seqTx' = n /\ seqRx' = seqRx
    BY <1>1, <1>3 DEF Remember
  <1>5. seq \in 0..1 /\ n \in 0..1
    BY <1>2, SequenceTypes DEF Shape
  <1>6. ~(v.init = 1 /\ v.toggle = 1) => n = IF IsNew(v, seq) THEN v.toggle ELSE seq
    BY DEF SequenceAfter
  <1>7. ASSUME Return(otherwise)
        PROVE  pc' = "idle" /\ result' = otherwise /\ UNCHANGED <<connected, acked>>
    BY <1>7 DEF Return, Shape, Flags
  <1> HIDE DEF n
  <1>8. CASE v.init = 1 /\ v.toggle = 1
    <2>1. pc' = ack /\ UNCHANGED <<result, connected, acked>>
      BY <1>1, <1>8
    <2>2. n = seq
      BY <1>8 DEF n
    <2> QED
      BY <1>1, <1>2, <1>4, <1>5, <1>8, <2>1, <2>2
  <1>9. CASE ~(v.init = 1 /\ v.toggle = 1) /\ ~IsNew(v, seq)
    <2>1. UNCHANGED <<pc, result, connected, acked>>
      BY <1>1, <1>9
    <2> QED
      BY <1>1, <1>2, <1>4, <1>5, <1>6, <1>9, <2>1
  <1>10. CASE ~(v.init = 1 /\ v.toggle = 1) /\ IsNew(v, seq)
    <2>1. IF enough > v.len THEN Return(otherwise) ELSE pc' = then /\ UNCHANGED <<result, connected, acked>>
      BY <1>1, <1>10
    <2>2. UNCHANGED <<connected, acked>>
      BY <1>7, <2>1
    <2>3. \/ enough > v.len /\ pc' = "idle" /\ result' = otherwise
          \/ ~(enough > v.len) /\ pc' = then /\ UNCHANGED result
      BY <1>7, <2>1
    <2> QED
      BY <1>1, <1>2, <1>4, <1>5, <1>6, <1>10, <2>2, <2>3
  <1> QED
    BY <1>8, <1>9, <1>10

LEMMA BootingType ==
  /\ Booting \in SlaveType
  /\ Booting.mode = "boot" /\ Quiet(Booting) /\ ~Selected(Booting) /\ Booting.offered = None
  <1>1. Nothing \in TransferType /\ Nothing.kind = None
    BY DEF Nothing, Plain, Transfer, TransferType
  <1>2. <<>> \in Seq(Payloads)
    OBVIOUS
  <1> HIDE DEF Nothing
  <1> QED
    BY <1>1, <1>2, StatusTypes DEF Booting, SlaveType, Quiet, Selected

LEMMA InitShape == Init => Shape
  <1>1. Init => Flags
    BY PromptAssumption DEF Init, Flags
  <1> QED
    BY <1>1, BootingType DEF Init, Shape, Places, Connecting

\* What the port may fail in.
LEMMA Fails ==
  ASSUME Shape, PortFails
  PROVE  /\ slave' \in SlaveType /\ slave'.mode = slave.mode
         /\ slave'.done = slave.done /\ slave'.owed = slave.owed /\ slave'.free = slave.free
         /\ slave'.offered = slave.offered
         /\ pc' = "idle" /\ faults' = faults + 1
         /\ UNCHANGED <<op, seqRx, seqTx, answer, connected, acked, executed, prompt, missed>>
         /\ pc # "send" /\ ~Selected(slave) =>
              slave' \in {slave, [slave EXCEPT !.open = NextTransfer[pc]]}
  <1> DEFINE t == NextTransfer[pc]
  <1>1. Sound(t)
    BY NextTransfers DEF Shape, PortFails
  <1>2. PICK seen \in {FALSE, t.kind \notin {"WR_DONE", "CMD8"}} :
          slave' = IF ~seen THEN slave
                   ELSE IF Selected(slave) THEN Absorbed(slave)
                   ELSE [slave EXCEPT !.open = t,
                                      !.buffer = IF t.kind = "WRDMA" THEN Append(@, Junk) ELSE @]
    BY DEF PortFails
  <1>3. pc # "send" => t.kind # "WRDMA"
    BY DEF PortFails, Shape, Places, Connecting, NextTransfer, Read, Write, Plain, Transfer
  <1>4. t \in TransferType
    BY <1>1 DEF Sound
  <1>5. slave.buffer \in Seq(Payloads) /\ Append(slave.buffer, Junk) \in Seq(Payloads)
    BY DEF Shape, SlaveType, Payloads
  <1> HIDE DEF t
  <1> DEFINE b == IF t.kind = "WRDMA" THEN Append(slave.buffer, Junk) ELSE slave.buffer
             r == [slave EXCEPT !.open = t, !.buffer = b]
  <1>6. b \in Seq(Payloads) /\ (pc # "send" => b = slave.buffer)
    BY <1>3, <1>5
  <1>7. slave' \in {slave, Absorbed(slave), r} /\ (~Selected(slave) => slave' \in {slave, r})
    BY <1>2
  <1> HIDE DEF b
  <1>8. /\ r \in SlaveType /\ r.mode = slave.mode /\ r.done = slave.done /\ r.owed = slave.owed
        /\ r.free = slave.free /\ r.offered = slave.offered
    BY <1>4, <1>6 DEF Shape, SlaveType
  <1>9. b = slave.buffer => r = [slave EXCEPT !.open = t]
    BY DEF Shape, SlaveType
  <1> HIDE DEF r
  <1>10. /\ slave' \in SlaveType /\ slave'.mode = slave.mode
         /\ slave'.done = slave.done /\ slave'.owed = slave.owed /\ slave'.free = slave.free
         /\ slave'.offered = slave.offered
    BY <1>7, <1>8, AbsorbedType DEF Shape
  <1>11. pc # "send" /\ ~Selected(slave) => slave' \in {slave, [slave EXCEPT !.open = t]}
    BY <1>6, <1>7, <1>9
  <1> QED
    BY <1>10, <1>11 DEF PortFails, t

LEMMA ShapeStep ==
  ASSUME Shape, [Next]_vars
  PROVE  Shape'
  <1>0. Flags'
    BY Polled DEF Shape, Flags, Next, Host, Connect, Call, WaitIdle, SayReady, WaitReady, PollRx, PollTx, AckRx, AckTx,
       SendIt, Done, ReadIt, Plainly, Check, Return, PortFails, SlaveBoots, LazySlave, Transaction, Poll, vars, host
  <1> USE DEF Shape, Places, Connecting
  <1>1. CASE Connect
    BY <1>0, <1>1, BootingType DEF Connect
  <1>2. ASSUME NEW cmd \in Calls, Call(cmd) PROVE Shape'
    BY <1>0, <1>2, CallsAssumption, Names DEF Call, Payloads
  <1>3. CASE WaitIdle
    BY <1>0, <1>3, SlaveOf, Transfers DEF WaitIdle, Turn
  <1>4. CASE SayReady
    BY <1>0, <1>4, Names, SlaveOf, Transfers DEF SayReady, Payloads
  <1>5. CASE WaitReady
    BY <1>0, <1>5, SlaveOf, Transfers DEF WaitReady, Turn
  <1>6. CASE PollRx
    BY <1>0, <1>6, Polled, SlaveOf, Transfers DEF PollRx
  <1>7. CASE PollTx
    BY <1>0, <1>7, Polled, SlaveOf, Transfers DEF PollTx
  <1>8. CASE AckRx
    BY <1>0, <1>8, SlaveOf, Transfers DEF AckRx, Plainly
  <1>9. CASE AckTx
    BY <1>0, <1>9, SlaveOf, Transfers DEF AckTx, Plainly
  <1>10. CASE SendIt
    BY <1>0, <1>10, SlaveOf, Transfers DEF SendIt, Plainly
  <1>11. CASE Done
    BY <1>0, <1>11, SlaveOf, Transfers DEF Done, Plainly
  <1>12. CASE ReadIt
    <2>1. Seen(Plain("RDDMA"), slave) \subseteq Payloads \cup {None}
      BY DEF Seen, Plain, Transfer, SlaveType, Payloads
    <2> QED
      BY <1>0, <1>12, <2>1, SlaveOf, Transfers DEF ReadIt, Plainly
  <1>13. CASE Check
    BY <1>0, <1>13, SlaveOf, Transfers DEF Check, Return
  <1>14. CASE PortFails
    BY <1>0, <1>14, Fails
  <1>15. CASE SlaveBoots
    BY <1>0, <1>15 DEF SlaveBoots, SlaveType, host
  <1>16. CASE LazySlave
    <2>1. slave' \in SlaveType
      BY <1>0, <1>16, WakesType, OffersType, WorksType, PublishesType DEF LazySlave
    <2> QED
      BY <1>0, <1>16, <2>1 DEF LazySlave, host
  <1>17. CASE UNCHANGED vars
    BY <1>0, <1>17 DEF vars, host
  <1> QED
    BY <1>1, <1>2, <1>3, <1>4, <1>5, <1>6, <1>7, <1>8, <1>9, <1>10, <1>11, <1>12, <1>13, <1>14,
       <1>15, <1>16, <1>17 DEF Next, Host

-----------------------------------------------------------------------------
(* Commands go to a target that is ready, and transactions to one that is   *)
(* not selected.                                                            *)

\* A target that is not ready has not been written to, and the host connects.
Asleep == slave.mode # "ready" => Quiet(slave) /\ ~connected /\ pc \in Connecting

\* A target is left selected by a failure of the port only, and for one
\* transaction: the first of the next call.
Deselected == Selected(slave) => faults > 0 /\ (pc = "idle" \/ (pc = "poll_rx" /\ connected))

Base == Shape /\ Asleep /\ Deselected

LEMMA ReadyStays ==
  ASSUME Shape, NEW t, Sound(t), Transaction(t), slave.mode = "ready"
  PROVE  slave'.mode = "ready"
  BY SlaveOf, TransactedType, ReadySettles DEF Shape

\* The transactions of the host with a target that is not ready.
LEMMA QuietTransaction ==
  ASSUME Shape, NEW t, Sound(t), Transaction(t), slave.mode # "ready", Quiet(slave), ~Selected(slave),
         t.kind = "RDBUF" \/ (t.kind = "WRBUF" /\ t.reg = "CMD")
  PROVE  \/ slave'.mode # "ready" /\ Quiet(slave')
         \/ Woken(slave')
  <1> DEFINE s == Transacted(t, slave)
  <1>1. s \in SlaveType /\ s.mode # "ready" /\ s = Taken(t, slave)
    BY TransactedType DEF Shape
  <1>2. s = slave \/ s = [slave EXCEPT !.CMD = t.value]
    BY <1>1 DEF Taken, Sound
  <1>3. Quiet(s)
    BY <1>2 DEF Quiet, Shape, SlaveType
  <1> HIDE DEF s
  <1>4. slave' = IF prompt THEN Settled(s) ELSE s
    BY SlaveOf DEF s
  <1>5. Settled(s) = SeesReady(s) /\ (Woken(SeesReady(s)) \/ SeesReady(s) = s)
    BY <1>1, <1>3, QuietSettles, QuietWakes
  <1> QED
    BY <1>1, <1>3, <1>4, <1>5

LEMMA AsleepStep ==
  ASSUME Base, [Next]_vars
  PROVE  Asleep'
  <1>0. Shape'
    BY ShapeStep DEF Base
  <1> SUFFICES ASSUME slave'.mode # "ready"
               PROVE  Quiet(slave') /\ ~connected' /\ pc' \in Connecting
    BY DEF Asleep, Quiet
  <1>1. CASE Connect
    BY <1>1, BootingType DEF Connect, Connecting
  <1> SUFFICES ASSUME slave.mode # "ready", Quiet(slave), ~connected, pc \in Connecting
               PROVE  Quiet(slave') /\ ~connected' /\ pc' \in Connecting
    <2>1. CASE slave.mode = "ready" /\ ~Connect
      <3>1. Host => FALSE
        BY <2>1, ReadyStays, Polled, Transfers DEF Base, Shape, Host, WaitIdle, SayReady, WaitReady, PollRx, PollTx,
           AckRx, AckTx, SendIt, Done, ReadIt, Plainly, Check, Poll
      <3>2. LazySlave => FALSE
        BY <2>1, EachStep DEF Base, Shape, LazySlave
      <3>3. PortFails => FALSE
        BY <2>1, Fails DEF Base
      <3> QED
        BY <2>1, <3>1, <3>2, <3>3 DEF Next, Call, SlaveBoots, vars, host
    <2>2. CASE Connect
      BY <1>1, <2>2
    <2>3. CASE slave.mode # "ready"
      BY <2>3 DEF Base, Asleep
    <2> QED
      BY <2>1, <2>2, <2>3
  <1> USE DEF Base, Connecting
  <1>2. pc # "idle" => ~Selected(slave)
    BY DEF Deselected
  <1>3. CASE WaitIdle
    BY <1>2, <1>3, QuietTransaction, Transfers DEF WaitIdle, Turn, Read, Transfer, Woken
  <1>4. CASE SayReady
    BY <1>2, <1>4, QuietTransaction, Transfers DEF SayReady, Write, Transfer, Woken
  <1>5. CASE WaitReady
    BY <1>2, <1>5, QuietTransaction, Transfers DEF WaitReady, Turn, Read, Transfer, Woken
  <1>6. CASE PollRx
    <2>1. Size(op) > 0 /\ Size(op) \in Nat
      BY <1>6, Sizes DEF Shape, PollRx
    <2>2. slave.RXSTA = Status(0, 0, 0)
      BY DEF Quiet, Blank
    <2>3. UNCHANGED connected /\ Transaction(Read("RXSTA")) /\ pc' \in {"idle", "poll_rx"}
      BY <1>2, <1>6, <2>1, <2>2, Polled DEF PollRx, Status
    <2>4. Quiet(slave')
      BY <1>2, <1>6, <2>3, QuietTransaction, Transfers DEF PollRx, Read, Transfer, Woken
    <2> QED
      BY <2>3, <2>4
  <1>7. CASE PortFails
    <2>1. Quiet(slave')
      <3>1. slave' \in {slave, [slave EXCEPT !.open = NextTransfer[pc]]}
        BY <1>2, <1>7, Fails DEF PortFails
      <3> QED
        BY <3>1 DEF Quiet, Shape, SlaveType
    <2> QED
      BY <1>7, <2>1, Fails
  <1>8. CASE SlaveBoots
    BY <1>8 DEF SlaveBoots, Quiet, host, Shape, SlaveType
  <1>9. CASE LazySlave
    <2>1. slave' = SeesReady(slave) \/ slave' = slave
      BY <1>9 DEF LazySlave, OffersFirst, Works, Publishes, Quiet
    <2> QED
      BY <1>9, <2>1, QuietWakes DEF LazySlave, host, Shape, Woken
  <1>10. CASE UNCHANGED vars
    BY <1>10 DEF vars, host
  <1>11. \A cmd \in Calls : ~Call(cmd)
    BY DEF Call
  <1>12. ~(PollTx \/ AckRx \/ AckTx \/ SendIt \/ Done \/ ReadIt \/ Check)
    BY DEF PollTx, AckRx, AckTx, SendIt, Done, ReadIt, Check, Plainly
  <1> QED
    BY <1>1, <1>3, <1>4, <1>5, <1>6, <1>7, <1>8, <1>9, <1>10, <1>11, <1>12 DEF Next, Host

LEMMA DeselectedStep ==
  ASSUME Base, [Next]_vars
  PROVE  Deselected'
  <1>1. Host => ~Selected(slave')
    BY SlaveOf, Polled, Transfers DEF Base, Shape, Host, WaitIdle, SayReady, WaitReady, PollRx, PollTx,
       AckRx, AckTx, SendIt, Done, ReadIt, Plainly, Check, Poll
  <1>2. CASE PortFails
    BY <1>2, Fails DEF Base, Shape, Deselected
  <1>3. CASE Connect
    BY <1>3, BootingType DEF Connect, Deselected, Selected
  <1>4. ASSUME NEW cmd \in Calls, Call(cmd) PROVE Deselected'
    BY <1>4 DEF Base, Call, Deselected, Selected
  <1>5. CASE SlaveBoots
    BY <1>5 DEF SlaveBoots, Base, Shape, SlaveType, Deselected, Selected, host
  <1>6. CASE LazySlave
    <2>1. slave'.open = slave.open
      BY <1>6, EachStep DEF LazySlave, Base, Shape
    <2> QED
      BY <1>6, <2>1 DEF LazySlave, Base, Deselected, Selected, host
  <1>7. CASE UNCHANGED vars
    BY <1>7 DEF vars, host, Base, Deselected, Selected
  <1> QED
    BY <1>1, <1>2, <1>3, <1>4, <1>5, <1>6, <1>7 DEF Next, Deselected, Selected

LEMMA BaseAlways == Spec => []Base
  <1>1. Init => Base
    BY InitShape, BootingType DEF Init, Base, Asleep, Deselected, Connecting
  <1>2. Base /\ [Next]_vars => Base'
    BY ShapeStep, AsleepStep, DeselectedStep DEF Base
  <1> QED
    BY <1>1, <1>2, PTL DEF Spec

-----------------------------------------------------------------------------
(* An acknowledged command was executed. *)

\* The answers under way to commands that were executed: the one the host has
\* not read to its end, and the one the target owes.
Unread(s) == IF ~s.free /\ s.offered # Junk THEN 1 ELSE 0
Owed(s)   == IF s.owed \notin {None, Junk} THEN 1 ELSE 0

Counted == acked + Unread(slave) + Owed(slave) <= executed

\* From the end of the command to the end of the answer the target has an
\* answer for the host that it has not taken before.
AnswerUnread ==
  /\ pc = "done" => slave.buffer # <<>>
  /\ pc \in {"poll_tx", "ack_tx"} /\ slave.free => slave.owed # None /\ slave.TXSTA = InitState
  /\ pc \in {"read", "end"} => ~slave.free
  /\ pc = "end" => answer = slave.offered

\* Nothing waits that the target could do at once: while the host writes a
\* command, the buffer is not taken; an answer is offered as soon as it may be.
\* The first TXSTA of a session is acknowledged before anything can fail.
Pending(s) == s.owed # None /\ s.free /\ s.TXSTA # InitState

Drained ==
  /\ ~Pending(slave)
  /\ pc = "send" => ~Takes(slave)
  /\ ~slave.free => slave.TXSTA # InitState
  /\ connected => slave.TXSTA # InitState

Honest == prompt => Counted /\ AnswerUnread /\ Drained

LEMMA CountTypes == \A s : Unread(s) \in 0..1 /\ Owed(s) \in 0..1
  BY DEF Unread, Owed

LEMMA SettledCount ==
  ASSUME NEW s \in SlaveType, s.mode = "ready"
  PROVE  Unread(Settled(s)) + Owed(Settled(s))
           <= Unread(s) + Owed(s) + (IF Takes(s) /\ Whole(s) THEN 1 ELSE 0)
  <1> DEFINE r == Settled(s)
  <1>1. /\ r.owed = IF Offers(s) THEN None ELSE Owes(s)
        /\ r.offered = IF Offers(s) THEN Owes(s) ELSE s.offered
        /\ r.free = (s.free /\ ~Offers(s))
    BY ReadySettles
  <1> HIDE DEF r
  <1>2. Takes(s) => s.owed = None
    BY DEF Takes
  <1>3. Takes(s) /\ ~Whole(s) => Owes(s) = Junk
    BY DEF Owes
  <1>4. ~Takes(s) => Owes(s) = s.owed
    BY DEF Owes
  <1>5. CASE Offers(s)
    <2>1. s.free /\ ~r.free /\ r.owed = None /\ r.offered = Owes(s) /\ Owes(s) # None
      BY <1>1, <1>5 DEF Offers
    <2>2. Unread(s) = 0 /\ Owed(r) = 0
      BY <2>1 DEF Unread, Owed
    <2>3. Owes(s) = Junk => Unread(r) = 0
      BY <2>1 DEF Unread
    <2>4. ~Takes(s) /\ Owes(s) # Junk => Owed(s) = 1
      BY <1>4, <2>1 DEF Owed
    <2> QED
      BY <1>3, <2>2, <2>3, <2>4, CountTypes DEF r
  <1>6. CASE ~Offers(s)
    <2>1. r.free = s.free /\ r.owed = Owes(s) /\ r.offered = s.offered
      BY <1>1, <1>6 DEF SlaveType
    <2>2. Unread(r) = Unread(s)
      BY <2>1 DEF Unread
    <2>3. ~Takes(s) => Owed(r) = Owed(s)
      BY <1>4, <2>1 DEF Owed
    <2>4. Owes(s) = Junk => Owed(r) = 0
      BY <2>1 DEF Owed
    <2> QED
      BY <1>3, <2>2, <2>3, <2>4, CountTypes DEF r
  <1> QED
    BY <1>5, <1>6

\* A transaction adds an answer only with the command it is for.
LEMMA CountTransaction ==
  ASSUME Base, prompt, slave.mode = "ready", NEW t, Sound(t), Transaction(t)
  PROVE  LET s == Transacted(t, slave) IN
         /\ executed' \in Nat
         /\ Unread(slave') + Owed(slave') - executed' <= Unread(s) + Owed(s) - executed
         /\ t.kind # "CMD8" => Unread(s) = Unread(slave) /\ Owed(s) = Owed(slave)
  <1> DEFINE s == Transacted(t, slave)
  <1>1. s \in SlaveType /\ s.mode = slave.mode /\ slave \in SlaveType
    BY TransactedType DEF Base, Shape
  <1>2. slave' = Settled(s) /\ executed \in Nat
    BY SlaveOf DEF Base, Shape
  <1>3. executed' = IF Takes(s) /\ Whole(s) THEN executed + 1 ELSE executed
    BY DEF Transaction, Slave, Takes
  <1>4. t.kind # "CMD8" => s.owed = slave.owed /\ s.free = slave.free /\ s.offered = slave.offered
    <2>1. CASE Selected(slave)
      BY <2>1, TransactedType DEF Base, Shape
    <2>2. CASE ~Selected(slave)
      <3>1. s = Taken(t, slave)
        BY <2>2 DEF Transacted
      <3>2. CASE t.kind = "WRBUF"
        <4>1. s = [slave EXCEPT ![t.reg] = IF t.reg = "CMD" THEN t.value ELSE Blank]
          BY <3>1, <3>2 DEF Taken
        <4>2. t.reg \in {"CMD", "RXSTA", "TXSTA"}
          BY <3>2 DEF Sound, TransferType
        <4> QED
          BY <1>1, <4>1, <4>2 DEF SlaveType
      <3>3. CASE t.kind # "WRBUF" /\ t.kind # "CMD8"
        BY <1>1, <3>1, <3>3 DEF Taken, SlaveType
      <3> QED
        BY <3>2, <3>3
    <2> QED
      BY <2>1, <2>2
  <1>5. t.kind # "CMD8" => Unread(s) = Unread(slave) /\ Owed(s) = Owed(slave)
    BY <1>4 DEF Unread, Owed
  <1>6. Unread(slave') + Owed(slave') - executed' <= Unread(s) + Owed(s) - executed
    BY <1>1, <1>2, <1>3, SettledCount, CountTypes
  <1> QED
    BY <1>2, <1>3, <1>5, <1>6


\* What a transaction leaves alone.
LEMMA TransactedKeeps ==
  ASSUME NEW s \in SlaveType, NEW t, Sound(t)
  PROVE  LET r == Transacted(t, s) IN
         /\ r.TXSTA = InitState => s.TXSTA = InitState
         /\ s.free => r.free
         /\ t.kind # "CMD8" => r.free = s.free
         /\ r.owed = s.owed /\ r.offered = s.offered
         /\ t.kind # "WR_DONE" => r.done = s.done
  <1>1. Blank # InitState /\ Status(0, 1, 0) # InitState
    BY DEF Blank, InitState, Status
  <1>2. CASE Selected(s)
    <2>1. Transacted(t, s) = [Absorbed(s) EXCEPT !.open = Nothing]
      BY <1>2 DEF Transacted
    <2>2. Absorbed(s).TXSTA = s.TXSTA \/ Absorbed(s).TXSTA = Status(0, 1, 0)
      BY DEF Absorbed, SlaveType
    <2>3. Transacted(t, s).TXSTA = Absorbed(s).TXSTA
      BY <2>1, AbsorbedType DEF SlaveType
    <2> QED
      BY <1>1, <1>2, <2>2, <2>3, TransactedType
  <1>3. CASE ~Selected(s)
    <2>1. Transacted(t, s) = Taken(t, s)
      BY <1>3 DEF Transacted
    <2>2. CASE t.kind = "WRBUF"
      <3>1. Taken(t, s) = [s EXCEPT ![t.reg] = IF t.reg = "CMD" THEN t.value ELSE Blank]
        BY <2>2 DEF Taken
      <3>2. t.reg \in {"CMD", "RXSTA", "TXSTA"}
        BY <2>2 DEF Sound, TransferType
      <3> QED
        BY <1>1, <2>1, <2>2, <3>1, <3>2 DEF SlaveType
    <2>3. CASE t.kind = "WR_DONE"
      BY <2>1, <2>3 DEF Taken, SlaveType
    <2>4. CASE t.kind # "WRBUF" /\ t.kind # "WR_DONE"
      BY <2>1, <2>4 DEF Taken, SlaveType
    <2> QED
      BY <2>2, <2>3, <2>4
  <1> QED
    BY <1>2, <1>3

\* A prompt target leaves nothing undone.
LEMMA SettledDrained ==
  ASSUME NEW s \in SlaveType, s.mode = "ready"
  PROVE  LET r == Settled(s) IN
         /\ ~Pending(r)
         /\ r.TXSTA = InitState => s.TXSTA = InitState
         /\ ~r.free /\ r.TXSTA = InitState => ~s.free
  <1> DEFINE r == Settled(s)
  <1>1. /\ r.owed = IF Offers(s) THEN None ELSE Owes(s)
        /\ r.free = (s.free /\ ~Offers(s))
        /\ r.TXSTA = IF ~Offers(s) THEN s.TXSTA
                     ELSE IF s.TXSTA = Blank THEN Status(1, 0, AnswerSize(0))
                     ELSE Status(0, 1 - s.TXSTA.toggle, AnswerSize(0))
    BY ReadySettles
  <1> HIDE DEF r
  <1>2. CASE Offers(s)
    <2>1. r.TXSTA # InitState /\ r.owed = None
      BY <1>1, <1>2 DEF Status, InitState
    <2> QED
      BY <2>1 DEF Pending, r
  <1>3. CASE ~Offers(s)
    BY <1>1, <1>3 DEF Pending, Offers, r, SlaveType
  <1> QED
    BY <1>2, <1>3

LEMMA DrainedTransaction ==
  ASSUME Base, prompt, slave.mode = "ready", ~slave.free => slave.TXSTA # InitState,
         NEW t, Sound(t), Transaction(t)
  PROVE  /\ ~Pending(slave')
         /\ slave'.TXSTA = InitState => slave.TXSTA = InitState
         /\ ~slave'.free => slave'.TXSTA # InitState
  <1> DEFINE s == Transacted(t, slave)
  <1>1. s \in SlaveType /\ s.mode = "ready" /\ slave \in SlaveType
    BY TransactedType DEF Base, Shape
  <1>2. slave' = Settled(s)
    BY SlaveOf DEF Base
  <1>3. (s.TXSTA = InitState => slave.TXSTA = InitState) /\ (slave.free => s.free)
    BY <1>1, TransactedKeeps
  <1> HIDE DEF s
  <1> QED
    BY <1>1, <1>2, <1>3, SettledDrained

\* A connection that the target has not answered yet leaves all counts alone.
LEMMA HonestAsleep ==
  ASSUME Base, Base', Honest, prompt, [Next]_vars, slave.mode # "ready", ~Connect
  PROVE  Honest'
  <1>1. Quiet(slave) /\ ~connected /\ pc \in Connecting /\ (pc # "idle" => ~Selected(slave))
    BY DEF Base, Asleep, Deselected
  <1>2. ASSUME NEW t, Sound(t), Transaction(t), pc # "idle",
               t.kind = "RDBUF" \/ (t.kind = "WRBUF" /\ t.reg = "CMD")
        PROVE  (Quiet(slave') \/ Woken(slave')) /\ executed' = executed
    <2>1. ~Takes(Transacted(t, slave))
      BY <1>2, TransactedType DEF Base, Shape, Takes
    <2>2. executed' = executed
      BY <1>2, <2>1 DEF Transaction, Slave, Takes
    <2> QED
      BY <1>1, <1>2, <2>2, QuietTransaction DEF Base
  <1>a. ASSUME Quiet(slave') \/ Woken(slave'), pc' \in Connecting, ~connected', acked' = acked,
               executed' = executed
        PROVE  Honest'
    <2>1. slave'.owed = None /\ slave'.free
      BY <1>a DEF Quiet, Woken
    <2>2. Unread(slave') = 0 /\ Owed(slave') = 0
      BY <2>1 DEF Unread, Owed
    <2>3. Counted'
      BY <1>a, <2>2, CountTypes DEF Base, Shape, Honest, Counted
    <2>4. AnswerUnread'
      BY <1>a DEF AnswerUnread, Connecting
    <2>5. Drained'
      BY <1>a, <2>1 DEF Drained, Pending, Connecting
    <2> QED
      BY <2>3, <2>4, <2>5 DEF Honest
  <1>3. CASE Host
    <2>1. pc \in {"wait_idle", "say_ready", "wait_ready", "poll_rx"}
      BY <1>1, <1>3 DEF Connecting, Host, WaitIdle, SayReady, WaitReady, PollRx, PollTx, AckRx, AckTx,
         SendIt, Done, ReadIt, Plainly, Check
    <2>2. (Quiet(slave') \/ Woken(slave')) /\ executed' = executed
      BY <1>2, <1>3, <2>1, Transfers DEF Host, WaitIdle, SayReady, WaitReady, PollRx, PollTx, AckRx, AckTx,
         SendIt, Done, ReadIt, Plainly, Check, Poll, Read, Write, Transfer
    <2>3. acked' = acked /\ pc' \in Connecting /\ ~connected'
      <3>1. CASE PollRx
        <4>1. slave.RXSTA = Status(0, 0, 0) /\ Size(op) > 0 /\ Size(op) \in Nat
          BY <1>1, <3>1, Sizes DEF Quiet, Blank, Base, Shape, PollRx
        <4> QED
          BY <1>1, <2>1, <3>1, <4>1, Polled DEF PollRx, Status, Connecting, Base
      <3>2. CASE ~PollRx
        BY <1>1, <1>3, <2>1, <3>2 DEF Connecting, Host, WaitIdle, SayReady, WaitReady, Turn, PollTx, AckRx, AckTx,
           SendIt, Done, ReadIt, Plainly, Check
      <3> QED
        BY <3>1, <3>2
    <2> QED
      BY <1>a, <2>2, <2>3
  <1>4. CASE PortFails
    <2>1. slave'.mode # "ready"
      BY <1>4, Fails DEF Base
    <2> QED
      BY <1>1, <1>4, <1>a, <2>1, Fails DEF Base, Asleep
  <1>5. CASE SlaveBoots
    <2>1. slave'.mode # "ready" /\ UNCHANGED <<pc, connected, acked, executed>>
      BY <1>5 DEF SlaveBoots, Base, Shape, SlaveType, host
    <2> QED
      BY <1>1, <1>a, <2>1 DEF Base, Asleep
  <1>6. ~LazySlave /\ \A cmd \in Calls : ~Call(cmd)
    BY <1>1 DEF LazySlave, Call
  <1>7. CASE UNCHANGED vars
    BY <1>1, <1>7, <1>a DEF vars, host
  <1> QED
    BY <1>3, <1>4, <1>5, <1>6, <1>7 DEF Next

\* The same once it is ready, by what the transactions do to the answers.
LEMMA HonestReady ==
  ASSUME Base, Base', Honest, prompt, slave.mode = "ready", Host
  PROVE  Honest'
  <1> USE DEF Base
  <1>1. /\ Counted /\ AnswerUnread /\ Drained
        /\ slave \in SlaveType /\ acked \in Nat /\ executed \in Nat /\ op \in CommandNames \cup {None}
        /\ pc \in Places /\ pc # "idle"
    BY DEF Honest, Shape, Host, WaitIdle, SayReady, WaitReady, PollRx, PollTx, AckRx, AckTx, SendIt, Done,
       ReadIt, Plainly, Check
  <1>2. pc # "poll_rx" => ~Selected(slave)
    BY <1>1 DEF Deselected
  <1> DEFINE After(t) == Transacted(t, slave)
             r == slave'
  \* The counts, in a transaction that acknowledges nothing.
  <1>3. ASSUME NEW t, Sound(t), Transaction(t), t.kind # "CMD8", acked' = acked
        PROVE  Counted'
    BY <1>1, <1>3, CountTransaction, CountTypes DEF Counted
  \* What every transaction leaves behind.
  <1>4. ASSUME NEW t, Sound(t), Transaction(t)
        PROVE  /\ slave' = Settled(After(t)) /\ After(t) \in SlaveType /\ After(t).mode = "ready"
               /\ ~Pending(slave')
               /\ slave'.TXSTA = InitState => slave.TXSTA = InitState
               /\ ~slave'.free => slave'.TXSTA # InitState
    <2>1. ~slave.free => slave.TXSTA # InitState
      BY <1>1 DEF Drained
    <2> QED
      BY <1>1, <1>4, <2>1, SlaveOf, TransactedType, DrainedTransaction
  <1>5. ASSUME NEW t, Sound(t), Transaction(t), connected' => connected \/ ~slave.free,
               pc' = "send" => ~Takes(slave')
        PROVE  Drained'
    BY <1>1, <1>4, <1>5 DEF Drained
  <1>6. CASE WaitIdle \/ SayReady \/ WaitReady \/ AckRx
    <2>1. PICK t : Sound(t) /\ Transaction(t) /\ t.kind # "CMD8"
      BY <1>6, Transfers DEF WaitIdle, SayReady, WaitReady, AckRx, Plainly, Read, Write, Transfer
    <2>2. UNCHANGED <<acked, connected>> /\ pc' \in Connecting
      BY <1>6 DEF Connecting, WaitIdle, SayReady, WaitReady, AckRx, Plainly, Turn
    <2>3. AnswerUnread' /\ pc' # "send"
      BY <2>2 DEF AnswerUnread, Connecting
    <2> QED
      BY <1>3, <1>5, <2>1, <2>2, <2>3 DEF Honest
  <1>7. CASE PollRx
    <2> DEFINE t == Read("RXSTA")
               s == After(t)
    <2>1. Sound(t) /\ t.kind = "RDBUF" /\ Transaction(t)
      BY <1>7, Transfers DEF PollRx, Poll, Read, Transfer
    <2>2. UNCHANGED <<acked, connected>> /\ pc' \in {"ack_rx", "poll_rx", "idle", "send"}
      BY <1>7, Polled DEF PollRx
    <2>3. ~Takes(slave')
      <3>1. s.owed = slave.owed /\ s.free = slave.free /\ s.done = slave.done
        BY <1>1, <2>1, TransactedKeeps
      <3>2. s.TXSTA = slave.TXSTA \/ connected
        BY <1>1, <1>2, <1>7, <2>1, ReadsNothing DEF Deselected, PollRx
      <3>3. slave' = Settled(s) /\ s \in SlaveType /\ s.mode = "ready"
        BY <1>4, <2>1
      <3> HIDE DEF s, t
      <3>4. /\ slave'.done = (s.done /\ ~Takes(s))
            /\ slave'.owed = IF Offers(s) THEN None ELSE Owes(s)
            /\ Offers(s) => slave'.free = FALSE
            /\ s.TXSTA = InitState => ~Offers(s)
        BY <3>3, ReadySettles DEF Offers
      <3> SUFFICES ASSUME Takes(slave') PROVE FALSE
        OBVIOUS
      <3>5. ~Takes(s) /\ s.done /\ Owes(s) = s.owed
        BY <3>4 DEF Takes, Owes
      <3>6. s.owed # None
        BY <3>3, <3>5 DEF Takes
      <3>7. Offers(s)
        BY <3>4, <3>5, <3>6 DEF Takes
      <3>8. slave.owed # None /\ slave.free /\ s.TXSTA # InitState
        BY <3>1, <3>5, <3>6, <3>7 DEF Offers
      <3> QED
        BY <1>1, <3>2, <3>8 DEF Drained, Pending
    <2>4. AnswerUnread'
      BY <2>2 DEF AnswerUnread
    <2> QED
      BY <1>3, <1>5, <2>1, <2>2, <2>3, <2>4 DEF Honest
  <1>8. CASE SendIt
    <2> DEFINE t == Transfer("WRDMA", None, op)
               s == After(t)
    <2>1. Sound(t) /\ t.kind = "WRDMA" /\ Transaction(t) /\ UNCHANGED <<acked, connected>> /\ pc' = "done"
      BY <1>8, Transfers DEF SendIt, Plainly, Shape, Transfer
    <2>2. s.buffer # <<>>
      <3>1. s = [slave EXCEPT !.buffer = Append(slave.buffer, op)]
        BY <1>2, <1>8 DEF SendIt, Plainly, Transacted, Taken, Transfer
      <3>2. slave.buffer \in Seq(Payloads) /\ op \in Payloads
        BY <1>1, <1>8 DEF SlaveType, SendIt, Plainly, Shape, Payloads
      <3>3. s.buffer = Append(slave.buffer, op)
        BY <1>1, <3>1 DEF SlaveType
      <3> QED
        BY <3>2, <3>3
    <2>3. ~Takes(s)
      BY <1>1, <1>8, <2>1, TransactedKeeps DEF Drained, Takes, SendIt, Plainly
    <2>4. slave'.buffer # <<>>
      BY <1>4, <2>1, <2>2, <2>3, ReadySettles
    <2>5. AnswerUnread'
      BY <2>1, <2>4 DEF AnswerUnread
    <2> QED
      BY <1>3, <1>5, <2>1, <2>5 DEF Honest
  <1>9. CASE Done
    <2> DEFINE t == Plain("WR_DONE")
               s == After(t)
    <2>1. Sound(t) /\ t.kind = "WR_DONE" /\ Transaction(t) /\ UNCHANGED <<acked, connected>> /\ pc' = "poll_tx"
      BY <1>9, Transfers DEF Done, Plainly, Plain, Transfer
    <2>2. s.done /\ s.TXSTA = slave.TXSTA
      <3>1. s = [slave EXCEPT !.done = slave.buffer # <<>>]
        BY <1>2, <1>9 DEF Done, Plainly, Transacted, Taken, Plain, Transfer
      <3>2. slave.buffer # <<>>
        BY <1>1, <1>9 DEF AnswerUnread, Done, Plainly
      <3> QED
        BY <1>1, <3>1, <3>2 DEF SlaveType
    <2>3. s \in SlaveType /\ s.mode = "ready" /\ slave' = Settled(s)
      BY <1>4, <2>1
    <2> HIDE DEF s, t
    <2>4. Owes(s) # None
      <3>1. CASE Takes(s)
        BY <2>3, <3>1, FirstOfWhole, Names DEF Owes, Payloads
      <3>2. CASE ~Takes(s)
        BY <2>2, <2>3, <3>2 DEF Owes, Takes
      <3> QED
        BY <3>1, <3>2
    <2>5. slave'.free => slave'.owed # None /\ slave'.TXSTA = InitState
      <3>1. /\ slave'.free = (s.free /\ ~Offers(s))
            /\ slave'.owed = IF Offers(s) THEN None ELSE Owes(s)
            /\ ~Offers(s) => slave'.TXSTA = s.TXSTA
        BY <2>3, ReadySettles
      <3> QED
        BY <2>4, <3>1 DEF Offers
    <2>6. AnswerUnread'
      BY <2>1, <2>5 DEF AnswerUnread
    <2> QED
      BY <1>3, <1>5, <2>1, <2>6 DEF Honest, t
  \* A transaction that is not the end of the answer, while there is one.
  <1>10. ASSUME NEW t, Sound(t), Transaction(t), t.kind \notin {"CMD8", "WR_DONE"}, ~slave.free
         PROVE  ~slave'.free /\ slave'.offered = slave.offered
    <2> DEFINE s == After(t)
    <2>1. s.free = slave.free /\ s.offered = slave.offered
      BY <1>1, <1>10, TransactedKeeps
    <2>2. s \in SlaveType /\ s.mode = "ready" /\ slave' = Settled(s)
      BY <1>4, <1>10
    <2> HIDE DEF s
    <2>3. ~Offers(s)
      BY <1>10, <2>1 DEF Offers
    <2> QED
      BY <1>10, <2>1, <2>2, <2>3, ReadySettles
  <1>11. CASE PollTx
    <2> DEFINE t == Read("TXSTA")
    <2>1. Sound(t) /\ t.kind = "RDBUF" /\ Transaction(t) /\ pc = "poll_tx" /\ After(t) = slave
      BY <1>2, <1>11, Transfers, ReadsNothing DEF PollTx, Poll, Read, Transfer
    <2>2. UNCHANGED <<acked, connected>> /\ pc' \in {"ack_tx", "poll_tx", "idle", "read"}
      BY <1>11, Polled DEF PollTx
    <2> HIDE DEF t
    <2>3. AnswerUnread'
      <3>1. slave.free \in BOOLEAN
        BY <1>1 DEF SlaveType
      <3>2. CASE slave.free
        <4>1. slave.owed # None /\ slave.TXSTA = Status(1, 1, 0)
          BY <1>1, <2>1, <3>2 DEF AnswerUnread, InitState
        <4>2. pc' = "ack_tx"
          BY <1>2, <1>11, <2>1, <4>1, Polled DEF PollTx, Status
        <4>3. slave' = Settled(slave)
          BY <1>4, <2>1
        <4>4. ~Offers(slave) /\ Owes(slave) = slave.owed
          BY <4>1 DEF Offers, Owes, Takes, InitState
        <4>5. slave'.owed # None /\ slave'.TXSTA = InitState
          BY <1>1, <4>1, <4>3, <4>4, ReadySettles DEF InitState
        <4> QED
          BY <4>2, <4>5 DEF AnswerUnread
      <3>3. CASE ~slave.free
        <4>1. ~slave'.free
          BY <1>10, <2>1, <3>3
        <4> QED
          BY <2>2, <4>1 DEF AnswerUnread
      <3> QED
        BY <3>2, <3>3
    <2> QED
      BY <1>3, <1>5, <2>1, <2>2, <2>3 DEF Honest
  <1>12. CASE AckTx
    <2> DEFINE t == Write("TXSTA", None)
               s == After(t)
    <2>1. Sound(t) /\ t.kind = "WRBUF" /\ Transaction(t) /\ UNCHANGED <<acked, connected>>
          /\ pc = "ack_tx" /\ pc' = "poll_tx"
      BY <1>12, Transfers DEF AckTx, Plainly, Write, Transfer
    <2>2. s = [slave EXCEPT !.TXSTA = Blank]
      BY <1>2, <2>1 DEF Transacted, Taken, Write, Transfer
    <2>3. s \in SlaveType /\ s.mode = "ready" /\ slave' = Settled(s)
      BY <1>4, <2>1
    <2>4. s.owed = slave.owed /\ s.free = slave.free /\ s.TXSTA = Blank
      BY <1>1, <2>2 DEF SlaveType
    <2> HIDE DEF s, t
    <2>5. ~slave'.free
      <3>1. CASE slave.free
        <4>1. s.owed # None
          BY <1>1, <2>1, <2>4, <3>1 DEF AnswerUnread
        <4>2. Offers(s)
          BY <2>4, <3>1, <4>1 DEF Offers, Owes, Takes, Blank, InitState, Status
        <4> QED
          BY <2>3, <4>2, ReadySettles
      <3>2. CASE ~slave.free
        BY <1>10, <2>1, <3>2
      <3> QED
        BY <3>1, <3>2
    <2>6. AnswerUnread'
      BY <2>1, <2>5 DEF AnswerUnread
    <2> QED
      BY <1>3, <1>5, <2>1, <2>6 DEF Honest
  <1>13. CASE ReadIt
    <2> DEFINE t == Plain("RDDMA")
    <2>1. Sound(t) /\ t.kind = "RDDMA" /\ Transaction(t) /\ UNCHANGED <<acked, connected>>
          /\ pc = "read" /\ pc' = "end" /\ answer' \in Seen(t, slave)
      BY <1>13, Transfers DEF ReadIt, Plainly, Plain, Transfer
    <2>2. answer' = slave.offered
      BY <1>2, <2>1 DEF Seen
    <2> HIDE DEF t
    <2>3. ~slave'.free /\ slave'.offered = slave.offered
      BY <1>1, <1>10, <2>1 DEF AnswerUnread
    <2>4. AnswerUnread'
      BY <2>1, <2>2, <2>3 DEF AnswerUnread
    <2> QED
      BY <1>3, <1>5, <2>1, <2>4 DEF Honest
  <1>14. CASE Check
    <2> DEFINE t == Plain("CMD8")
               s == After(t)
    <2>1. Sound(t) /\ t.kind = "CMD8" /\ Transaction(t) /\ pc = "end" /\ pc' = "idle"
      BY <1>14, Transfers DEF Check, Return, Plain, Transfer
    <2>2. ~slave.free /\ answer = slave.offered
      BY <1>1, <2>1 DEF AnswerUnread
    <2>3. Owed(s) = Owed(slave) /\ Unread(s) = 0
      <3>1. s = [slave EXCEPT !.free = TRUE]
        BY <1>2, <2>1 DEF Transacted, Taken
      <3>2. s.owed = slave.owed /\ s.free
        BY <1>1, <3>1 DEF SlaveType
      <3> HIDE DEF s
      <3> QED
        BY <3>2 DEF Owed, Unread
    <2>4. acked' = acked \/ (acked' = acked + 1 /\ Unread(slave) = 1)
      <3>1. acked' = IF answer = op THEN acked + 1 ELSE acked
        BY <1>14 DEF Check, Return, Accepted
      <3>2. answer = op => slave.offered # Junk
        BY <1>1, <1>14, <2>2, Names DEF Check, Shape, None, Junk
      <3>3. Unread(slave) = 1 \/ answer # op
        BY <2>2, <3>2 DEF Unread
      <3> QED
        BY <3>1, <3>3
    <2>5. Counted'
      <3>1. Unread(slave') + Owed(slave') - executed' <= Unread(s) + Owed(s) - executed /\ executed' \in Nat
        BY <2>1, CountTransaction
      <3> HIDE DEF s
      <3> QED
        BY <1>1, <2>3, <2>4, <3>1, CountTypes DEF Counted
    <2>6. AnswerUnread' /\ pc' # "send"
      BY <2>1 DEF AnswerUnread
    <2> QED
      BY <1>5, <2>1, <2>2, <2>5, <2>6 DEF Honest
  <1> QED
    BY <1>6, <1>7, <1>8, <1>9, <1>11, <1>12, <1>13, <1>14 DEF Host

LEMMA HonestStep ==
  ASSUME Base, Base', Honest, [Next]_vars
  PROVE  Honest'
  <1>1. prompt' = prompt
    BY DEF Next, Host, Connect, Call, WaitIdle, SayReady, WaitReady, PollRx, PollTx, AckRx, AckTx,
       SendIt, Done, ReadIt, Plainly, Check, PortFails, SlaveBoots, LazySlave, Transaction, Poll, vars, host
  <1> SUFFICES ASSUME prompt PROVE Honest'
    BY <1>1 DEF Honest
  <1>2. Counted /\ AnswerUnread /\ Drained
    BY DEF Honest
  <1>3. CASE Connect
    <2>1. slave' = Booting /\ acked' = 0 /\ executed' = 0 /\ ~connected' /\ pc' \in Connecting
      BY <1>3 DEF Connect, Connecting
    <2>2. slave'.owed = None /\ slave'.free
      BY <2>1, BootingType DEF Quiet
    <2>3. Unread(slave') = 0 /\ Owed(slave') = 0
      BY <2>2 DEF Unread, Owed
    <2> QED
      BY <2>1, <2>2, <2>3 DEF Honest, Counted, AnswerUnread, Drained, Pending, Connecting
  <1>4. CASE slave.mode # "ready" /\ ~Connect
    BY <1>4, HonestAsleep
  <1>5. ASSUME slave.mode = "ready", NEW cmd \in Calls, Call(cmd) PROVE Honest'
    BY <1>2, <1>5 DEF Call, Honest, Counted, AnswerUnread, Drained
  <1>6. CASE slave.mode = "ready" /\ Host
    BY <1>6, HonestReady
  <1>7. CASE slave.mode = "ready" /\ PortFails
    <2>1. /\ slave'.owed = slave.owed /\ slave'.free = slave.free /\ slave'.offered = slave.offered
          /\ pc' = "idle" /\ UNCHANGED <<acked, executed, connected>>
      BY <1>7, Fails DEF Base
    <2>2. slave'.TXSTA = slave.TXSTA \/ (slave'.TXSTA = Status(0, 1, 0) /\ slave.TXSTA # InitState)
      <3>1. CASE ~Selected(slave)
        <4> DEFINE t == NextTransfer[pc]
        <4> HIDE DEF t
        <4>1. slave'.TXSTA = slave.TXSTA
          BY <1>7, <3>1 DEF PortFails, Base, Shape, SlaveType
        <4> QED
          BY <4>1
      <3>2. CASE Selected(slave)
        <4>1. slave' \in {slave, Absorbed(slave)}
          BY <1>7, <3>2 DEF PortFails
        <4>2. Absorbed(slave).TXSTA = slave.TXSTA \/ Absorbed(slave).TXSTA = Status(0, 1, 0)
          BY DEF Absorbed, Base, Shape, SlaveType
        <4>3. slave.TXSTA # InitState
          BY <1>2, <1>7, <3>2 DEF Base, Deselected, Drained, PortFails
        <4> QED
          BY <4>1, <4>2, <4>3
      <3> QED
        BY <3>1, <3>2
    <2>3. Status(0, 1, 0) # InitState
      BY DEF Status, InitState
    <2>4. Unread(slave') = Unread(slave) /\ Owed(slave') = Owed(slave)
      BY <2>1 DEF Unread, Owed
    <2> QED
      BY <1>2, <2>1, <2>2, <2>3, <2>4 DEF Honest, Counted, AnswerUnread, Drained, Pending
  <1>8. CASE UNCHANGED vars
    BY <1>2, <1>8 DEF vars, host, Honest, Counted, AnswerUnread, Drained
  <1> QED
    BY <1>3, <1>4, <1>5, <1>6, <1>7, <1>8 DEF Next, SlaveBoots, LazySlave

\* A prompt target has executed at least as many commands of the session as
\* check_response has returned SUCCESS for, whatever port calls have failed.
THEOREM SpiAcknowledged == Spec => []AcknowledgedWereExecuted
  <1>1. Init => Honest
    <2> SUFFICES ASSUME Init PROVE Honest
      OBVIOUS
    <2>1. slave.owed = None /\ slave.free /\ pc = "idle" /\ ~connected /\ acked = 0 /\ executed = 0
      BY BootingType DEF Init, Quiet
    <2>2. Unread(slave) = 0 /\ Owed(slave) = 0
      BY <2>1 DEF Unread, Owed
    <2> QED
      BY <2>1, <2>2 DEF Honest, Counted, AnswerUnread, Drained, Pending
  <1>2. Base /\ Base' /\ Honest /\ [Next]_vars => Honest'
    BY HonestStep
  <1>3. Base /\ Honest => AcknowledgedWereExecuted
    BY CountTypes DEF Base, Shape, Honest, Counted, AcknowledgedWereExecuted
  <1> QED
    BY <1>1, <1>2, <1>3, BaseAlways, PTL DEF Spec
-----------------------------------------------------------------------------
(* Without failures of the port *)

\* A command is written only behind an announcement it fits in.
Announced ==
  faults = 0 =>
    /\ slave.RXSTA.len \in {0, BufferSize}
    /\ pc \in {"send", "done", "poll_tx", "ack_tx", "read", "end"} => Size(op) <= BufferSize
    /\ pc = "send" => slave.RXSTA.len = BufferSize

\* A command that asks for data does not get as far as the bus.
Asked == pc \notin {"idle", "wait_idle", "say_ready"} => ~HasAnswerData(op)

\* The announcement of the buffer is the initial one, or that of a free buffer;
\* TXSTA is the initial one or that of an answer the target has given.
Announces(s) == s.RXSTA = InitState \/ s.RXSTA.len = BufferSize
Answered(s)  == s.TXSTA.len = AnswerSize(0) /\ (s.TXSTA.init = 1 => s.TXSTA.toggle = 0)

\* Where the target is while the host is at each place: its answer is new to
\* the host from the end of the command until the host has read TXSTA.
InStep ==
  /\ ~slave.done
  /\ slave.buffer = IF pc = "done" THEN <<op>> ELSE <<>>
  /\ slave.mode = "ready" => Announces(slave)
  /\ pc \in {"poll_tx", "ack_tx"} =>
       IF slave.free THEN slave.owed = op /\ slave.TXSTA = InitState
       ELSE /\ pc = "poll_tx" /\ slave.owed = None /\ slave.offered = op
            /\ Answered(slave) /\ IsNew(slave.TXSTA, seqTx)
  /\ pc \notin {"poll_tx", "ack_tx"} =>
       /\ slave.owed = None
       /\ IF pc \in {"read", "end"} THEN ~slave.free /\ slave.offered = op ELSE slave.free
       /\ slave.mode = "ready" =>
            slave.TXSTA = InitState \/ (Answered(slave) /\ slave.TXSTA.toggle = seqTx)

\* A target that was in time when it was told READY is ready.
Ready == ~missed /\ op # None => slave.mode = "ready"

Clean == prompt /\ faults = 0 => InStep /\ Ready /\ CleanCallsWork

LEMMA SettledRx ==
  ASSUME NEW s \in SlaveType
  PROVE  LET r == Settled(s) IN
         /\ s.RXSTA.len \in {0, BufferSize} => r.RXSTA.len \in {0, BufferSize}
         /\ s.mode = "ready" =>
              /\ s.RXSTA.len = BufferSize => r.RXSTA.len = BufferSize
              /\ Announces(s) \/ s.RXSTA = Blank => Announces(r)
  <1> DEFINE a == SeesReady(s)
             b == OffersFirst(a)
             c == Works(b)
             d == Publishes(c)
  <1>1. InitState.len = 0 /\ Status(1, 0, BufferSize).len = BufferSize
    BY DEF InitState, Status
  <1>2. a \in SlaveType /\ b \in SlaveType /\ c \in SlaveType
    BY WakesType, OffersType, WorksType
  <1>3. /\ s.RXSTA.len \in {0, BufferSize} => d.RXSTA.len \in {0, BufferSize}
        /\ s.mode = "ready" => (s.RXSTA.len = BufferSize => d.RXSTA.len = BufferSize)
    <2>1. /\ (s.mode = "ready" => a.mode = "ready")
          /\ a.RXSTA = s.RXSTA \/ a.RXSTA.len = BufferSize \/ (s.mode # "ready" /\ a.RXSTA = InitState)
      BY EachStep
    <2>2. /\ (a.mode = "ready" => b.mode = "ready")
          /\ b.RXSTA = a.RXSTA \/ b.RXSTA.len = BufferSize \/ (a.mode # "ready" /\ b.RXSTA = InitState)
      BY <1>2, EachStep
    <2>3. /\ (b.mode = "ready" => c.mode = "ready")
          /\ c.RXSTA = b.RXSTA \/ c.RXSTA.len = BufferSize \/ (b.mode # "ready" /\ c.RXSTA = InitState)
      BY <1>2, EachStep
    <2>4. d.RXSTA = c.RXSTA \/ d.RXSTA.len = BufferSize \/ (c.mode # "ready" /\ d.RXSTA = InitState)
      BY <1>2, EachStep
    <2> HIDE DEF a, b, c, d
    <2> QED
      BY <1>1, <2>1, <2>2, <2>3, <2>4
  <1>4. s.mode = "ready" /\ (Announces(s) \/ s.RXSTA = Blank) => Announces(Settled(s))
    <2> SUFFICES ASSUME s.mode = "ready", Announces(s) \/ s.RXSTA = Blank PROVE Announces(Settled(s))
      OBVIOUS
    <2>1. CASE Takes(s)
      BY <2>1, ReadySettles DEF Announces
    <2>2. CASE ~Takes(s)
      <3>1. Settled(s).RXSTA = OffersFirst(s).RXSTA
        BY <2>2, ReadySettles
      <3>2. OffersFirst(s).RXSTA = IF s.RXSTA = Blank THEN Status(1, 0, BufferSize) ELSE s.RXSTA
        BY DEF OffersFirst, SlaveType
      <3> QED
        BY <1>1, <3>1, <3>2 DEF Announces
    <2> QED
      BY <2>1, <2>2
  <1> QED
    BY <1>3, <1>4 DEF Settled

LEMMA TakenRx ==
  ASSUME NEW s \in SlaveType, NEW t, Sound(t)
  PROVE  \/ Taken(t, s).RXSTA = s.RXSTA
         \/ Taken(t, s).RXSTA = Blank /\ t.kind = "WRBUF" /\ t.reg = "RXSTA"
  <1>1. CASE t.kind = "WRBUF"
    <2>1. Taken(t, s) = [s EXCEPT ![t.reg] = IF t.reg = "CMD" THEN t.value ELSE Blank]
      BY <1>1 DEF Taken
    <2>2. t.reg \in {"CMD", "RXSTA", "TXSTA"}
      BY <1>1 DEF Sound, TransferType
    <2> QED
      BY <1>1, <2>1, <2>2 DEF SlaveType
  <1>2. CASE t.kind # "WRBUF"
    BY <1>2 DEF Taken, SlaveType
  <1> QED
    BY <1>1, <1>2

LEMMA AskedStep ==
  ASSUME Base, Asked, [Next]_vars
  PROVE  Asked'
  <1>1. CASE PollRx
    BY <1>1, Polled DEF PollRx, Base, Asked, HasAnswerData
  <1>2. CASE PollTx
    BY <1>2, Polled DEF PollTx, Base, Asked, HasAnswerData
  <1>3. CASE WaitIdle \/ SayReady \/ WaitReady \/ AckRx \/ AckTx \/ SendIt \/ Done \/ ReadIt \/ Check
    BY <1>3 DEF WaitIdle, SayReady, WaitReady, Turn, AckRx, AckTx, SendIt, Done, ReadIt, Plainly, Check, Return,
       Asked, HasAnswerData
  <1>4. CASE Connect \/ PortFails \/ SlaveBoots \/ LazySlave \/ UNCHANGED vars
    BY <1>4 DEF Connect, PortFails, SlaveBoots, LazySlave, vars, host, Asked, HasAnswerData
  <1>5. ASSUME NEW cmd \in Calls, Call(cmd) PROVE Asked'
    BY <1>5 DEF Call, Asked, HasAnswerData
  <1> QED
    BY <1>1, <1>2, <1>3, <1>4, <1>5 DEF Next, Host

LEMMA AnnouncedStep ==
  ASSUME Base, Base', Announced, [Next]_vars
  PROVE  Announced'
  <1> USE DEF Base
  <1> DEFINE Sending == {"send", "done", "poll_tx", "ack_tx", "read", "end"}
             Lengths == {0, BufferSize}
  <1>0. slave \in SlaveType /\ faults \in Nat /\ op \in CommandNames \cup {None}
    BY DEF Shape
  <1>1. CASE Connect
    <2>1. slave'.RXSTA.len = 0 /\ pc' \notin Sending
      BY <1>1, BootingType DEF Connect, Quiet, Blank, Status
    <2> QED
      BY <2>1 DEF Announced
  <1>2. ASSUME NEW cmd \in Calls, Call(cmd) PROVE Announced'
    BY <1>2 DEF Call, Announced
  <1>3. CASE PortFails
    BY <1>0, <1>3, Fails DEF Announced
  <1>4. CASE SlaveBoots
    <2>1. slave'.RXSTA = slave.RXSTA /\ UNCHANGED <<pc, op, faults>>
      BY <1>0, <1>4 DEF SlaveBoots, SlaveType, host
    <2> QED
      BY <2>1 DEF Announced
  <1>5. CASE LazySlave
    <2>1. UNCHANGED <<pc, op, faults>>
      BY <1>5 DEF LazySlave, host
    <2>2. /\ slave'.RXSTA = slave.RXSTA \/ slave'.RXSTA.len = BufferSize
             \/ (slave.mode # "ready" /\ slave'.RXSTA = InitState)
      BY <1>0, <1>5, EachStep DEF LazySlave
    <2>3. slave.mode # "ready" => pc \notin Sending
      BY DEF Asleep, Connecting
    <2>4. InitState.len = 0
      BY DEF InitState, Status
    <2> QED
      BY <2>1, <2>2, <2>3, <2>4 DEF Announced
  <1>6. CASE UNCHANGED vars
    BY <1>6 DEF vars, host, Announced
  <1>7. CASE Host
    <2>1. PICK t : Sound(t) /\ Transaction(t) /\ (pc = "poll_rx" => t = Read("RXSTA"))
      BY <1>7, Transfers, Polled DEF Shape, Host, WaitIdle, SayReady, WaitReady, PollRx, PollTx,
         AckRx, AckTx, SendIt, Done, ReadIt, Plainly, Check, Poll
    <2> SUFFICES ASSUME faults' = 0 PROVE Announced'
      BY DEF Announced
    <2>2. faults = 0 /\ ~Selected(slave) /\ slave.RXSTA.len \in Lengths
      BY <2>1 DEF Transaction, Deselected, Announced
    <2> DEFINE s == Taken(t, slave)
    <2>3. slave' = (IF prompt THEN Settled(s) ELSE s) /\ s \in SlaveType /\ s.mode = slave.mode
      BY <1>0, <2>1, <2>2, SlaveOf, TransactedType, TakenType
    <2>4. s.RXSTA.len \in Lengths
      BY <1>0, <2>1, <2>2, TakenRx DEF Blank, Status
    <2>5. slave'.RXSTA.len \in Lengths
      BY <2>3, <2>4, SettledRx
    <2>6. CASE PollRx
      <3>1. UNCHANGED op /\ pc' \in {"ack_rx", "poll_rx", "idle", "send"}
        BY <2>6, Polled DEF PollRx
      <3>2. ASSUME pc' = "send"
            PROVE  ~(Size(op) > slave.RXSTA.len)
        BY <2>2, <2>6, <3>2, Polled DEF PollRx
      <3>3. Size(op) \in Nat /\ Size(op) > 0
        BY <1>0, <2>6, Sizes DEF PollRx, Shape
      <3>4. pc' = "send" => slave.RXSTA.len = BufferSize /\ Size(op) <= BufferSize /\ slave.mode = "ready"
        <4> SUFFICES ASSUME pc' = "send"
                     PROVE  slave.RXSTA.len = BufferSize /\ Size(op) <= BufferSize /\ slave.mode = "ready"
          OBVIOUS
        <4>1. BufferSize \in Nat
          BY SizesAssumption
        <4>2. slave.RXSTA.len # 0 /\ slave.RXSTA.len = BufferSize
          BY <2>2, <3>2, <3>3
        <4>3. Blank.len = 0
          BY DEF Blank, Status
        <4>4. slave.mode = "ready"
          BY <4>2, <4>3 DEF Asleep, Quiet
        <4> QED
          BY <3>2, <3>3, <4>1, <4>2, <4>4
      <3>5. s = slave
        BY <2>1, <2>6 DEF PollRx, Taken, Read, Transfer
      <3>6. pc' = "send" => slave'.RXSTA.len = BufferSize
        BY <2>3, <3>4, <3>5, SettledRx
      <3> QED
        BY <2>5, <3>1, <3>4, <3>6 DEF Announced
    <2>7. CASE ~PollRx
      <3>1. pc' # "send" /\ (pc' \in Sending => pc \in Sending /\ UNCHANGED op)
        <4>1. CASE PollTx
          BY <4>1, Polled DEF PollTx
        <4>2. CASE ~PollTx
          BY <1>7, <2>7, <4>2 DEF Host, WaitIdle, SayReady, WaitReady, Turn, AckRx, AckTx, SendIt, Done,
             ReadIt, Plainly, Check, Return
        <4> QED
          BY <4>1, <4>2
      <3> QED
        BY <2>2, <2>5, <3>1 DEF Announced
    <2> QED
      BY <2>6, <2>7
  <1> QED
    BY <1>1, <1>2, <1>3, <1>4, <1>5, <1>6, <1>7 DEF Next

\* A target that has nothing to answer only announces its buffer.
LEMMA RestingSettles ==
  ASSUME NEW s \in SlaveType, s.mode = "ready", ~s.done, s.owed = None
  PROVE  LET r == Settled(s) IN
         /\ r.mode = "ready" /\ ~r.done /\ r.owed = None
         /\ r.buffer = s.buffer /\ r.offered = s.offered /\ r.free = s.free /\ r.TXSTA = s.TXSTA
  <1>1. ~Takes(s) /\ ~Offers(s) /\ Owes(s) = None
    BY DEF Takes, Offers, Owes
  <1>2. s.free \in BOOLEAN
    BY DEF SlaveType
  <1> QED
    BY <1>1, <1>2, ReadySettles

\* A target that was in time is ready with the transaction that says READY.
LEMMA CleanAsleep ==
  ASSUME Base, Clean, prompt, faults = 0, faults' = 0, slave.mode # "ready", [Next]_vars, ~Connect
  PROVE  InStep' /\ Ready' /\ CleanCallsWork'
  <1> USE DEF Base
  <1>1. Quiet(slave) /\ ~connected /\ pc \in Connecting /\ ~Selected(slave) /\ slave \in SlaveType
    BY DEF Asleep, Deselected, Shape
  <1>2. Ready
    BY DEF Clean
  <1>3. ASSUME (Quiet(slave') /\ slave'.mode # "ready") \/ Woken(slave'), pc' \in Connecting
        PROVE  InStep'
    BY <1>3 DEF InStep, Quiet, Woken, Connecting, Announces
  <1>4. CASE SayReady
    <2> DEFINE t == Write("CMD", "READY")
    <2>1. Sound(t) /\ Transaction(t) /\ t.kind = "WRBUF" /\ t.reg = "CMD" /\ pc' \in {"poll_rx", "wait_ready"}
      BY <1>4, Transfers DEF SayReady, Write, Transfer
    <2>2. (Quiet(slave') /\ slave'.mode # "ready") \/ Woken(slave')
      BY <1>1, <2>1, QuietTransaction
    <2>3. Ready'
      <3> SUFFICES ASSUME ~missed' PROVE slave'.mode = "ready"
        BY DEF Ready
      <3> DEFINE s == Transacted(t, slave)
      <3>1. slave.mode = "idle"
        BY <1>4 DEF SayReady
      <3>2. s = [slave EXCEPT !.CMD = "READY"]
        BY <1>1 DEF Transacted, Taken, Write, Transfer
      <3>3. s \in SlaveType /\ Quiet(s) /\ s.mode = "idle" /\ s.CMD = "READY"
        BY <1>1, <3>1, <3>2 DEF SlaveType, Quiet
      <3>4. slave' = Settled(s)
        BY <2>1, SlaveOf
      <3> HIDE DEF s
      <3> QED
        BY <3>3, <3>4, QuietSettles, QuietWakes DEF Woken
    <2> QED
      BY <1>3, <2>1, <2>2, <2>3 DEF Connecting, CleanCallsWork
  <1>5. CASE WaitIdle \/ WaitReady \/ PollRx
    <2>1. PICK reg \in {"CMD", "RXSTA"} : Transaction(Read(reg)) /\ Sound(Read(reg))
      BY <1>5, Transfers DEF WaitIdle, WaitReady, PollRx, Poll
    <2>2. (Quiet(slave') /\ slave'.mode # "ready") \/ Woken(slave')
      BY <1>1, <2>1, QuietTransaction DEF Read, Transfer
    <2>3. UNCHANGED <<op, missed>>
      BY <1>5 DEF WaitIdle, WaitReady, PollRx
    <2>4. pc' \in Connecting
      <3>1. CASE PollRx
        <4>1. slave.RXSTA = Status(0, 0, 0) /\ Size(op) > 0 /\ Size(op) \in Nat
          BY <1>1, <3>1, Sizes DEF Quiet, Blank, Shape, PollRx
        <4> QED
          BY <1>1, <3>1, <4>1, Polled DEF PollRx, Status, Connecting
      <3>2. CASE WaitIdle \/ WaitReady
        BY <3>2 DEF WaitIdle, WaitReady, Turn, Connecting
      <3> QED
        BY <1>5, <3>1, <3>2
    <2> QED
      BY <1>2, <1>3, <2>2, <2>3, <2>4 DEF Ready, CleanCallsWork
  <1>6. CASE SlaveBoots \/ UNCHANGED vars
    <2>1. slave'.mode # "ready" /\ Quiet(slave') /\ UNCHANGED <<pc, op, missed>>
      BY <1>1, <1>6 DEF SlaveBoots, vars, host, SlaveType, Quiet
    <2> QED
      BY <1>1, <1>2, <1>3, <2>1 DEF Ready, CleanCallsWork
  <1>7. ~PortFails /\ ~LazySlave /\ \A cmd \in Calls : ~Call(cmd)
    <2>1. PortFails => faults' = faults + 1
      BY DEF PortFails
    <2>2. ~LazySlave
      BY DEF LazySlave
    <2>3. ~PortFails
      <3> HIDE DEF PortFails
      <3> QED
        BY <2>1
    <2> QED
      BY <1>1, <2>2, <2>3 DEF Call
  <1>8. ~(PollTx \/ AckRx \/ AckTx \/ SendIt \/ Done \/ ReadIt \/ Check)
    BY <1>1 DEF Connecting, PollTx, AckRx, AckTx, SendIt, Done, ReadIt, Check, Plainly
  <1> QED
    BY <1>4, <1>5, <1>6, <1>7, <1>8 DEF Next, Host

LEMMA CleanReady ==
  ASSUME Base, Clean, Honest, Asked, Announced, prompt, faults = 0, slave.mode = "ready", Host
  PROVE  InStep' /\ slave'.mode = "ready" /\ (pc' = "idle" => CleanCallsWork')
  <1> USE DEF Base
  <1>1. /\ InStep /\ slave \in SlaveType /\ ~Selected(slave) /\ op \in CommandNames \cup {None}
        /\ seqTx \in 0..1 /\ pc \in Places
    BY DEF Clean, Shape, Deselected
  <1>2. ASSUME NEW t, Sound(t), Transaction(t)
        PROVE  LET s == Taken(t, slave) IN
               slave' = Settled(s) /\ s \in SlaveType /\ s.mode = "ready" /\ slave'.mode = "ready"
    <2> DEFINE s == Taken(t, slave)
    <2>1. Transacted(t, slave) = s
      BY <1>1 DEF Transacted
    <2>2. slave' = Settled(s)
      BY <1>2, <2>1, SlaveOf
    <2>3. s \in SlaveType /\ s.mode = "ready"
      BY <1>1, <1>2, TakenType
    <2> QED
      BY <2>2, <2>3, ReadySettles
  \* A transaction outside of the answer.
  <1>3. ASSUME NEW t, Sound(t), Transaction(t), NEW s, s = Taken(t, slave),
               ~s.done, s.owed = None, s.free,
               s.TXSTA = InitState \/ (Answered(s) /\ s.TXSTA.toggle = seqTx'),
               Announces(s) \/ s.RXSTA = Blank,
               s.buffer = IF pc' = "done" THEN <<op'>> ELSE <<>>,
               pc' \notin {"poll_tx", "ack_tx", "read", "end"}
        PROVE  InStep'
    <2>1. slave' = Settled(s) /\ s \in SlaveType /\ s.mode = "ready"
      BY <1>2, <1>3
    <2>2. /\ ~slave'.done /\ slave'.owed = None
          /\ slave'.buffer = s.buffer /\ slave'.free /\ slave'.TXSTA = s.TXSTA
      BY <1>3, <2>1, RestingSettles
    <2>3. Announces(slave')
      BY <1>3, <2>1, SettledRx
    <2> QED
      BY <1>3, <2>2, <2>3 DEF InStep, Answered
  <1>4. CASE WaitIdle \/ WaitReady
    <2>1. Transaction(Read("CMD")) /\ Sound(Read("CMD")) /\ Taken(Read("CMD"), slave) = slave
      BY <1>4, Transfers DEF WaitIdle, WaitReady, Taken, Read, Transfer
    <2>2. pc' \in {"wait_idle", "say_ready", "wait_ready", "poll_rx"} /\ UNCHANGED <<op, seqTx>>
      BY <1>4 DEF WaitIdle, WaitReady, Turn
    <2>3. pc \in {"wait_idle", "wait_ready"}
      BY <1>4 DEF WaitIdle, WaitReady
    <2>4. InStep'
      BY <1>1, <1>3, <2>1, <2>2, <2>3 DEF InStep
    <2> QED
      BY <1>2, <2>1, <2>2, <2>4
  <1>5. CASE SayReady
    <2> DEFINE t == Write("CMD", "READY")
               s == Taken(t, slave)
    <2>1. Transaction(t) /\ Sound(t) /\ pc = "say_ready" /\ pc' \in {"wait_ready", "poll_rx"} /\ seqTx' = seqTx
      BY <1>5, Transfers DEF SayReady
    <2>2. s = [slave EXCEPT !.CMD = "READY"]
      BY DEF Taken, Write, Transfer
    <2>3. /\ s.done = slave.done /\ s.owed = slave.owed /\ s.free = slave.free /\ s.TXSTA = slave.TXSTA
          /\ s.RXSTA = slave.RXSTA /\ s.buffer = slave.buffer
      BY <1>1, <2>2 DEF SlaveType
    <2> HIDE DEF s, t
    <2>4. ~s.done /\ s.owed = None /\ s.free /\ Announces(s) /\ s.buffer = <<>>
          /\ (s.TXSTA = InitState \/ (Answered(s) /\ s.TXSTA.toggle = seqTx'))
      BY <1>1, <2>1, <2>3 DEF InStep, Announces, Answered
    <2>5. s = Taken(t, slave)
      BY DEF s
    <2>6. InStep'
      BY <1>3, <2>1, <2>4, <2>5
    <2> QED
      BY <1>2, <2>1, <2>6
  <1>6. CASE PollRx
    <2> DEFINE t == Read("RXSTA")
    <2>1. Transaction(t) /\ Sound(t) /\ Taken(t, slave) = slave /\ pc = "poll_rx"
      BY <1>6, Transfers DEF PollRx, Poll, Taken, Read, Transfer
    <2>2. pc' \in {"ack_rx", "poll_rx", "idle", "send"} /\ UNCHANGED <<op, seqTx>>
      BY <1>6, Polled DEF PollRx
    <2>3. InStep'
      BY <1>1, <1>3, <2>1, <2>2 DEF InStep
    <2>4. ASSUME pc' = "idle"
          PROVE  result' = "INVALID_PARAM" /\ Size(op) > BufferSize
      <3>1. /\ result' = "INVALID_PARAM" /\ Size(op) > slave.RXSTA.len
            /\ ~(slave.RXSTA.init = 1 /\ slave.RXSTA.toggle = 1)
        BY <1>1, <1>6, <2>4, Polled DEF PollRx
      <3>2. slave.RXSTA # InitState
        BY <3>1 DEF InitState, Status
      <3> QED
        BY <1>1, <3>1, <3>2 DEF InStep, Announces
    <2> HIDE DEF t
    <2> QED
      BY <1>2, <2>1, <2>2, <2>3, <2>4 DEF CleanCallsWork
  <1>7. CASE AckRx
    <2> DEFINE t == Write("RXSTA", None)
               s == Taken(t, slave)
    <2>1. Transaction(t) /\ Sound(t) /\ pc = "ack_rx" /\ pc' = "poll_rx" /\ seqTx' = seqTx
      BY <1>7, Transfers DEF AckRx, Plainly
    <2>2. s = [slave EXCEPT !.RXSTA = Blank]
      BY DEF Taken, Write, Transfer
    <2>3. /\ s.done = slave.done /\ s.owed = slave.owed /\ s.free = slave.free /\ s.TXSTA = slave.TXSTA
          /\ s.RXSTA = Blank /\ s.buffer = slave.buffer
      BY <1>1, <2>2 DEF SlaveType
    <2> HIDE DEF s, t
    <2>4. ~s.done /\ s.owed = None /\ s.free /\ s.buffer = <<>>
          /\ (s.TXSTA = InitState \/ (Answered(s) /\ s.TXSTA.toggle = seqTx'))
      BY <1>1, <2>1, <2>3 DEF InStep, Answered
    <2>5. s = Taken(t, slave)
      BY DEF s
    <2>6. InStep'
      BY <1>3, <2>1, <2>3, <2>4, <2>5
    <2> QED
      BY <1>2, <2>1, <2>6
  <1>8. CASE SendIt
    <2> DEFINE t == Transfer("WRDMA", None, op)
               s == Taken(t, slave)
    <2>1. Transaction(t) /\ Sound(t) /\ pc = "send" /\ pc' = "done" /\ UNCHANGED <<op, seqTx>>
      BY <1>8, Transfers DEF SendIt, Plainly, Shape
    <2>2. s = [slave EXCEPT !.buffer = Append(slave.buffer, op)]
      BY DEF Taken, Transfer
    <2>3. slave.buffer = <<>>
      BY <1>1, <2>1 DEF InStep
    <2>4. Append(slave.buffer, op) = <<op>>
      BY <2>3
    <2>5. /\ s.done = slave.done /\ s.owed = slave.owed /\ s.free = slave.free /\ s.TXSTA = slave.TXSTA
          /\ s.RXSTA = slave.RXSTA /\ s.buffer = <<op>>
      BY <1>1, <2>2, <2>4 DEF SlaveType
    <2> HIDE DEF s, t
    <2>6. ~s.done /\ s.owed = None /\ s.free /\ Announces(s)
          /\ (s.TXSTA = InitState \/ (Answered(s) /\ s.TXSTA.toggle = seqTx'))
      BY <1>1, <2>1, <2>5 DEF InStep, Announces, Answered
    <2>7. s = Taken(t, slave)
      BY DEF s
    <2>8. InStep'
      BY <1>3, <2>1, <2>5, <2>6, <2>7
    <2> QED
      BY <1>2, <2>1, <2>8
  <1>9. CASE Done
    <2> DEFINE t == Plain("WR_DONE")
               s == Taken(t, slave)
    <2>1. Transaction(t) /\ Sound(t) /\ pc = "done" /\ pc' = "poll_tx" /\ UNCHANGED <<op, seqTx>>
      BY <1>9, Transfers DEF Done, Plainly
    <2>2. /\ slave.buffer = <<op>> /\ slave.owed = None /\ slave.free /\ Announces(slave)
          /\ slave.TXSTA = InitState \/ (Answered(slave) /\ slave.TXSTA.toggle = seqTx)
      BY <1>1, <2>1 DEF InStep
    <2>3. s = [slave EXCEPT !.done = TRUE]
      <3>1. s = [slave EXCEPT !.done = slave.buffer # <<>>]
        BY DEF Taken, Plain, Transfer
      <3>2. (slave.buffer # <<>>) = TRUE
        BY <2>2
      <3> QED
        BY <3>1, <3>2
    <2>4. /\ s.done /\ s.owed = slave.owed /\ s.free = slave.free /\ s.TXSTA = slave.TXSTA
          /\ s.RXSTA = slave.RXSTA /\ s.buffer = <<op>>
      BY <1>1, <2>2, <2>3 DEF SlaveType
    <2>5. slave' = Settled(s) /\ s \in SlaveType /\ s.mode = "ready" /\ slave'.mode = "ready"
      BY <1>2, <2>1
    <2> HIDE DEF s, t
    <2>6. op \in CommandNames /\ op # None /\ op # Junk
      BY <1>1, <2>1, Names DEF Shape, Payloads
    <2>7. Takes(s) /\ Owes(s) = op
      BY <2>2, <2>4, <2>5, <2>6 DEF Takes, Owes, Whole
    <2>8. Announces(slave')
      BY <2>2, <2>4, <2>5, SettledRx DEF Announces
    <2>9. ~slave'.done /\ slave'.buffer = <<>>
      BY <2>5, <2>7, ReadySettles
    <2>10. CASE slave.TXSTA = InitState
      <3>1. ~Offers(s)
        BY <2>4, <2>10 DEF Offers
      <3>2. slave'.free /\ slave'.owed = op /\ slave'.TXSTA = InitState
        BY <2>2, <2>4, <2>5, <2>7, <2>10, <3>1, ReadySettles
      <3> QED
        BY <2>1, <2>5, <2>8, <2>9, <3>2 DEF InStep
    <2>11. CASE slave.TXSTA # InitState
      <3>1. Offers(s)
        BY <2>2, <2>4, <2>6, <2>7, <2>11 DEF Offers
      <3>2. Answered(slave) /\ slave.TXSTA.toggle = seqTx /\ slave.TXSTA # Blank
        BY <2>2, <2>11, Sizes DEF Answered, Blank, Status
      <3>3. ~slave'.free /\ slave'.owed = None /\ slave'.offered = op
            /\ slave'.TXSTA = Status(0, 1 - seqTx, AnswerSize(0))
        <4>1. ~slave'.free /\ slave'.owed = None /\ slave'.offered = Owes(s)
              /\ slave'.TXSTA = IF s.TXSTA = Blank THEN Status(1, 0, AnswerSize(0))
                                ELSE Status(0, 1 - s.TXSTA.toggle, AnswerSize(0))
          BY <2>5, <3>1, ReadySettles
        <4> QED
          BY <2>4, <2>7, <3>2, <4>1
      <3>4. Answered(slave') /\ IsNew(slave'.TXSTA, seqTx)
        BY <1>1, <3>3 DEF Answered, IsNew, Status
      <3> QED
        BY <2>1, <2>5, <2>8, <2>9, <3>3, <3>4 DEF InStep
    <2> QED
      BY <2>10, <2>11
  <1>10. CASE PollTx
    <2> DEFINE t == Read("TXSTA")
    <2>1. Transaction(t) /\ Sound(t) /\ Taken(t, slave) = slave /\ pc = "poll_tx"
      BY <1>10, Transfers DEF PollTx, Poll, Taken, Read, Transfer
    <2>2. slave' = Settled(slave) /\ slave'.mode = "ready" /\ op' = op
      BY <1>2, <1>10, <2>1 DEF PollTx
    <2>3. ~slave.done /\ slave.buffer = <<>> /\ Announces(slave)
      BY <1>1, <2>1 DEF InStep
    <2>4. Announces(slave')
      BY <2>2, <2>3, <1>1, SettledRx
    <2> HIDE DEF t
    <2>5. CASE slave.free
      <3>1. slave.owed = op /\ slave.TXSTA = Status(1, 1, 0)
        BY <1>1, <2>1, <2>5 DEF InStep, InitState
      <3>2. pc' = "ack_tx"
        BY <1>1, <1>10, <3>1, Polled DEF PollTx, Status
      <3>3. ~Takes(slave) /\ ~Offers(slave) /\ Owes(slave) = op
        BY <2>3, <3>1 DEF Takes, Offers, Owes, InitState
      <3>4. slave'.free /\ slave'.owed = op /\ slave'.TXSTA = InitState /\ ~slave'.done /\ slave'.buffer = <<>>
        BY <1>1, <2>2, <2>3, <2>5, <3>1, <3>3, ReadySettles DEF InitState
      <3> QED
        BY <2>2, <2>4, <3>2, <3>4 DEF InStep
    <2>6. CASE ~slave.free
      <3>1. slave.owed = None /\ slave.offered = op /\ Answered(slave) /\ IsNew(slave.TXSTA, seqTx)
        BY <1>1, <2>1, <2>6 DEF InStep
      <3>2. ~(slave.TXSTA.init = 1 /\ slave.TXSTA.toggle = 1) /\ slave.TXSTA.len = AnswerSize(0)
        BY <3>1 DEF Answered
      <3>3. ~(AnswerSize(0) > slave.TXSTA.len)
        BY <3>2, Sizes
      <3>4. pc' = "read" /\ seqTx' = slave.TXSTA.toggle
        BY <1>1, <1>10, <3>1, <3>2, <3>3, Polled DEF PollTx
      <3>5. /\ ~slave'.done /\ slave'.owed = None
            /\ slave'.buffer = <<>> /\ slave'.offered = op /\ ~slave'.free /\ slave'.TXSTA = slave.TXSTA
        BY <1>1, <2>2, <2>3, <2>6, <3>1, RestingSettles
      <3> QED
        BY <2>2, <2>4, <3>1, <3>4, <3>5 DEF InStep, Answered
    <2> QED
      BY <2>5, <2>6
  <1>11. CASE AckTx
    <2> DEFINE t == Write("TXSTA", None)
               s == Taken(t, slave)
    <2>1. Transaction(t) /\ Sound(t) /\ pc = "ack_tx" /\ pc' = "poll_tx" /\ UNCHANGED <<op, seqTx>>
      BY <1>11, Transfers DEF AckTx, Plainly
    <2>2. slave.free /\ slave.owed = op /\ ~slave.done /\ slave.buffer = <<>> /\ Announces(slave) /\ op # None
      BY <1>1, <2>1 DEF InStep, Shape
    <2>3. s = [slave EXCEPT !.TXSTA = Blank]
      BY DEF Taken, Write, Transfer
    <2>4. /\ ~s.done /\ s.owed = op /\ s.free /\ s.TXSTA = Blank /\ s.RXSTA = slave.RXSTA /\ s.buffer = <<>>
      BY <1>1, <2>2, <2>3 DEF SlaveType
    <2>5. slave' = Settled(s) /\ s \in SlaveType /\ s.mode = "ready" /\ slave'.mode = "ready"
      BY <1>2, <2>1
    <2> HIDE DEF s, t
    <2>6. ~Takes(s) /\ Owes(s) = op /\ Offers(s)
      BY <2>2, <2>4 DEF Takes, Owes, Offers, Blank, InitState, Status
    <2>7. ~slave'.free /\ slave'.owed = None /\ slave'.offered = op /\ ~slave'.done /\ slave'.buffer = <<>>
          /\ slave'.TXSTA = Status(1, 0, AnswerSize(0))
      BY <2>4, <2>5, <2>6, ReadySettles
    <2>8. Announces(slave')
      BY <2>2, <2>4, <2>5, SettledRx DEF Announces
    <2>9. Answered(slave') /\ IsNew(slave'.TXSTA, seqTx)
      BY <2>7 DEF Answered, IsNew, Status
    <2> QED
      BY <2>1, <2>5, <2>7, <2>8, <2>9 DEF InStep
  <1>12. CASE ReadIt
    <2> DEFINE t == Plain("RDDMA")
    <2>1. Transaction(t) /\ Sound(t) /\ Taken(t, slave) = slave /\ pc = "read" /\ pc' = "end"
          /\ UNCHANGED <<op, seqTx>>
      BY <1>12, Transfers DEF ReadIt, Plainly, Taken, Plain, Transfer
    <2>2. slave' = Settled(slave) /\ slave'.mode = "ready"
      BY <1>2, <2>1
    <2> HIDE DEF t
    <2>3. ~slave.done /\ slave.buffer = <<>> /\ Announces(slave) /\ slave.owed = None /\ ~slave.free
          /\ slave.offered = op /\ (slave.TXSTA = InitState \/ (Answered(slave) /\ slave.TXSTA.toggle = seqTx))
      BY <1>1, <2>1 DEF InStep
    <2>4. /\ ~slave'.done /\ slave'.owed = None
          /\ slave'.buffer = <<>> /\ slave'.offered = op /\ ~slave'.free /\ slave'.TXSTA = slave.TXSTA
      BY <1>1, <2>2, <2>3, RestingSettles
    <2>5. Announces(slave')
      BY <1>1, <2>2, <2>3, SettledRx
    <2> QED
      BY <2>1, <2>2, <2>3, <2>4, <2>5 DEF InStep, Answered
  <1>13. CASE Check
    <2> DEFINE t == Plain("CMD8")
               s == Taken(t, slave)
    <2>1. Transaction(t) /\ Sound(t) /\ pc = "end" /\ pc' = "idle" /\ UNCHANGED <<op, seqTx>>
      BY <1>13, Transfers DEF Check, Return
    <2>2. s = [slave EXCEPT !.free = TRUE]
      BY DEF Taken, Plain, Transfer
    <2>3. /\ s.done = slave.done /\ s.owed = slave.owed /\ s.free /\ s.TXSTA = slave.TXSTA
          /\ s.RXSTA = slave.RXSTA /\ s.buffer = slave.buffer
      BY <1>1, <2>2 DEF SlaveType
    <2> HIDE DEF s, t
    <2>4. ~s.done /\ s.owed = None /\ Announces(s) /\ s.buffer = <<>>
          /\ (s.TXSTA = InitState \/ (Answered(s) /\ s.TXSTA.toggle = seqTx'))
      BY <1>1, <2>1, <2>3 DEF InStep, Announces, Answered
    <2>5. s = Taken(t, slave)
      BY DEF s
    <2>6. InStep'
      BY <1>3, <2>1, <2>3, <2>4, <2>5
    <2>7. answer = op
      BY <1>1, <2>1 DEF InStep, Honest, AnswerUnread
    <2>8. result' = "SUCCESS" /\ ~HasAnswerData(op) /\ Size(op) <= BufferSize
      BY <1>13, <2>1, <2>7 DEF Check, Return, Accepted, Asked, Announced
    <2>9. ~(Size(op) > BufferSize)
      <3>1. Size(op) \in Nat /\ BufferSize \in Nat
        BY <1>1, <2>1, Sizes, SizesAssumption DEF Shape
      <3> QED
        BY <2>8, <3>1
    <2> QED
      BY <1>2, <2>1, <2>6, <2>8, <2>9 DEF CleanCallsWork, HasAnswerData
  <1> QED
    BY <1>4, <1>5, <1>6, <1>7, <1>8, <1>9, <1>10, <1>11, <1>12, <1>13 DEF Host

LEMMA CleanStep ==
  ASSUME Base, Honest, Asked, Announced, Clean, [Next]_vars
  PROVE  Clean'
  <1> SUFFICES ASSUME prompt', faults' = 0
               PROVE  InStep' /\ Ready' /\ CleanCallsWork'
    BY DEF Clean
  <1>1. CASE Connect
    <2>1. slave' = Booting /\ pc' \in Connecting /\ op' = None
      BY <1>1 DEF Connect, Connecting
    <2> QED
      BY <2>1, BootingType DEF InStep, Quiet, Connecting, Ready, CleanCallsWork
  <1>2. CASE ~Connect
    <2>1. prompt /\ faults = 0 /\ ~PortFails /\ ~LazySlave
      <3>1. prompt' = prompt
        BY DEF Next, Host, Connect, Call, WaitIdle, SayReady, WaitReady, PollRx, PollTx, AckRx, AckTx,
           SendIt, Done, ReadIt, Plainly, Check, PortFails, SlaveBoots, LazySlave, Transaction, Poll, vars, host
      <3>2. faults' = faults \/ (PortFails /\ faults' = faults + 1)
        BY <1>2 DEF Next, Host, Connect, Call, WaitIdle, SayReady, WaitReady, PollRx, PollTx, AckRx, AckTx,
           SendIt, Done, ReadIt, Plainly, Check, PortFails, SlaveBoots, LazySlave, Transaction, Poll, vars, host
      <3>3. PortFails => faults' = faults + 1
        BY DEF PortFails
      <3>4. faults = 0 /\ ~PortFails
        BY <3>2, <3>3 DEF Base, Shape
      <3> QED
        BY <3>1, <3>4 DEF LazySlave
    <2>2. CASE slave.mode # "ready"
      BY <1>2, <2>1, <2>2, CleanAsleep
    <2>3. CASE slave.mode = "ready" /\ Host
      BY <2>1, <2>3, CleanReady DEF Ready, CleanCallsWork
    <2>4. ASSUME slave.mode = "ready", NEW cmd \in Calls, Call(cmd)
          PROVE  InStep' /\ Ready' /\ CleanCallsWork'
      <3>1. UNCHANGED <<slave, seqTx>> /\ pc = "idle" /\ pc' \in {"idle", "poll_rx"} /\ op' = cmd
            /\ (pc' = "idle" => result' = "INVALID_PARAM" /\ HasAnswerData(cmd))
        BY <2>4 DEF Call
      <3> QED
        BY <2>1, <2>4, <3>1 DEF Clean, InStep, Ready, CleanCallsWork, HasAnswerData
    <2>5. CASE UNCHANGED vars
      BY <2>1, <2>5 DEF vars, host, Clean, InStep, Ready, CleanCallsWork
    <2> QED
      BY <1>2, <2>1, <2>2, <2>3, <2>4, <2>5 DEF Next, SlaveBoots
  <1> QED
    BY <1>1, <1>2

LEMMA CleanAlways == Spec => [](Base /\ Announced /\ Clean)
  <1>1. Init => Honest /\ Asked /\ Announced /\ Clean
    <2> SUFFICES ASSUME Init PROVE Honest /\ Asked /\ Announced /\ Clean
      OBVIOUS
    <2>1. slave = Booting /\ pc = "idle" /\ op = None /\ ~connected /\ acked = 0 /\ executed = 0
      BY DEF Init
    <2>2. slave.owed = None /\ slave.free /\ ~slave.done /\ slave.buffer = <<>> /\ slave.RXSTA = Blank
          /\ slave.mode # "ready" /\ Blank.len = 0
      BY <2>1, BootingType DEF Quiet, Blank, Status
    <2>3. Unread(slave) = 0 /\ Owed(slave) = 0
      BY <2>2 DEF Unread, Owed
    <2>4. Honest
      BY <2>1, <2>2, <2>3 DEF Honest, Counted, AnswerUnread, Drained, Pending
    <2> QED
      BY <2>1, <2>2, <2>4 DEF Asked, Announced, Clean, InStep, Ready, CleanCallsWork
  <1>2. Base /\ Base' /\ Honest /\ Asked /\ Announced /\ Clean /\ [Next]_vars
          => Honest' /\ Asked' /\ Announced' /\ Clean'
    BY HonestStep, AskedStep, AnnouncedStep, CleanStep
  <1> QED
    BY <1>1, <1>2, BaseAlways, PTL DEF Spec

\* While no transaction failed, a command is written only into a target that
\* is ready and has announced a buffer it fits in, which a prompt target has
\* emptied: for every number of sessions and calls, and every size.
THEOREM SpiSentIntoBuffer == Spec => []SentIntoBuffer
  <1>1. Base /\ Announced /\ Clean => SentIntoBuffer
    <2> SUFFICES ASSUME Base, Announced, Clean, faults = 0, pc = "send"
                 PROVE  /\ slave.mode = "ready"
                        /\ slave.RXSTA.len >= CommandSize(op, Context)
                        /\ prompt => slave.buffer = <<>> /\ ~slave.done
      BY DEF SentIntoBuffer
    <2>1. slave.mode = "ready"
      BY DEF Base, Asleep, Connecting
    <2>2. slave.RXSTA.len = BufferSize /\ Size(op) <= BufferSize
      BY DEF Announced
    <2>3. Size(op) \in Nat /\ BufferSize \in Nat
      BY Sizes, SizesAssumption DEF Base, Shape
    <2>4. prompt => slave.buffer = <<>> /\ ~slave.done
      BY DEF Clean, InStep
    <2>5. slave.RXSTA.len >= Size(op)
      BY <2>2, <2>3
    <2> QED
      BY <2>1, <2>4, <2>5 DEF Size
  <1> QED
    BY <1>1, CleanAlways, PTL

\* With a prompt target that was in time, and no failure of the port, every
\* call ends with its own answer or is refused for its length or for asking
\* for data, in every session, whatever the sequence bits were before.
THEOREM SpiCleanCallsWork == Spec => []CleanCallsWork
  <1>1. Base /\ Clean => CleanCallsWork
    BY DEF Clean, CleanCallsWork
  <1> QED
    BY <1>1, CleanAlways, PTL
=============================================================================
