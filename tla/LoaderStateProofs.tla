-------------------------- MODULE LoaderStateProofs --------------------------
(***************************************************************************)
(* What the library remembers fits the attached target, for every set of   *)
(* chips: the parts of the remembered state, and the flag of the stub.     *)
(* Behind them the example programs: what they call reaches the target,    *)
(* for every set of rates.                                                 *)
(***************************************************************************)
EXTENDS LoaderState, Programs, SequenceTheorems, TLAPS

\* A board is a record; the rest follows from the steps.
BoardOK == board \in [chip : Known \cup Strangers, secure : BOOLEAN, runs : {"app", "rom", "stub"}]

CacheInv == BoardOK /\ TargetIsAttached /\ FlashSizeIsAttached /\ RegistersWhenNeeded

FlagInv == BoardOK /\ ClearedByReset /\ FlagIsTrue

LEMMA RunKeepsBoard ==
  ASSUME BoardOK, NEW code \in {"app", "rom", "stub"}, Run(code)
  PROVE  BoardOK' /\ board'.chip = board.chip /\ board'.runs = code
  BY DEF BoardOK, Run

LEMMA RunStubBoard ==
  ASSUME BoardOK, NEW t, RunStub(t)
  PROVE  BoardOK' /\ board'.chip = board.chip
  <1>1. \E code \in {"rom", "stub"} : Run(code)
    BY DEF RunStub
  <1> QED
    BY <1>1, RunKeepsBoard

\* A detection that succeeds finds the attached chip, or none.
LEMMA DetectsChip ==
  ASSUME NEW d \in Detects, d.target # Unknown
  PROVE  d.target = board.chip /\ d.reg = board.chip
  BY DEF Detects

LEMMA FailuresAreNoSuccess ==
  ASSUME NEW t, NEW r, NEW d \in DetectFails(t, r)
  PROVE  d.result # "SUCCESS"
  BY DEF DetectFails, Errors

\* An attach succeeds only for a chip of the table.
LEMMA AttachNeedsChip ==
  ASSUME NEW t, NEW a \in AttachResults(t), a = "SUCCESS"
  PROVE  t # Unknown
  BY DEF AttachResults

\* Whatever calls and boards came before, and whatever failed in between, a
\* connected client works with the attached chip, a flash size that is
\* remembered is that chip's, and flash_start finds the registers it needs.
THEOREM CacheIsAttached == Spec => [](TargetIsAttached /\ FlashSizeIsAttached /\ RegistersWhenNeeded)
  <1>1. Init => CacheInv
    BY DEF Init, CacheInv, BoardOK, TargetIsAttached, FlashSizeIsAttached, RegistersWhenNeeded
  <1>2. CacheInv /\ [Next]_vars => CacheInv'
    <2> SUFFICES ASSUME CacheInv, [Next]_vars PROVE CacheInv'
      OBVIOUS
    <2> USE DEF CacheInv, TargetIsAttached, FlashSizeIsAttached, RegistersWhenNeeded
    <2>1. CASE Connect
      <3>1. BoardOK' /\ board'.chip = board.chip
        BY <2>1, RunKeepsBoard DEF Connect
      <3>2. linked' => flashSize' = None /\ sTarget' = board.chip /\ sReg' = board.chip
        <4> SUFFICES ASSUME linked' PROVE flashSize' = None /\ sTarget' = board.chip /\ sReg' = board.chip
          OBVIOUS
        <4>1. PICK d \in DetectFails(sTarget, sReg) \cup Detects :
                /\ sTarget' = d.target /\ sReg' = d.reg
                /\ \/ d.result # "SUCCESS" /\ linked' = FALSE
                   \/ /\ d.result = "SUCCESS" /\ flashSize' = None
                      /\ \E a \in AttachResults(d.target) : linked' = (a = "SUCCESS")
          BY <2>1 DEF Connect
        <4>2. d \in Detects /\ flashSize' = None
          BY <4>1, FailuresAreNoSuccess
        <4>3. PICK a \in AttachResults(d.target) : linked' = (a = "SUCCESS")
          BY <4>1
        <4>4. d.target # Unknown
          BY <4>3, AttachNeedsChip
        <4> QED
          BY <4>1, <4>2, <4>4, DetectsChip
      <3> QED
        BY <3>1, <3>2
    <2>2. CASE ConnectWithStub
      <3>1. BoardOK' /\ board'.chip = board.chip
        BY <2>2, RunKeepsBoard, RunStubBoard DEF ConnectWithStub
      <3>2. linked' => flashSize' = None /\ sTarget' = board.chip /\ sReg' = board.chip
        BY <2>2, DetectsChip, FailuresAreNoSuccess DEF ConnectWithStub, RunStub
      <3> QED
        BY <3>1, <3>2
    <2>3. ASSUME NEW t \in Known \cup {Unknown}, ConnectSecure(t)
          PROVE  CacheInv'
      <3>1. BoardOK' /\ board'.chip = board.chip
        BY <2>3, RunKeepsBoard DEF ConnectSecure
      <3>2. flashSize' = board.chip /\ board.chip # None
        BY <2>3, ChipAssumption DEF ConnectSecure
      <3>3. linked' => sTarget' = board.chip
        <4> SUFFICES ASSUME linked' PROVE sTarget' = board.chip
          OBVIOUS
        <4> DEFINE given == {[result |-> "SUCCESS", target |-> t, reg |-> sReg]}
        <4>1. PICK d \in DetectFails(t, sReg) \cup (IF t = Unknown THEN Detects ELSE given) :
                /\ sTarget' = d.target
                /\ \/ d.result # "SUCCESS" /\ linked' = FALSE
                   \/ /\ d.result = "SUCCESS"
                      /\ \E a \in AttachResults(d.target) : linked' = (a = "SUCCESS")
          BY <2>3 DEF ConnectSecure
        <4>2. PICK a \in AttachResults(d.target) : linked' = (a = "SUCCESS")
          BY <4>1
        <4>3. d.target # Unknown
          BY <4>2, AttachNeedsChip
        <4>4. CASE t = Unknown
          BY <4>1, <4>3, <4>4, FailuresAreNoSuccess, DetectsChip
        <4>5. CASE t # Unknown
          <5>1. t = board.chip
            BY <2>3, <4>5 DEF ConnectSecure
          <5>2. d \in given
            BY <4>1, <4>5, FailuresAreNoSuccess
          <5> QED
            BY <4>1, <5>1, <5>2
        <4> QED
          BY <4>4, <4>5
      <3> QED
        BY <3>1, <3>2, <3>3
    <2>4. CASE FlashDetectSize
      BY <2>4 DEF FlashDetectSize, host, BoardOK
    <2>5. CASE FlashStart
      BY <2>5 DEF FlashStart, BoardOK
    <2>6. CASE FlashVerify
      BY <2>6 DEF FlashVerify, host, BoardOK
    <2>7. CASE Leave
      BY <2>7, RunKeepsBoard DEF Leave
    <2>8. CASE ResetTarget
      BY <2>8, RunKeepsBoard DEF ResetTarget
    <2>9. CASE Swap
      BY <2>9 DEF Swap, BoardOK
    <2>10. CASE UNCHANGED vars
      BY <2>10 DEF vars, BoardOK
    <2> QED
      BY <2>1, <2>2, <2>3, <2>4, <2>5, <2>6, <2>7, <2>8, <2>9, <2>10 DEF Next
  <1>3. CacheInv => TargetIsAttached /\ FlashSizeIsAttached /\ RegistersWhenNeeded
    BY DEF CacheInv
  <1> QED
    BY <1>1, <1>2, <1>3, PTL DEF Spec

\* For a client that resets the target before it connects again, stub_running
\* tells what the target runs.
THEOREM FlagTellsTruth == Spec => []FlagIsTrue
  <1>1. Init => FlagInv
    BY DEF Init, FlagInv, BoardOK, ClearedByReset, FlagIsTrue
  <1>2. FlagInv /\ [Next]_vars => FlagInv'
    <2> SUFFICES ASSUME FlagInv, [Next]_vars PROVE FlagInv'
      OBVIOUS
    <2> USE DEF FlagInv, ClearedByReset, FlagIsTrue
    <2>1. CASE Connect
      <3>1. BoardOK' /\ board'.runs = "rom"
        BY <2>1, RunKeepsBoard DEF Connect
      <3>2. careless' = (careless \/ mustReset)
        BY <2>1 DEF Connect, NoteConnect
      <3>3. UNCHANGED <<stubRunning, mustReset>>
        BY <2>1 DEF Connect
      <3> QED
        BY <3>1, <3>2, <3>3
    <2>2. CASE ConnectWithStub
      <3>1. BoardOK'
        BY <2>2, RunKeepsBoard, RunStubBoard DEF ConnectWithStub
      <3>2. mustReset'
        BY <2>2 DEF ConnectWithStub
      <3>3. linked' => stubRunning' /\ Run("stub")
        BY <2>2 DEF ConnectWithStub, RunStub
      <3>4. linked' => board'.runs = "stub"
        BY <3>3, RunKeepsBoard
      <3> QED
        BY <3>1, <3>2, <3>3, <3>4
    <2>3. ASSUME NEW t \in Known \cup {Unknown}, ConnectSecure(t)
          PROVE  FlagInv'
      <3>1. BoardOK' /\ board'.runs = "rom"
        BY <2>3, RunKeepsBoard DEF ConnectSecure
      <3>2. careless' = (careless \/ mustReset)
        BY <2>3 DEF ConnectSecure, NoteConnect
      <3>3. UNCHANGED <<stubRunning, mustReset>>
        BY <2>3 DEF ConnectSecure
      <3> QED
        BY <3>1, <3>2, <3>3
    <2>4. CASE FlashDetectSize
      BY <2>4 DEF FlashDetectSize, host, BoardOK
    <2>5. CASE FlashStart
      BY <2>5 DEF FlashStart, BoardOK
    <2>6. CASE FlashVerify
      BY <2>6 DEF FlashVerify, host, BoardOK
    <2>7. CASE Leave
      BY <2>7, RunKeepsBoard DEF Leave, host
    <2>8. CASE ResetTarget
      BY <2>8, RunKeepsBoard DEF ResetTarget
    <2>9. CASE Swap
      BY <2>9 DEF Swap, host, BoardOK
    <2>10. CASE UNCHANGED vars
      BY <2>10 DEF vars, BoardOK
    <2> QED
      BY <2>1, <2>2, <2>3, <2>4, <2>5, <2>6, <2>7, <2>8, <2>9, <2>10 DEF Next
  <1>3. FlagInv => FlagIsTrue
    BY DEF FlagInv
  <1> QED
    BY <1>1, <1>2, <1>3, PTL DEF Spec

-----------------------------------------------------------------------------
(* The programs.  What a program has still to do is a plan if each exchange *)
(* in it comes after a connect, with nothing in between that may take the   *)
(* port or the target away.                                                 *)

Links == {"connect", "connect_with_stub", "synchronise"}

Disturbs ==
  Links \cup {"init", "pin", "bus_down", "bus_up", "float_straps", "reset", "enter_bootloader", "load_ram",
              "deinit", "host_rate", "open_uart", "board_pins", "write_file"}

OpNames ==
  Disturbs \cup Exchanges \cup {"port_rate", "hold", "delay", "monitor", "ram_binary", "only_c6", "file",
                              "devices", "board_uart"}

\* An argument is a number, a level of a pin or of both, or the contents of a file.
Arguments ==
  Nat \cup [pin : {"reset", "boot"} \cup Straps, level : Nat] \cup [boot : Nat, reset : Nat]
      \cup [file : {"bound", "power", "flashing"}, value : Nat]
Ops == {op \in OpNames \X Arguments : op[1] = "init" => op[2] \in Nat}

PortRecords == [open : BOOLEAN, rate : Arguments, pins : BOOLEAN, owned : BOOLEAN, misled : BOOLEAN]

TargetRecords ==
  [runs : {"old", "new", "broken", "held", "starting", "ram"} \cup Loader, rate : Arguments]

\* The operations from a to b disturb nothing.
Undisturbed(s, a, b) == \A k \in a .. b : s[k][1] \notin Disturbs

\* Operation i comes after a connect.
Prepared(s, i) == \E j \in 1 .. i - 1 : s[j][1] \in Links /\ Undisturbed(s, j + 1, i - 1)

\* The two ends change their rates together; so they do in a rest of a plan, but
\* for its first operation.
Paired(s, i) ==
  /\ s[i][1] = "target_rate" => i < Len(s) /\ s[i + 1] = <<"port_rate", s[i][2]>>
  /\ i > 1 /\ s[i][1] = "port_rate" => s[i - 1][1] = "target_rate"

Plan(s) ==
  /\ s \in Seq(Ops)
  /\ \A i \in 1 .. Len(s) : (s[i][1] \in Exchanges => Prepared(s, i)) /\ Paired(s, i)
  /\ s # <<>> => s[1][1] # "port_rate"

\* The rest of a plan behind a connect.
Rest(s) ==
  /\ s \in Seq(Ops)
  /\ \A i \in 1 .. Len(s) : (s[i][1] \in Exchanges => Prepared(s, i) \/ Undisturbed(s, 1, i - 1)) /\ Paired(s, i)

\* A connect comes last but for what disturbs nothing.
EndsLinked(s) == \E j \in 1 .. Len(s) : s[j][1] \in Links /\ Undisturbed(s, j + 1, Len(s))

\* The rates a program asks for are those the ports have, and none over SPI.
RateFits(op) ==
  /\ op[1] \in {"connect_with_stub", "target_rate", "port_rate"} => ~Spi /\ op[2] \in TermiosRates
  /\ op[1] = "connect" => op[2] \in TermiosRates \/ op[2] = 0
  /\ op[1] = "connect" /\ Spi => op[2] = 0

RatesFit(s) == \A i \in 1 .. Len(s) : RateFits(s[i])

\* The two ends understand each other, or would if the port had told the truth,
\* or will when the host has followed the target.
Linked ==
  /\ port.open /\ target.runs \in Loader
  /\ IF Due("port_rate") THEN target.rate = Arg ELSE target.rate = port.rate \/ port.misled

ProgramInv ==
  /\ main \in MainOptions
  /\ port \in PortRecords /\ target \in TargetRecords
  /\ RatesFit(todo)
  /\ Plan(todo) \/ (Linked /\ Rest(todo))

LEMMA PlanIsRest ==
  ASSUME NEW s, Plan(s)
  PROVE  Rest(s)
  BY DEF Plan, Rest

LEMMA TailIs ==
  ASSUME NEW s \in Seq(Ops), s # <<>>
  PROVE  /\ Tail(s) \in Seq(Ops) /\ Len(Tail(s)) = Len(s) - 1 /\ Len(s) \in Nat \ {0}
         /\ \A i \in 1 .. Len(s) - 1 : i + 1 \in 1 .. Len(s) /\ Tail(s)[i] = s[i + 1]
         /\ Head(s) = s[1]
  BY HeadTailProperties

\* What is left when the first operation is done.
LEMMA RestGoesOn ==
  ASSUME NEW s, Rest(s), s # <<>>
  PROVE  Rest(Tail(s))
<1> DEFINE t == Tail(s)
<1>1. s \in Seq(Ops)
  BY DEF Rest
<1>2. /\ t \in Seq(Ops) /\ Len(t) = Len(s) - 1 /\ Len(s) \in Nat \ {0}
      /\ \A i \in 1 .. Len(s) - 1 : i + 1 \in 1 .. Len(s) /\ t[i] = s[i + 1]
  BY <1>1, TailIs
<1> HIDE DEF t
<1>3. ASSUME NEW i \in 1 .. Len(t), t[i][1] \in Exchanges
      PROVE  Prepared(t, i) \/ Undisturbed(t, 1, i - 1)
  <2>1. i + 1 \in 1 .. Len(s) /\ t[i] = s[i + 1] /\ i \in Nat /\ (i + 1) - 1 = i
    BY <1>2
  <2>2. Prepared(s, i + 1) \/ Undisturbed(s, 1, i)
    BY <1>3, <2>1 DEF Rest
  <2>3. ASSUME NEW j \in 1 .. i, Undisturbed(s, j + 1, i)
        PROVE  Undisturbed(t, j, i - 1)
    <3>1. \A k \in j .. i - 1 : k + 1 \in j + 1 .. i /\ t[k] = s[k + 1]
      BY <1>2, <2>1
    <3> QED
      BY <2>3, <3>1 DEF Undisturbed
  <2>4. CASE Undisturbed(s, 1, i)
    <3>1. Undisturbed(s, 1 + 1, i) /\ 1 \in 1 .. i
      BY <2>1, <2>4 DEF Undisturbed
    <3> QED
      BY <2>3, <3>1
  <2>5. CASE Prepared(s, i + 1)
    <3>1. PICK j \in 1 .. i : s[j][1] \in Links /\ Undisturbed(s, j + 1, i)
      BY <2>1, <2>5 DEF Prepared
    <3>2. Undisturbed(t, j, i - 1)
      BY <2>3, <3>1
    <3>3. CASE j = 1
      BY <3>2, <3>3
    <3>4. CASE j # 1
      <4>1. j - 1 \in 1 .. i - 1 /\ (j - 1) + 1 = j /\ t[j - 1] = s[j]
        BY <1>2, <2>1, <3>4
      <4> QED
        BY <3>1, <3>2, <4>1 DEF Prepared
    <3> QED
      BY <3>3, <3>4
  <2> QED
    BY <2>2, <2>4, <2>5
<1>4. ASSUME NEW i \in 1 .. Len(t)
      PROVE  Paired(t, i)
  <2>1. i + 1 \in 1 .. Len(s) /\ t[i] = s[i + 1] /\ (i + 1) - 1 = i /\ i \in Nat
    BY <1>2
  <2>2. Paired(s, i + 1)
    BY <2>1 DEF Rest
  <2>3. t[i][1] = "target_rate" => i < Len(t) /\ t[i + 1] = <<"port_rate", t[i][2]>>
    <3>1. i + 1 < Len(s) => i < Len(t) /\ t[i + 1] = s[(i + 1) + 1]
      BY <1>2, <2>1
    <3> QED
      BY <2>1, <2>2, <3>1 DEF Paired
  <2>4. i > 1 /\ t[i][1] = "port_rate" => t[i - 1][1] = "target_rate"
    <3>1. i > 1 => t[i - 1] = s[i]
      BY <1>2, <2>1
    <3> QED
      BY <2>1, <2>2, <3>1 DEF Paired
  <2> QED
    BY <2>3, <2>4 DEF Paired
<1> QED
  BY <1>2, <1>3, <1>4 DEF Rest, t

\* It is a plan again if nothing has been relied on, or may be from now on.
LEMMA PlanGoesOn ==
  ASSUME NEW s, Rest(s), s # <<>>, Plan(s) \/ s[1][1] \in Disturbs, s[1][1] \notin Links \cup {"target_rate"}
  PROVE  Plan(Tail(s))
<1> DEFINE t == Tail(s)
<1>1. s \in Seq(Ops)
  BY DEF Rest
<1>2. /\ t \in Seq(Ops) /\ Len(t) = Len(s) - 1 /\ Len(s) \in Nat \ {0}
      /\ \A i \in 1 .. Len(s) - 1 : i + 1 \in 1 .. Len(s) /\ t[i] = s[i + 1]
  BY <1>1, TailIs
<1>3. Rest(t)
  BY RestGoesOn
<1> HIDE DEF t
<1>4. ASSUME NEW i \in 1 .. Len(t), t[i][1] \in Exchanges
      PROVE  Prepared(t, i)
  <2>1. i + 1 \in 1 .. Len(s) /\ t[i] = s[i + 1] /\ i \in Nat /\ (i + 1) - 1 = i
    BY <1>2
  <2>2. Prepared(s, i + 1)
    <3>1. CASE Plan(s)
      BY <1>4, <2>1, <3>1 DEF Plan
    <3>2. CASE s[1][1] \in Disturbs
      <4>1. ~Undisturbed(s, 1, i)
        BY <2>1, <3>2 DEF Undisturbed
      <4> QED
        BY <1>4, <2>1, <4>1 DEF Rest
    <3> QED
      BY <3>1, <3>2
  <2>3. PICK j \in 1 .. i : s[j][1] \in Links /\ Undisturbed(s, j + 1, i)
    BY <2>1, <2>2 DEF Prepared
  <2>4. j # 1
    BY <2>3
  <2>5. j - 1 \in 1 .. i - 1 /\ (j - 1) + 1 = j /\ t[j - 1] = s[j]
    BY <1>2, <2>1, <2>4
  <2>6. \A k \in j .. i - 1 : k + 1 \in j + 1 .. i /\ t[k] = s[k + 1]
    BY <1>2, <2>1
  <2>7. Undisturbed(t, j, i - 1)
    BY <2>3, <2>6 DEF Undisturbed
  <2> QED
    BY <2>3, <2>5, <2>7 DEF Prepared
<1>5. t # <<>> => t[1][1] # "port_rate"
  <2> SUFFICES ASSUME t # <<>> PROVE t[1][1] # "port_rate"
    OBVIOUS
  <2>1. 2 \in 1 .. Len(s) /\ t[1] = s[2]
    <3>1. Len(t) # 0
      BY <1>2
    <3>2. 1 \in 1 .. Len(s) - 1 /\ 1 + 1 = 2
      BY <1>2, <3>1
    <3> QED
      BY <1>2, <3>2
  <2>2. Paired(s, 2)
    BY <2>1 DEF Rest
  <2> QED
    BY <2>1, <2>2 DEF Paired
<1> QED
  BY <1>2, <1>3, <1>4, <1>5 DEF Plan, Rest, t

LEMMA JoinedIs ==
  ASSUME NEW s \in Seq(Ops), NEW t \in Seq(Ops)
  PROVE  /\ s \o t \in Seq(Ops) /\ Len(s \o t) = Len(s) + Len(t) /\ Len(s) \in Nat /\ Len(t) \in Nat
         /\ \A i \in 1 .. Len(s) : (s \o t)[i] = s[i]
         /\ \A i \in 1 .. Len(t) : (s \o t)[Len(s) + i] = t[i]
<1>1. Len(s) \in Nat /\ Len(t) \in Nat
  OBVIOUS
<1>2. /\ s \o t \in Seq(Ops) /\ Len(s \o t) = Len(s) + Len(t)
      /\ \A i \in 1 .. Len(s) + Len(t) : (s \o t)[i] = IF i <= Len(s) THEN s[i] ELSE t[i - Len(s)]
  BY ConcatProperties
<1>3. \A i \in 1 .. Len(t) : Len(s) + i \in 1 .. Len(s) + Len(t) /\ ~(Len(s) + i <= Len(s)) /\ (Len(s) + i) - Len(s) = i
  BY <1>1
<1>4. \A i \in 1 .. Len(t) : (s \o t)[Len(s) + i] = t[i]
  BY <1>2, <1>3
<1> QED
  BY <1>1, <1>2, <1>4

\* A plan may be followed by another, or by the rest of one when it ends linked.
LEMMA PlansJoin ==
  ASSUME NEW s, NEW t, Plan(s), Rest(t), t # <<>> => t[1][1] # "port_rate", Plan(t) \/ EndsLinked(s)
  PROVE  Plan(s \o t)
<1> DEFINE u == s \o t
           L == Len(s)
           M == Len(t)
<1>1. s \in Seq(Ops) /\ t \in Seq(Ops)
  BY DEF Plan, Rest
<1>2. /\ u \in Seq(Ops) /\ Len(u) = L + M /\ L \in Nat /\ M \in Nat
      /\ \A i \in 1 .. L : u[i] = s[i]
      /\ \A i \in 1 .. M : u[L + i] = t[i]
  BY <1>1, JoinedIs
<1> HIDE DEF u
<1>3. ASSUME NEW i \in 1 .. L
      PROVE  (u[i][1] \in Exchanges => Prepared(u, i)) /\ Paired(u, i)
  <2>1. u[i] = s[i] /\ i \in 1 .. Len(s)
    BY <1>2
  <2>2. (s[i][1] \in Exchanges => Prepared(s, i)) /\ Paired(s, i)
    BY <2>1 DEF Plan
  <2>3. ASSUME Prepared(s, i) PROVE Prepared(u, i)
    <3>1. PICK j \in 1 .. i - 1 : s[j][1] \in Links /\ Undisturbed(s, j + 1, i - 1)
      BY <2>3 DEF Prepared
    <3>2. u[j] = s[j] /\ \A k \in j + 1 .. i - 1 : u[k] = s[k]
      BY <1>2
    <3> QED
      BY <3>1, <3>2 DEF Prepared, Undisturbed
  <2>4. Paired(u, i)
    <3>1. i < Len(s) => i < Len(u) /\ u[i + 1] = s[i + 1]
      BY <1>2
    <3>2. i > 1 => u[i - 1] = s[i - 1]
      BY <1>2
    <3> QED
      BY <2>1, <2>2, <3>1, <3>2 DEF Paired
  <2> QED
    BY <2>1, <2>2, <2>3, <2>4
<1>4. ASSUME NEW i \in 1 .. M
      PROVE  (u[L + i][1] \in Exchanges => Prepared(u, L + i)) /\ Paired(u, L + i)
  <2>1. u[L + i] = t[i] /\ i \in 1 .. Len(t)
    BY <1>2
  <2>2. /\ t[i][1] \in Exchanges => Prepared(t, i) \/ Undisturbed(t, 1, i - 1)
        /\ Paired(t, i)
    BY <2>1 DEF Rest
  <2>3. t[i][1] \in Exchanges => Prepared(t, i) \/ (Undisturbed(t, 1, i - 1) /\ EndsLinked(s))
    BY <2>1, <2>2 DEF Plan
  <2>4. ASSUME Prepared(t, i) PROVE Prepared(u, L + i)
    <3>1. PICK j \in 1 .. i - 1 : t[j][1] \in Links /\ Undisturbed(t, j + 1, i - 1)
      BY <2>4 DEF Prepared
    <3>2. L + j \in 1 .. (L + i) - 1 /\ u[L + j] = t[j]
      BY <1>2
    <3>3. \A k \in (L + j) + 1 .. (L + i) - 1 : k - L \in j + 1 .. i - 1 /\ k - L \in 1 .. M /\ L + (k - L) = k
      BY <1>2
    <3>4. \A k \in (L + j) + 1 .. (L + i) - 1 : k - L \in j + 1 .. i - 1 /\ u[k] = t[k - L]
      BY <1>2, <3>3
    <3>5. Undisturbed(u, (L + j) + 1, (L + i) - 1)
      BY <3>1, <3>4 DEF Undisturbed
    <3> QED
      BY <3>1, <3>2, <3>5 DEF Prepared
  <2>5. ASSUME Undisturbed(t, 1, i - 1), EndsLinked(s) PROVE Prepared(u, L + i)
    <3>1. PICK j \in 1 .. L : s[j][1] \in Links /\ Undisturbed(s, j + 1, L)
      BY <2>5 DEF EndsLinked
    <3>2. j \in 1 .. (L + i) - 1 /\ u[j] = s[j]
      BY <1>2
    <3>3. ASSUME NEW k \in j + 1 .. (L + i) - 1 PROVE u[k][1] \notin Disturbs
      <4>1. CASE k <= L
        <5>1. k \in j + 1 .. L /\ k \in 1 .. L
          BY <1>2, <3>1, <4>1
        <5>2. u[k] = s[k]
          BY <1>2, <5>1
        <5> QED
          BY <3>1, <5>1, <5>2 DEF Undisturbed
      <4>2. CASE ~(k <= L)
        <5>1. k - L \in 1 .. i - 1 /\ k - L \in 1 .. M /\ L + (k - L) = k
          BY <1>2, <4>2
        <5>2. u[k] = t[k - L]
          BY <1>2, <5>1
        <5> QED
          BY <2>5, <5>1, <5>2 DEF Undisturbed
      <4> QED
        BY <4>1, <4>2
    <3>4. Undisturbed(u, j + 1, (L + i) - 1)
      BY <3>3 DEF Undisturbed
    <3> QED
      BY <3>1, <3>2, <3>4 DEF Prepared
  <2>6. Paired(u, L + i)
    <3>1. i < Len(t) => L + i < Len(u) /\ u[(L + i) + 1] = t[i + 1]
      <4>1. (L + i) + 1 = L + (i + 1)
        BY <1>2
      <4>2. i < Len(t) => i + 1 \in 1 .. M /\ L + i < L + M
        BY <1>2
      <4> QED
        BY <1>2, <4>1, <4>2
    <3>2. i > 1 => u[(L + i) - 1] = t[i - 1]
      <4>1. (L + i) - 1 = L + (i - 1)
        BY <1>2
      <4> QED
        BY <1>2, <4>1
    <3>3. i = 1 => t[i][1] # "port_rate"
      BY <2>1
    <3> QED
      BY <2>1, <2>2, <3>1, <3>2, <3>3 DEF Paired
  <2> QED
    BY <2>1, <2>3, <2>4, <2>5, <2>6
<1>5. \A i \in 1 .. Len(u) : i \in 1 .. L \/ (i - L \in 1 .. M /\ L + (i - L) = i)
  BY <1>2
<1>6. \A i \in 1 .. Len(u) : (u[i][1] \in Exchanges => Prepared(u, i)) /\ Paired(u, i)
  BY <1>3, <1>4, <1>5
<1>7. u # <<>> => u[1][1] # "port_rate"
  <2>1. CASE L = 0
    <3>1. M > 0 => u[1] = t[1] /\ t # <<>>
      BY <1>1, <1>2, <2>1
    <3>2. u # <<>> => M > 0
      BY <1>2, <2>1
    <3> QED
      BY <3>1, <3>2
  <2>2. CASE L # 0
    <3>1. u[1] = s[1] /\ s # <<>>
      BY <1>1, <1>2, <2>2
    <3> QED
      BY <3>1 DEF Plan
  <2> QED
    BY <2>1, <2>2
<1> QED
  BY <1>2, <1>6, <1>7 DEF Plan, u

LEMMA RatesJoin ==
  ASSUME NEW s \in Seq(Ops), NEW t \in Seq(Ops), RatesFit(s), RatesFit(t)
  PROVE  RatesFit(s \o t)
<1> DEFINE u == s \o t
           L == Len(s)
           M == Len(t)
<1>1. /\ Len(u) = L + M /\ L \in Nat /\ M \in Nat
      /\ \A i \in 1 .. L : u[i] = s[i]
      /\ \A i \in 1 .. M : u[L + i] = t[i]
  BY JoinedIs
<1> HIDE DEF u
<1>2. \A i \in 1 .. Len(u) : i \in 1 .. L \/ (i - L \in 1 .. M /\ L + (i - L) = i)
  BY <1>1
<1>3. ASSUME NEW i \in 1 .. Len(u) PROVE RateFits(u[i])
  <2>1. CASE i \in 1 .. L
    BY <1>1, <2>1 DEF RatesFit
  <2>2. CASE i - L \in 1 .. M /\ L + (i - L) = i
    <3>1. u[i] = t[i - L]
      BY <1>1, <2>2
    <3> QED
      BY <2>2, <3>1 DEF RatesFit
  <2> QED
    BY <1>2, <2>1, <2>2
<1> QED
  BY <1>3 DEF RatesFit, u

LEMMA RatesGoOn ==
  ASSUME NEW s \in Seq(Ops), s # <<>>, RatesFit(s)
  PROVE  RatesFit(Tail(s)) /\ RateFits(s[1])
<1>1. /\ Len(Tail(s)) = Len(s) - 1 /\ Len(s) \in Nat \ {0}
      /\ \A i \in 1 .. Len(s) - 1 : i + 1 \in 1 .. Len(s) /\ Tail(s)[i] = s[i + 1]
  BY TailIs
<1>2. \A i \in 1 .. Len(Tail(s)) : RateFits(Tail(s)[i])
  BY <1>1 DEF RatesFit
<1>3. 1 \in 1 .. Len(s)
  BY <1>1
<1> QED
  BY <1>2, <1>3 DEF RatesFit

-----------------------------------------------------------------------------
(* The programs are plans. *)

\* Operations that use no connect, change no rate and ask for none.
Plain(s) ==
  /\ s \in Seq(Ops)
  /\ \A i \in 1 .. Len(s) :
       s[i][1] \notin Exchanges \cup {"connect", "connect_with_stub", "target_rate", "port_rate"}

\* Exchanges and what does not disturb them.
Steady(s) ==
  /\ s \in Seq(Ops)
  /\ \A i \in 1 .. Len(s) : s[i][1] \notin Disturbs \cup {"target_rate", "port_rate"}

LEMMA PlainPlan ==
  ASSUME NEW s, Plain(s)
  PROVE  Plan(s) /\ RatesFit(s)
<1>1. Plan(s)
  <2>1. \A i \in 1 .. Len(s) : (s[i][1] \in Exchanges => Prepared(s, i)) /\ Paired(s, i)
    BY DEF Plain, Paired
  <2>2. s # <<>> => s[1][1] # "port_rate"
    <3>1. s # <<>> => 1 \in 1 .. Len(s)
      BY DEF Plain
    <3> QED
      BY <3>1 DEF Plain
  <2> QED
    BY <2>1, <2>2 DEF Plan, Plain
<1>2. RatesFit(s)
  BY DEF Plain, RatesFit, RateFits
<1> QED
  BY <1>1, <1>2

LEMMA SteadyRest ==
  ASSUME NEW s, Steady(s)
  PROVE  Rest(s) /\ (s # <<>> => s[1][1] # "port_rate") /\ RatesFit(s)
<1>1. s \in Seq(Ops) /\ Len(s) \in Nat
  BY DEF Steady
<1>2. \A i \in 1 .. Len(s) : Undisturbed(s, 1, i - 1)
  BY <1>1 DEF Steady, Undisturbed
<1>3. Rest(s)
  BY <1>2 DEF Rest, Steady, Paired
<1>4. s # <<>> => s[1][1] # "port_rate"
  <2>1. s # <<>> => 1 \in 1 .. Len(s)
    BY <1>1
  <2> QED
    BY <2>1 DEF Steady
<1>5. RatesFit(s)
  <2>1. \A i \in 1 .. Len(s) : s[i][1] \notin {"connect", "connect_with_stub", "target_rate", "port_rate"}
    BY DEF Steady, Disturbs, Links
  <2> QED
    BY <2>1 DEF RatesFit, RateFits
<1> QED
  BY <1>3, <1>4, <1>5

LEMMA OneOp ==
  /\ \A name \in OpNames, arg \in Nat : Op(name, arg) \in Ops
  /\ \A name \in OpNames : Call(name) \in Ops
  BY DEF Op, Call, Ops, Arguments

\* The beginning of all programs but lx16.
LEMMA Connects ==
  ASSUME NEW a \in Nat, NEW b \in Nat, NEW name \in {"connect", "connect_with_stub"},
         name = "connect_with_stub" => ~Spi /\ b \in TermiosRates,
         b \in TermiosRates \/ b = 0, Spi => b = 0
  PROVE  /\ Plan(<<Op("init", a), Op(name, b)>>) /\ EndsLinked(<<Op("init", a), Op(name, b)>>)
         /\ RatesFit(<<Op("init", a), Op(name, b)>>)
<1> DEFINE s == <<Op("init", a), Op(name, b)>>
<1>1. s \in Seq(Ops) /\ Len(s) = 2 /\ s[1] = <<"init", a>> /\ s[2] = <<name, b>>
  <2>1. "init" \in OpNames /\ name \in OpNames
    BY DEF OpNames, Disturbs, Links
  <2>2. <<"init", a>> \in Ops /\ <<name, b>> \in Ops
    BY <2>1 DEF Ops, Arguments
  <2>3. s = <<<<"init", a>>, <<name, b>>>>
    BY DEF Op
  <2> QED
    BY <2>2, <2>3
<1> HIDE DEF s
<1>2. s[1][1] = "init" /\ s[2][1] = name /\ s[2][2] = b
  BY <1>1
<1>3. \A i \in 1 .. Len(s) : i = 1 \/ i = 2
  BY <1>1
<1>4. \A i \in 1 .. Len(s) : s[i][1] \notin Exchanges \cup {"target_rate", "port_rate"}
  BY <1>2, <1>3 DEF Exchanges
<1>5. Plan(s)
  BY <1>1, <1>2, <1>4 DEF Plan, Paired
<1>6. EndsLinked(s)
  <2>1. 2 \in 1 .. Len(s) /\ s[2][1] \in Links
    BY <1>1, <1>2 DEF Links
  <2>2. Undisturbed(s, 2 + 1, Len(s))
    BY <1>1 DEF Undisturbed
  <2> QED
    BY <2>1, <2>2 DEF EndsLinked
<1>7. RatesFit(s)
  <2>1. RateFits(s[1])
    BY <1>2 DEF RateFits
  <2>2. RateFits(s[2])
    BY <1>2 DEF RateFits
  <2> QED
    BY <1>3, <2>1, <2>2 DEF RatesFit
<1> QED
  BY <1>5, <1>6, <1>7 DEF s

LEMMA FlashImagesSteady == Steady(FlashImages)
<1> DEFINE a == BootloaderAddress(chip)
<1>1. a \in Nat /\ PartitionAddress \in Nat /\ ApplicationAddress \in Nat
  BY DEF BootloaderAddress, PartitionAddress, ApplicationAddress
<1>2. FlashImages = <<<<"flash", a>>, <<"flash", PartitionAddress>>, <<"flash", ApplicationAddress>>>>
  BY DEF FlashImages, Op
<1> HIDE DEF a
<1>3. FlashImages \in Seq(Ops)
  <2>1. <<"flash", a>> \in Ops /\ <<"flash", PartitionAddress>> \in Ops /\ <<"flash", ApplicationAddress>> \in Ops
    <3>1. "flash" \in OpNames
      BY DEF OpNames, Exchanges
    <3> QED
      BY <1>1, <3>1 DEF Ops, Arguments
  <2> QED
    BY <1>2, <2>1
<1>4. Len(FlashImages) = 3 /\ FlashImages[1][1] = "flash" /\ FlashImages[2][1] = "flash" /\ FlashImages[3][1] = "flash"
  BY <1>2
<1>5. \A i \in 1 .. Len(FlashImages) : i = 1 \/ i = 2 \/ i = 3
  BY <1>4
<1>6. \A i \in 1 .. Len(FlashImages) : FlashImages[i][1] = "flash"
  BY <1>4, <1>5
<1> QED
  BY <1>3, <1>6 DEF Steady, Disturbs, Links

LEMMA PlainAppended ==
  ASSUME NEW s, Plan(s), RatesFit(s), NEW t, Plain(t)
  PROVE  Plan(s \o t) /\ RatesFit(s \o t)
<1>1. Plan(t) /\ Rest(t) /\ RatesFit(t) /\ (t # <<>> => t[1][1] # "port_rate")
  BY PlainPlan, PlanIsRest DEF Plan
<1>2. s \in Seq(Ops) /\ t \in Seq(Ops)
  BY DEF Plan, Plain
<1> QED
  BY <1>1, <1>2, PlansJoin, RatesJoin

LEMMA SteadyAppended ==
  ASSUME NEW s, Plan(s), RatesFit(s), EndsLinked(s), NEW t, Steady(t)
  PROVE  Plan(s \o t) /\ RatesFit(s \o t)
<1>1. Rest(t) /\ RatesFit(t) /\ (t # <<>> => t[1][1] # "port_rate")
  BY SteadyRest
<1>2. s \in Seq(Ops) /\ t \in Seq(Ops)
  BY DEF Plan, Steady
<1> QED
  BY <1>1, <1>2, PlansJoin, RatesJoin

\* A program that flashes what it has connected to, and goes on with s.
LEMMA FlashingPlan ==
  ASSUME NEW a, Plan(a), EndsLinked(a), RatesFit(a), NEW s, Plain(s)
  PROVE  Plan(a \o FlashImages \o s) /\ RatesFit(a \o FlashImages \o s)
<1> DEFINE u == a \o FlashImages
<1>1. Plan(u) /\ RatesFit(u)
  BY FlashImagesSteady, SteadyAppended
<1> HIDE DEF u
<1>2. Plan(u \o s) /\ RatesFit(u \o s)
  BY <1>1, PlainAppended
<1> QED
  BY <1>2 DEF u

PlainOp(op) == op \in Ops /\ op[1] \notin Exchanges \cup {"connect", "connect_with_stub", "target_rate", "port_rate"}

LEMMA PlainOps ==
  /\ \A name \in Disturbs \ (Links \cup {"load_ram", "pin"}) : PlainOp(Call(name)) /\ \A arg \in Nat : PlainOp(Op(name, arg))
  /\ PlainOp(Call("delay")) /\ PlainOp(Call("monitor"))
  /\ \A pin \in {"reset", "boot"} \cup Straps, level \in Nat : PlainOp(Pin(pin, level))
  /\ PlainOp(Hold)
  /\ \A file \in {"bound", "power", "flashing"} : PlainOp(File(file, 0)) /\ PlainOp(File(file, 1))
  /\ \A a \in {0, 1}, b \in {0, 1} : PlainOp(Op("board_pins", [boot |-> a, reset |-> b]))
  /\ PlainOp(Call("devices")) /\ PlainOp(Call("board_uart"))
<1>1. \A name \in OpNames : <<name, 0>> \in Ops /\ \A arg \in Nat : <<name, arg>> \in Ops
  BY DEF Ops, Arguments
<1>2. \A name \in Disturbs \ (Links \cup {"load_ram", "pin"}) :
        name \in OpNames /\ name \notin Exchanges \cup {"connect", "connect_with_stub", "target_rate", "port_rate"}
  BY DEF OpNames, Disturbs, Links, Exchanges
<1>3. \A name \in {"delay", "monitor", "hold", "pin", "write_file", "board_pins", "devices", "board_uart"} :
        name \in OpNames /\ name \notin Exchanges \cup {"connect", "connect_with_stub", "target_rate", "port_rate"}
  BY DEF OpNames, Exchanges, Disturbs
<1>4. \A pin \in {"reset", "boot"} \cup Straps, level \in Nat : Pin(pin, level) \in Ops /\ Pin(pin, level)[1] = "pin"
  BY <1>3 DEF Pin, Ops, Arguments
<1>5. \A name \in Disturbs \ (Links \cup {"load_ram", "pin"}) : PlainOp(Call(name)) /\ \A arg \in Nat : PlainOp(Op(name, arg))
  BY <1>1, <1>2 DEF PlainOp, Call, Op
<1>6. PlainOp(Call("delay")) /\ PlainOp(Call("monitor")) /\ PlainOp(Hold)
  BY <1>1, <1>3 DEF PlainOp, Call, Hold
<1>7. \A pin \in {"reset", "boot"} \cup Straps, level \in Nat : PlainOp(Pin(pin, level))
  BY <1>3, <1>4 DEF PlainOp
<1>8. \A file \in {"bound", "power", "flashing"}, v \in {0, 1} : PlainOp(File(file, v))
  <2>1. \A file \in {"bound", "power", "flashing"}, v \in {0, 1} : File(file, v) \in Ops /\ File(file, v)[1] = "write_file"
    BY <1>3 DEF File, Ops, Arguments
  <2> QED
    BY <1>3, <2>1 DEF PlainOp
<1>9. \A a \in {0, 1}, b \in {0, 1} : PlainOp(Op("board_pins", [boot |-> a, reset |-> b]))
  <2>1. \A a \in {0, 1}, b \in {0, 1} :
          /\ Op("board_pins", [boot |-> a, reset |-> b]) \in Ops
          /\ Op("board_pins", [boot |-> a, reset |-> b])[1] = "board_pins"
    BY <1>3 DEF Op, Ops, Arguments
  <2> QED
    BY <1>3, <2>1 DEF PlainOp
<1>10. PlainOp(Call("devices")) /\ PlainOp(Call("board_uart"))
  BY <1>1, <1>3 DEF PlainOp, Call
<1> QED
  BY <1>5, <1>6, <1>7, <1>8, <1>9, <1>10

LEMMA PlainTuples ==
  /\ Plain(<<>>)
  /\ \A a : PlainOp(a) => Plain(<<a>>)
  /\ \A a, b : PlainOp(a) /\ PlainOp(b) => Plain(<<a, b>>)
  /\ \A a, b, c : PlainOp(a) /\ PlainOp(b) /\ PlainOp(c) => Plain(<<a, b, c>>)
  /\ \A a, b, c, d : PlainOp(a) /\ PlainOp(b) /\ PlainOp(c) /\ PlainOp(d) => Plain(<<a, b, c, d>>)
  /\ \A a, b, c, d, e :
       PlainOp(a) /\ PlainOp(b) /\ PlainOp(c) /\ PlainOp(d) /\ PlainOp(e) => Plain(<<a, b, c, d, e>>)
<1>1. Plain(<<>>)
  BY DEF Plain
<1>2. \A a : PlainOp(a) => Plain(<<a>>)
  BY DEF Plain, PlainOp
<1>3. \A a, b : PlainOp(a) /\ PlainOp(b) => Plain(<<a, b>>)
  BY DEF Plain, PlainOp
<1>4. \A a, b, c : PlainOp(a) /\ PlainOp(b) /\ PlainOp(c) => Plain(<<a, b, c>>)
  BY DEF Plain, PlainOp
<1>5. \A a, b, c, d : PlainOp(a) /\ PlainOp(b) /\ PlainOp(c) /\ PlainOp(d) => Plain(<<a, b, c, d>>)
  BY DEF Plain, PlainOp
<1>6. \A a, b, c, d, e :
       PlainOp(a) /\ PlainOp(b) /\ PlainOp(c) /\ PlainOp(d) /\ PlainOp(e) => Plain(<<a, b, c, d, e>>)
  BY DEF Plain, PlainOp
<1> QED
  BY <1>1, <1>2, <1>3, <1>4, <1>5, <1>6

\* A program that connects and goes on with what needs no rate.
LEMMA ConnectedPlan ==
  ASSUME NEW s \in Seq(Ops), 2 <= Len(s), s[1][1] = "init", s[2][1] = "connect",
         s[2][2] \in TermiosRates \/ s[2][2] = 0, Spi => s[2][2] = 0,
         \A i \in 3 .. Len(s) :
           /\ s[i][1] \notin {"connect", "connect_with_stub", "target_rate", "port_rate"}
           /\ s[i][1] \in Exchanges => Undisturbed(s, 3, i - 1)
  PROVE  Plan(s) /\ RatesFit(s)
<1>1. Len(s) \in Nat
  OBVIOUS
<1>2. \A i \in 1 .. Len(s) : i = 1 \/ i = 2 \/ i \in 3 .. Len(s)
  BY <1>1
<1>3. ASSUME NEW i \in 1 .. Len(s), s[i][1] \in Exchanges PROVE Prepared(s, i)
  <2>1. i \in 3 .. Len(s)
    BY <1>2, <1>3 DEF Exchanges
  <2>2. 2 \in 1 .. i - 1 /\ 2 + 1 = 3
    BY <2>1
  <2>3. Undisturbed(s, 2 + 1, i - 1)
    BY <1>3, <2>1, <2>2
  <2> QED
    BY <2>2, <2>3 DEF Prepared, Links
<1>4. \A i \in 1 .. Len(s) : s[i][1] \notin {"connect_with_stub", "target_rate", "port_rate"}
  BY <1>2
<1>5. \A i \in 1 .. Len(s) : Paired(s, i)
  BY <1>4 DEF Paired
<1>6. Plan(s)
  BY <1>1, <1>3, <1>4, <1>5 DEF Plan
<1>7. \A i \in 1 .. Len(s) : s[i][1] = "connect" => i = 2
  BY <1>2
<1>8. RatesFit(s)
  BY <1>4, <1>7 DEF RatesFit, RateFits
<1> QED
  BY <1>6, <1>8

LEMMA AfterFlashing ==
  /\ Plain(<<Call("reset")>>) /\ Plain(SlaveMonitor)
  /\ Plain(<<Call("reset"), Call("deinit"), Op("open_uart", 115200), Call("delay"), Call("monitor")>>)
  /\ Plain(<<Call("reset"), Call("deinit"), Call("delay"), Op("open_uart", 115200), Call("monitor")>>)
  /\ Plain(<<Call("reset"), Op("open_uart", 115200), Call("delay"), Call("monitor")>>)
<1>1. /\ PlainOp(Call("reset")) /\ PlainOp(Call("deinit")) /\ PlainOp(Op("open_uart", 115200)) /\ PlainOp(Call("delay"))
      /\ PlainOp(Call("monitor")) /\ PlainOp(Op("host_rate", 115200))
  <2>1. {"reset", "deinit", "open_uart", "host_rate"} \subseteq Disturbs \ (Links \cup {"load_ram", "pin"})
    BY DEF Disturbs, Links
  <2>2. 115200 \in Nat
    OBVIOUS
  <2> QED
    BY <2>1, <2>2, PlainOps
<1> QED
  BY <1>1, PlainTuples DEF SlaveMonitor

LEMMA FlashingPrograms ==
  ASSUME NEW d \in Nat, NEW r \in TermiosRates, ~Spi,
         NEW a, a = <<Op("init", d), Op("connect", r)>> \/ a = <<Op("init", d), Op("connect_with_stub", r)>>
  PROVE  /\ Plan(a \o FlashImages \o <<Call("reset")>>) /\ RatesFit(a \o FlashImages \o <<Call("reset")>>)
         /\ Plan(a \o FlashImages \o <<Call("reset")>> \o SlaveMonitor)
         /\ RatesFit(a \o FlashImages \o <<Call("reset")>> \o SlaveMonitor)
         /\ \A s : Plain(s) => Plan(a \o FlashImages \o s) /\ RatesFit(a \o FlashImages \o s)
<1>1. Plan(a) /\ EndsLinked(a) /\ RatesFit(a)
  <2>1. r \in Nat /\ d \in Nat
    BY DEF TermiosRates
  <2> DEFINE s1 == <<Op("init", d), Op("connect", r)>>
             s2 == <<Op("init", d), Op("connect_with_stub", r)>>
  <2>a. /\ r \in TermiosRates \/ r = 0
        /\ Spi => r = 0
        /\ "connect" \in {"connect", "connect_with_stub"} /\ "connect_with_stub" \in {"connect", "connect_with_stub"}
        /\ "connect" = "connect_with_stub" => ~Spi /\ r \in TermiosRates
        /\ "connect_with_stub" = "connect_with_stub" => ~Spi /\ r \in TermiosRates
    OBVIOUS
  <2>2. Plan(s1) /\ EndsLinked(s1) /\ RatesFit(s1)
    BY <2>1, <2>a, Connects
  <2>3. Plan(s2) /\ EndsLinked(s2) /\ RatesFit(s2)
    BY <2>1, <2>a, Connects
  <2>4. a = s1 \/ a = s2
    OBVIOUS
  <2> HIDE DEF s1, s2
  <2> QED
    BY <2>2, <2>3, <2>4
<1>2. \A s : Plain(s) => Plan(a \o FlashImages \o s) /\ RatesFit(a \o FlashImages \o s)
  BY <1>1, FlashingPlan
<1> DEFINE u == a \o FlashImages \o <<Call("reset")>>
<1>3. Plan(u) /\ RatesFit(u)
  BY <1>2, AfterFlashing
<1> HIDE DEF u
<1>4. Plan(u \o SlaveMonitor) /\ RatesFit(u \o SlaveMonitor)
  BY <1>3, AfterFlashing, PlainAppended
<1> QED
  BY <1>2, <1>3, <1>4 DEF u

LEMMA OpsAre ==
  /\ Op("init", 0) \in Ops /\ Op("connect", 0) \in Ops
  /\ Op("init", 115200) \in Ops /\ Op("connect", 115200) \in Ops /\ Op("connect", 230400) \in Ops
  /\ Op("open_uart", 115200) \in Ops
  /\ Call("ram_binary") \in Ops /\ Call("load_ram") \in Ops /\ Call("monitor") \in Ops /\ Call("query") \in Ops
<1>1. {"init", "connect", "open_uart", "ram_binary", "load_ram", "monitor", "query"} \subseteq OpNames
  BY DEF OpNames, Disturbs, Exchanges, Links
<1> QED
  BY <1>1, OneOp

LEMMA LoadRamPlan ==
  ASSUME ~Spi
  PROVE  Plan(Esp32LoadRamExample) /\ RatesFit(Esp32LoadRamExample)
<1> DEFINE s == Esp32LoadRamExample
<1>1. s \in Seq(Ops)
  BY OpsAre DEF Esp32LoadRamExample
<1>2. /\ Len(s) = 5 /\ s[1][1] = "init" /\ s[2][1] = "connect"
      /\ s[3][1] = "ram_binary" /\ s[4][1] = "load_ram" /\ s[5][1] = "monitor"
  BY DEF Esp32LoadRamExample, Op, Call
<1>a. s[2][2] \in TermiosRates
  BY DEF Esp32LoadRamExample, Op, TermiosRates
<1> HIDE DEF s
<1>3. \A i \in 3 .. Len(s) : i = 3 \/ i = 4 \/ i = 5
  BY <1>2
<1>4. \A i \in 3 .. Len(s) :
        /\ s[i][1] \notin {"connect", "connect_with_stub", "target_rate", "port_rate"}
        /\ s[i][1] \in Exchanges => i = 4
  BY <1>2, <1>3 DEF Exchanges
<1>5. \A i \in 3 .. Len(s) : i = 4 => Undisturbed(s, 3, i - 1)
  <2>1. \A i \in 3 .. Len(s) : i = 4 => \A k \in 3 .. i - 1 : k = 3
    OBVIOUS
  <2> QED
    BY <1>2, <2>1 DEF Undisturbed, Disturbs, Links
<1>6. ASSUME NEW i \in 3 .. Len(s)
      PROVE  /\ s[i][1] \notin {"connect", "connect_with_stub", "target_rate", "port_rate"}
             /\ s[i][1] \in Exchanges => Undisturbed(s, 3, i - 1)
  <2>1. ASSUME s[i][1] \in Exchanges PROVE Undisturbed(s, 3, i - 1)
    <3>1. i = 4
      BY <1>4, <2>1
    <3> QED
      BY <1>5, <3>1
  <2> QED
    BY <1>4, <2>1
<1>7. 2 <= Len(s) /\ s[1][1] = "init" /\ s[2][1] = "connect"
  BY <1>2
<1> QED
  BY <1>1, <1>a, <1>6, <1>7, ConnectedPlan DEF s

LEMMA SpiLoadRamPlan ==
  Plan(Esp32SpiLoadRamExample) /\ RatesFit(Esp32SpiLoadRamExample)
<1> DEFINE s == Esp32SpiLoadRamExample
<1>1. s \in Seq(Ops)
  BY OpsAre DEF Esp32SpiLoadRamExample
<1>2. /\ Len(s) = 6 /\ s[1][1] = "init" /\ s[2][1] = "connect"
      /\ s[3][1] = "ram_binary" /\ s[4][1] = "load_ram" /\ s[5][1] = "open_uart" /\ s[6][1] = "monitor"
  BY DEF Esp32SpiLoadRamExample, Op, Call
<1>a. s[2][2] = 0
  BY DEF Esp32SpiLoadRamExample, Op
<1> HIDE DEF s
<1>3. \A i \in 3 .. Len(s) : i = 3 \/ i = 4 \/ i = 5 \/ i = 6
  BY <1>2
<1>4. \A i \in 3 .. Len(s) :
        /\ s[i][1] \notin {"connect", "connect_with_stub", "target_rate", "port_rate"}
        /\ s[i][1] \in Exchanges => i = 4
  BY <1>2, <1>3 DEF Exchanges
<1>5. \A i \in 3 .. Len(s) : i = 4 => Undisturbed(s, 3, i - 1)
  <2>1. \A i \in 3 .. Len(s) : i = 4 => \A k \in 3 .. i - 1 : k = 3
    OBVIOUS
  <2> QED
    BY <1>2, <2>1 DEF Undisturbed, Disturbs, Links
<1>6. ASSUME NEW i \in 3 .. Len(s)
      PROVE  /\ s[i][1] \notin {"connect", "connect_with_stub", "target_rate", "port_rate"}
             /\ s[i][1] \in Exchanges => Undisturbed(s, 3, i - 1)
  <2>1. ASSUME s[i][1] \in Exchanges PROVE Undisturbed(s, 3, i - 1)
    <3>1. i = 4
      BY <1>4, <2>1
    <3> QED
      BY <1>5, <3>1
  <2> QED
    BY <1>4, <2>1
<1>7. 2 <= Len(s) /\ s[1][1] = "init" /\ s[2][1] = "connect"
  BY <1>2
<1> QED
  BY <1>1, <1>a, <1>6, <1>7, ConnectedPlan DEF s

LEMMA InfoPlan ==
  ASSUME ~Spi
  PROVE  Plan(Esp32GetTargetInfo) /\ RatesFit(Esp32GetTargetInfo)
<1> DEFINE s == Esp32GetTargetInfo
<1>1. s \in Seq(Ops)
  BY OpsAre DEF Esp32GetTargetInfo
<1>2. /\ Len(s) = 5 /\ s[1][1] = "init" /\ s[2][1] = "connect"
      /\ s[3][1] = "query" /\ s[4][1] = "query" /\ s[5][1] = "query"
  BY DEF Esp32GetTargetInfo, Op, Call
<1>a. s[2][2] \in TermiosRates
  BY DEF Esp32GetTargetInfo, Op, TermiosRates
<1> HIDE DEF s
<1>3. \A i \in 3 .. Len(s) : s[i][1] = "query"
  <2>1. \A i \in 3 .. Len(s) : i = 3 \/ i = 4 \/ i = 5
    BY <1>2
  <2> QED
    BY <1>2, <2>1
<1>4. \A i \in 3 .. Len(s) : Undisturbed(s, 3, i - 1)
  <2>1. "query" \notin Disturbs
    BY DEF Disturbs, Links
  <2>2. \A i \in 3 .. Len(s) : \A k \in 3 .. i - 1 : k \in 3 .. Len(s)
    BY <1>2
  <2> QED
    BY <1>3, <2>1, <2>2 DEF Undisturbed
<1>5. \A i \in 3 .. Len(s) :
        /\ s[i][1] \notin {"connect", "connect_with_stub", "target_rate", "port_rate"}
        /\ s[i][1] \in Exchanges => Undisturbed(s, 3, i - 1)
  BY <1>3, <1>4
<1>6. 2 <= Len(s) /\ s[1][1] = "init" /\ s[2][1] = "connect"
  BY <1>2
<1> QED
  BY <1>1, <1>a, <1>5, <1>6, ConnectedPlan DEF s

\* The program with options: it may only switch the power.
LEMMA Lx16ImagesSteady == ASSUME NEW hello \in BOOLEAN PROVE Steady(Lx16Images(hello))
<1> DEFINE files == <<Call("only_c6"), Call("file"), Op("flash", 0), Call("file"), Op("flash", PartitionAddress),
                      Call("file"), Op("flash", OtaDataAddress), Call("file"), Op("flash", ApplicationAddress)>>
<1>1. Steady(files)
  <2>1. PartitionAddress \in Nat /\ OtaDataAddress \in Nat /\ ApplicationAddress \in Nat
    BY DEF PartitionAddress, OtaDataAddress, ApplicationAddress
  <2> DEFINE SteadyOp(op) == op \in Ops /\ op[1] \notin Disturbs \cup {"target_rate", "port_rate"}
  <2>2. \A name \in {"only_c6", "file", "flash"} :
          name \in OpNames /\ name \notin Disturbs \cup {"target_rate", "port_rate"}
    BY DEF OpNames, Disturbs, Links, Exchanges
  <2>3. SteadyOp(Call("only_c6")) /\ SteadyOp(Call("file")) /\ \A n \in Nat : SteadyOp(Op("flash", n))
    <3>1. Call("only_c6") \in Ops /\ Call("file") \in Ops /\ \A n \in Nat : Op("flash", n) \in Ops
      BY <2>2, OneOp
    <3> QED
      BY <2>2, <3>1 DEF Call, Op
  <2>4. /\ SteadyOp(Op("flash", 0)) /\ SteadyOp(Op("flash", PartitionAddress)) /\ SteadyOp(Op("flash", OtaDataAddress))
        /\ SteadyOp(Op("flash", ApplicationAddress))
    BY <2>1, <2>3
  <2> HIDE DEF SteadyOp
  <2>5. \A k \in 1 .. 9 : SteadyOp(files[k])
    BY <2>3, <2>4
  <2>6. files \in Seq(Ops) /\ Len(files) = 9
    BY <2>3, <2>4 DEF SteadyOp
  <2> HIDE DEF files
  <2> QED
    BY <2>5, <2>6 DEF Steady, SteadyOp
<1>2. CASE hello
  BY <1>2, FlashImagesSteady DEF Lx16Images
<1>3. CASE ~hello
  <2>1. Lx16Images(hello) = files
    BY <1>3 DEF Lx16Images
  <2> HIDE DEF files
  <2> QED
    BY <1>1, <2>1
<1> QED
  BY <1>2, <1>3

LEMMA Lx16Plan ==
  ASSUME ~Spi, NEW power \in {"none", "0", "1", "2"}, NEW hello \in BOOLEAN, NEW rate \in Nat
  PROVE  Plan(Lx16(power, hello, rate)) /\ RatesFit(Lx16(power, hello, rate))
<1> DEFINE i == <<Op("init", rate)>>
           c == <<Op("connect", 115200)>>
           x == Lx16Images(hello)
           y == <<Call("reset"), Call("deinit"), Op("open_uart", rate), Call("monitor")>>
<1>1. {"reset", "deinit", "open_uart", "enter_bootloader", "init"} \subseteq Disturbs \ (Links \cup {"load_ram", "pin"})
  BY DEF Disturbs, Links
<1>2. Plain(i) /\ Plain(y) /\ Plain(<<Call("reset")>>) /\ Plain(<<Call("enter_bootloader")>>)
  <2>1. /\ PlainOp(Call("reset")) /\ PlainOp(Call("deinit")) /\ PlainOp(Op("open_uart", rate)) /\ PlainOp(Call("monitor"))
        /\ PlainOp(Call("enter_bootloader")) /\ PlainOp(Op("init", rate))
    BY <1>1, PlainOps
  <2> QED
    BY <2>1, PlainTuples
<1>3. Plain(<<Pin("reset", 0), Pin("boot", 1)>>)
  <2>1. PlainOp(Pin("reset", 0)) /\ PlainOp(Pin("boot", 1))
    BY PlainOps
  <2> QED
    BY <2>1, PlainTuples
<1>5. Steady(x)
  BY Lx16ImagesSteady
<1>6. Plan(c) /\ EndsLinked(c) /\ RatesFit(c)
  <2>1. c \in Seq(Ops)
    BY OpsAre
  <2>2. Len(c) = 1 /\ c[1][1] = "connect" /\ c[1][2] = 115200 /\ 115200 \in TermiosRates
    BY DEF Op, TermiosRates
  <2> HIDE DEF c
  <2>3. \A k \in 1 .. Len(c) : k = 1
    BY <2>2
  <2>4. Plan(c)
    BY <2>1, <2>2, <2>3 DEF Plan, Paired, Exchanges
  <2>5. EndsLinked(c)
    <3>1. Undisturbed(c, 1 + 1, Len(c)) /\ 1 \in 1 .. Len(c) /\ c[1][1] \in Links
      BY <2>2 DEF Undisturbed, Links
    <3> QED
      BY <3>1 DEF EndsLinked
  <2>6. RatesFit(c)
    BY <2>2, <2>3 DEF RatesFit, RateFits
  <2> QED
    BY <2>4, <2>5, <2>6
<1>7. Plan(i) /\ RatesFit(i)
  BY <1>2, PlainPlan
<1> HIDE DEF i, c, x, y
<1>8. Plan(c \o x) /\ RatesFit(c \o x)
  BY <1>5, <1>6, SteadyAppended
<1> DEFINE u == c \o x
<1> HIDE DEF u
<1>9. Plan(u \o y) /\ RatesFit(u \o y)
  BY <1>2, <1>8, PlainAppended DEF u
<1> DEFINE v == u \o y
<1> HIDE DEF v
<1>10. Plan(i \o v) /\ RatesFit(i \o v)
  <2>1. Plan(v) /\ RatesFit(v) /\ Rest(v) /\ (v # <<>> => v[1][1] # "port_rate")
    BY <1>9, PlanIsRest DEF v, Plan
  <2>2. i \in Seq(Ops) /\ v \in Seq(Ops)
    BY <1>7, <2>1 DEF Plan
  <2> QED
    BY <1>7, <2>1, <2>2, PlansJoin, RatesJoin
<1>11. CASE power = "none"
  <2>1. Lx16(power, hello, rate) = i \o v
    BY <1>11 DEF Lx16, i, c, x, y, u, v
  <2> QED
    BY <1>10, <2>1
<1>12. CASE power = "0"
  <2>1. Lx16(power, hello, rate) = i \o <<Pin("reset", 0), Pin("boot", 1)>>
    BY <1>12 DEF Lx16, i
  <2> QED
    BY <1>3, <1>7, <2>1, PlainAppended
<1>13. CASE power = "1"
  <2>1. Lx16(power, hello, rate) = i \o <<Call("reset")>>
    BY <1>13 DEF Lx16, i
  <2> QED
    BY <1>2, <1>7, <2>1, PlainAppended
<1>14. CASE power = "2"
  <2>1. Lx16(power, hello, rate) = i \o <<Call("enter_bootloader")>>
    BY <1>14 DEF Lx16, i
  <2> QED
    BY <1>2, <1>7, <2>1, PlainAppended
<1> QED
  BY <1>11, <1>12, <1>13, <1>14

\* What a program does before the rest of it.
LEMMA PlainBefore ==
  ASSUME NEW a, Plain(a), NEW s, Plan(s), RatesFit(s)
  PROVE  Plan(a \o s) /\ RatesFit(a \o s)
<1>1. Plan(a) /\ RatesFit(a)
  BY PlainPlan
<1>2. Rest(s) /\ (s # <<>> => s[1][1] # "port_rate") /\ a \in Seq(Ops) /\ s \in Seq(Ops)
  BY PlanIsRest DEF Plan, Plain
<1> QED
  BY <1>1, <1>2, PlansJoin, RatesJoin

LEMMA BoardOps ==
  /\ Plain(<<Call("devices"), Op("board_pins", [boot |-> 1, reset |-> 0])>>)
  /\ Plain(<<Op("board_pins", [boot |-> 0, reset |-> 0]), Call("board_uart")>>)
<1>1. /\ PlainOp(Op("board_pins", [boot |-> 1, reset |-> 0])) /\ PlainOp(Op("board_pins", [boot |-> 0, reset |-> 0]))
      /\ PlainOp(Call("devices")) /\ PlainOp(Call("board_uart"))
  BY PlainOps
<1> QED
  BY <1>1, PlainTuples

\* What every program begins with is a plan, and within the rates of its port.
LEMMA MainIs ==
  ASSUME main \in MainOptions
  PROVE  /\ main.name \in MainNames
         /\ Lx => main.power \in {"none", "0", "1", "2"} /\ main.hello \in BOOLEAN /\ main.rate \in Nat
<1> DEFINE d == 115200
<1> HIDE DEF d
<1>1. CASE main \in {[name |-> m, power |-> "none", hello |-> TRUE, rate |-> d] : m \in Mains \ {"lx16"}}
  BY <1>1, MainsAssumption DEF Lx
<1>2. CASE main \in {o \in Lx16Options : o.name \in Mains}
  BY <1>2, RatesAssumption, MainsAssumption DEF Lx16Options, MainNames
<1> QED
  BY <1>1, <1>2 DEF MainOptions, d

LEMMA StepsPlan ==
  ASSUME main \in MainOptions
  PROVE  Plan(Steps(main)) /\ RatesFit(Steps(main))
<1>1. main.name \in MainNames
  BY MainIs
<1>2. CASE main.name = "esp32_example"
  <2>1. Steps(main) = Esp32Example /\ ~Spi
    BY <1>2 DEF Steps, Spi
  <2> DEFINE d == 115200
             r == 230400
             a == <<Op("init", d), Op("connect", r)>>
  <2>2. d \in Nat /\ r \in TermiosRates
    BY DEF TermiosRates
  <2>3. Esp32Example = a \o FlashImages \o <<Call("reset")>> \o SlaveMonitor
    BY DEF Esp32Example
  <2> HIDE DEF d, r
  <2> QED
    BY <2>1, <2>2, <2>3, FlashingPrograms
<1>3. CASE main.name = "esp32_stub_example"
  <2>1. Steps(main) = Esp32StubExample /\ ~Spi
    BY <1>3 DEF Steps, Spi
  <2> DEFINE d == 115200
             r == 230400
             a == <<Op("init", d), Op("connect_with_stub", r)>>
  <2>2. d \in Nat /\ r \in TermiosRates
    BY DEF TermiosRates
  <2>3. Esp32StubExample = a \o FlashImages \o <<Call("reset")>> \o SlaveMonitor
    BY DEF Esp32StubExample
  <2> HIDE DEF d, r
  <2> QED
    BY <2>1, <2>2, <2>3, FlashingPrograms
<1>4. CASE main.name = "raspberry_example"
  <2>1. Steps(main) = RaspberryExample /\ ~Spi
    BY <1>4 DEF Steps, Spi
  <2> DEFINE d == 115200
             r == 460800
             a == <<Op("init", d), Op("connect", r)>>
             s == <<Call("reset"), Call("deinit"), Op("open_uart", 115200), Call("delay"), Call("monitor")>>
  <2>2. d \in Nat /\ r \in TermiosRates
    BY DEF TermiosRates
  <2>3. RaspberryExample = a \o FlashImages \o s
    BY DEF RaspberryExample
  <2>4. Plain(s)
    BY AfterFlashing
  <2> HIDE DEF s
  <2> HIDE DEF d, r
  <2> QED
    BY <2>1, <2>2, <2>3, <2>4, FlashingPrograms
<1>5. CASE main.name = "pi_pico_example"
  <2>1. Steps(main) = PiPicoExample /\ ~Spi
    BY <1>5 DEF Steps, Spi
  <2> DEFINE d == 115200
             r == 230400
             a == <<Op("init", d), Op("connect", r)>>
             s == <<Call("reset"), Call("deinit"), Call("delay"), Op("open_uart", 115200), Call("monitor")>>
  <2>2. d \in Nat /\ r \in TermiosRates
    BY DEF TermiosRates
  <2>3. PiPicoExample = a \o FlashImages \o s
    BY DEF PiPicoExample
  <2>4. Plain(s)
    BY AfterFlashing
  <2> HIDE DEF s
  <2> HIDE DEF d, r
  <2> QED
    BY <2>1, <2>2, <2>3, <2>4, FlashingPrograms
<1>6. CASE main.name = "zephyr_example"
  <2>1. Steps(main) = ZephyrExample /\ ~Spi
    BY <1>6 DEF Steps, Spi
  <2> DEFINE d == 115200
             r == 230400
             a == <<Op("init", d), Op("connect", r)>>
  <2>2. d \in Nat /\ r \in TermiosRates
    BY DEF TermiosRates
  <2> DEFINE b == <<Call("devices"), Op("board_pins", [boot |-> 1, reset |-> 0])>>
             s == <<Call("reset")>>
  <2>3. ZephyrExample = b \o (a \o FlashImages \o s)
    BY DEF ZephyrExample
  <2>4. Plain(b) /\ Plain(s)
    BY BoardOps, AfterFlashing
  <2> HIDE DEF b, s, d, r
  <2>5. Plan(a \o FlashImages \o s) /\ RatesFit(a \o FlashImages \o s)
    BY <2>1, <2>2, <2>4, FlashingPrograms
  <2> HIDE DEF a
  <2> QED
    BY <2>1, <2>3, <2>4, <2>5, PlainBefore
<1>7. CASE main.name = "stm32_example"
  <2>1. Steps(main) = Stm32Example /\ ~Spi
    BY <1>7 DEF Steps, Spi
  <2> DEFINE d == 115200
             r == 230400
             a == <<Op("init", d), Op("connect", r)>>
             s == <<Call("reset"), Op("open_uart", 115200), Call("delay"), Call("monitor")>>
  <2>2. d \in Nat /\ r \in TermiosRates
    BY DEF TermiosRates
  <2> DEFINE b == <<Op("board_pins", [boot |-> 0, reset |-> 0]), Call("board_uart")>>
  <2>3. Stm32Example = b \o (a \o FlashImages \o s)
    BY DEF Stm32Example
  <2>4. Plain(b) /\ Plain(s)
    BY BoardOps, AfterFlashing
  <2> HIDE DEF b, s, d, r
  <2>5. Plan(a \o FlashImages \o s) /\ RatesFit(a \o FlashImages \o s)
    BY <2>1, <2>2, <2>4, FlashingPrograms
  <2> HIDE DEF a
  <2> QED
    BY <2>1, <2>3, <2>4, <2>5, PlainBefore
<1>8. CASE main.name = "esp32_load_ram_example"
  <2>1. Steps(main) = Esp32LoadRamExample /\ ~Spi
    BY <1>8 DEF Steps, Spi
  <2> QED
    BY <2>1, LoadRamPlan
<1>9. CASE main.name = "esp32_spi_load_ram_example"
  <2>1. Steps(main) = Esp32SpiLoadRamExample
    BY <1>9 DEF Steps, Spi
  <2> QED
    BY <2>1, SpiLoadRamPlan
<1>10. CASE main.name = "esp32_get_target_info_example"
  <2>1. Steps(main) = Esp32GetTargetInfo /\ ~Spi
    BY <1>10 DEF Steps, Spi
  <2> QED
    BY <2>1, InfoPlan
<1>11. CASE main.name = "lx16"
  <2>1. Steps(main) = Lx16(main.power, main.hello, main.rate) /\ ~Spi
    BY <1>11 DEF Steps, Spi
  <2>2. main.power \in {"none", "0", "1", "2"} /\ main.hello \in BOOLEAN /\ main.rate \in Nat
    BY <1>11, MainIs DEF Lx
  <2> QED
    BY <2>1, <2>2, Lx16Plan
<1> QED
  BY <1>1, <1>2, <1>3, <1>4, <1>5, <1>6, <1>7, <1>8, <1>9, <1>10, <1>11 DEF MainNames

\* What initialising a port and changing its rate can come to.
LEMMA OpenedIs ==
  /\ Closed \in PortRecords
  /\ \A r \in Arguments : Opened(r) \in PortRecords
<1>1. 0 \in Arguments
  BY DEF Arguments
<1> QED
  BY <1>1 DEF PortRecords, Closed, Opened

LEMMA Outcomes ==
  /\ \A p : Outcome(TRUE, p).port = p /\ Outcome(TRUE, p).ok
  /\ \A p : Outcome(FALSE, p).port = p /\ ~Outcome(FALSE, p).ok
  BY DEF Outcome

LEMMA InitsAre ==
  ASSUME main.name \in MainNames, NEW r
  PROVE  \/ Inits(r) = Esp32Init(r) \/ Inits(r) = RaspberryInit(r) \/ Inits(r) = PiPicoInit(r)
         \/ Inits(r) = ZephyrInit(r) \/ Inits(r) = Stm32Init(r) \/ Inits(r) = SpiInit
<1>1. CASE main.name \in Esp32Ports
  BY <1>1 DEF Inits
<1>2. CASE main.name \notin Esp32Ports /\ main.name \in {"raspberry_example", "lx16"}
  BY <1>2 DEF Inits, SerialDevice
<1>3. CASE Pico
  BY <1>3 DEF Inits, Pico, Esp32Ports, SerialDevice
<1>4. CASE main.name = "zephyr_example"
  BY <1>4 DEF Inits, Pico, Esp32Ports, SerialDevice
<1>5. CASE main.name = "stm32_example"
  BY <1>5 DEF Inits, Pico, Esp32Ports, SerialDevice
<1>6. CASE Spi
  BY <1>6 DEF Inits, Pico, Esp32Ports, SerialDevice, Spi
<1> QED
  BY <1>1, <1>2, <1>3, <1>4, <1>5, <1>6 DEF MainNames, Esp32Ports, Pico, Spi

LEMMA InitOutcomes ==
  ASSUME main.name \in MainNames, NEW r \in Nat, NEW o \in Inits(r)
  PROVE  o.port \in PortRecords
<1>1. /\ Closed \in PortRecords /\ Opened(r) \in PortRecords /\ Opened(0) \in PortRecords
      /\ Opened(TooFast(r)) \in PortRecords
  BY OpenedIs DEF Arguments, TooFast
<1>2. CASE Inits(r) = Esp32Init(r)
  BY <1>1, <1>2, Outcomes DEF Esp32Init
<1>3. CASE Inits(r) = RaspberryInit(r)
  <2>a. ASSUME NEW k \in Arguments PROVE [Opened(k) EXCEPT !.pins = FALSE] \in PortRecords
    <3> DEFINE q == Opened(k)
    <3>1. q \in PortRecords
      BY OpenedIs
    <3> HIDE DEF q
    <3>2. [q EXCEPT !.pins = FALSE] \in PortRecords
      BY <3>1 DEF PortRecords
    <3> QED
      BY <3>2 DEF q
  <2>b. ConvertBaudrate(r, DeviceRate) \in Arguments /\ DeviceRate \in Arguments
    BY DEF ConvertBaudrate, DeviceRate, Arguments
  <2>1. \A p \in SerialOpen(r) : p \in PortRecords
    BY <1>1, <2>a, <2>b DEF SerialOpen
  <2>2. PICK p \in SerialOpen(r) :
          o \in (IF ~p.open THEN {Outcome(FALSE, p)}
                 ELSE {Outcome(FALSE, p), Outcome(TRUE, [p EXCEPT !.pins = TRUE])})
    BY <1>3 DEF RaspberryInit
  <2>3. p \in PortRecords
    BY <2>1
  <2>4. [p EXCEPT !.pins = TRUE] \in PortRecords
    BY <2>3 DEF PortRecords
  <2>5. o = Outcome(FALSE, p) \/ o = Outcome(TRUE, [p EXCEPT !.pins = TRUE])
    BY <2>2
  <2> QED
    BY <2>3, <2>4, <2>5, Outcomes
<1>4. CASE Inits(r) = PiPicoInit(r)
  BY <1>1, <1>4, Outcomes DEF PiPicoInit
<1>5. CASE Inits(r) = ZephyrInit(r)
  BY <1>1, <1>5, Outcomes DEF ZephyrInit
<1>6. CASE Inits(r) = Stm32Init(r)
  BY <1>1, <1>6, Outcomes DEF Stm32Init
<1>7. CASE Inits(r) = SpiInit
  <2>2. [Closed EXCEPT !.owned = TRUE] \in PortRecords
    BY DEF Closed, PortRecords, Arguments
  <2> QED
    BY <1>1, <1>7, <2>2, Outcomes DEF SpiInit
<1> QED
  BY <1>2, <1>3, <1>4, <1>5, <1>6, <1>7, InitsAre

LEMMA RatesAre ==
  ASSUME main.name \in MainNames, ~Spi, NEW r
  PROVE  \/ RateChanges(r) = Esp32Rate(port, r) \/ RateChanges(r) = RaspberryRate(port, r)
         \/ RateChanges(r) = PiPicoRate(port, r) \/ RateChanges(r) = ZephyrRate(port, r)
         \/ RateChanges(r) = Stm32Rate(port, r)
<1>1. CASE main.name \in Esp32Ports
  BY <1>1 DEF RateChanges
<1>2. CASE main.name \notin Esp32Ports /\ main.name \in {"raspberry_example", "lx16"}
  BY <1>2 DEF RateChanges, SerialDevice
<1>3. CASE Pico
  BY <1>3 DEF RateChanges, Pico, Esp32Ports, SerialDevice
<1>4. CASE main.name = "zephyr_example"
  BY <1>4 DEF RateChanges, Pico, Esp32Ports, SerialDevice
<1>5. CASE main.name = "stm32_example"
  BY <1>5 DEF RateChanges, Pico, Esp32Ports, SerialDevice
<1> QED
  BY <1>1, <1>2, <1>3, <1>4, <1>5 DEF MainNames, Esp32Ports, Pico, Spi

\* A change that succeeds leaves the interface as it is, at the rate asked for
\* unless the port is mistaken.
LEMMA AtRateIs ==
  ASSUME NEW p \in PortRecords, NEW got \in Arguments, NEW asked
  PROVE  LET q == AtRate(p, got, asked)
         IN  q \in PortRecords /\ q.open = p.open /\ q.rate = got /\ (q.rate = asked \/ q.misled)
<1> DEFINE b == got # asked
           q == [p EXCEPT !.rate = got, !.misled = b]
<1>1. b \in BOOLEAN /\ (got = asked \/ b)
  OBVIOUS
<1>2. AtRate(p, got, asked) = q
  BY DEF AtRate
<1> HIDE DEF b
<1>3. q \in PortRecords /\ q.open = p.open /\ q.rate = got /\ q.misled = b
  BY <1>1 DEF PortRecords
<1> QED
  BY <1>1, <1>2, <1>3

LEMMA RateOutcomes ==
  ASSUME main.name \in MainNames, ~Spi, port \in PortRecords, NEW r \in TermiosRates, NEW o \in RateChanges(r)
  PROVE  o.port \in PortRecords /\ (o.ok => o.port.open = port.open /\ (o.port.rate = r \/ o.port.misled))
<1>1. r \in Arguments /\ TooSlow(r) \in Arguments /\ TooFast(r) \in Arguments /\ port.rate \in Arguments
  <2>1. r \in Nat
    BY DEF TermiosRates
  <2>2. port.rate \in Arguments
    BY DEF PortRecords
  <2> QED
    BY <2>1, <2>2 DEF Arguments, TooSlow, TooFast
<1>2. \A k \in Arguments : [port EXCEPT !.rate = k] \in PortRecords /\ [port EXCEPT !.rate = k, !.open = FALSE] \in PortRecords
  BY DEF PortRecords
<1>a. ASSUME NEW p \in PortRecords, o = Outcome(FALSE, p) PROVE o.port \in PortRecords /\ ~o.ok
  BY <1>a, Outcomes
<1>b. ASSUME NEW k \in Arguments, o = Outcome(TRUE, AtRate(port, k, r))
      PROVE  o.port \in PortRecords /\ o.port.open = port.open /\ (o.port.rate = r \/ o.port.misled)
  <2> DEFINE q == AtRate(port, k, r)
  <2>1. q \in PortRecords /\ q.open = port.open /\ (q.rate = r \/ q.misled)
    BY AtRateIs
  <2>2. o = Outcome(TRUE, q)
    BY <1>b
  <2> HIDE DEF q
  <2>3. o.port = q
    BY <2>2, Outcomes
  <2> QED
    BY <2>1, <2>3
<1>5. CASE RateChanges(r) = Esp32Rate(port, r)
  <2>1. o = Outcome(FALSE, port) \/ o = Outcome(TRUE, AtRate(port, r, r))
    BY <1>5 DEF Esp32Rate
  <2> QED
    BY <1>1, <1>a, <1>b, <2>1
<1>6. CASE RateChanges(r) = RaspberryRate(port, r)
  <2>1. ConvertBaudrate(r, port.rate) \in Arguments
    BY <1>1 DEF ConvertBaudrate
  <2>2. o = Outcome(TRUE, AtRate(port, ConvertBaudrate(r, port.rate), r)) \/ o = Outcome(TRUE, AtRate(port, port.rate, r))
    BY <1>6 DEF RaspberryRate
  <2> QED
    BY <1>1, <1>b, <2>1, <2>2
<1>7. CASE RateChanges(r) = PiPicoRate(port, r)
  <2>1. \/ o = Outcome(FALSE, [port EXCEPT !.rate = TooSlow(r)]) \/ o = Outcome(TRUE, AtRate(port, r, r))
        \/ o = Outcome(TRUE, AtRate(port, TooFast(r), r))
    BY <1>7 DEF PiPicoRate
  <2> QED
    BY <1>1, <1>2, <1>a, <1>b, <2>1
<1>8. CASE RateChanges(r) = ZephyrRate(port, r)
  <2>1. \/ o = Outcome(FALSE, port) \/ o = Outcome(FALSE, [port EXCEPT !.rate = r])
        \/ o = Outcome(TRUE, AtRate(port, r, r))
    BY <1>8 DEF ZephyrRate
  <2> QED
    BY <1>1, <1>2, <1>a, <1>b, <2>1
<1>9. CASE RateChanges(r) = Stm32Rate(port, r)
  <2>1. o = Outcome(FALSE, [port EXCEPT !.rate = r, !.open = FALSE]) \/ o = Outcome(TRUE, AtRate(port, r, r))
    BY <1>9 DEF Stm32Rate
  <2> QED
    BY <1>1, <1>2, <1>a, <1>b, <2>1
<1> QED
  BY <1>5, <1>6, <1>7, <1>8, <1>9, RatesAre

\* The reset line changes what runs, and nothing else.
LEMMA DrivenTarget ==
  ASSUME target \in TargetRecords, NEW p, Driven(p)
  PROVE  target' \in TargetRecords
<1>1. [target EXCEPT !.runs = "held"] \in TargetRecords /\ [target EXCEPT !.runs = "starting"] \in TargetRecords
  BY DEF TargetRecords
<1> QED
  BY <1>1 DEF Driven

-----------------------------------------------------------------------------
(* The steps of the programs *)

LEMMA FirstOf ==
  ASSUME NEW s, Rest(s), s # <<>>
  PROVE  /\ s \in Seq(Ops) /\ Head(s) = s[1] /\ s[1][2] \in Arguments
         /\ s[1][1] # "target_rate" => (Tail(s) # <<>> => Tail(s)[1][1] # "port_rate")
         /\ s[1][1] = "target_rate" => Tail(s) # <<>> /\ Tail(s)[1] = <<"port_rate", s[1][2]>>
         /\ Plan(s) => s[1][1] \notin Exchanges \cup {"port_rate"}
<1> DEFINE t == Tail(s)
<1>1. s \in Seq(Ops)
  BY DEF Rest
<1>2. /\ t \in Seq(Ops) /\ Len(t) = Len(s) - 1 /\ Len(s) \in Nat \ {0} /\ Head(s) = s[1]
      /\ \A i \in 1 .. Len(s) - 1 : i + 1 \in 1 .. Len(s) /\ t[i] = s[i + 1]
  BY <1>1, TailIs
<1>3. s[1][2] \in Arguments
  <2>1. s[1] \in Ops
    BY <1>1, <1>2
  <2> QED
    BY <2>1 DEF Ops
<1> HIDE DEF t
<1>4. ASSUME t # <<>>, s[1][1] # "target_rate" PROVE t[1][1] # "port_rate"
  <2>1. 1 \in 1 .. Len(s) - 1 /\ 2 \in 1 .. Len(s) /\ t[1] = s[2]
    BY <1>2, <1>4
  <2>2. s[2][1] = "port_rate" => s[1][1] = "target_rate"
    BY <2>1 DEF Rest, Paired
  <2> QED
    BY <1>4, <2>1, <2>2
<1>5. ASSUME s[1][1] = "target_rate" PROVE t # <<>> /\ t[1] = <<"port_rate", s[1][2]>>
  <2>1. 1 < Len(s) /\ s[2] = <<"port_rate", s[1][2]>>
    BY <1>2, <1>5 DEF Rest, Paired
  <2> QED
    BY <1>2, <2>1
<1>6. ASSUME Plan(s) PROVE s[1][1] \notin Exchanges \cup {"port_rate"}
  <2>1. ~Prepared(s, 1)
    BY DEF Prepared
  <2>2. 1 \in 1 .. Len(s)
    BY <1>2
  <2> QED
    BY <1>6, <2>1, <2>2 DEF Plan
<1> QED
  BY <1>1, <1>2, <1>3, <1>4, <1>5, <1>6 DEF t

\* What is left of the program can be relied on only while the two ends are linked.
LEMMA InvSays ==
  ASSUME ProgramInv
  PROVE  /\ main \in MainOptions /\ main.name \in MainNames /\ port \in PortRecords /\ target \in TargetRecords
         /\ Rest(todo) /\ RatesFit(todo) /\ todo \in Seq(Ops)
         /\ Plan(todo) \/ Linked
  BY PlanIsRest, MainIs DEF ProgramInv, Rest

LEMMA InvKept ==
  ASSUME ProgramInv, main' = main, port' \in PortRecords, target' \in TargetRecords, RatesFit(todo'),
         Plan(todo') \/ (Linked' /\ Rest(todo'))
  PROVE  ProgramInv'
<1>1. RatesFit(todo)'
  BY DEF RatesFit, RateFits, Spi
<1> QED
  BY <1>1 DEF ProgramInv

LEMMA Failing ==
  /\ Plan(<<>>) /\ RatesFit(<<>>)
  /\ Plan(AfterFailure) /\ RatesFit(AfterFailure)
<1>1. Plain(<<>>) /\ Plain(<<Call("reset")>>)
  BY PlainTuples, AfterFlashing
<1>2. Plain(AfterFailure)
  BY <1>1 DEF AfterFailure
<1> QED
  BY <1>1, <1>2, PlainPlan

LEMMA Disturbing ==
  ASSUME ProgramInv, todo # <<>>, todo[1][1] \in Disturbs \ Links
  PROVE  Plan(Tail(todo)) /\ RatesFit(Tail(todo))
<1>1. Rest(todo) /\ RatesFit(todo) /\ todo \in Seq(Ops)
  BY InvSays
<1>2. todo[1][1] \notin Links \cup {"target_rate"}
  BY DEF Disturbs, Links
<1> QED
  BY <1>1, <1>2, PlanGoesOn, RatesGoOn

LEMMA Expanding ==
  ASSUME ProgramInv, todo # <<>>, todo[1][1] \in Disturbs,
         NEW ops, Plan(ops), RatesFit(ops), todo[1][1] \in Links => EndsLinked(ops)
  PROVE  Plan(ops \o Tail(todo)) /\ RatesFit(ops \o Tail(todo))
<1>1. Rest(todo) /\ RatesFit(todo) /\ todo \in Seq(Ops)
  BY InvSays
<1>2. Rest(Tail(todo)) /\ RatesFit(Tail(todo)) /\ Tail(todo) \in Seq(Ops)
  BY <1>1, RestGoesOn, RatesGoOn, TailIs
<1>3. Tail(todo) # <<>> => Tail(todo)[1][1] # "port_rate"
  <2>1. todo[1][1] # "target_rate"
    BY DEF Disturbs, Links
  <2> QED
    BY <1>1, <2>1, FirstOf
<1>4. Plan(Tail(todo)) \/ EndsLinked(ops)
  BY Disturbing
<1>5. ops \in Seq(Ops)
  BY DEF Plan
<1> QED
  BY <1>2, <1>3, <1>4, <1>5, PlansJoin, RatesJoin

LEMMA Passing ==
  ASSUME ProgramInv, todo # <<>>, todo[1][1] \notin Disturbs \cup {"target_rate", "port_rate"},
         todo' = Tail(todo), UNCHANGED <<port, target>>
  PROVE  RatesFit(todo') /\ (Plan(todo') \/ (Linked' /\ Rest(todo')))
<1>1. Rest(todo) /\ RatesFit(todo) /\ todo \in Seq(Ops)
  BY InvSays
<1>2. RatesFit(todo') /\ Rest(todo')
  BY <1>1, RestGoesOn, RatesGoOn
<1>3. CASE Plan(todo)
  <2>1. todo[1][1] \notin Links
    BY DEF Disturbs
  <2> QED
    BY <1>1, <1>2, <1>3, <2>1, PlanGoesOn
<1>4. CASE Linked
  <2>1. Head(todo) = todo[1] /\ (todo' # <<>> => todo'[1][1] # "port_rate")
    BY <1>1, FirstOf
  <2>2. todo' \in Seq(Ops)
    BY <1>2 DEF Rest
  <2>3. todo' # <<>> => Head(todo') = todo'[1]
    BY <1>2, FirstOf
  <2>4. ~Due("port_rate") /\ ~Due("port_rate")'
    BY <2>1, <2>3 DEF Due
  <2>5. Linked'
    BY <1>4, <2>4 DEF Linked
  <2> QED
    BY <1>2, <2>5
<1> QED
  BY <1>3, <1>4, InvSays

LEMMA Hearing ==
  ASSUME ProgramInv, todo # <<>>, todo[1][1] \in Exchanges
  PROVE  port.open /\ target.runs \in Loader /\ (target.rate = port.rate \/ port.misled)
<1>1. Rest(todo) /\ (Plan(todo) \/ Linked)
  BY InvSays
<1>2. Linked
  BY <1>1, FirstOf
<1>3. ~Due("port_rate")
  <2>1. Head(todo) = todo[1]
    BY <1>1, FirstOf
  <2> QED
    BY <2>1 DEF Due, Exchanges
<1> QED
  BY <1>2, <1>3 DEF Linked

\* The operation that is due.
LEMMA DueIs ==
  ASSUME ProgramInv, NEW name, Due(name)
  PROVE  /\ todo # <<>> /\ todo[1][1] = name /\ Arg = todo[1][2] /\ Arg \in Arguments
         /\ name = "init" => Arg \in Nat
<1>1. todo # <<>> /\ todo[1][1] = name /\ Arg = todo[1][2] /\ Arg \in Arguments /\ todo \in Seq(Ops)
  BY InvSays, FirstOf DEF Due, Arg
<1>2. todo[1] \in Ops
  BY <1>1
<1> QED
  BY <1>1, <1>2 DEF Ops

\* The levels of the pins are numbers, so that the sequences of a reset are operations.
LEMMA ResetPlain ==
  /\ \A v : Plain(PortResetTarget(v)) /\ Plain(SpiResetTarget)
  /\ \A v : Plain(PortEnterBootloader(v)) /\ Plain(SpiEnterBootloader)
<1>1. \A pin \in {"reset", "boot"} \cup Straps : PlainOp(Pin(pin, 0)) /\ PlainOp(Pin(pin, 1))
  BY PlainOps
<1>2. \A v, w : \A pin \in {"reset", "boot"} : PlainOp(Pin(pin, Level(v, w)))
  BY <1>1 DEF Level
<1>3. PlainOp(Hold)
  BY PlainOps
<1>4. \A v : Plain(PortResetTarget(v))
  BY <1>2, <1>3, PlainTuples DEF PortResetTarget
<1>5. Plain(SpiResetTarget)
  BY <1>1, <1>3, PlainTuples DEF SpiResetTarget
<1>6. \A s, t : Plain(s) /\ Plain(t) => Plain(s \o t)
  <2> SUFFICES ASSUME NEW s, NEW t, Plain(s), Plain(t) PROVE Plain(s \o t)
    OBVIOUS
  <2>1. s \in Seq(Ops) /\ t \in Seq(Ops)
    BY DEF Plain
  <2>2. \A i \in 1 .. Len(s \o t) : i \in 1 .. Len(s) \/ (i - Len(s) \in 1 .. Len(t) /\ i = Len(s) + (i - Len(s)))
    BY <2>1, JoinedIs
  <2> QED
    BY <2>1, <2>2, JoinedIs DEF Plain
<1>7. \A v : Plain(PortEnterBootloader(v))
  <2>1. \A v : Plain(<<Pin("boot", Level(v, TRUE))>>) /\ Plain(<<Hold, Pin("boot", Level(v, FALSE))>>)
    BY <1>2, <1>3, PlainTuples
  <2> QED
    BY <1>4, <1>6, <2>1 DEF PortEnterBootloader
<1>8. Plain(SpiEnterBootloader)
  <2> DEFINE a == <<<<"bus_down", 0>>, Pin("strap0", 1), Pin("strap1", 0), Pin("strap2", 0), Pin("strap3", 0)>>
             b == <<Hold, Pin("strap3", 1), Pin("strap0", 0), <<"float_straps", 0>>, <<"bus_up", 0>>>>
  <2>1. PlainOp(<<"bus_down", 0>>) /\ PlainOp(<<"float_straps", 0>>) /\ PlainOp(<<"bus_up", 0>>)
    <3>1. {"bus_down", "float_straps", "bus_up"} \subseteq Disturbs \ (Links \cup {"load_ram", "pin"})
      BY DEF Disturbs, Links
    <3> QED
      BY <3>1, PlainOps DEF Call
  <2>2. \A pin \in Straps : PlainOp(Pin(pin, 0)) /\ PlainOp(Pin(pin, 1))
    BY <1>1
  <2>3. Plain(a)
    BY <2>1, <2>2, PlainTuples DEF Straps
  <2>4. Plain(b)
    BY <1>3, <2>1, <2>2, PlainTuples DEF Straps
  <2>5. SpiEnterBootloader = a \o SpiResetTarget \o b
    BY DEF SpiEnterBootloader
  <2> HIDE DEF a, b
  <2> QED
    BY <1>5, <1>6, <2>3, <2>4, <2>5
<1> QED
  BY <1>4, <1>5, <1>7, <1>8

LEMMA StepTargetStarts ==
  ASSUME ProgramInv, TargetStarts
  PROVE  ProgramInv'
<1>1. target.runs = "starting" /\ UNCHANGED <<main, todo, port>>
  BY DEF TargetStarts, fixed
<1>2. target' \in TargetRecords
  <2>1. Application \in {"new", "old", "broken"}
    BY DEF Application
  <2>2. ConsoleRate \in Arguments /\ 0 \in Arguments
    BY DEF ConsoleRate, Arguments
  <2> DEFINE ap == Application
  <2>3. target' = [runs |-> "rom", rate |-> 0] \/ target' = [runs |-> ap, rate |-> ConsoleRate]
    BY DEF TargetStarts
  <2>4. ap \in {"new", "old", "broken"}
    BY <2>1
  <2> HIDE DEF ap
  <2> QED
    BY <2>2, <2>3, <2>4 DEF TargetRecords, Loader
<1>3. Plan(todo')
  BY <1>1, InvSays DEF Linked, Loader
<1>4. RatesFit(todo')
  BY <1>1, InvSays
<1> QED
  BY <1>1, <1>2, <1>3, <1>4, InvKept, InvSays

LEMMA StepUnchanged ==
  ASSUME ProgramInv, UNCHANGED programVars
  PROVE  ProgramInv'
  BY DEF ProgramInv, programVars, Linked, Due, Arg, RatesFit, RateFits, Spi

LEMMA StepInitPort ==
  ASSUME ProgramInv, InitPort
  PROVE  ProgramInv'
<1>1. todo # <<>> /\ todo[1][1] = "init" /\ Arg \in Nat
  BY DueIs DEF InitPort
<1>2. PICK o \in Inits(Arg) :
        /\ port' = o.port
        /\ \/ o.ok /\ Goes /\ UNCHANGED mishaps /\ \E p \in PinsDriven : pins' = p /\ Driven(p)
           \/ /\ ~o.ok
              /\ \/ Checked /\ GivesUp
                 \/ ~Checked /\ Goes /\ UNCHANGED mishaps
              /\ UNCHANGED <<pins, target>>
  BY DEF InitPort
<1>3. port' \in PortRecords
  BY <1>1, <1>2, InitOutcomes, InvSays
<1>4. target' \in TargetRecords
  BY <1>2, DrivenTarget, InvSays
<1>5. todo' = <<>> \/ todo' = Tail(todo)
  BY <1>2 DEF Goes, GivesUp
<1>6. RatesFit(todo') /\ Plan(todo')
  <2>1. todo[1][1] \in Disturbs \ Links
    BY <1>1 DEF Disturbs, Links
  <2> QED
    BY <1>1, <1>5, <2>1, Disturbing, Failing
<1>7. main' = main
  BY DEF InitPort, fixed
<1> QED
  BY <1>3, <1>4, <1>6, <1>7, InvKept

\* Operations that disturb: nothing is relied on after them.
Disturb == BoardPins \/ WritePin \/ WriteFile \/ SpiBus \/ FloatStraps \/ Deinit \/ HostRate \/ OpenUart

LEMMA DisturbPort ==
  ASSUME ProgramInv, Disturb, Arg \in Arguments
  PROVE  port' \in PortRecords
<1>1. port \in PortRecords /\ port.rate \in Arguments
  BY InvSays DEF PortRecords
<1>2. CASE BoardPins \/ WritePin \/ WriteFile \/ FloatStraps
  BY <1>1, <1>2 DEF BoardPins, WritePin, WriteFile, FloatStraps
<1>3. CASE SpiBus
  <2> DEFINE b == Due("bus_up")
  <2>1. port' = [port EXCEPT !.open = b] /\ b \in BOOLEAN
    BY <1>3 DEF SpiBus, Due
  <2> HIDE DEF b
  <2> QED
    BY <1>1, <2>1 DEF PortRecords
<1>4. CASE Deinit
  <2>1. port' = Closed \/ port' = [port EXCEPT !.pins = FALSE]
    BY <1>4 DEF Deinit
  <2> QED
    BY <1>1, <2>1, OpenedIs DEF PortRecords
<1>5. CASE HostRate
  <2>1. port' = AtRate(port, Arg, Arg) \/ port' = AtRate(port, port.rate, Arg)
    BY <1>5 DEF HostRate
  <2> QED
    BY <1>1, <2>1, AtRateIs
<1>6. CASE OpenUart
  <2> DEFINE q == [port EXCEPT !.open = TRUE]
             z == [port EXCEPT !.open = FALSE]
  <2>1. q \in PortRecords /\ z \in PortRecords
    BY <1>1 DEF PortRecords
  <2>2. port' = AtRate(q, Arg, Arg) \/ port' = AtRate(q, DeviceRate, Arg) \/ port' = z
    BY <1>6 DEF OpenUart
  <2>3. DeviceRate \in Arguments
    BY DEF DeviceRate, Arguments
  <2> HIDE DEF q, z
  <2> QED
    BY <2>1, <2>2, <2>3, AtRateIs
<1> QED
  BY <1>2, <1>3, <1>4, <1>5, <1>6 DEF Disturb

LEMMA StepDisturbs ==
  ASSUME ProgramInv, Disturb
  PROVE  ProgramInv'
<1>1. (Goes \/ todo' = <<>>) /\ main' = main
  BY DEF Disturb, BoardPins, WritePin, WriteFile, SpiBus, FloatStraps, Deinit, HostRate, OpenUart, GivesUp, fixed
<1>2. PICK name \in {"board_pins", "pin", "write_file", "bus_down", "bus_up", "float_straps", "deinit", "host_rate",
                     "open_uart"} : Due(name)
  BY DEF Disturb, BoardPins, WritePin, WriteFile, SpiBus, FloatStraps, Deinit, HostRate, OpenUart
<1>3. todo # <<>> /\ todo[1][1] = name /\ Arg \in Arguments
  BY <1>2, DueIs
<1>4. RatesFit(todo') /\ Plan(todo')
  <2>1. todo[1][1] \in Disturbs \ Links
    BY <1>3 DEF Disturbs, Links
  <2> QED
    BY <1>1, <1>3, <2>1, Disturbing, Failing DEF Goes
<1>5. port' \in PortRecords
  BY <1>3, DisturbPort
<1>6. target' \in TargetRecords
  <2>1. target' = target \/ Driven(pins')
    BY DEF Disturb, BoardPins, WritePin, WriteFile, SpiBus, FloatStraps, Deinit, HostRate, OpenUart
  <2> QED
    BY <2>1, DrivenTarget, InvSays
<1> QED
  BY <1>1, <1>4, <1>5, <1>6, InvKept

\* Operations that neither disturb nor change the link.
LEMMA StepPasses ==
  ASSUME ProgramInv, Wait \/ BoardUart \/ FindNeeds \/ FlashBinary \/ Query
  PROVE  ProgramInv'
<1>1. UNCHANGED <<main, port, target>> /\ (Goes \/ todo' = <<>>)
  BY DEF Wait, BoardUart, FindNeeds, FlashBinary, Query, GivesUp, fixed
<1>2. PICK name \in {"hold", "delay", "board_uart", "ram_binary", "only_c6", "file", "devices", "flash", "query"} :
        Due(name)
  BY DEF Wait, BoardUart, FindNeeds, FlashBinary, Query
<1>3. todo # <<>> /\ todo[1][1] = name
  BY <1>2, DueIs
<1>4. RatesFit(todo') /\ (Plan(todo') \/ (Linked' /\ Rest(todo')))
  <2>1. todo[1][1] \notin Disturbs \cup {"target_rate", "port_rate"}
    BY <1>3 DEF Disturbs, Links
  <2>2. CASE todo' = <<>>
    BY <2>2, Failing
  <2>3. CASE Goes
    BY <1>1, <1>3, <2>1, <2>3, Passing DEF Goes
  <2> QED
    BY <1>1, <2>2, <2>3
<1> QED
  BY <1>1, <1>4, InvKept, InvSays

LEMMA FilesPlain ==
  /\ Plain(<<File("flashing", 0)>>) /\ Plain(<<File("flashing", 1)>>)
  /\ Plain(<<File("bound", 0), File("power", 0)>>)
  /\ Plain(<<File("bound", 1)>>) /\ Plain(<<File("power", 1)>>)
<1>1. \A file \in {"bound", "power", "flashing"} : PlainOp(File(file, 0)) /\ PlainOp(File(file, 1))
  BY PlainOps
<1>2. \A a : PlainOp(a) => Plain(<<a>>)
  BY PlainTuples
<1>3. \A a, b : PlainOp(a) /\ PlainOp(b) => Plain(<<a, b>>)
  BY PlainTuples
<1> QED
  BY <1>1, <1>2, <1>3

LEMMA StepResets ==
  ASSUME ProgramInv, Reset \/ EnterTarget \/ GpioWrite
  PROVE  ProgramInv'
<1>1. UNCHANGED <<main, port, target>>
  BY DEF Reset, EnterTarget, GpioWrite, fixed
<1>2. PICK name \in {"reset", "enter_bootloader", "pin"} : Due(name)
  BY DEF Reset, EnterTarget, GpioWrite
<1>3. todo # <<>> /\ todo[1][1] = name
  BY <1>2, DueIs
<1>4. PICK ops : Plain(ops) /\ todo' = ops \o Tail(todo)
  <2>1. CASE Reset \/ EnterTarget
    BY <2>1, ResetPlain DEF Reset, EnterTarget, Expands
  <2>2. CASE GpioWrite
    <3>1. \/ todo' = <<File("flashing", 0)>> \o Tail(todo) \/ todo' = <<File("flashing", 1)>> \o Tail(todo)
          \/ todo' = <<File("bound", 0), File("power", 0)>> \o Tail(todo)
          \/ todo' = <<File("bound", 1)>> \o Tail(todo) \/ todo' = <<File("power", 1)>> \o Tail(todo)
      BY <2>2 DEF GpioWrite, Expands
    <3> QED
      BY <3>1, FilesPlain
  <2> QED
    BY <2>1, <2>2
<1>5. RatesFit(todo') /\ Plan(todo')
  <2>1. todo[1][1] \in Disturbs \ Links
    BY <1>3 DEF Disturbs, Links
  <2> QED
    BY <1>3, <1>4, <2>1, PlainPlan, Expanding
<1> QED
  BY <1>1, <1>5, InvKept, InvSays

\* What connect_to_target and connect_to_target_with_stub consist of.
LEMMA ConnectOps ==
  ASSUME NEW s \in Seq(Ops), 2 <= Len(s), s[1][1] = "enter_bootloader", s[2][1] = "synchronise",
         \A i \in 3 .. Len(s) : s[i][1] \notin Disturbs /\ Paired(s, i) /\ RateFits(s[i])
  PROVE  Plan(s) /\ RatesFit(s) /\ EndsLinked(s)
<1>1. Len(s) \in Nat
  OBVIOUS
<1>2. \A i \in 1 .. Len(s) : i = 1 \/ i = 2 \/ i \in 3 .. Len(s)
  BY <1>1
<1>3. \A i \in 2 .. Len(s) : Undisturbed(s, 2 + 1, i - 1) /\ Undisturbed(s, 2 + 1, Len(s))
  BY <1>1 DEF Undisturbed
<1>4. 2 \in 1 .. Len(s) /\ s[2][1] \in Links
  BY <1>1 DEF Links
<1>5. EndsLinked(s)
  BY <1>3, <1>4 DEF EndsLinked
<1>6. ASSUME NEW i \in 1 .. Len(s), s[i][1] \in Exchanges PROVE Prepared(s, i)
  <2>1. i \in 3 .. Len(s)
    BY <1>2, <1>6 DEF Exchanges
  <2>2. 2 \in 1 .. i - 1 /\ i \in 2 .. Len(s)
    BY <2>1
  <2> QED
    BY <1>3, <1>4, <2>2 DEF Prepared
<1>7. \A i \in 1 .. Len(s) : Paired(s, i) /\ RateFits(s[i])
  <2>1. Paired(s, 1) /\ RateFits(s[1]) /\ Paired(s, 2) /\ RateFits(s[2])
    BY DEF Paired, RateFits
  <2> QED
    BY <1>2, <2>1
<1> QED
  BY <1>5, <1>6, <1>7 DEF Plan, RatesFit

LEMMA ConnectOpsAre ==
  /\ Call("enter_bootloader") \in Ops /\ Call("synchronise") \in Ops /\ Call("run_stub") \in Ops
  /\ \A r \in TermiosRates : Op("target_rate", r) \in Ops /\ Op("port_rate", r) \in Ops
<1>1. {"enter_bootloader", "synchronise", "run_stub", "target_rate", "port_rate"} \subseteq OpNames
  BY DEF OpNames, Disturbs, Links, Exchanges
<1>2. TermiosRates \subseteq Nat
  BY DEF TermiosRates
<1> QED
  BY <1>1, <1>2, OneOp

LEMMA ConnectExpands ==
  /\ LET s == <<Call("enter_bootloader"), Call("synchronise")>>
     IN  Plan(s) /\ RatesFit(s) /\ EndsLinked(s)
  /\ ~Spi => \A r \in TermiosRates :
       LET s == <<Call("enter_bootloader"), Call("synchronise")>> \o <<Op("target_rate", r), Op("port_rate", r)>>
       IN  Plan(s) /\ RatesFit(s) /\ EndsLinked(s)
  /\ ~Spi => \A r \in TermiosRates :
       LET s == <<Call("enter_bootloader"), Call("synchronise"), Call("run_stub"),
                  Op("target_rate", r), Op("port_rate", r)>>
       IN  Plan(s) /\ RatesFit(s) /\ EndsLinked(s)
<1>1. {"run_stub", "target_rate", "port_rate"} \cap Disturbs = {}
  BY DEF Disturbs, Links
<1>2. ASSUME NEW s, s = <<Call("enter_bootloader"), Call("synchronise")>>
      PROVE  Plan(s) /\ RatesFit(s) /\ EndsLinked(s)
  <2>1. s \in Seq(Ops) /\ Len(s) = 2
    BY <1>2, ConnectOpsAre
  <2>2. s[1][1] = "enter_bootloader" /\ s[2][1] = "synchronise"
    BY <1>2 DEF Call
  <2> QED
    BY <2>1, <2>2, ConnectOps
<1>3. ASSUME ~Spi, NEW r \in TermiosRates,
             NEW s, s = <<Call("enter_bootloader"), Call("synchronise")>>
                          \o <<Op("target_rate", r), Op("port_rate", r)>>
      PROVE  Plan(s) /\ RatesFit(s) /\ EndsLinked(s)
  <2> DEFINE a == <<Call("enter_bootloader"), Call("synchronise")>>
             b == <<Op("target_rate", r), Op("port_rate", r)>>
  <2>a. a \in Seq(Ops) /\ Len(a) = 2 /\ a[1][1] = "enter_bootloader" /\ a[2][1] = "synchronise"
    BY ConnectOpsAre DEF Call
  <2>b. b \in Seq(Ops) /\ Len(b) = 2 /\ b[1] = <<"target_rate", r>> /\ b[2] = <<"port_rate", r>>
    BY <1>3, ConnectOpsAre DEF Op
  <2>c. s = a \o b
    BY <1>3
  <2> HIDE DEF a, b
  <2>d. /\ s \in Seq(Ops) /\ Len(s) = Len(a) + Len(b)
        /\ \A i \in 1 .. Len(a) : s[i] = a[i]
        /\ \A i \in 1 .. Len(b) : s[Len(a) + i] = b[i]
    BY <2>a, <2>b, <2>c, JoinedIs
  <2>1. s \in Seq(Ops) /\ Len(s) = 4
    BY <2>a, <2>b, <2>d
  <2>e. s[1] = a[1] /\ s[2] = a[2] /\ s[2 + 1] = b[1] /\ s[2 + 2] = b[2]
    BY <2>a, <2>b, <2>d
  <2>2. /\ s[1][1] = "enter_bootloader" /\ s[2][1] = "synchronise"
        /\ s[3] = <<"target_rate", r>> /\ s[4] = <<"port_rate", r>>
    BY <2>a, <2>b, <2>e
  <2>3. s[3][1] = "target_rate" /\ s[3][2] = r /\ s[4][1] = "port_rate" /\ s[4][2] = r
    BY <2>2
  <2>4. \A i \in 3 .. Len(s) : i = 3 \/ i = 4
    BY <2>1
  <2>5. Paired(s, 3) /\ Paired(s, 4)
    BY <2>1, <2>2, <2>3 DEF Paired
  <2>6. RateFits(s[3]) /\ RateFits(s[4])
    BY <1>3, <2>3 DEF RateFits
  <2>7. \A i \in 3 .. Len(s) : s[i][1] \notin Disturbs /\ Paired(s, i) /\ RateFits(s[i])
    BY <1>1, <2>3, <2>4, <2>5, <2>6
  <2>8. 2 <= Len(s) /\ s[1][1] = "enter_bootloader" /\ s[2][1] = "synchronise"
    BY <2>1, <2>2
  <2>9. s \in Seq(Ops)
    BY <2>1
  <2> QED
    BY <2>7, <2>8, <2>9, ConnectOps
<1>4. ASSUME ~Spi, NEW r \in TermiosRates,
             NEW s, s = <<Call("enter_bootloader"), Call("synchronise"), Call("run_stub"),
                          Op("target_rate", r), Op("port_rate", r)>>
      PROVE  Plan(s) /\ RatesFit(s) /\ EndsLinked(s)
  <2>1. s \in Seq(Ops) /\ Len(s) = 5
    BY <1>4, ConnectOpsAre
  <2>2. /\ s[1][1] = "enter_bootloader" /\ s[2][1] = "synchronise" /\ s[3][1] = "run_stub"
        /\ s[4] = <<"target_rate", r>> /\ s[5] = <<"port_rate", r>>
    BY <1>4 DEF Call, Op
  <2>3. s[4][1] = "target_rate" /\ s[4][2] = r /\ s[5][1] = "port_rate" /\ s[5][2] = r
    BY <2>2
  <2>4. \A i \in 3 .. Len(s) : i = 3 \/ i = 4 \/ i = 5
    BY <2>1
  <2>5. Paired(s, 3) /\ Paired(s, 4) /\ Paired(s, 5)
    BY <2>1, <2>2, <2>3 DEF Paired
  <2>6. RateFits(s[3]) /\ RateFits(s[4]) /\ RateFits(s[5])
    BY <1>4, <2>2, <2>3 DEF RateFits
  <2>7. \A i \in 3 .. Len(s) : s[i][1] \notin Disturbs /\ Paired(s, i) /\ RateFits(s[i])
    BY <1>1, <2>2, <2>3, <2>4, <2>5, <2>6
  <2>8. 2 <= Len(s) /\ s[1][1] = "enter_bootloader" /\ s[2][1] = "synchronise"
    BY <2>1, <2>2
  <2>9. s \in Seq(Ops)
    BY <2>1
  <2> QED
    BY <2>7, <2>8, <2>9, ConnectOps
<1> QED
  BY <1>2, <1>3, <1>4

LEMMA StepConnects ==
  ASSUME ProgramInv, ConnectToTarget \/ ConnectToTargetWithStub
  PROVE  ProgramInv'
<1>1. UNCHANGED <<main, port, target>>
  BY DEF ConnectToTarget, ConnectToTargetWithStub, fixed
<1>2. PICK name \in {"connect", "connect_with_stub"} :
        Due(name) /\ name = IF ConnectToTarget THEN "connect" ELSE "connect_with_stub"
  BY DEF ConnectToTarget, ConnectToTargetWithStub
<1>3. todo # <<>> /\ todo[1][1] = name /\ Arg = todo[1][2] /\ RateFits(todo[1])
  BY <1>2, DueIs, InvSays, RatesGoOn
<1> DEFINE r == Arg
<1>4. PICK ops : todo' = ops \o Tail(todo) /\ Plan(ops) /\ RatesFit(ops) /\ EndsLinked(ops)
  <2>1. CASE ConnectToTarget
    <3>1. Spi \/ r \notin TermiosRates => r = 0
      BY <1>2, <1>3, <2>1 DEF RateFits
    <3>2. \/ todo' = (<<Call("enter_bootloader"), Call("synchronise")>> \o <<>>) \o Tail(todo)
          \/ /\ r # 0
             /\ todo' = (<<Call("enter_bootloader"), Call("synchronise")>>
                           \o <<Op("target_rate", r), Op("port_rate", r)>>) \o Tail(todo)
      BY <2>1 DEF ConnectToTarget, Expands
    <3> HIDE DEF r
    <3>3. \A a, b : <<a, b>> \o <<>> = <<a, b>>
      OBVIOUS
    <3> QED
      BY <3>1, <3>2, <3>3, ConnectExpands
  <2>2. CASE ~ConnectToTarget
    <3>1. ~Spi /\ r \in TermiosRates
      BY <1>2, <1>3, <2>2 DEF RateFits
    <3>2. todo' = <<Call("enter_bootloader"), Call("synchronise"), Call("run_stub"),
                    Op("target_rate", r), Op("port_rate", r)>> \o Tail(todo)
      BY <2>2 DEF ConnectToTargetWithStub, Expands
    <3> HIDE DEF r
    <3> QED
      BY <3>1, <3>2, ConnectExpands
  <2> QED
    BY <2>1, <2>2
<1>5. RatesFit(todo') /\ Plan(todo')
  <2>1. todo[1][1] \in Disturbs
    BY <1>3 DEF Disturbs, Links
  <2> QED
    BY <1>3, <1>4, <2>1, Expanding
<1> QED
  BY <1>1, <1>5, InvKept, InvSays

LEMMA StepSynchronise ==
  ASSUME ProgramInv, Synchronise
  PROVE  ProgramInv'
<1>1. UNCHANGED <<main, port>>
  BY DEF Synchronise, fixed
<1>2. todo # <<>> /\ todo[1][1] = "synchronise"
  BY DueIs DEF Synchronise
<1>3. port \in PortRecords /\ target \in TargetRecords /\ Rest(todo) /\ RatesFit(todo) /\ todo \in Seq(Ops)
  BY InvSays
<1> DEFINE t == [target EXCEPT !.rate = port.rate]
<1>4. t \in TargetRecords /\ t.rate = port.rate /\ t.runs = target.runs
  BY <1>3 DEF PortRecords, TargetRecords
<1> HIDE DEF t
<1>5. target' = target \/ target' = t
  BY DEF Synchronise, t
<1>6. CASE Fails
  <2>1. Plan(todo') /\ RatesFit(todo')
    BY <1>6, Failing DEF Fails
  <2> QED
    BY <1>1, <1>3, <1>4, <1>5, <2>1, InvKept
<1>7. CASE ~Fails
  <2>1. port.open /\ target.runs = "rom" /\ target' = t /\ todo' = Tail(todo)
    BY <1>7 DEF Synchronise, Goes, t
  <2>2. Rest(todo') /\ RatesFit(todo')
    BY <1>2, <1>3, <2>1, RestGoesOn, RatesGoOn
  <2>3. todo' # <<>> => Head(todo') = todo'[1] /\ todo'[1][1] # "port_rate"
    BY <1>2, <1>3, <2>1, <2>2, FirstOf
  <2>4. ~Due("port_rate")'
    BY <2>3 DEF Due
  <2>5. Linked'
    BY <1>1, <1>4, <2>1, <2>4 DEF Linked, Loader
  <2> QED
    BY <1>1, <1>3, <1>4, <1>5, <2>2, <2>5, InvKept
<1> QED
  BY <1>6, <1>7

LEMMA StepRunStub ==
  ASSUME ProgramInv, LoaderRunStub
  PROVE  ProgramInv'
<1>1. UNCHANGED <<main, port>>
  BY DEF LoaderRunStub, fixed
<1>2. todo # <<>> /\ todo[1][1] = "run_stub"
  BY DueIs DEF LoaderRunStub
<1>3. port \in PortRecords /\ target \in TargetRecords /\ Rest(todo) /\ RatesFit(todo) /\ todo \in Seq(Ops)
  BY InvSays
<1> DEFINE t == [target EXCEPT !.runs = "stub"]
<1>4. t \in TargetRecords /\ t.rate = target.rate /\ t.runs = "stub"
  BY <1>3 DEF TargetRecords, Loader
<1> HIDE DEF t
<1>5. target' = target \/ target' = t
  BY DEF LoaderRunStub, t
<1>6. CASE Fails
  <2>1. Plan(todo') /\ RatesFit(todo')
    BY <1>6, Failing DEF Fails
  <2> QED
    BY <1>1, <1>3, <1>4, <1>5, <2>1, InvKept
<1>7. CASE ~Fails
  <2>1. Heard /\ target' = t /\ todo' = Tail(todo)
    BY <1>7 DEF LoaderRunStub, Goes, t
  <2>2. Rest(todo') /\ RatesFit(todo')
    BY <1>2, <1>3, <2>1, RestGoesOn, RatesGoOn
  <2>3. todo' # <<>> => Head(todo') = todo'[1] /\ todo'[1][1] # "port_rate"
    BY <1>2, <1>3, <2>1, <2>2, FirstOf
  <2>4. ~Due("port_rate")'
    BY <2>3 DEF Due
  <2>5. Linked'
    BY <1>1, <1>4, <2>1, <2>4 DEF Linked, Heard, Loader
  <2> QED
    BY <1>1, <1>3, <1>4, <1>5, <2>2, <2>5, InvKept
<1> QED
  BY <1>6, <1>7

\* The target changes its rate first: the host is the next to.
LEMMA StepTargetRate ==
  ASSUME ProgramInv, TargetRate
  PROVE  ProgramInv'
<1>1. UNCHANGED <<main, port>>
  BY DEF TargetRate, fixed
<1>2. todo # <<>> /\ todo[1][1] = "target_rate" /\ Arg = todo[1][2] /\ Arg \in Arguments
  BY DueIs DEF TargetRate
<1>3. port \in PortRecords /\ target \in TargetRecords /\ Rest(todo) /\ RatesFit(todo) /\ todo \in Seq(Ops)
  BY InvSays
<1> DEFINE r == Arg
           t == [target EXCEPT !.rate = r]
<1>4. r \in Arguments /\ r = todo[1][2]
  BY <1>2
<1>5. target' = target \/ target' = t
  BY DEF TargetRate
<1>6. Fails \/ (Heard /\ target' = t /\ todo' = Tail(todo))
  BY DEF TargetRate, Goes
<1> HIDE DEF r
<1>7. t \in TargetRecords /\ t.rate = r /\ t.runs = target.runs
  BY <1>3, <1>4 DEF TargetRecords
<1> HIDE DEF t
<1>8. CASE Fails
  <2>1. Plan(todo') /\ RatesFit(todo')
    BY <1>8, Failing DEF Fails
  <2> QED
    BY <1>1, <1>3, <1>5, <1>7, <2>1, InvKept
<1>9. CASE Heard /\ target' = t /\ todo' = Tail(todo)
  <2>1. Rest(todo') /\ RatesFit(todo')
    BY <1>2, <1>3, <1>9, RestGoesOn, RatesGoOn
  <2>2. todo' # <<>> /\ Head(todo') = todo'[1] /\ todo'[1] = <<"port_rate", r>>
    BY <1>2, <1>3, <1>4, <1>9, <2>1, FirstOf
  <2>3. Due("port_rate")' /\ Arg' = r
    BY <2>2 DEF Due, Arg
  <2>4. Linked'
    BY <1>1, <1>7, <1>9, <2>3 DEF Linked, Heard
  <2> QED
    BY <1>1, <1>3, <1>5, <1>7, <2>1, <2>4, InvKept
<1> QED
  BY <1>6, <1>8, <1>9

LEMMA StepPortRate ==
  ASSUME ProgramInv, PortRate
  PROVE  ProgramInv'
<1>1. UNCHANGED <<main, target>>
  BY DEF PortRate, fixed
<1>2. todo # <<>> /\ todo[1][1] = "port_rate" /\ Arg = todo[1][2] /\ Due("port_rate")
  BY DueIs DEF PortRate
<1>3. /\ port \in PortRecords /\ target \in TargetRecords /\ Rest(todo) /\ RatesFit(todo) /\ todo \in Seq(Ops)
      /\ main.name \in MainNames /\ (Plan(todo) \/ Linked)
  BY InvSays
<1>4. ~Spi /\ Arg \in TermiosRates
  <2>1. RateFits(todo[1])
    BY <1>2, <1>3, RatesGoOn
  <2> QED
    BY <1>2, <2>1 DEF RateFits
<1>5. Linked /\ target.rate = Arg
  <2>1. Linked
    BY <1>2, <1>3, FirstOf
  <2> QED
    BY <1>2, <2>1 DEF Linked
<1>6. PICK o \in RateChanges(Arg) : port' = o.port /\ (IF o.ok THEN Goes ELSE Fails)
  BY DEF PortRate
<1>7. port' \in PortRecords /\ (o.ok => port'.open = port.open /\ (port'.rate = Arg \/ port'.misled))
  BY <1>3, <1>4, <1>6, RateOutcomes
<1>8. CASE ~o.ok
  <2>1. Plan(todo') /\ RatesFit(todo')
    BY <1>6, <1>8, Failing DEF Fails
  <2> QED
    BY <1>1, <1>3, <1>7, <2>1, InvKept
<1>9. CASE o.ok
  <2>1. todo' = Tail(todo)
    BY <1>6, <1>9 DEF Goes
  <2>2. Rest(todo') /\ RatesFit(todo')
    BY <1>2, <1>3, <2>1, RestGoesOn, RatesGoOn
  <2>3. todo' # <<>> => Head(todo') = todo'[1] /\ todo'[1][1] # "port_rate"
    BY <1>2, <1>3, <2>1, <2>2, FirstOf
  <2>4. ~Due("port_rate")'
    BY <2>3 DEF Due
  <2>5. Linked'
    BY <1>1, <1>5, <1>7, <1>9, <2>4 DEF Linked
  <2> QED
    BY <1>1, <1>3, <1>7, <2>2, <2>5, InvKept
<1> QED
  BY <1>8, <1>9

LEMMA StepLoadRam ==
  ASSUME ProgramInv, LoadRam
  PROVE  ProgramInv'
<1>1. UNCHANGED <<main, port>> /\ (todo' = <<>> \/ todo' = Tail(todo))
  BY DEF LoadRam, fixed, Goes
<1>2. todo # <<>> /\ todo[1][1] = "load_ram"
  BY DueIs DEF LoadRam
<1>3. target' \in TargetRecords
  <2>1. ConsoleRate \in Arguments
    BY DEF ConsoleRate, Arguments
  <2>2. target' = target \/ target' = [runs |-> "ram", rate |-> ConsoleRate]
    BY DEF LoadRam
  <2> QED
    BY <2>1, <2>2, InvSays DEF TargetRecords
<1>4. RatesFit(todo') /\ Plan(todo')
  <2>1. todo[1][1] \in Disturbs \ Links
    BY <1>2 DEF Disturbs, Links
  <2> QED
    BY <1>1, <1>2, <2>1, Disturbing, Failing
<1> QED
  BY <1>1, <1>3, <1>4, InvKept, InvSays

LEMMA ProgramInit_Inv == ProgramInit => ProgramInv
<1> SUFFICES ASSUME ProgramInit PROVE ProgramInv
  OBVIOUS
<1>1. main \in MainOptions /\ Plan(todo) /\ RatesFit(todo)
  BY StepsPlan DEF ProgramInit
<1>2. port \in PortRecords
  BY OpenedIs DEF ProgramInit
<1>3. target \in TargetRecords
  <2>1. ConsoleRate \in Arguments
    BY DEF ConsoleRate, Arguments
  <2> QED
    BY <2>1 DEF ProgramInit, TargetRecords
<1> QED
  BY <1>1, <1>2, <1>3 DEF ProgramInv

LEMMA ProgramStep_Inv == ProgramInv /\ [ProgramNext]_programVars => ProgramInv'
<1> SUFFICES ASSUME ProgramInv, [ProgramNext]_programVars PROVE ProgramInv'
  OBVIOUS
<1>1. CASE TargetStarts
  BY <1>1, StepTargetStarts
<1>2. CASE Over
  BY <1>2, StepUnchanged DEF Over
<1>3. CASE InitPort
  BY <1>3, StepInitPort
<1>4. CASE Disturb
  BY <1>4, StepDisturbs
<1>5. CASE Wait \/ BoardUart \/ FindNeeds \/ FlashBinary \/ Query
  BY <1>5, StepPasses
<1>6. CASE Reset \/ EnterTarget \/ GpioWrite
  BY <1>6, StepResets
<1>7. CASE ConnectToTarget \/ ConnectToTargetWithStub
  BY <1>7, StepConnects
<1>8. CASE Synchronise
  BY <1>8, StepSynchronise
<1>9. CASE LoaderRunStub
  BY <1>9, StepRunStub
<1>10. CASE TargetRate
  BY <1>10, StepTargetRate
<1>11. CASE PortRate
  BY <1>11, StepPortRate
<1>12. CASE LoadRam
  BY <1>12, StepLoadRam
<1>13. CASE UNCHANGED programVars
  BY <1>13, StepUnchanged
<1> QED
  BY <1>1, <1>2, <1>3, <1>4, <1>5, <1>6, <1>7, <1>8, <1>9, <1>10, <1>11, <1>12, <1>13
     DEF ProgramNext, Disturb

\* After a successful connect every command that any of the example programs
\* sends goes through an open port to a loader that runs, and at the rate the
\* target listens at unless the port reported a change of its rate that it had
\* not made: for every set of rates the user of lx16 may give, and however the
\* two ends of the change of the rate (esp_loader_change_transmission_rate,
\* loader_port_change_transmission_rate) fail.
THEOREM CommandsReachALoader == ProgramSpec => []ExchangesHeard
<1>1. ProgramInv => ExchangesHeard
  <2> SUFFICES ASSUME ProgramInv, todo # <<>>, Head(todo)[1] \in Exchanges
               PROVE  port.open /\ target.runs \in Loader /\ (target.rate = port.rate \/ port.misled)
    BY DEF ExchangesHeard
  <2>1. Head(todo) = todo[1]
    BY InvSays, FirstOf
  <2> QED
    BY <2>1, Hearing
<1> QED
  BY ProgramInit_Inv, ProgramStep_Inv, <1>1, PTL DEF ProgramSpec
=============================================================================
