-------------------------- MODULE ConnectionProofs --------------------------
(***************************************************************************)
(* The synchronisation of esp_loader_connect, counted: for any number of   *)
(* answers to SYNC, of trials and of sessions, and any chips, as many late *)
(* frames as SYNC has answers do no harm.                                  *)
(***************************************************************************)
EXTENDS Connection, SequenceTheorems, FiniteSetTheorems, TLAPS

-----------------------------------------------------------------------------
(* The invariant *)

Commands == {"SYNC", "GET_SECURITY_INFO", "READ_REG", "SPI_ATTACH"}
Steps == {"off", "sync", "info", "magic", "efuse", "attach", "up", "failed"}

RegisterNames == Registers \cup {Magic, Efuse, NoCall}
Values == Chips \cup {Nothing} \cup [register : RegisterNames, session : Nat, chip : Chips]

CommandFrames == [cmd : Commands, register : RegisterNames]
AnswerFrames  == [cmd : Commands, ok : BOOLEAN, value : Values]

\* What a call in progress waits for, at each step.
Awaited ==
  CASE step = "sync" -> {"SYNC"}
    [] step = "info" -> {"GET_SECURITY_INFO"}
    [] step \in {"magic", "efuse"} -> {"READ_REG"}
    [] step = "attach" -> {"SPI_ATTACH"}
    [] step = "up" -> {NoCall, "READ_REG"}
    [] OTHER -> {NoCall}

TypeOK ==
  /\ toTarget \in Seq(CommandFrames)
  /\ toHost \in Seq(AnswerFrames)
  /\ step \in Steps /\ call \in Awaited
  /\ chip \in Chips /\ session \in Nat /\ answers \in Nat
  /\ calm \in BOOLEAN

\* Frames that are not of SYNC are stray until the target is synchronised.
Strays(frames) == {i \in DOMAIN frames : frames[i].cmd # "SYNC"}

\* While the answers to SYNC are counted, each stray answer lies among the
\* frames that will be read before the count is complete.
Outweighed(n) == \A i \in Strays(toHost) : i + n <= SyncAnswers

Syncing ==
  step = "sync" => calm /\ got = NoRead /\ Strays(toTarget) = {} /\ Outweighed(answers)

\* An attempt that was refused has left nothing behind but what it found.
Refusing ==
  step = "failed" /\ calm => Strays(toTarget) = {} /\ Outweighed(0)

\* What an answer to the open call says, when the target has read the command
\* in this session.
TrueAnswer(f) ==
  /\ f.cmd = "GET_SECURITY_INFO" => f.value = chip
  /\ f.cmd = "READ_REG" => f.value = [register |-> asked, session |-> session, chip |-> chip]

\* Past SYNC the line holds, behind answers and commands of SYNC, the open
\* command or its answer, and nothing behind them.
Synchronised ==
  calm /\ step \notin {"sync", "failed"} =>
    /\ \A i \in Strays(toTarget) :
         /\ i = Len(toTarget) /\ Strays(toHost) = {}
         /\ call = toTarget[i].cmd
         /\ call = "READ_REG" => toTarget[i].register = asked
    /\ \A i \in Strays(toHost) :
         i = Len(toHost) /\ toTarget = <<>> /\ call = toHost[i].cmd /\ TrueAnswer(toHost[i])

\* After an expiry: what is on the line, and what it will become, is never more
\* than a SYNC outweighs, and the open call.
LateIsBounded ==
  ~calm => LateAnswers <= SyncAnswers + (IF call = NoCall THEN 0 ELSE 1)

AskedFits ==
  /\ step = "magic" => asked = Magic
  /\ step = "off" => ~calm

LineInv == Syncing /\ Refusing /\ Synchronised /\ LateIsBounded

ConnectionInv == TypeOK /\ AskedFits /\ LineInv /\ DetectsAttached /\ ReadsFresh

-----------------------------------------------------------------------------
(* The line *)

\* What is left behind the first frame of a queue.
LEMMA TailFrames ==
  ASSUME NEW S, NEW q \in Seq(S), q # <<>>
  PROVE  /\ Tail(q) \in Seq(S) /\ Head(q) \in S /\ Head(q) = q[1]
         /\ Len(q) \in Nat /\ Len(q) >= 1 /\ Len(Tail(q)) = Len(q) - 1
         /\ \A i \in Strays(Tail(q)) : i \in Nat /\ i + 1 \in Strays(q) /\ Tail(q)[i] = q[i + 1]
<1>1. Tail(q) \in Seq(S) /\ Head(q) = q[1] /\ Len(q) \in Nat /\ Len(q) >= 1 /\ Len(Tail(q)) = Len(q) - 1
  BY EmptySeq
<1>2. \A i \in 1 .. Len(q) - 1 : Tail(q)[i] = q[i + 1]
  BY <1>1
<1>3. \A i \in Strays(Tail(q)) : i \in Nat /\ i + 1 \in Strays(q) /\ Tail(q)[i] = q[i + 1]
  BY <1>1, <1>2 DEF Strays
<1>4. Head(q) \in S
  BY <1>1
<1> QED
  BY <1>1, <1>3, <1>4

\* What is added to a queue is behind the frames it had.
LEMMA AppendFrames ==
  ASSUME NEW S, NEW q \in Seq(S), NEW r \in Seq(S),
         Len(r) = Len(q) + 1, \A i \in 1 .. Len(q) : r[i] = q[i]
  PROVE  \A i \in Strays(r) : (i \in Strays(q) /\ r[i] = q[i]) \/ i = Len(q) + 1
<1>1. DOMAIN r = 1 .. Len(q) + 1 /\ DOMAIN q = 1 .. Len(q) /\ Len(q) \in Nat
  OBVIOUS
<1>2. \A i \in 1 .. Len(q) + 1 : i \in 1 .. Len(q) \/ i = Len(q) + 1
  BY <1>1
<1> QED
  BY <1>1, <1>2 DEF Strays

\* The answers to SYNC are no stray ones.
LEMMA SyncFrames ==
  ASSUME NEW q \in Seq(AnswerFrames), NEW a \in AnswerFrames, a.cmd = "SYNC"
  PROVE  LET r == q \o [i \in 1 .. SyncAnswers |-> a]
         IN  /\ r \in Seq(AnswerFrames) /\ Len(r) = Len(q) + SyncAnswers
             /\ \A i \in Strays(r) : i \in Strays(q) /\ r[i] = q[i]
<1> DEFINE t == [i \in 1 .. SyncAnswers |-> a]
           r == q \o t
<1>1. t \in Seq(AnswerFrames) /\ Len(t) = SyncAnswers /\ \A i \in 1 .. SyncAnswers : t[i] = a
  BY SyncAssumption
<1> HIDE DEF t
<1>2. /\ r \in Seq(AnswerFrames) /\ Len(r) = Len(q) + SyncAnswers
      /\ \A i \in 1 .. Len(q) : r[i] = q[i]
      /\ \A i \in Len(q) + 1 .. Len(q) + SyncAnswers : r[i] = t[i - Len(q)]
  BY <1>1, SyncAssumption
<1>3. \A i \in Strays(r) : i \in Strays(q) /\ r[i] = q[i]
  <2> SUFFICES ASSUME NEW i \in DOMAIN r, r[i].cmd # "SYNC"
               PROVE  i \in DOMAIN q /\ r[i] = q[i]
    BY DEF Strays
  <2>1. i \in 1 .. Len(q) + SyncAnswers /\ Len(q) \in Nat /\ SyncAnswers \in Nat
    BY <1>2, SyncAssumption
  <2>2. CASE i > Len(q)
    <3>1. r[i] = a
      BY <1>1, <1>2, <2>1, <2>2
    <3> QED
      BY <3>1
  <2> QED
    BY <2>1, <2>2, <1>2
<1> QED
  BY <1>2, <1>3 DEF t

\* The SYNC commands of a queue, and those that are left behind its first one.
Syncs(q) == {i \in DOMAIN q : q[i].cmd = "SYNC"}

LEMMA SyncsAreFinite ==
  ASSUME NEW S, NEW q \in Seq(S)
  PROVE  IsFiniteSet(Syncs(q)) /\ Cardinality(Syncs(q)) \in Nat
<1>1. IsFiniteSet(1 .. Len(q)) /\ Syncs(q) \subseteq 1 .. Len(q)
  BY FS_Interval DEF Syncs
<1> QED
  BY <1>1, FS_Subset, FS_CardinalityType

LEMMA SyncsOfTail ==
  ASSUME NEW S, NEW q \in Seq(S), q # <<>>
  PROVE  Cardinality(Syncs(q)) =
           Cardinality(Syncs(Tail(q))) + (IF Head(q).cmd = "SYNC" THEN 1 ELSE 0)
<1> DEFINE A == Syncs(Tail(q))
           B == Syncs(q) \ {1}
           shift == [i \in A |-> i + 1]
<1>1. /\ Tail(q) \in Seq(S) /\ Len(q) \in Nat /\ Len(q) >= 1 /\ Len(Tail(q)) = Len(q) - 1
      /\ \A i \in 1 .. Len(q) - 1 : Tail(q)[i] = q[i + 1]
      /\ Head(q) = q[1]
  BY EmptySeq
<1>2. A \subseteq Nat
  BY <1>1 DEF Syncs
<1>3. \A i \in A : i + 1 \in B
  BY <1>1, <1>2 DEF Syncs
<1>4. \A j \in B : j - 1 \in A /\ j = (j - 1) + 1
  BY <1>1 DEF Syncs
<1>5. shift \in Bijection(A, B)
  <2> HIDE DEF A, B
  <2>1. shift \in Injection(A, B)
    BY <1>2, <1>3 DEF Injection, IsInjective
  <2>2. shift \in Surjection(A, B)
    BY <1>3, <1>4 DEF Surjection
  <2> QED
    BY <2>1, <2>2 DEF Bijection
<1>6. Cardinality(A) = Cardinality(B)
  <2>1. IsFiniteSet(A)
    BY <1>1, SyncsAreFinite
  <2>2. ExistsBijection(A, B)
    BY <1>5 DEF ExistsBijection
  <2> HIDE DEF A, B
  <2> QED
    BY <2>1, <2>2, FS_Bijection
<1>7. IsFiniteSet(Syncs(q)) /\ Cardinality(A) \in Nat
  BY <1>1, SyncsAreFinite
<1>8. CASE Head(q).cmd = "SYNC"
  <2>1. 1 \in Syncs(q)
    BY <1>1, <1>8 DEF Syncs
  <2>2. Cardinality(B) = Cardinality(Syncs(q)) - 1
    BY <2>1, <1>7, FS_RemoveElement
  <2>3. Cardinality(Syncs(q)) \in Nat
    BY SyncsAreFinite
  <2> QED
    BY <2>2, <2>3, <1>6, <1>7, <1>8
<1>9. CASE Head(q).cmd # "SYNC"
  <2>1. B = Syncs(q)
    BY <1>1, <1>9 DEF Syncs
  <2> QED
    <3> DEFINE c == Cardinality(A)
    <3>1. Cardinality(Syncs(q)) = c /\ c \in Nat
      BY <2>1, <1>6, <1>7
    <3> HIDE DEF c
    <3>2. c = c + 0
      BY <3>1
    <3> QED
      BY <3>1, <3>2, <1>9 DEF c
<1> QED
  BY <1>8, <1>9

LEMMA SyncsOfAppend ==
  ASSUME NEW S, NEW q \in Seq(S), NEW f \in S, f.cmd # "SYNC"
  PROVE  Syncs(Append(q, f)) = Syncs(q)
<1>1. /\ DOMAIN Append(q, f) = 1 .. Len(q) + 1 /\ DOMAIN q = 1 .. Len(q) /\ Len(q) \in Nat
      /\ \A i \in 1 .. Len(q) : Append(q, f)[i] = q[i]
      /\ Append(q, f)[Len(q) + 1] = f
  OBVIOUS
<1> QED
  BY <1>1 DEF Syncs

\* How the count of the late answers goes down and up.
Late(h, t) == Len(h) + Len(t) + (SyncAnswers - 1) * Cardinality(Syncs(t))

LEMMA LateIs == LateAnswers = Late(toHost, toTarget) /\ LateAnswers' = Late(toHost', toTarget')
  BY DEF LateAnswers, Late, Syncs

LEMMA LateBounds ==
  ASSUME NEW h \in Seq(AnswerFrames), NEW t \in Seq(CommandFrames)
  PROVE  Late(h, t) \in Nat /\ Len(h) <= Late(h, t)
<1>1. Cardinality(Syncs(t)) \in Nat
  BY SyncsAreFinite
<1> DEFINE c == Cardinality(Syncs(t))
<1> HIDE DEF c
<1>2. (SyncAnswers - 1) * c \in Nat
  BY <1>1, SyncAssumption DEF c
<1> QED
  BY <1>2 DEF Late, c

LEMMA LateTail ==
  ASSUME NEW h \in Seq(AnswerFrames), NEW t \in Seq(CommandFrames), h # <<>>
  PROVE  Late(Tail(h), t) = Late(h, t) - 1
<1>1. Len(h) \in Nat /\ Len(Tail(h)) = Len(h) - 1
  BY EmptySeq
<1>2. (SyncAnswers - 1) * Cardinality(Syncs(t)) \in Int
  BY SyncsAreFinite, SyncAssumption
<1> QED
  BY <1>1, <1>2 DEF Late

LEMMA LateAsk ==
  ASSUME NEW h \in Seq(AnswerFrames), NEW t \in Seq(CommandFrames), NEW f \in CommandFrames,
         f.cmd # "SYNC"
  PROVE  Late(h, Append(t, f)) = Late(h, t) + 1
<1>1. Len(Append(t, f)) = Len(t) + 1 /\ Len(t) \in Nat /\ Len(h) \in Nat
  OBVIOUS
<1>2. (SyncAnswers - 1) * Cardinality(Syncs(t)) \in Int
  BY SyncsAreFinite, SyncAssumption
<1> QED
  BY <1>1, <1>2, SyncsOfAppend DEF Late

LEMMA LateServe ==
  ASSUME NEW h \in Seq(AnswerFrames), NEW t \in Seq(CommandFrames), t # <<>>
  PROVE  Late(h, Tail(t)) = Late(h, t) - (IF Head(t).cmd = "SYNC" THEN SyncAnswers ELSE 1)
<1> DEFINE c == Cardinality(Syncs(t))
           d == Cardinality(Syncs(Tail(t)))
           s == IF Head(t).cmd = "SYNC" THEN 1 ELSE 0
<1>1. Len(h) \in Nat /\ Len(t) \in Nat /\ Len(Tail(t)) = Len(t) - 1 /\ Tail(t) \in Seq(CommandFrames)
  BY EmptySeq
<1>2. c \in Nat /\ d \in Nat /\ c = d + s /\ s \in {0, 1} /\ SyncAnswers \in Nat
  BY <1>1, SyncsAreFinite, SyncsOfTail, SyncAssumption
<1>3. Late(h, t) = Len(h) + Len(t) + (SyncAnswers - 1) * c
  BY DEF Late
<1>4. Late(h, Tail(t)) = Len(h) + Len(Tail(t)) + (SyncAnswers - 1) * d
  BY DEF Late
<1> HIDE DEF c, d
<1>5. (SyncAnswers - 1) * c = (SyncAnswers - 1) * d + (SyncAnswers - 1) * s
  BY <1>2
<1>6. (SyncAnswers - 1) * d \in Int
  BY <1>2
<1>7. (SyncAnswers - 1) * s = IF Head(t).cmd = "SYNC" THEN SyncAnswers - 1 ELSE 0
  BY <1>2
<1> QED
  BY <1>1, <1>2, <1>3, <1>4, <1>5, <1>6, <1>7

LEMMA LateServeSync ==
  ASSUME NEW h \in Seq(AnswerFrames), NEW k \in Seq(AnswerFrames), NEW t \in Seq(CommandFrames),
         NEW n \in Nat, Len(k) = Len(h) + n
  PROVE  Late(k, t) = Late(h, t) + n
<1>1. (SyncAnswers - 1) * Cardinality(Syncs(t)) \in Int
  BY SyncsAreFinite, SyncAssumption
<1> QED
  BY <1>1 DEF Late

-----------------------------------------------------------------------------
(* Types *)

LEMMA CommandTypes ==
  /\ Sync \in CommandFrames /\ Sync.cmd = "SYNC"
  /\ Command("GET_SECURITY_INFO", NoCall) \in CommandFrames
  /\ Command("SPI_ATTACH", NoCall) \in CommandFrames
  /\ \A r \in Registers \cup {Magic, Efuse} : Command("READ_REG", r) \in CommandFrames
  BY DEF Sync, Command, CommandFrames, Commands, RegisterNames

\* A refusal is the answer but for its status.
LEMMA Refusal ==
  ASSUME NEW a \in AnswerFrames
  PROVE  LET r == [a EXCEPT !.ok = FALSE]
         IN  r \in AnswerFrames /\ r.cmd = a.cmd /\ r.value = a.value
  BY DEF AnswerFrames

LEMMA AnswerTypes ==
  ASSUME TypeOK, NEW f \in CommandFrames
  PROVE  /\ Answer(f) \in AnswerFrames /\ Answer(f).cmd = f.cmd
         /\ [Answer(f) EXCEPT !.ok = FALSE] \in AnswerFrames
         /\ [Answer(f) EXCEPT !.ok = FALSE].cmd = f.cmd
         /\ [Answer(f) EXCEPT !.ok = FALSE].value = Answer(f).value
         /\ f.cmd = "GET_SECURITY_INFO" => Answer(f).value = chip
         /\ f.cmd = "READ_REG" =>
              Answer(f).value = [register |-> f.register, session |-> session, chip |-> chip]
<1>1. f.cmd \in Commands /\ f.register \in RegisterNames /\ chip \in Chips /\ session \in Nat
  BY DEF TypeOK, CommandFrames
<1>2. CASE f.cmd = "GET_SECURITY_INFO"
  <2> DEFINE known == chip \in InfoChips
  <2>1. known \in BOOLEAN
    OBVIOUS
  <2>2. Answer(f) = [cmd |-> f.cmd, ok |-> known, value |-> chip]
    BY <1>2 DEF Answer
  <2> HIDE DEF known
  <2>3. ASSUME NEW k \in BOOLEAN
        PROVE  [cmd |-> f.cmd, ok |-> k, value |-> chip] \in AnswerFrames
    BY <1>1 DEF AnswerFrames, Values
  <2>4. Answer(f) \in AnswerFrames
    BY <2>1, <2>2, <2>3
  <2> QED
    BY <2>2, <2>4, <1>2, Refusal
<1>3. CASE f.cmd = "READ_REG"
  BY <1>1, <1>3 DEF Answer, AnswerFrames, Values, Commands
<1>4. CASE f.cmd \notin {"GET_SECURITY_INFO", "READ_REG"}
  BY <1>1, <1>4 DEF Answer, AnswerFrames, Values, Commands
<1> QED
  BY <1>2, <1>3, <1>4

\* An operation that asks is at a step that awaits its command.
LEMMA AskTypes ==
  ASSUME TypeOK, NEW where \in Steps, NEW command \in CommandFrames,
         NEW inbound \in Seq(AnswerFrames), Ask(where, command, inbound)
  PROVE  /\ toTarget' \in Seq(CommandFrames) /\ toHost' \in Seq(AnswerFrames)
         /\ toTarget' = Append(toTarget, command) /\ toHost' = inbound
         /\ call' = command.cmd /\ step' = where
         /\ asked' = IF command.cmd = "READ_REG" THEN command.register ELSE asked
  BY DEF Ask, Send, TypeOK

LEMMA Tails ==
  ASSUME TypeOK
  PROVE  /\ toHost # <<>> => Tail(toHost) \in Seq(AnswerFrames) /\ Head(toHost) \in AnswerFrames
         /\ toTarget # <<>> => Tail(toTarget) \in Seq(CommandFrames) /\ Head(toTarget) \in CommandFrames
  BY TailFrames DEF TypeOK

LEMMA ConfigureAsks ==
  ASSUME NEW c, NEW inbound, Configure(c, inbound)
  PROVE  \/ Ask("efuse", Command("READ_REG", Efuse), inbound)
         \/ Ask("attach", Command("SPI_ATTACH", NoCall), inbound)
  BY DEF Configure

LEMMA TypeInit == Init => TypeOK
<1>1. <<>> \in Seq(CommandFrames) /\ <<>> \in Seq(AnswerFrames)
  OBVIOUS
<1> SUFFICES ASSUME Init PROVE TypeOK
  OBVIOUS
<1>2. step = "off" /\ call = NoCall /\ step \in Steps /\ call \in Awaited
  BY DEF Init, LinkInit, Steps, Awaited
<1> QED
  BY <1>1, <1>2 DEF Init, LinkInit, TypeOK

-----------------------------------------------------------------------------
(* The steps of the line and the target *)

\* What a step of the line or the target leaves alone.
HostWaits == UNCHANGED <<call, hostVars, chip, session, calm>>

LEMMA QueueTypes ==
  ASSUME TypeOK, HostWaits, toTarget' \in Seq(CommandFrames), toHost' \in Seq(AnswerFrames)
  PROVE  TypeOK'
<1>1. /\ step' = step /\ call' = call /\ chip' = chip /\ session' = session
      /\ answers' = answers /\ calm' = calm
  BY DEF HostWaits, hostVars
<1>2. Awaited' = Awaited
  BY <1>1 DEF Awaited
<1> QED
  BY <1>1, <1>2 DEF TypeOK

LEMMA AnswerGone ==
  ASSUME TypeOK, LineInv, HostWaits, toHost # <<>>, toHost' = Tail(toHost), toTarget' = toTarget
  PROVE  TypeOK' /\ LineInv'
<1>1. /\ step' = step /\ call' = call /\ chip' = chip /\ session' = session /\ asked' = asked
      /\ answers' = answers /\ calm' = calm /\ got' = got
  BY DEF HostWaits, hostVars
<1>2. toTarget \in Seq(CommandFrames) /\ toHost \in Seq(AnswerFrames) /\ answers \in Nat
  BY DEF TypeOK
<1> DEFINE h == Tail(toHost)
<1>3. /\ h \in Seq(AnswerFrames) /\ Len(toHost) \in Nat /\ Len(h) = Len(toHost) - 1
      /\ \A i \in Strays(h) : i \in Nat /\ i + 1 \in Strays(toHost) /\ h[i] = toHost[i + 1]
  BY <1>2, TailFrames
<1>0. toHost' = h /\ toTarget' = toTarget
  OBVIOUS
<1> HIDE DEF h
<1>4. TypeOK'
  BY <1>0, <1>2, <1>3, QueueTypes
<1>9. ASSUME NEW n \in Nat, Outweighed(n)
      PROVE  \A i \in Strays(h) : i + n <= SyncAnswers
  <2> SUFFICES ASSUME NEW i \in Strays(h)
               PROVE  i + n <= SyncAnswers
    OBVIOUS
  <2>1. i \in Nat /\ (i + 1) + n <= SyncAnswers
    BY <1>3, <1>9 DEF Outweighed
  <2> QED
    BY <2>1, SyncAssumption
<1>5. Syncing'
  BY <1>0, <1>1, <1>2, <1>9 DEF LineInv, Syncing, Outweighed
<1>6. Refusing'
  <2>1. 0 \in Nat
    OBVIOUS
  <2> QED
    BY <1>0, <1>1, <1>9, <2>1 DEF LineInv, Refusing, Outweighed
<1>7. Synchronised'
  <2> SUFFICES ASSUME calm, step \notin {"sync", "failed"}
               PROVE  Synchronised'
    BY <1>1 DEF Synchronised
  <2>1. /\ \A i \in Strays(toTarget) :
             /\ i = Len(toTarget) /\ Strays(toHost) = {} /\ call = toTarget[i].cmd
             /\ call = "READ_REG" => toTarget[i].register = asked
        /\ \A i \in Strays(toHost) :
             i = Len(toHost) /\ toTarget = <<>> /\ call = toHost[i].cmd /\ TrueAnswer(toHost[i])
    BY DEF LineInv, Synchronised
  <2>2. Strays(toHost) = {} => Strays(h) = {}
    BY <1>3
  <2>3. \A i \in Strays(toTarget) :
             /\ i = Len(toTarget) /\ Strays(h) = {} /\ call = toTarget[i].cmd
             /\ call = "READ_REG" => toTarget[i].register = asked
    BY <2>1, <2>2
  <2>4. ASSUME NEW i \in Strays(h)
        PROVE  /\ i = Len(h) /\ toTarget = <<>> /\ call = h[i].cmd
               /\ TrueAnswer(h[i])
    <3>1. i \in Nat /\ i + 1 = Len(toHost) /\ h[i] = toHost[i + 1] /\ toTarget = <<>>
      BY <1>3, <2>1, <2>4
    <3>2. call = toHost[i + 1].cmd /\ TrueAnswer(toHost[i + 1])
      BY <1>3, <2>1, <2>4
    <3> QED
      BY <1>3, <3>1, <3>2
  <2> QED
    BY <1>0, <1>1, <2>3, <2>4 DEF Synchronised, TrueAnswer
<1>8. LateIsBounded'
  <2>1. LateAnswers' = LateAnswers - 1
    BY <1>0, <1>2, LateTail, LateIs DEF h
  <2>2. LateAnswers \in Nat
    BY <1>2, LateIs, LateBounds
  <2> QED
    BY <1>1, <2>1, <2>2, SyncAssumption DEF LineInv, LateIsBounded
<1> QED
  BY <1>4, <1>5, <1>6, <1>7, <1>8 DEF LineInv

LEMMA CommandGone ==
  ASSUME TypeOK, LineInv, HostWaits, toTarget # <<>>, toTarget' = Tail(toTarget), toHost' = toHost
  PROVE  TypeOK' /\ LineInv'
<1>1. /\ step' = step /\ call' = call /\ chip' = chip /\ session' = session /\ asked' = asked
      /\ answers' = answers /\ calm' = calm /\ got' = got
  BY DEF HostWaits, hostVars
<1>2. toTarget \in Seq(CommandFrames) /\ toHost \in Seq(AnswerFrames) /\ answers \in Nat
  BY DEF TypeOK
<1> DEFINE t == Tail(toTarget)
<1>3. /\ t \in Seq(CommandFrames) /\ Len(toTarget) \in Nat /\ Len(t) = Len(toTarget) - 1
      /\ \A i \in Strays(t) : i \in Nat /\ i + 1 \in Strays(toTarget) /\ t[i] = toTarget[i + 1]
  BY <1>2, TailFrames
<1>0. toTarget' = t /\ toHost' = toHost
  OBVIOUS
<1> HIDE DEF t
<1>4. TypeOK'
  BY <1>0, <1>2, <1>3, QueueTypes
<1>5. Syncing'
  BY <1>0, <1>1, <1>2, <1>3 DEF LineInv, Syncing, Outweighed
<1>6. Refusing'
  BY <1>0, <1>1, <1>2, <1>3 DEF LineInv, Refusing, Outweighed
<1>7. Synchronised'
  <2> SUFFICES ASSUME calm, step \notin {"sync", "failed"}
               PROVE  Synchronised'
    BY <1>1 DEF Synchronised
  <2>1. Strays(toHost) = {}
    BY DEF LineInv, Synchronised
  <2> QED
    <3>1. ASSUME NEW i \in Strays(t)
          PROVE  /\ i = Len(t) /\ call = t[i].cmd
                 /\ call = "READ_REG" => t[i].register = asked
      <4>1. /\ i \in Nat /\ i + 1 = Len(toTarget) /\ t[i] = toTarget[i + 1]
            /\ call = toTarget[i + 1].cmd
            /\ call = "READ_REG" => toTarget[i + 1].register = asked
        BY <1>3, <3>1 DEF LineInv, Synchronised
      <4> QED
        BY <4>1, <1>3
    <3> QED
      BY <1>0, <1>1, <2>1, <3>1 DEF Synchronised
<1>8. LateIsBounded'
  <2>1. LateAnswers' = LateAnswers - (IF Head(toTarget).cmd = "SYNC" THEN SyncAnswers ELSE 1)
    BY <1>0, <1>2, LateServe, LateIs DEF t
  <2>2. LateAnswers \in Nat
    BY <1>2, LateIs, LateBounds
  <2> QED
    BY <1>1, <2>1, <2>2, SyncAssumption DEF LineInv, LateIsBounded
<1> QED
  BY <1>4, <1>5, <1>6, <1>7, <1>8 DEF LineInv

\* The answer to the first command, which may be a refusal.
LEMMA CommandAnswered ==
  ASSUME TypeOK, LineInv, HostWaits, toTarget # <<>>,
         NEW a \in AnswerFrames, a.cmd = Head(toTarget).cmd, a.value = Answer(Head(toTarget)).value,
         toTarget' = Tail(toTarget), toHost' = Append(toHost, a)
  PROVE  TypeOK' /\ LineInv'
<1>1. /\ step' = step /\ call' = call /\ chip' = chip /\ session' = session /\ asked' = asked
      /\ answers' = answers /\ calm' = calm /\ got' = got
  BY DEF HostWaits, hostVars
<1>2. toTarget \in Seq(CommandFrames) /\ toHost \in Seq(AnswerFrames) /\ answers \in Nat
  BY DEF TypeOK
<1> DEFINE t == Tail(toTarget)
           h == Append(toHost, a)
<1>3. /\ t \in Seq(CommandFrames) /\ Len(toTarget) \in Nat
      /\ Len(t) = Len(toTarget) - 1 /\ Len(toTarget) >= 1
      /\ Head(toTarget) = toTarget[1] /\ Head(toTarget) \in CommandFrames
      /\ \A i \in Strays(t) : i \in Nat /\ i + 1 \in Strays(toTarget) /\ t[i] = toTarget[i + 1]
  BY <1>2, TailFrames
<1>4. /\ h \in Seq(AnswerFrames) /\ Len(h) = Len(toHost) + 1
      /\ \A i \in Strays(h) :
           \/ i \in Strays(toHost) /\ h[i] = toHost[i]
           \/ i = Len(toHost) + 1 /\ h[i] = a /\ a.cmd # "SYNC"
  <2>1. /\ h \in Seq(AnswerFrames) /\ Len(h) = Len(toHost) + 1
        /\ \A i \in 1 .. Len(toHost) : h[i] = toHost[i]
        /\ h[Len(toHost) + 1] = a
    BY <1>2
  <2> HIDE DEF h
  <2>2. \A i \in Strays(h) : (i \in Strays(toHost) /\ h[i] = toHost[i]) \/ i = Len(toHost) + 1
    BY <1>2, <2>1, AppendFrames
  <2>3. \A i \in Strays(h) : h[i].cmd # "SYNC"
    BY DEF Strays
  <2> QED
    BY <2>1, <2>2, <2>3
<1>0. toTarget' = t /\ toHost' = h
  OBVIOUS
<1> HIDE DEF t, h
<1>5. TypeOK'
  BY <1>0, <1>2, <1>3, <1>4, QueueTypes
<1>6. Head(toTarget).cmd # "SYNC" => 1 \in Strays(toTarget)
  BY <1>2, <1>3 DEF Strays
<1>7. Strays(toTarget) = {} => Strays(t) = {} /\ \A i \in Strays(h) : i \in Strays(toHost)
  BY <1>3, <1>4, <1>6
<1>8. Syncing'
  BY <1>0, <1>1, <1>7 DEF LineInv, Syncing, Outweighed
<1>9. Refusing'
  BY <1>0, <1>1, <1>7 DEF LineInv, Refusing, Outweighed
<1>10. Synchronised'
  <2> SUFFICES ASSUME calm, step \notin {"sync", "failed"}
               PROVE  Synchronised'
    BY <1>1 DEF Synchronised
  <2>1. Strays(toHost) = {}
    BY DEF LineInv, Synchronised
  <2>2. /\ \A i \in Strays(toTarget) :
             /\ i = Len(toTarget)
             /\ call = toTarget[i].cmd
             /\ call = "READ_REG" => toTarget[i].register = asked
    BY DEF LineInv, Synchronised
  <2>3. CASE Head(toTarget).cmd = "SYNC"
    <3>1. Strays(h) = {}
      BY <1>4, <2>1, <2>3
    <3>2. \A i \in Strays(t) :
            /\ i = Len(t)
            /\ call = t[i].cmd
            /\ call = "READ_REG" => t[i].register = asked
      <4> SUFFICES ASSUME NEW i \in Strays(t)
                   PROVE  /\ i = Len(t) /\ call = t[i].cmd
                          /\ call = "READ_REG" => t[i].register = asked
        OBVIOUS
      <4>1. /\ i \in Nat /\ i + 1 = Len(toTarget) /\ t[i] = toTarget[i + 1]
            /\ call = toTarget[i + 1].cmd
            /\ call = "READ_REG" => toTarget[i + 1].register = asked
        BY <1>3, <2>2
      <4> QED
        BY <4>1, <1>3
    <3> QED
      BY <1>0, <1>1, <3>1, <3>2 DEF Synchronised
  <2>4. CASE Head(toTarget).cmd # "SYNC"
    <3>1. /\ 1 = Len(toTarget) /\ call = Head(toTarget).cmd
          /\ call = "READ_REG" => Head(toTarget).register = asked
      BY <1>3, <1>6, <2>2, <2>4
    <3>2. t = <<>>
      <4>1. Len(t) = 0
        <5>1. Len(toTarget) = 1 /\ Len(t) = Len(toTarget) - 1
          BY <1>3, <3>1
        <5> QED
          BY <5>1
      <4> QED
        BY <4>1, <1>3, EmptySeq
    <3>3. Strays(t) = {}
      BY <3>2 DEF Strays
    <3>4. TrueAnswer(a)
      BY <3>1, <1>3, AnswerTypes DEF TrueAnswer
    <3>5. \A i \in Strays(h) : i = Len(h) /\ h[i] = a
      BY <1>4, <2>1
    <3> QED
      BY <1>0, <1>1, <3>1, <3>2, <3>3, <3>4, <3>5 DEF Synchronised, TrueAnswer
  <2> QED
    BY <2>3, <2>4
<1>11. LateIsBounded'
  <2>1. LateAnswers' = Late(toHost, Tail(toTarget)) + 1
    <3>1. LateAnswers' = Late(h, t)
      BY <1>0, LateIs
    <3>2. Late(h, t) = Late(toHost, t) + 1
      BY <1>2, <1>3, <1>4, LateServeSync
    <3> QED
      BY <3>1, <3>2 DEF t
  <2>2. Late(toHost, Tail(toTarget))
          = LateAnswers - (IF Head(toTarget).cmd = "SYNC" THEN SyncAnswers ELSE 1)
    BY <1>2, LateServe, LateIs
  <2>3. LateAnswers \in Nat
    BY <1>2, LateIs, LateBounds
  <2> QED
    BY <1>1, <2>1, <2>2, <2>3, SyncAssumption DEF LineInv, LateIsBounded
<1> QED
  BY <1>5, <1>8, <1>9, <1>10, <1>11 DEF LineInv

LEMMA SyncServed ==
  ASSUME TypeOK, LineInv, ServeSync
  PROVE  TypeOK' /\ LineInv'
<1>0. HostWaits
  BY DEF ServeSync, HostWaits
<1>1. /\ step' = step /\ call' = call /\ chip' = chip /\ session' = session /\ asked' = asked
      /\ answers' = answers /\ calm' = calm /\ got' = got
  BY <1>0 DEF HostWaits, hostVars
<1>2. toTarget \in Seq(CommandFrames) /\ toHost \in Seq(AnswerFrames) /\ answers \in Nat
  BY DEF TypeOK
<1>3. toTarget # <<>> /\ Head(toTarget).cmd = "SYNC" /\ toTarget' = Tail(toTarget)
  BY DEF ServeSync
<1> DEFINE t == Tail(toTarget)
           a == Answer(Sync)
           h == toHost \o [i \in 1 .. SyncAnswers |-> a]
<1>4. /\ t \in Seq(CommandFrames) /\ Len(toTarget) \in Nat /\ Len(t) = Len(toTarget) - 1
      /\ \A i \in Strays(t) : i \in Nat /\ i + 1 \in Strays(toTarget) /\ t[i] = toTarget[i + 1]
  BY <1>2, <1>3, TailFrames
<1>5. a \in AnswerFrames /\ a.cmd = "SYNC"
  BY CommandTypes, AnswerTypes
<1>12. toTarget' = t /\ toHost' = h
  BY DEF ServeSync
<1> HIDE DEF a
<1>6. /\ h \in Seq(AnswerFrames) /\ Len(h) = Len(toHost) + SyncAnswers
      /\ \A i \in Strays(h) : i \in Strays(toHost) /\ h[i] = toHost[i]
  BY <1>2, <1>5, SyncFrames
<1> HIDE DEF t, h
<1>7. TypeOK'
  BY <1>0, <1>12, <1>4, <1>6, QueueTypes
<1>8. Syncing'
  BY <1>12, <1>1, <1>4, <1>6 DEF LineInv, Syncing, Outweighed
<1>9. Refusing'
  BY <1>12, <1>1, <1>4, <1>6 DEF LineInv, Refusing, Outweighed
<1>10. Synchronised'
  <2> SUFFICES ASSUME calm, step \notin {"sync", "failed"}
               PROVE  Synchronised'
    BY <1>1 DEF Synchronised
  <2>1. Strays(toHost) = {}
    BY <1>3 DEF LineInv, Synchronised
  <2>2. Strays(h) = {}
    BY <2>1, <1>6
  <2>3. ASSUME NEW i \in Strays(t)
        PROVE  /\ i = Len(t) /\ call = t[i].cmd
               /\ call = "READ_REG" => t[i].register = asked
    <3>1. /\ i \in Nat /\ i + 1 = Len(toTarget) /\ t[i] = toTarget[i + 1]
          /\ call = toTarget[i + 1].cmd
          /\ call = "READ_REG" => toTarget[i + 1].register = asked
      BY <1>4, <2>3 DEF LineInv, Synchronised
    <3> QED
      BY <3>1, <1>4
  <2> QED
    BY <1>12, <1>1, <2>2, <2>3 DEF Synchronised
<1>11. LateIsBounded'
  <2>1. LateAnswers' = Late(toHost, Tail(toTarget)) + SyncAnswers
    <3>1. LateAnswers' = Late(h, t)
      BY <1>12, LateIs
    <3>2. SyncAnswers \in Nat
      BY SyncAssumption
    <3>3. Late(h, t) = Late(toHost, t) + SyncAnswers
      BY <1>2, <1>4, <1>6, <3>2, LateServeSync
    <3> QED
      BY <3>1, <3>3 DEF t
  <2>2. Late(toHost, Tail(toTarget)) = LateAnswers - SyncAnswers
    BY <1>2, <1>3, LateServe, LateIs
  <2>3. LateAnswers \in Nat
    BY <1>2, LateIs, LateBounds
  <2> QED
    BY <1>1, <2>1, <2>2, <2>3, SyncAssumption DEF LineInv, LateIsBounded
<1> QED
  BY <1>7, <1>8, <1>9, <1>10, <1>11 DEF LineInv

LEMMA LineStep ==
  ASSUME TypeOK, LineInv, SkipAnswer \/ ServeSync \/ Serve \/ Refuse \/ Lose
  PROVE  TypeOK' /\ LineInv' /\ HostWaits
<1>1. CASE SkipAnswer
  BY <1>1, AnswerGone DEF SkipAnswer, Skip, HostWaits
<1>2. CASE ServeSync
  BY <1>2, SyncServed DEF ServeSync, HostWaits
<1>3. CASE Serve
  <2>1. Answer(Head(toTarget)) \in AnswerFrames /\ Answer(Head(toTarget)).cmd = Head(toTarget).cmd
    BY <1>3, Tails, AnswerTypes DEF Serve
  <2> QED
    BY <1>3, <2>1, CommandAnswered DEF Serve, Reply, HostWaits
<1>4. CASE Refuse
  <2> DEFINE a == [Answer(Head(toTarget)) EXCEPT !.ok = FALSE]
  <2>1. /\ a \in AnswerFrames /\ a.cmd = Head(toTarget).cmd
        /\ a.value = Answer(Head(toTarget)).value
    BY <1>4, Tails, AnswerTypes DEF Refuse
  <2>2. toTarget # <<>> /\ toTarget' = Tail(toTarget) /\ toHost' = Append(toHost, a) /\ HostWaits
    BY <1>4 DEF Refuse, Reply, HostWaits
  <2> HIDE DEF a
  <2> QED
    BY <2>1, <2>2, CommandAnswered
<1>5. CASE Lose
  <2>1. CASE LoseCommand
    BY <1>5, <2>1, CommandGone DEF Lose, LoseCommand, HostWaits
  <2>2. CASE LoseAnswer
    BY <1>5, <2>2, AnswerGone DEF Lose, LoseAnswer, HostWaits
  <2> QED
    BY <1>5, <2>1, <2>2 DEF Lose
<1> QED
  BY <1>1, <1>2, <1>3, <1>4, <1>5

-----------------------------------------------------------------------------
(* The steps of the host *)

\* The command a step goes on to wait for.
Suits(where, command) ==
  CASE where = "info" -> command.cmd = "GET_SECURITY_INFO"
    [] where \in {"magic", "efuse", "up"} -> command.cmd = "READ_REG"
    [] where = "attach" -> command.cmd = "SPI_ATTACH"

Asking == {"info", "magic", "efuse", "attach", "up"}

\* A command goes out on a line without strays, or on one whose late frames are
\* no more than a SYNC outweighs.
LEMMA AskKeeps ==
  ASSUME TypeOK, NEW where \in Asking, NEW command \in CommandFrames, Suits(where, command),
         NEW inbound \in Seq(AnswerFrames), Ask(where, command, inbound),
         chip' = chip, session' = session, answers' \in Nat, calm' \in BOOLEAN,
         calm' => Strays(toTarget) = {} /\ Strays(inbound) = {},
         ~calm' => Late(inbound, toTarget) <= SyncAnswers
  PROVE  TypeOK' /\ LineInv'
<1>1. /\ toTarget' = Append(toTarget, command) /\ toHost' = inbound
      /\ call' = command.cmd /\ step' = where
      /\ asked' = IF command.cmd = "READ_REG" THEN command.register ELSE asked
  BY DEF Ask, Send
<1>2. toTarget \in Seq(CommandFrames) /\ chip \in Chips /\ session \in Nat
  BY DEF TypeOK
<1>3. command.cmd \notin {"SYNC", NoCall} /\ where \notin {"sync", "failed", "off"} /\ where \in Steps
  BY DEF Suits, Asking, NoCall, Steps
<1> DEFINE t == Append(toTarget, command)
<1>4. /\ t \in Seq(CommandFrames) /\ Len(t) = Len(toTarget) + 1 /\ Len(toTarget) \in Nat
      /\ \A i \in 1 .. Len(toTarget) : t[i] = toTarget[i]
      /\ t[Len(toTarget) + 1] = command
  BY <1>2
<1>5. toTarget' = t
  BY <1>1
<1>6. Late(inbound, t) = Late(inbound, toTarget) + 1
  BY <1>2, <1>3, LateAsk
<1> HIDE DEF t
<1>7. \A i \in Strays(t) : (i \in Strays(toTarget) /\ t[i] = toTarget[i]) \/ i = Len(toTarget) + 1
  BY <1>2, <1>4, AppendFrames
<1>8. TypeOK'
  <2>1. call' \in Awaited'
    BY <1>1 DEF Awaited, Suits, Asking
  <2> QED
    BY <1>1, <1>2, <1>3, <1>4, <1>5, <2>1 DEF TypeOK
<1>9. Syncing' /\ Refusing'
  BY <1>1, <1>3 DEF Syncing, Refusing
<1>10. Synchronised'
  <2> SUFFICES ASSUME calm' PROVE Synchronised'
    BY DEF Synchronised
  <2>1. Strays(inbound) = {}
    OBVIOUS
  <2>2. \A i \in Strays(t) : i = Len(t) /\ t[i] = command
    BY <1>4, <1>7
  <2> QED
    BY <1>1, <1>5, <2>1, <2>2 DEF Synchronised
<1>11. LateIsBounded'
  <2>1. LateAnswers' = Late(inbound, t)
    BY <1>1, <1>5, LateIs
  <2>2. Late(inbound, toTarget) \in Nat
    BY <1>2, LateBounds
  <2> QED
    BY <1>1, <1>3, <1>6, <2>1, <2>2, SyncAssumption DEF LateIsBounded
<1> QED
  BY <1>8, <1>9, <1>10, <1>11 DEF LineInv

\* A call that returns leaves such a line behind.
LEMMA ReturnKeeps ==
  ASSUME TypeOK, NEW inbound \in Seq(AnswerFrames), Return(inbound), step' \in {"up", "failed"},
         chip' = chip, session' = session, answers' = answers, calm' \in BOOLEAN,
         calm' => /\ Strays(toTarget) = {}
                  /\ IF step' = "up" THEN Strays(inbound) = {}
                     ELSE \A i \in Strays(inbound) : i <= SyncAnswers,
         ~calm' => Late(inbound, toTarget) <= SyncAnswers
  PROVE  TypeOK' /\ LineInv'
<1>1. toTarget' = toTarget /\ toHost' = inbound /\ call' = NoCall
  BY DEF Return
<1>2. toTarget \in Seq(CommandFrames) /\ chip \in Chips /\ session \in Nat /\ answers \in Nat
  BY DEF TypeOK
<1>3. TypeOK'
  <2>1. call' \in Awaited' /\ step' \in Steps
    BY <1>1 DEF Awaited, Steps
  <2> QED
    BY <1>1, <1>2, <2>1 DEF TypeOK
<1>4. Syncing'
  BY DEF Syncing
<1>5. Refusing'
  <2>1. \A i \in Strays(inbound) : i \in Nat
    BY DEF Strays
  <2> QED
    BY <1>1, <2>1 DEF Refusing, Outweighed
<1>6. Synchronised'
  BY <1>1 DEF Synchronised
<1>7. LateIsBounded'
  <2>1. LateAnswers' = Late(inbound, toTarget)
    BY <1>1, LateIs
  <2>2. Late(inbound, toTarget) \in Nat
    BY <1>2, LateBounds
  <2> QED
    BY <1>1, <2>1, <2>2, SyncAssumption DEF LateIsBounded
<1> QED
  BY <1>3, <1>4, <1>5, <1>6, <1>7 DEF LineInv

\* The answer that a synchronised host takes is the last frame on the line, and
\* it is true.
LEMMA TakesAnswer ==
  ASSUME TypeOK, LineInv, calm, step \notin {"sync", "failed"}, Answered
  PROVE  Strays(toTarget) = {} /\ Strays(Tail(toHost)) = {} /\ TrueAnswer(Head(toHost))
<1>1. toHost \in Seq(AnswerFrames) /\ toHost # <<>> /\ Head(toHost).cmd = call /\ call # NoCall
  BY DEF Answered, Matches, TypeOK
<1>2. call # "SYNC"
  BY <1>1 DEF TypeOK, Awaited, Steps
<1>3. Head(toHost) = toHost[1] /\ Len(toHost) \in Nat /\ Len(toHost) >= 1
      /\ Len(Tail(toHost)) = Len(toHost) - 1 /\ Tail(toHost) \in Seq(AnswerFrames)
  BY <1>1, TailFrames
<1>4. 1 \in Strays(toHost)
  BY <1>1, <1>2, <1>3 DEF Strays
<1>5. 1 = Len(toHost) /\ toTarget = <<>> /\ TrueAnswer(toHost[1])
  BY <1>4 DEF LineInv, Synchronised
<1>7. Strays(Tail(toHost)) = {}
  <2> DEFINE h == Tail(toHost)
             n == Len(toHost)
  <2>1. h \in Seq(AnswerFrames) /\ Len(h) = n - 1 /\ n = 1
    BY <1>3, <1>5
  <2> HIDE DEF h, n
  <2>2. DOMAIN h = 1 .. 0
    BY <2>1
  <2>3. Strays(h) = {}
    BY <2>2 DEF Strays
  <2> QED
    BY <2>3 DEF h
<1>8. Strays(toTarget) = {}
  <2>1. DOMAIN toTarget = 1 .. 0
    BY <1>5
  <2> QED
    BY <2>1 DEF Strays
<1> QED
  BY <1>3, <1>5, <1>7, <1>8

LEMMA LateAfterAnswer ==
  ASSUME TypeOK, LineInv, ~calm, Answered
  PROVE  Late(Tail(toHost), toTarget) <= SyncAnswers
<1>1. toHost \in Seq(AnswerFrames) /\ toTarget \in Seq(CommandFrames) /\ toHost # <<>> /\ call # NoCall
  BY DEF Answered, TypeOK
<1>2. Late(toHost, toTarget) <= SyncAnswers + 1
  BY <1>1, LateIs DEF LineInv, LateIsBounded
<1>3. Late(toHost, toTarget) \in Nat /\ Late(Tail(toHost), toTarget) = Late(toHost, toTarget) - 1
  BY <1>1, LateBounds, LateTail
<1> QED
  BY <1>2, <1>3, SyncAssumption

LEMMA LateAfterExpiry ==
  ASSUME TypeOK, MaxLate <= SyncAnswers, TimesOut
  PROVE  Late(toHost, toTarget) <= SyncAnswers
<1>1. Late(toHost, toTarget) \in Nat /\ Late(toHost, toTarget) <= MaxLate
  BY LateIs, LateBounds DEF TypeOK, TimesOut
<1> QED
  BY <1>1, SyncAssumption, MaxLateAssumption

\* What both cases of an answered call come to.
LEMMA AfterAnswer ==
  ASSUME TypeOK, LineInv, step \notin {"sync", "failed"}, Answered
  PROVE  /\ Tail(toHost) \in Seq(AnswerFrames)
         /\ calm => Strays(toTarget) = {} /\ Strays(Tail(toHost)) = {} /\ TrueAnswer(Head(toHost))
         /\ ~calm => Late(Tail(toHost), toTarget) <= SyncAnswers
<1>1. Tail(toHost) \in Seq(AnswerFrames)
  BY Tails DEF Answered
<1> QED
  BY <1>1, TakesAnswer, LateAfterAnswer

-----------------------------------------------------------------------------
(* Every step keeps the invariant *)

LEMMA LineKeeps ==
  ASSUME ConnectionInv, SkipAnswer \/ ServeSync \/ Serve \/ Refuse \/ Lose
  PROVE  ConnectionInv'
<1>1. TypeOK' /\ LineInv' /\ HostWaits
  BY LineStep DEF ConnectionInv
<1>2. AskedFits' /\ DetectsAttached' /\ ReadsFresh'
  BY <1>1 DEF ConnectionInv, AskedFits, DetectsAttached, ReadsFresh, HostWaits, hostVars
<1> QED
  BY <1>1, <1>2 DEF ConnectionInv

LEMMA InfoAnsweredKeeps ==
  ASSUME ConnectionInv, InfoAnswered
  PROVE  ConnectionInv'
<1>1. /\ step = "info" /\ Answered /\ detected' = Head(toHost).value
      /\ Configure(Head(toHost).value, Tail(toHost))
      /\ answers' = answers /\ got' = got /\ chip' = chip /\ session' = session /\ calm' = calm
  BY DEF InfoAnswered, Accepted
<1>2. /\ Tail(toHost) \in Seq(AnswerFrames)
      /\ calm => Strays(toTarget) = {} /\ Strays(Tail(toHost)) = {} /\ TrueAnswer(Head(toHost))
      /\ ~calm => Late(Tail(toHost), toTarget) <= SyncAnswers
  BY <1>1, AfterAnswer DEF ConnectionInv
<1>3. answers \in Nat /\ calm \in BOOLEAN
  BY DEF ConnectionInv, TypeOK
<1>4. TypeOK' /\ LineInv' /\ step' \in {"efuse", "attach"}
  <2>1. CASE Ask("efuse", Command("READ_REG", Efuse), Tail(toHost))
    <3>1. /\ Command("READ_REG", Efuse) \in CommandFrames
          /\ Suits("efuse", Command("READ_REG", Efuse)) /\ "efuse" \in Asking
      BY CommandTypes DEF Suits, Command, Asking
    <3> QED
      BY <1>1, <1>2, <1>3, <2>1, <3>1, AskKeeps DEF ConnectionInv, Ask
  <2>2. CASE Ask("attach", Command("SPI_ATTACH", NoCall), Tail(toHost))
    <3>1. /\ Command("SPI_ATTACH", NoCall) \in CommandFrames
          /\ Suits("attach", Command("SPI_ATTACH", NoCall)) /\ "attach" \in Asking
      BY CommandTypes DEF Suits, Command, Asking
    <3> QED
      BY <1>1, <1>2, <1>3, <2>2, <3>1, AskKeeps DEF ConnectionInv, Ask
  <2> QED
    BY <1>1, <2>1, <2>2, ConfigureAsks
<1>5. calm => detected' = chip
  <2>1. Head(toHost).cmd = "GET_SECURITY_INFO"
    BY <1>1 DEF Answered, Matches, ConnectionInv, TypeOK, Awaited
  <2> QED
    BY <1>1, <1>2, <2>1 DEF TrueAnswer
<1>6. DetectsAttached' /\ ReadsFresh' /\ AskedFits'
  <2>1. asked' = asked \/ step' # "magic"
    BY <1>4
  <2> QED
    BY <1>1, <1>4, <1>5 DEF DetectsAttached, ReadsFresh, AskedFits, ConnectionInv
<1> QED
  BY <1>4, <1>6 DEF ConnectionInv

LEMMA NoInfoKeeps ==
  ASSUME ConnectionInv, MaxLate <= SyncAnswers, NoInfo
  PROVE  ConnectionInv'
<1> DEFINE command == Command("READ_REG", Magic)
<1>1. /\ step = "info" /\ answers' = answers /\ got' = got /\ chip' = chip /\ session' = session
      /\ answers \in Nat /\ calm \in BOOLEAN
  BY DEF NoInfo, ConnectionInv, TypeOK
<1>2. command \in CommandFrames /\ Suits("magic", command) /\ "magic" \in Asking
  BY CommandTypes DEF Suits, Command, Asking
<1>3. TypeOK' /\ LineInv' /\ step' = "magic" /\ asked' = Magic /\ (calm' => calm)
  <2>1. CASE Refused /\ Ask("magic", command, Tail(toHost)) /\ calm' = calm
    <3>1. Answered
      BY <2>1 DEF Refused
    <3>2. /\ Tail(toHost) \in Seq(AnswerFrames)
          /\ calm => Strays(toTarget) = {} /\ Strays(Tail(toHost)) = {}
          /\ ~calm => Late(Tail(toHost), toTarget) <= SyncAnswers
      BY <1>1, <3>1, AfterAnswer DEF ConnectionInv
    <3>3. step' = "magic" /\ asked' = Magic
      BY <2>1 DEF Ask, Command
    <3> HIDE DEF command
    <3> QED
      BY <1>1, <1>2, <2>1, <3>2, <3>3, AskKeeps DEF ConnectionInv
  <2>2. CASE TimesOut /\ Ask("magic", command, toHost) /\ calm' = FALSE
    <3>1. Late(toHost, toTarget) <= SyncAnswers /\ toHost \in Seq(AnswerFrames)
      BY <2>2, LateAfterExpiry DEF ConnectionInv, TypeOK
    <3>2. step' = "magic" /\ asked' = Magic
      BY <2>2 DEF Ask, Command
    <3> HIDE DEF command
    <3> QED
      BY <1>1, <1>2, <2>2, <3>1, <3>2, AskKeeps DEF ConnectionInv
  <2> QED
    BY <2>1, <2>2 DEF NoInfo
<1>4. DetectsAttached' /\ ReadsFresh' /\ AskedFits'
  BY <1>1, <1>3 DEF DetectsAttached, ReadsFresh, AskedFits, ConnectionInv
<1> QED
  BY <1>3, <1>4 DEF ConnectionInv

\* What a register read returns, when all is calm.
LEMMA ReadIsTrue ==
  ASSUME ConnectionInv, calm, Answered, call = "READ_REG", step \notin {"sync", "failed"}
  PROVE  Head(toHost).value = [register |-> asked, session |-> session, chip |-> chip]
<1>1. Head(toHost).cmd = "READ_REG"
  BY DEF Answered, Matches
<1>2. TrueAnswer(Head(toHost))
  BY AfterAnswer DEF ConnectionInv
<1> QED
  BY <1>1, <1>2 DEF TrueAnswer

LEMMA MagicAnsweredKeeps ==
  ASSUME ConnectionInv, MagicAnswered
  PROVE  ConnectionInv'
<1>1. /\ step = "magic" /\ Answered /\ got' = [asked |-> asked, read |-> Head(toHost).value]
      /\ answers' = answers /\ chip' = chip /\ session' = session /\ calm' = calm
      /\ answers \in Nat /\ calm \in BOOLEAN /\ call = "READ_REG"
  BY DEF MagicAnswered, Accepted, ConnectionInv, TypeOK, Awaited
<1>2. /\ Tail(toHost) \in Seq(AnswerFrames)
      /\ calm => Strays(toTarget) = {} /\ Strays(Tail(toHost)) = {}
      /\ ~calm => Late(Tail(toHost), toTarget) <= SyncAnswers
  BY <1>1, AfterAnswer DEF ConnectionInv
<1>3. calm => Head(toHost).value = [register |-> asked, session |-> session, chip |-> chip]
  BY <1>1, ReadIsTrue
<1>4. ReadsFresh'
  BY <1>1, <1>3 DEF ReadsFresh
<1>5. CASE /\ detected' = Head(toHost).value.chip
           /\ Configure(Head(toHost).value.chip, Tail(toHost))
  <2>1. TypeOK' /\ LineInv' /\ step' \in {"efuse", "attach"}
    <3>1. CASE Ask("efuse", Command("READ_REG", Efuse), Tail(toHost))
      <4>1. /\ Command("READ_REG", Efuse) \in CommandFrames
            /\ Suits("efuse", Command("READ_REG", Efuse)) /\ "efuse" \in Asking
        BY CommandTypes DEF Suits, Command, Asking
      <4> QED
        BY <1>1, <1>2, <3>1, <4>1, AskKeeps DEF ConnectionInv, Ask
    <3>2. CASE Ask("attach", Command("SPI_ATTACH", NoCall), Tail(toHost))
      <4>1. /\ Command("SPI_ATTACH", NoCall) \in CommandFrames
            /\ Suits("attach", Command("SPI_ATTACH", NoCall)) /\ "attach" \in Asking
        BY CommandTypes DEF Suits, Command, Asking
      <4> QED
        BY <1>1, <1>2, <3>2, <4>1, AskKeeps DEF ConnectionInv, Ask
    <3> QED
      BY <1>5, <3>1, <3>2, ConfigureAsks
  <2>2. DetectsAttached' /\ AskedFits'
    BY <1>1, <1>3, <1>5, <2>1 DEF DetectsAttached, AskedFits
  <2> QED
    BY <1>4, <2>1, <2>2 DEF ConnectionInv
<1>6. CASE Fail(Tail(toHost)) /\ UNCHANGED <<detected, asked>>
  <2>1. Return(Tail(toHost)) /\ step' = "failed"
    BY <1>6 DEF Fail
  <2>2. TypeOK' /\ LineInv'
    BY <1>1, <1>2, <2>1, ReturnKeeps DEF ConnectionInv
  <2> QED
    BY <1>4, <2>1, <2>2 DEF ConnectionInv, DetectsAttached, AskedFits
<1> QED
  BY <1>5, <1>6 DEF MagicAnswered

LEMMA EfuseAnsweredKeeps ==
  ASSUME ConnectionInv, EfuseAnswered
  PROVE  ConnectionInv'
<1> DEFINE command == Command("SPI_ATTACH", NoCall)
<1>1. /\ step = "efuse" /\ Answered /\ got' = [asked |-> asked, read |-> Head(toHost).value]
      /\ Ask("attach", command, Tail(toHost)) /\ detected' = detected
      /\ answers' = answers /\ chip' = chip /\ session' = session /\ calm' = calm
      /\ answers \in Nat /\ calm \in BOOLEAN /\ call = "READ_REG"
  BY DEF EfuseAnswered, Accepted, ConnectionInv, TypeOK, Awaited
<1>2. /\ Tail(toHost) \in Seq(AnswerFrames)
      /\ calm => Strays(toTarget) = {} /\ Strays(Tail(toHost)) = {}
      /\ ~calm => Late(Tail(toHost), toTarget) <= SyncAnswers
  BY <1>1, AfterAnswer DEF ConnectionInv
<1>3. calm => Head(toHost).value = [register |-> asked, session |-> session, chip |-> chip]
  BY <1>1, ReadIsTrue
<1>4. ReadsFresh'
  BY <1>1, <1>3 DEF ReadsFresh
<1>5. command \in CommandFrames /\ Suits("attach", command) /\ "attach" \in Asking
  BY CommandTypes DEF Suits, Command, Asking
<1>6. step' = "attach"
  BY <1>1 DEF Ask
<1> HIDE DEF command
<1>7. TypeOK' /\ LineInv'
  BY <1>1, <1>2, <1>5, AskKeeps DEF ConnectionInv
<1> QED
  BY <1>1, <1>4, <1>6, <1>7 DEF ConnectionInv, DetectsAttached, AskedFits

LEMMA AttachedKeeps ==
  ASSUME ConnectionInv, Attached
  PROVE  ConnectionInv'
<1>1. /\ step = "attach" /\ Answered /\ Return(Tail(toHost)) /\ step' = "up"
      /\ detected' = detected /\ got' = got
      /\ answers' = answers /\ chip' = chip /\ session' = session /\ calm' = calm
      /\ answers \in Nat /\ calm \in BOOLEAN
  BY DEF Attached, Accepted, ConnectionInv, TypeOK
<1>2. /\ Tail(toHost) \in Seq(AnswerFrames)
      /\ calm => Strays(toTarget) = {} /\ Strays(Tail(toHost)) = {}
      /\ ~calm => Late(Tail(toHost), toTarget) <= SyncAnswers
  BY <1>1, AfterAnswer DEF ConnectionInv
<1>3. TypeOK' /\ LineInv'
  BY <1>1, <1>2, ReturnKeeps DEF ConnectionInv
<1> QED
  BY <1>1, <1>3 DEF ConnectionInv, DetectsAttached, ReadsFresh, AskedFits

\* A refused SYNC: the strays among the answers are those that were there.
LEMMA SyncRefused ==
  ASSUME TypeOK, LineInv, step = "sync", Answered
  PROVE  /\ Tail(toHost) \in Seq(AnswerFrames) /\ calm /\ Strays(toTarget) = {} /\ got = NoRead
         /\ \A i \in Strays(Tail(toHost)) : i \in Nat /\ i + (answers + 1) <= SyncAnswers
<1>1. toHost \in Seq(AnswerFrames) /\ toHost # <<>> /\ answers \in Nat
  BY DEF TypeOK, Answered
<1>2. calm /\ Strays(toTarget) = {} /\ got = NoRead /\ Outweighed(answers)
  BY DEF LineInv, Syncing
<1>3. /\ Tail(toHost) \in Seq(AnswerFrames)
      /\ \A i \in Strays(Tail(toHost)) : i \in Nat /\ i + 1 \in Strays(toHost)
  BY <1>1, TailFrames
<1>4. ASSUME NEW i \in Strays(Tail(toHost))
      PROVE  i \in Nat /\ i + (answers + 1) <= SyncAnswers
  <2>1. i \in Nat /\ (i + 1) + answers <= SyncAnswers
    BY <1>2, <1>3, <1>4 DEF Outweighed
  <2> QED
    BY <1>1, <2>1, SyncAssumption
<1> QED
  BY <1>2, <1>3, <1>4

LEMMA ConnectFailsKeeps ==
  ASSUME ConnectionInv, MaxLate <= SyncAnswers, ConnectFails
  PROVE  ConnectionInv'
<1>1. /\ answers' = answers /\ got' = got /\ chip' = chip /\ session' = session
      /\ answers \in Nat /\ calm \in BOOLEAN /\ toHost \in Seq(AnswerFrames)
  BY DEF ConnectFails, ConnectionInv, TypeOK
<1>2. TypeOK' /\ LineInv' /\ step' = "failed" /\ (calm' => calm)
  <2>1. CASE step \in {"magic", "efuse", "attach"} /\ Refused /\ Fail(Tail(toHost)) /\ calm' = calm
    <3>1. Answered /\ Return(Tail(toHost)) /\ step' = "failed"
      BY <2>1 DEF Refused, Fail
    <3>2. /\ Tail(toHost) \in Seq(AnswerFrames)
          /\ calm => Strays(toTarget) = {} /\ Strays(Tail(toHost)) = {}
          /\ ~calm => Late(Tail(toHost), toTarget) <= SyncAnswers
      BY <2>1, <3>1, AfterAnswer DEF ConnectionInv
    <3> QED
      BY <1>1, <2>1, <3>1, <3>2, ReturnKeeps DEF ConnectionInv
  <2>2. CASE TimesOut /\ Fail(toHost) /\ calm' = FALSE
    <3>1. Return(toHost) /\ step' = "failed"
      BY <2>2 DEF Fail
    <3>2. Late(toHost, toTarget) <= SyncAnswers
      BY <2>2, LateAfterExpiry DEF ConnectionInv
    <3> QED
      BY <1>1, <2>2, <3>1, <3>2, ReturnKeeps DEF ConnectionInv
  <2>3. CASE step = "sync" /\ Refused /\ Fail(Tail(toHost)) /\ calm' = calm
    <3>1. Answered /\ Return(Tail(toHost)) /\ step' = "failed"
      BY <2>3 DEF Refused, Fail
    <3>2. /\ Tail(toHost) \in Seq(AnswerFrames) /\ calm /\ Strays(toTarget) = {}
          /\ \A i \in Strays(Tail(toHost)) : i \in Nat /\ i + (answers + 1) <= SyncAnswers
      BY <2>3, <3>1, SyncRefused DEF ConnectionInv
    <3>3. \A i \in Strays(Tail(toHost)) : i <= SyncAnswers
      BY <1>1, <3>2, SyncAssumption
    <3> QED
      BY <1>1, <2>3, <3>1, <3>2, <3>3, ReturnKeeps DEF ConnectionInv
  <2> QED
    BY <2>1, <2>2, <2>3 DEF ConnectFails
<1> QED
  BY <1>1, <1>2 DEF ConnectionInv, DetectsAttached, ReadsFresh, AskedFits

\* A calm line without an outstanding command carries nothing but answers to SYNC.
LEMMA IdleLineIsClear ==
  ASSUME TypeOK, Synchronised, calm, step = "up", call = NoCall
  PROVE  Strays(toTarget) = {} /\ Strays(toHost) = {}
<1>1. toHost \in Seq(AnswerFrames) /\ toTarget \in Seq(CommandFrames)
  BY DEF TypeOK
<1>2. NoCall \notin Commands
  BY DEF NoCall, Commands
<1>3. \A i \in Strays(toTarget) : toTarget[i].cmd = call
  BY DEF Synchronised
<1>4. \A i \in Strays(toHost) : toHost[i].cmd = call
  BY DEF Synchronised
<1>5. ASSUME NEW i \in Strays(toTarget) PROVE toTarget[i].cmd \in Commands
  <2>1. i \in DOMAIN toTarget
    BY DEF Strays
  <2>2. toTarget[i] \in CommandFrames
    BY <1>1, <2>1
  <2> QED
    BY <2>2 DEF CommandFrames
<1>6. ASSUME NEW i \in Strays(toHost) PROVE toHost[i].cmd \in Commands
  <2>1. i \in DOMAIN toHost
    BY DEF Strays
  <2>2. toHost[i] \in AnswerFrames
    BY <1>1, <2>1
  <2> QED
    BY <2>2 DEF AnswerFrames
<1> QED
  BY <1>2, <1>3, <1>4, <1>5, <1>6

\* Between two reads nothing stray is on the line of a calm session.
LEMMA ReadRegisterKeeps ==
  ASSUME ConnectionInv, NEW r \in Registers, ReadRegister(r)
  PROVE  ConnectionInv'
<1> DEFINE command == Command("READ_REG", r)
<1>1. /\ step = "up" /\ call = NoCall /\ Ask("up", command, toHost)
      /\ answers' = answers /\ detected' = detected /\ got' = got
      /\ chip' = chip /\ session' = session /\ calm' = calm
      /\ answers \in Nat /\ calm \in BOOLEAN
      /\ toHost \in Seq(AnswerFrames) /\ toTarget \in Seq(CommandFrames)
  BY DEF ReadRegister, ConnectionInv, TypeOK
<1>2. command \in CommandFrames /\ Suits("up", command) /\ "up" \in Asking
  BY CommandTypes DEF Suits, Command, Asking
<1>3. step' = "up"
  BY <1>1 DEF Ask
<1> HIDE DEF command
<1>4. calm => Strays(toTarget) = {} /\ Strays(toHost) = {}
  BY <1>1, IdleLineIsClear DEF ConnectionInv, LineInv
<1>5. ~calm => Late(toHost, toTarget) <= SyncAnswers
  <2>1. Late(toHost, toTarget) \in Nat
    BY <1>1, LateBounds
  <2> QED
    BY <1>1, <2>1, LateIs, SyncAssumption DEF ConnectionInv, LineInv, LateIsBounded
<1>6. TypeOK' /\ LineInv'
  BY <1>1, <1>2, <1>4, <1>5, AskKeeps DEF ConnectionInv
<1> QED
  BY <1>1, <1>3, <1>6 DEF ConnectionInv, DetectsAttached, ReadsFresh, AskedFits

LEMMA RegisterReadKeeps ==
  ASSUME ConnectionInv, MaxLate <= SyncAnswers, RegisterRead
  PROVE  ConnectionInv'
<1>1. /\ step = "up" /\ step' = "up" /\ call = "READ_REG" /\ detected' = detected
      /\ answers' = answers /\ chip' = chip /\ session' = session
      /\ answers \in Nat /\ calm \in BOOLEAN /\ toHost \in Seq(AnswerFrames)
  BY DEF RegisterRead, ConnectionInv, TypeOK, Awaited
<1>2. ASSUME Answered, Return(Tail(toHost)), calm' = calm
      PROVE  TypeOK' /\ LineInv'
  <2>1. /\ Tail(toHost) \in Seq(AnswerFrames)
        /\ calm => Strays(toTarget) = {} /\ Strays(Tail(toHost)) = {}
        /\ ~calm => Late(Tail(toHost), toTarget) <= SyncAnswers
    BY <1>1, <1>2, AfterAnswer DEF ConnectionInv
  <2> QED
    BY <1>1, <1>2, <2>1, ReturnKeeps DEF ConnectionInv
<1>3. CASE Accepted /\ got' = [asked |-> asked, read |-> Head(toHost).value]
           /\ Return(Tail(toHost)) /\ calm' = calm
  <2>1. calm => Head(toHost).value = [register |-> asked, session |-> session, chip |-> chip]
    BY <1>1, <1>3, ReadIsTrue DEF Accepted
  <2>2. ReadsFresh'
    BY <1>1, <1>3, <2>1 DEF ReadsFresh
  <2>3. TypeOK' /\ LineInv'
    BY <1>2, <1>3 DEF Accepted
  <2> QED
    BY <1>1, <1>3, <2>2, <2>3 DEF ConnectionInv, DetectsAttached, AskedFits
<1>4. CASE Refused /\ Return(Tail(toHost)) /\ UNCHANGED <<got, calm>>
  <2>1. TypeOK' /\ LineInv'
    BY <1>2, <1>4 DEF Refused
  <2> QED
    BY <1>1, <1>4, <2>1 DEF ConnectionInv, DetectsAttached, ReadsFresh, AskedFits
<1>5. CASE TimesOut /\ Return(toHost) /\ calm' = FALSE /\ got' = got
  <2>1. Late(toHost, toTarget) <= SyncAnswers
    BY <1>5, LateAfterExpiry DEF ConnectionInv
  <2>2. TypeOK' /\ LineInv'
    BY <1>1, <1>5, <2>1, ReturnKeeps DEF ConnectionInv
  <2> QED
    BY <1>1, <1>5, <2>2 DEF ConnectionInv, DetectsAttached, ReadsFresh, AskedFits
<1> QED
  BY <1>3, <1>4, <1>5 DEF RegisterRead

\* A session begins with as many stray answers as a SYNC outweighs, at most.
LEMMA ReadyIsOutweighed ==
  ASSUME ConnectionInv, step \in Ready, call = NoCall
  PROVE  \A i \in Strays(toHost) : i <= SyncAnswers
<1>1. toHost \in Seq(AnswerFrames) /\ toTarget \in Seq(CommandFrames) /\ calm \in BOOLEAN
  BY DEF ConnectionInv, TypeOK
<1>2. CASE ~calm
  <2>1. Late(toHost, toTarget) <= SyncAnswers
    <3>1. Late(toHost, toTarget) \in Nat
      BY <1>1, LateBounds
    <3> QED
      BY <1>2, <3>1, LateIs, SyncAssumption DEF ConnectionInv, LineInv, LateIsBounded
  <2>2. Late(toHost, toTarget) \in Nat /\ Len(toHost) <= Late(toHost, toTarget) /\ Len(toHost) \in Nat
    BY <1>1, LateBounds
  <2>3. \A i \in Strays(toHost) : i \in Nat /\ i <= Len(toHost)
    BY <1>1 DEF Strays
  <2> QED
    BY <2>1, <2>2, <2>3, SyncAssumption
<1>3. CASE calm /\ step = "up"
  BY <1>3, IdleLineIsClear DEF ConnectionInv, LineInv
<1>4. CASE calm /\ step = "failed"
  <2>1. \A i \in Strays(toHost) : i \in Nat
    BY <1>1 DEF Strays
  <2> QED
    BY <1>4, <2>1 DEF ConnectionInv, LineInv, Refusing, Outweighed
<1> QED
  BY <1>1, <1>2, <1>3, <1>4 DEF Ready, ConnectionInv, AskedFits

LEMMA ConnectKeeps ==
  ASSUME ConnectionInv, NEW c \in Chips, NEW n \in Trials, Connect(c, n)
  PROVE  ConnectionInv'
<1>1. /\ step \in Ready /\ call = NoCall /\ step' = "sync" /\ session' = session + 1 /\ chip' = c
      /\ answers' = 0 /\ toTarget' = <<Sync>> /\ call' = "SYNC" /\ got' = NoRead /\ calm' = TRUE
      /\ toHost' = toHost
  BY DEF Connect, Sync, Command
<1>2. toHost \in Seq(AnswerFrames) /\ session \in Nat
  BY DEF ConnectionInv, TypeOK
<1>3. <<Sync>> \in Seq(CommandFrames) /\ Strays(<<Sync>>) = {}
  <2>1. Sync \in CommandFrames /\ Sync.cmd = "SYNC"
    BY CommandTypes
  <2> HIDE DEF Sync
  <2> QED
    BY <2>1 DEF Strays
<1>4. TypeOK'
  <2>1. call' \in Awaited' /\ step' \in Steps
    BY <1>1 DEF Awaited, Steps
  <2> QED
    BY <1>1, <1>2, <1>3, <2>1 DEF TypeOK
<1>5. Syncing'
  <2>1. \A i \in Strays(toHost) : i \in Nat /\ i <= SyncAnswers
    BY <1>1, <1>2, ReadyIsOutweighed DEF Strays
  <2>2. \A i \in Strays(toHost) : i + 0 <= SyncAnswers
    BY <2>1
  <2> QED
    BY <1>1, <1>3, <2>2 DEF Syncing, Outweighed
<1>6. Refusing' /\ Synchronised' /\ LateIsBounded'
  BY <1>1 DEF Refusing, Synchronised, LateIsBounded
<1>7. AskedFits' /\ DetectsAttached' /\ ReadsFresh'
  BY <1>1 DEF AskedFits, DetectsAttached, ReadsFresh
<1> QED
  BY <1>4, <1>5, <1>6, <1>7 DEF ConnectionInv, LineInv

LEMMA SyncAnsweredKeeps ==
  ASSUME ConnectionInv, SyncAnswered
  PROVE  ConnectionInv'
<1> DEFINE command == Command("GET_SECURITY_INFO", NoCall)
           h == Tail(toHost)
<1>1. /\ step = "sync" /\ Answered /\ detected' = detected /\ got' = got
      /\ chip' = chip /\ session' = session /\ calm' = calm
      /\ answers \in Nat /\ toTarget \in Seq(CommandFrames)
      /\ chip \in Chips /\ session \in Nat /\ call = "SYNC"
  BY DEF SyncAnswered, Accepted, ConnectionInv, TypeOK, Awaited
<1>2. /\ h \in Seq(AnswerFrames) /\ calm /\ Strays(toTarget) = {} /\ got = NoRead
      /\ \A i \in Strays(h) : i \in Nat /\ i + (answers + 1) <= SyncAnswers
  BY <1>1, SyncRefused DEF ConnectionInv
<1>3. CASE answers' = answers + 1 /\ toHost' = h /\ UNCHANGED <<toTarget, call, step, asked>>
  <2> HIDE DEF h
  <2>1. step' = "sync" /\ call' = "SYNC" /\ toTarget' = toTarget /\ toHost' = h /\ calm' = TRUE
    BY <1>1, <1>2, <1>3 DEF ConnectionInv, TypeOK
  <2>2. TypeOK'
    <3>1. call' \in Awaited' /\ step' \in Steps
      BY <2>1 DEF Awaited, Steps
    <3> QED
      BY <1>1, <1>2, <1>3, <2>1, <3>1 DEF TypeOK
  <2>3. Syncing'
    BY <1>1, <1>2, <1>3, <2>1 DEF Syncing, Outweighed
  <2>4. Refusing' /\ Synchronised' /\ LateIsBounded'
    BY <2>1 DEF Refusing, Synchronised, LateIsBounded
  <2>5. AskedFits' /\ DetectsAttached' /\ ReadsFresh'
    BY <1>1, <1>2, <2>1 DEF AskedFits, DetectsAttached, ReadsFresh
  <2> QED
    BY <2>2, <2>3, <2>4, <2>5 DEF ConnectionInv, LineInv
<1>4. CASE answers + 1 = SyncAnswers /\ answers' = 0 /\ Ask("info", command, h)
  <2>1. Strays(h) = {}
    <3> SUFFICES ASSUME NEW i \in Strays(h) PROVE FALSE
      OBVIOUS
    <3>1. i \in Nat /\ i + (answers + 1) <= SyncAnswers
      BY <1>2
    <3>2. i >= 1
      <4> HIDE DEF h
      <4> QED
        BY <1>2 DEF Strays
    <3> QED
      BY <1>1, <1>4, <3>1, <3>2, SyncAssumption
  <2>2. command \in CommandFrames /\ Suits("info", command) /\ "info" \in Asking
    BY CommandTypes DEF Suits, Command, Asking
  <2>3. step' = "info"
    BY <1>4 DEF Ask
  <2> HIDE DEF command, h
  <2>4. TypeOK' /\ LineInv'
    <3>1. answers' \in Nat /\ calm' \in BOOLEAN /\ calm'
      BY <1>1, <1>2, <1>4
    <3> QED
      BY <1>1, <1>2, <1>4, <2>1, <2>2, <3>1, AskKeeps DEF ConnectionInv
  <2> QED
    BY <1>1, <1>2, <2>3, <2>4 DEF ConnectionInv, AskedFits, DetectsAttached, ReadsFresh
<1> QED
  BY <1>3, <1>4 DEF SyncAnswered, ResponseCount

LEMMA SyncExpiredKeeps ==
  ASSUME ConnectionInv, MaxLate <= SyncAnswers, SyncExpired
  PROVE  ConnectionInv'
<1>1. /\ step = "sync" /\ TimesOut /\ detected' = detected /\ got' = got
      /\ chip' = chip /\ session' = session
      /\ answers \in Nat /\ toTarget \in Seq(CommandFrames) /\ toHost \in Seq(AnswerFrames)
      /\ chip \in Chips /\ session \in Nat /\ calm \in BOOLEAN
  BY DEF SyncExpired, ConnectionInv, TypeOK
<1>2. calm /\ Strays(toTarget) = {} /\ got = NoRead
  BY <1>1 DEF ConnectionInv, LineInv, Syncing
<1>3. \A i \in Strays(toHost) : i \in Nat /\ i <= SyncAnswers
  <2>1. Len(toHost) \in Nat /\ Len(toTarget) \in Nat /\ Len(toTarget) + Len(toHost) <= MaxLate
    BY <1>1 DEF TimesOut, Expired
  <2>2. Len(toHost) <= SyncAnswers
    BY <2>1, MaxLateAssumption, SyncAssumption
  <2>3. \A i \in Strays(toHost) : i \in Nat /\ i <= Len(toHost)
    BY <1>1 DEF Strays
  <2> QED
    BY <2>1, <2>2, <2>3, SyncAssumption
<1>4. CASE Fail(toHost) /\ UNCHANGED <<answers, asked, calm>>
  <2>1. Return(toHost) /\ step' = "failed" /\ answers' = answers /\ calm' = calm
    BY <1>4 DEF Fail
  <2>2. TypeOK' /\ LineInv'
    BY <1>1, <1>2, <1>3, <2>1, ReturnKeeps DEF ConnectionInv
  <2> QED
    BY <1>1, <2>1, <2>2 DEF ConnectionInv, AskedFits, DetectsAttached, ReadsFresh
<1>5. CASE Ask("sync", Sync, toHost) /\ answers' = 0 /\ calm' = TRUE
  <2> DEFINE t == Append(toTarget, Sync)
  <2>1. Sync \in CommandFrames /\ Sync.cmd = "SYNC"
    BY CommandTypes
  <2>2. step' = "sync" /\ call' = "SYNC" /\ toTarget' = t /\ toHost' = toHost
    BY <1>5, <2>1 DEF Ask, Send
  <2>3. /\ t \in Seq(CommandFrames) /\ Len(t) = Len(toTarget) + 1
        /\ \A i \in 1 .. Len(toTarget) : t[i] = toTarget[i]
        /\ t[Len(toTarget) + 1] = Sync
    <3> HIDE DEF Sync
    <3> QED
      BY <1>1, <2>1
  <2> HIDE DEF t
  <2>4. Strays(t) = {}
    <3>1. \A i \in Strays(t) : i = Len(toTarget) + 1
      BY <1>1, <1>2, <2>3, AppendFrames
    <3>2. \A i \in Strays(t) : t[i].cmd # "SYNC"
      BY DEF Strays
    <3> QED
      BY <2>1, <2>3, <3>1, <3>2
  <2>5. TypeOK'
    <3>1. call' \in Awaited' /\ step' \in Steps
      BY <2>2 DEF Awaited, Steps
    <3> QED
      BY <1>1, <1>5, <2>2, <2>3, <3>1 DEF TypeOK
  <2>6. Syncing'
    <3>1. \A i \in Strays(toHost) : i + 0 <= SyncAnswers
      BY <1>3
    <3> QED
      BY <1>1, <1>2, <1>5, <2>2, <2>4, <3>1 DEF Syncing, Outweighed
  <2>7. Refusing' /\ Synchronised' /\ LateIsBounded'
    BY <1>5, <2>2 DEF Refusing, Synchronised, LateIsBounded
  <2>8. AskedFits' /\ DetectsAttached' /\ ReadsFresh'
    BY <1>1, <1>2, <2>2 DEF AskedFits, DetectsAttached, ReadsFresh
  <2> QED
    BY <2>5, <2>6, <2>7, <2>8 DEF ConnectionInv, LineInv
<1> QED
  BY <1>4, <1>5 DEF SyncExpired

LEMMA ConnectionStep ==
  ASSUME ConnectionInv, MaxLate <= SyncAnswers, [Next]_vars
  PROVE  ConnectionInv'
<1>1. ASSUME NEW c \in Chips, NEW n \in Trials, Connect(c, n)
      PROVE  ConnectionInv'
  BY <1>1, ConnectKeeps
<1>2. ASSUME NEW r \in Registers, ReadRegister(r)
      PROVE  ConnectionInv'
  BY <1>2, ReadRegisterKeeps
<1>3. CASE Host
  BY <1>3, SyncAnsweredKeeps, SyncExpiredKeeps, InfoAnsweredKeeps, NoInfoKeeps, MagicAnsweredKeeps,
     EfuseAnsweredKeeps, AttachedKeeps, ConnectFailsKeeps, RegisterReadKeeps, LineKeeps DEF Host
<1>4. CASE Target \/ Refuse \/ Lose
  BY <1>4, LineKeeps DEF Target
<1>5. CASE UNCHANGED vars
  <2>1. LateAnswers' = LateAnswers
    BY <1>5 DEF LateAnswers, vars, linkVars
  <2>2. /\ toTarget' = toTarget /\ toHost' = toHost /\ call' = call /\ step' = step /\ calm' = calm
        /\ answers' = answers /\ asked' = asked /\ got' = got /\ chip' = chip /\ session' = session
        /\ detected' = detected
    BY <1>5 DEF vars, linkVars, hostVars
  <2>3. TypeOK' /\ AskedFits' /\ DetectsAttached' /\ ReadsFresh'
    BY <2>2 DEF ConnectionInv, TypeOK, Awaited, AskedFits, DetectsAttached, ReadsFresh
  <2>4. LineInv'
    BY <2>1, <2>2 DEF ConnectionInv, LineInv, Syncing, Refusing, Synchronised, LateIsBounded, Outweighed,
                      TrueAnswer
  <2> QED
    BY <2>3, <2>4 DEF ConnectionInv
<1> QED
  BY <1>1, <1>2, <1>3, <1>4, <1>5 DEF Next, Client

LEMMA ConnectionStart == Init => ConnectionInv
<1> SUFFICES ASSUME Init PROVE ConnectionInv
  OBVIOUS
<1>1. TypeOK
  BY TypeInit
<1>2. step = "off" /\ calm = FALSE /\ toTarget = <<>> /\ toHost = <<>> /\ call = NoCall
  BY DEF Init, LinkInit
<1>3. LateAnswers = 0
  <2>1. Syncs(<<>>) = {}
    BY DEF Syncs
  <2>2. Cardinality(Syncs(<<>>)) = 0
    BY <2>1, FS_EmptySet
  <2>3. Late(<<>>, <<>>) = 0
    BY <2>2, SyncAssumption DEF Late
  <2> QED
    BY <1>2, <2>3, LateIs
<1>4. LineInv
  BY <1>2, <1>3, SyncAssumption DEF LineInv, Syncing, Refusing, Synchronised, LateIsBounded
<1> QED
  BY <1>1, <1>2, <1>4 DEF ConnectionInv, AskedFits, DetectsAttached, ReadsFresh

LEMMA ConnectionAlways ==
  ASSUME MaxLate <= SyncAnswers
  PROVE  Spec => []ConnectionInv
<1>1. ConnectionInv /\ [Next]_vars => ConnectionInv'
  BY ConnectionStep
<1> QED
  BY ConnectionStart, <1>1, PTL DEF Spec

-----------------------------------------------------------------------------

\* A chip that loader_detect_chip has found without a timeout since the last
\* SYNC is the chip attached, whatever earlier sessions with other boards have
\* left on the line: loader_initialize_conn reads past it, as long as no more
\* frames outlive a call than SYNC has answers.
THEOREM AttachedIsDetected ==
  ASSUME MaxLate <= SyncAnswers
  PROVE  Spec => []DetectsAttached
<1>1. ConnectionInv => DetectsAttached
  BY DEF ConnectionInv
<1> QED
  BY ConnectionAlways, <1>1, PTL

\* And what esp_loader_read_register then returns is the register it was asked
\* for, read in this session.
THEOREM FreshReads ==
  ASSUME MaxLate <= SyncAnswers
  PROVE  Spec => []ReadsFresh
<1>1. ConnectionInv => ReadsFresh
  BY DEF ConnectionInv
<1> QED
  BY ConnectionAlways, <1>1, PTL
=============================================================================
