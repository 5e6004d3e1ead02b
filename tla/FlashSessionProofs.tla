------------------------- MODULE FlashSessionProofs -------------------------
(***************************************************************************)
(* Proofs about FlashSession, for every flash, image, retry count, target  *)
(* policy and set of faults.                                               *)
(***************************************************************************)
EXTENDS FlashSession, SequenceTheorems, TLAPS

-----------------------------------------------------------------------------
(* The frames and answers have their types. *)

LEMMA CellOfType == \A a \in Nat : CellOf(a) \in Cells
  BY FlashLenAssumption, SMT DEF CellOf, Cells

LEMMA EmptyType == <<>> \in Seq(Cell) /\ <<>> \in Seq(Frame) /\ <<>> \in Seq(Answer)
  OBVIOUS

LEMMA FrameTypes ==
  /\ \A cmd \in CommandCodes : Plain(cmd) \in Frame
  /\ \A cmd \in CommandCodes, r \in Region : OnRegion(cmd, r) \in Frame
  /\ \A n \in Nat, b \in Cell : DataFrame(n, b) \in Frame
  BY DEF Plain, OnRegion, DataFrame, Frame, Region, Cell, CommandCodes

LEMMA SessionTypes ==
  ASSUME NEW s \in Session
  PROVE  /\ \A o \in BOOLEAN : [s EXCEPT !.open = o] \in Session
         /\ \A b \in Cell : [s EXCEPT !.image = Append(@, b)] \in Session
  BY DEF Session

LEMMA Md5Types ==
  ASSUME NEW m \in Md5Context
  PROVE  /\ \A b \in Cell : Feed(m, b) \in Md5Context
         /\ Finalized(m) \in Md5Context
         /\ [live |-> m.live, data |-> m.data] \in Digest
  <1>1. \A b \in Cell : Feed(m, b) \in Md5Context
    BY DEF Feed, Md5Context
  <1>2. Finalized(m) \in Md5Context
    BY DEF Finalized, Md5Context
  <1>3. [live |-> m.live, data |-> m.data] \in Digest
    BY DEF Digest, Md5Context
  <1> QED
    BY <1>1, <1>2, <1>3

LEMMA TargetTypes ==
  ASSUME NEW t \in TargetState
  PROVE  /\ [t EXCEPT !.mode = "loader", !.size = 0] \in TargetState
         /\ [t EXCEPT !.received = @ + 1] \in TargetState
         /\ \A m \in {"loader", "app"} : [t EXCEPT !.mode = m] \in TargetState
         /\ \A b, n \in Nat : [t EXCEPT !.base = b, !.size = n, !.received = 0] \in TargetState
  <1>1. [t EXCEPT !.mode = "loader", !.size = 0] \in TargetState
    BY DEF TargetState
  <1>2. [t EXCEPT !.received = @ + 1] \in TargetState
    BY DEF TargetState
  <1>3. \A m \in {"loader", "app"} : [t EXCEPT !.mode = m] \in TargetState
    BY DEF TargetState
  <1>4. \A b, n \in Nat : [t EXCEPT !.base = b, !.size = n, !.received = 0] \in TargetState
    BY DEF TargetState
  <1> QED
    BY <1>1, <1>2, <1>3, <1>4

LEMMA ContentsType ==
  ASSUME NEW f \in [Cells -> Cell], NEW base \in Nat, NEW size \in Nat,
         NEW r, r.base = base, r.size = size
  PROVE  Contents(f, r) \in Seq(Cell)
  <1>1. \A i \in 1 .. size : base + i - 1 \in Nat
    OBVIOUS
  <1>2. \A i \in 1 .. size : f[CellOf(r.base + i - 1)] \in Cell
    BY <1>1, CellOfType
  <1> QED
    BY <1>2 DEF Contents

-----------------------------------------------------------------------------
(* Type invariant. *)

\* The operators of the line move whole frames.
LEMMA SendType ==
  ASSUME LinkTypeOK, NEW f \in Frame, NEW inbound \in Seq(Answer), Send(f, inbound)
  PROVE  LinkTypeOK'
  BY DEF LinkTypeOK, Send, Frame

LEMMA QueueType == LinkTypeOK /\ toTarget # <<>> => Tail(toTarget) \in Seq(Frame) /\ Head(toTarget) \in Frame
  BY DEF LinkTypeOK

LEMMA HostSame == HostTypeOK /\ UNCHANGED hostVars /\ trouble' \in Troubles => HostTypeOK'
  BY DEF HostTypeOK, hostVars

LEMMA DisturbType == HostTypeOK /\ Disturb => trouble' \in Troubles
  BY DEF HostTypeOK, Disturb, Troubles

LEMMA TargetSame == TargetTypeOK /\ UNCHANGED targetVars => TargetTypeOK'
  BY DEF TargetTypeOK, targetVars

LEMMA RestType == LinkTypeOK /\ toHost # <<>> => Tail(toHost) \in Seq(Answer) /\ Head(toHost) \in Answer
  BY DEF LinkTypeOK

LEMMA ReturnType ==
  ASSUME LinkTypeOK, NEW inbound \in Seq(Answer), Return(inbound)
  PROVE  LinkTypeOK'
  BY DEF LinkTypeOK, Return

LEMMA ReplyType ==
  ASSUME LinkTypeOK, NEW ok \in BOOLEAN, NEW content \in Seq(Cell), toTarget # <<>>,
         Respond(ok, content)
  PROVE  LinkTypeOK'
  <1>1. Head(toTarget) \in Frame /\ Tail(toTarget) \in Seq(Frame)
    BY DEF LinkTypeOK
  <1>2. [cmd |-> Head(toTarget).cmd, ok |-> ok, content |-> content] \in Answer
    BY <1>1 DEF Frame, Answer
  <1> QED
    BY <1>1, <1>2 DEF LinkTypeOK, Respond, Reply

LEMMA BeginType ==
  ASSUME LinkTypeOK, NEW r \in Region, NEW inbound \in Seq(Answer), BeginFlash(r, inbound)
  PROVE  LinkTypeOK' /\ md5' \in Md5Context /\ seq' \in Nat /\ trouble' \in Troubles
  <1>1. LinkTypeOK'
    BY SendType, FrameTypes DEF BeginFlash, CommandCodes
  <1>2. md5' \in Md5Context
    BY DEF BeginFlash, FreshMd5, Region, Md5Context
  <1> QED
    BY <1>1, <1>2 DEF BeginFlash, NoteBegin, Troubles

LEMMA FinishType ==
  ASSUME LinkTypeOK, session \in Session, NEW inbound \in Seq(Answer), NEW res, NEW open \in BOOLEAN,
         Finish(res, open, inbound)
  PROVE  LinkTypeOK' /\ session' \in Session /\ block' \in Cell /\ attempt' \in 0 .. Retries
  BY ReturnType, SessionTypes, RetriesAssumption DEF Finish, Cell

LEMMA BlockType ==
  ASSUME LinkTypeOK, seq \in Nat, NEW b \in Cell, NEW inbound \in Seq(Answer), SendBlock(b, inbound)
  PROVE  LinkTypeOK' /\ seq' \in Nat
  BY SendType, FrameTypes DEF SendBlock

LEMMA VerdictType == \A c : Verdict(c) \in Results
  BY DEF Verdict, Results

\* The parts of TypeOK a step can disturb are typed by the lemmas above.
THEOREM TypeCorrect == Spec => []TypeOK
  <1>1. Init => TypeOK
    <2> SUFFICES ASSUME Init PROVE TypeOK
      OBVIOUS
    <2>1. LinkTypeOK
      BY DEF Init, LinkInit, LinkTypeOK
    <2>2. HostTypeOK
      <3>1. md5 \in Md5Context /\ region \in Region
        BY DEF Init, Md5Context, Region
      <3>2. digest \in Digest /\ session \in Session
        BY DEF Init, Digest, Session
      <3> QED
        <4>1. seq \in Nat /\ flashSize \in {0, FlashLen} /\ block \in Cell /\ result \in Results
          BY DEF Init, Cell, Results
        <4>2. attempt \in 0 .. Retries
          BY RetriesAssumption DEF Init
        <4>3. trouble \in Troubles
          BY DEF Init, Troubles
        <4> QED
          BY <3>1, <3>2, <4>1, <4>2, <4>3 DEF HostTypeOK
    <2>3. TargetTypeOK
      <3>1. target \in TargetState
        BY PoliciesAssumption DEF Init, TargetState
      <3> QED
        BY <3>1 DEF Init, TargetTypeOK
    <2> QED
      BY <2>1, <2>2, <2>3 DEF TypeOK
  <1>2. TypeOK /\ [Next]_vars => TypeOK'
    <2> SUFFICES ASSUME TypeOK, [Next]_vars PROVE TypeOK'
      OBVIOUS
    <2> USE DEF TypeOK
    <2>a. toHost \in Seq(Answer) /\ region \in Region /\ block \in Cell /\ session \in Session /\ md5 \in Md5Context
      BY DEF LinkTypeOK, HostTypeOK
    <2>b. Answered => toHost # <<>>
      BY DEF Answered
    <2>1. ASSUME NEW base \in 0 .. MaxBase, NEW size \in 0 .. MaxSize, FlashStart(base, size)
          PROVE  TypeOK'
      <3> DEFINE r == [base |-> base, size |-> size]
      <3>1. r \in Region
        BY DEF Region
      <3>2. LinkTypeOK' /\ md5' \in Md5Context /\ seq' \in Nat /\ trouble' \in Troubles
        <4>1. CASE Send(Plain("READ_ID"), toHost) /\ UNCHANGED <<md5, seq, trouble>>
          BY <4>1, <2>a, SendType, FrameTypes DEF CommandCodes, HostTypeOK
        <4>2. CASE BeginFlash(r, toHost)
          BY <4>2, <2>a, <3>1, BeginType
        <4> QED
          BY <2>1, <4>1, <4>2 DEF FlashStart
      <3>3. session' \in Session /\ region' \in Region /\ result' \in Results
        BY <2>1, <3>1 DEF FlashStart, Session, Results
      <3> QED
        BY <2>1, <3>2, <3>3 DEF FlashStart, HostTypeOK, TargetTypeOK, targetVars
    <2>2. ASSUME NEW b \in Blocks, FlashWrite(b) PROVE TypeOK'
      <3>1. LinkTypeOK' /\ seq' \in Nat
        BY <2>2, <2>a, BlockType DEF FlashWrite, HostTypeOK, Cell
      <3>2. md5' \in Md5Context
        BY <2>2, <2>a, Md5Types DEF FlashWrite, Cell
      <3> QED
        BY <2>2, <3>1, <3>2, RetriesAssumption DEF FlashWrite, HostTypeOK, TargetTypeOK, targetVars, Results, Cell
    <2>3. CASE FlashVerify
      <3>1. OnRegion("SPI_FLASH_MD5", md5) \in Frame
        BY <2>a DEF OnRegion, Plain, Frame, Md5Context, CommandCodes, Cell
      <3>2. LinkTypeOK'
        BY <2>3, <2>a, <3>1, SendType DEF FlashVerify
      <3>3. md5' \in Md5Context /\ digest' \in Digest
        BY <2>3, <2>a, Md5Types DEF FlashVerify
      <3> QED
        BY <2>3, <3>2, <3>3 DEF FlashVerify, HostTypeOK, TargetTypeOK, targetVars, Results
    <2>4. ASSUME NEW reboot \in BOOLEAN, FlashFinish(reboot) PROVE TypeOK'
      <3>1. [Plain("FLASH_END") EXCEPT !.stay = ~reboot] \in Frame
        BY DEF Plain, Frame, CommandCodes, Cell
      <3>2. LinkTypeOK'
        BY <2>4, <2>a, <3>1, SendType DEF FlashFinish
      <3> QED
        BY <2>4, <3>2 DEF FlashFinish, HostTypeOK, TargetTypeOK, targetVars, Results
    <2>5. CASE Reconnect
      <3>1. target' \in TargetState
        BY <2>5, TargetTypes DEF Reconnect, TargetTypeOK
      <3>2. session' \in Session
        BY <2>5 DEF Reconnect, Session
      <3>3. LinkTypeOK'
        BY <2>5, EmptyType DEF Reconnect, LinkTypeOK
      <3> QED
        BY <2>5, <3>1, <3>2, <3>3, DisturbType DEF Reconnect, Results, HostTypeOK, TargetTypeOK
    <2>6. CASE Host
      <3>1. CASE SizeDetected
        <4>1. CASE Finish("IMAGE_SIZE", FALSE, Tail(toHost))
          <5>1. LinkTypeOK' /\ session' \in Session /\ block' \in Cell /\ attempt' \in 0 .. Retries
            BY <3>1, <4>1, <2>a, <2>b, RestType, FinishType DEF SizeDetected, Accepted
          <5>2. result' \in Results
            BY <4>1 DEF Finish, Results
          <5> QED
            BY <3>1, <5>1, <5>2 DEF SizeDetected, HostTypeOK, TargetTypeOK, targetVars
        <4>2. CASE Send(Plain("SPI_SET_PARAMS"), Tail(toHost)) /\ UNCHANGED <<result, session, block, attempt>>
          <5>1. LinkTypeOK'
            BY <3>1, <4>2, <2>b, RestType, SendType, FrameTypes DEF SizeDetected, Accepted, CommandCodes
          <5> QED
            BY <3>1, <4>2, <5>1 DEF SizeDetected, HostTypeOK, TargetTypeOK, targetVars
        <4> QED
          BY <3>1, <4>1, <4>2 DEF SizeDetected
      <3>2. CASE SizeNotDetected \/ ParamsSet
        <4>1. \E inbound \in Seq(Answer) : BeginFlash(region, inbound)
          BY <3>2, <2>a, <2>b, RestType DEF SizeNotDetected, ParamsSet, Refused, Accepted
        <4>2. LinkTypeOK' /\ md5' \in Md5Context /\ seq' \in Nat /\ trouble' \in Troubles
          BY <4>1, <2>a, BeginType
        <4> QED
          BY <3>2, <4>2 DEF SizeNotDetected, ParamsSet, HostTypeOK, TargetTypeOK, targetVars
      <3>3. CASE Begun \/ Verified \/ VerifyFails \/ Finished \/ CallFails
        <4>1. \E inbound \in Seq(Answer), res \in Results, open \in BOOLEAN : Finish(res, open, inbound)
          <5>1. CASE Begun \/ Finished
            BY <5>1, <2>b, RestType DEF Begun, Finished, Accepted, Results
          <5>2. CASE Verified
            BY <5>2, <2>b, RestType, VerdictType DEF Verified, Accepted
          <5>3. CASE VerifyFails
            BY <5>3, <2>a, <2>b, RestType DEF VerifyFails, Refused, Results
          <5>4. CASE CallFails
            BY <5>4, <2>a, <2>b, RestType DEF CallFails, Refused, Results
          <5> QED
            BY <3>3, <5>1, <5>2, <5>3, <5>4
        <4>2. LinkTypeOK' /\ session' \in Session /\ block' \in Cell /\ attempt' \in 0 .. Retries
          BY <4>1, <2>a, FinishType
        <4>3. result' \in Results
          BY <4>1 DEF Finish
        <4> QED
          BY <3>3, <4>2, <4>3, DisturbType DEF Begun, Verified, VerifyFails, Finished, CallFails, HostTypeOK, TargetTypeOK, targetVars
      <3>4. CASE BlockWritten
        <4>1. LinkTypeOK'
          BY <3>4, <2>b, RestType, ReturnType DEF BlockWritten, Accepted
        <4>2. session' \in Session
          BY <3>4, <2>a, SessionTypes DEF BlockWritten
        <4> QED
          BY <3>4, <4>1, <4>2, RetriesAssumption DEF BlockWritten, HostTypeOK, TargetTypeOK, targetVars, Results, Cell
      <3>5. CASE RetryBlock
        <4>1. \E inbound \in Seq(Answer) : SendBlock(block, inbound)
          BY <3>5, <2>a, <2>b, RestType DEF RetryBlock, Refused
        <4>2. LinkTypeOK' /\ seq' \in Nat
          BY <4>1, <2>a, BlockType DEF HostTypeOK
        <4> QED
          <5>1. attempt' \in 0 .. Retries
            BY <3>5, RetriesAssumption DEF RetryBlock, MayRetry, HostTypeOK
          <5>2. trouble' \in Troubles
            BY <3>5, DisturbType DEF RetryBlock
          <5> QED
            BY <3>5, <4>2, <5>1, <5>2 DEF RetryBlock, HostTypeOK, TargetTypeOK, targetVars
      <3>6. CASE SkipAnswer
        <4>1. LinkTypeOK'
          BY <3>6, RestType DEF SkipAnswer, Skip, LinkTypeOK
        <4>2. HostTypeOK' /\ TargetTypeOK'
          BY <3>6, HostSame, TargetSame DEF SkipAnswer, HostTypeOK
        <4> QED
          BY <4>1, <4>2
      <3> QED
        BY <2>6, <3>1, <3>2, <3>3, <3>4, <3>5, <3>6 DEF Host
    <2>7. CASE Target
      <3>a. ASSUME NEW cmds, Awake(cmds)
            PROVE  Head(toTarget) \in Frame /\ toTarget # <<>>
        BY <3>a DEF Awake, LinkTypeOK
      <3>1. CASE ServeBegin
        <4>1. LinkTypeOK'
          BY <3>1, <3>a, ReplyType, EmptyType DEF ServeBegin
        <4>2. flash' \in [Cells -> Cell] /\ target' \in TargetState
          BY <3>1, <3>a, TargetTypes DEF ServeBegin, TargetTypeOK, Frame, Cell
        <4> QED
          BY <3>1, <4>1, <4>2, HostSame, TargetSame DEF ServeBegin, HostTypeOK, TargetTypeOK
      <3>2. CASE ServeData
        <4>1. LinkTypeOK'
          BY <3>2, <3>a, ReplyType, EmptyType DEF ServeData
        <4>2. TargetTypeOK'
          BY <3>2, <3>a, TargetTypes DEF ServeData, TargetTypeOK, Frame, targetVars
        <4> QED
          BY <3>2, <4>1, <4>2, HostSame, TargetSame DEF ServeData, HostTypeOK
      <3>3. CASE ServeMd5
        <4>1. Contents(flash, Head(toTarget)) \in Seq(Cell)
          BY <3>3, <3>a, ContentsType DEF ServeMd5, TargetTypeOK, Frame
        <4>2. LinkTypeOK'
          BY <3>3, <3>a, <4>1, ReplyType DEF ServeMd5
        <4> QED
          BY <3>3, <4>2, HostSame, TargetSame DEF ServeMd5, HostTypeOK
      <3>4. CASE ServeEnd
        <4>1. LinkTypeOK'
          BY <3>4, <3>a, ReplyType, EmptyType DEF ServeEnd
        <4>2. target' \in TargetState
          BY <3>4, TargetTypes DEF ServeEnd, TargetTypeOK
        <4> QED
          BY <3>4, <4>1, <4>2, HostSame, TargetSame DEF ServeEnd, HostTypeOK, TargetTypeOK
      <3>5. CASE ServeSetup
        <4>1. LinkTypeOK'
          BY <3>5, <3>a, ReplyType, EmptyType DEF ServeSetup
        <4> QED
          BY <3>5, <4>1, HostSame, TargetSame DEF ServeSetup, HostTypeOK
      <3>6. CASE Ignore
        <4>1. LinkTypeOK'
          BY <3>6, QueueType DEF Ignore, LinkTypeOK
        <4>2. HostTypeOK' /\ TargetTypeOK'
          BY <3>6, HostSame, TargetSame DEF Ignore, HostTypeOK
        <4> QED
          BY <4>1, <4>2
      <3> QED
        BY <2>7, <3>1, <3>2, <3>3, <3>4, <3>5, <3>6 DEF Target
    <2>8. CASE Noise
      <3>1. CASE Refuse
        <4>1. LinkTypeOK'
          BY <3>1, ReplyType, EmptyType DEF Refuse, Awake
        <4> QED
          BY <3>1, <4>1, HostSame, TargetSame, DisturbType DEF Refuse
      <3>2. CASE Garble
        <4>1. PICK b \in Blocks : toTarget' = [toTarget EXCEPT ![1].block = b]
          BY <3>2 DEF Garble
        <4>2. toTarget \in Seq(Frame) /\ toTarget # <<>>
          BY <3>2 DEF Garble, Awake, LinkTypeOK
        <4>3. \A f \in Frame : [f EXCEPT !.block = b] \in Frame
          BY DEF Frame, Cell
        <4>4. toTarget' \in Seq(Frame)
          BY <4>1, <4>2, <4>3
        <4> QED
          BY <3>2, <4>4, HostSame, TargetSame DEF Garble, LinkTypeOK, Troubles
      <3>3. CASE Lose
        <4>1. LinkTypeOK'
          BY <3>3, QueueType, RestType DEF Lose, LoseCommand, LoseAnswer, LinkTypeOK
        <4>2. HostTypeOK' /\ TargetTypeOK'
          BY <3>3, HostSame, TargetSame, DisturbType DEF Lose
        <4> QED
          BY <4>1, <4>2
      <3> QED
        BY <2>8, <3>1, <3>2, <3>3 DEF Noise
    <2>9. CASE UNCHANGED vars
      BY <2>9 DEF vars, linkVars, hostVars, targetVars, LinkTypeOK, HostTypeOK, TargetTypeOK
    <2> QED
      BY <2>1, <2>2, <2>3, <2>4, <2>5, <2>6, <2>7, <2>8, <2>9 DEF Next, Client
  <1> QED
    BY <1>1, <1>2, PTL DEF Spec

-----------------------------------------------------------------------------
(* flash_verify is sound when no frame outlives its call. *)

LEMMA SingleTail ==
  ASSUME NEW S, NEW s \in Seq(S), Len(s) = 1
  PROVE  s # <<>> /\ Tail(s) = <<>>
  <1>1. s # <<>>
    BY EmptySeq
  <1>2. Tail(s) \in Seq(S) /\ Len(Tail(s)) = 0
    BY <1>1, HeadTailProperties
  <1> QED
    BY <1>1, <1>2, EmptySeq

\* What the host finds on the line when it is about to act.
LEMMA HostSees ==
  ASSUME MaxLate = 0, LinkTypeOK, OneFrame
  PROVE  /\ Idle => toTarget = <<>> /\ toHost = <<>>
         /\ Answered => toTarget = <<>> /\ Tail(toHost) = <<>>
         /\ Expired => toTarget = <<>> /\ toHost = <<>>
         /\ ~Skip
  <1>1. Answered => toTarget = <<>> /\ Tail(toHost) = <<>>
    BY SingleTail DEF LinkTypeOK, OneFrame, Answered, Idle
  <1>2. Expired => toTarget = <<>> /\ toHost = <<>>
    BY DEF LinkTypeOK, Expired
  <1>3. ~Skip
    BY DEF OneFrame, Skip, Matches, Idle
  <1> QED
    BY <1>1, <1>2, <1>3 DEF OneFrame

LEMMA SendAlone ==
  ASSUME toTarget = <<>>, NEW f, f.cmd \in CommandCodes, Send(f, <<>>)
  PROVE  /\ OneFrame' /\ ~Idle' /\ call' = f.cmd
         /\ toTarget' # <<>> /\ Head(toTarget') = f /\ toHost' = <<>>
  <1>1. toTarget' = <<f>> /\ toHost' = <<>> /\ call' = f.cmd
    BY DEF Send
  <1>2. f.cmd # NoCall
    BY DEF CommandCodes, NoCall
  <1> QED
    BY <1>1, <1>2 DEF OneFrame, Idle

LEMMA ReturnAlone ==
  ASSUME toTarget = <<>>, Return(<<>>)
  PROVE  OneFrame' /\ Idle' /\ call' = NoCall
  BY DEF Return, OneFrame, Idle

\* A target that answers leaves its answer alone on the line.
LEMMA ReplyAlone ==
  ASSUME LinkTypeOK, OneFrame, NEW a, toTarget # <<>>, a.cmd = Head(toTarget).cmd, Reply(a)
  PROVE  OneFrame' /\ call' = call /\ ~Idle /\ toTarget' = <<>> /\ Head(toHost') = a
  <1>1. ~Idle /\ toHost = <<>> /\ Len(toTarget) = 1 /\ Head(toTarget).cmd = call
    BY DEF OneFrame
  <1>2. Tail(toTarget) = <<>>
    BY <1>1, SingleTail DEF LinkTypeOK
  <1>3. toTarget' = <<>> /\ toHost' = <<a>> /\ call' = call
    BY <1>1, <1>2 DEF Reply
  <1> QED
    BY <1>1, <1>3 DEF OneFrame, Idle

\* Once flash_begin is under way the MD5 context is fresh.
LEMMA BeginStep ==
  ASSUME toTarget = <<>>, BeginFlash(region', <<>>), ~session'.open, session'.image = <<>>,
         result' # "VERIFIED"
  PROVE  SoundInv'
  <1>1. Send(OnRegion("FLASH_BEGIN", region'), <<>>) /\ md5' = FreshMd5(region')
    BY DEF BeginFlash
  <1>2. OnRegion("FLASH_BEGIN", region').cmd = "FLASH_BEGIN"
    BY DEF OnRegion, Plain
  <1>3. OneFrame' /\ ~Idle' /\ call' = "FLASH_BEGIN"
    BY <1>1, <1>2, SendAlone DEF CommandCodes
  <1>4. SameRegion(md5)' /\ md5'.data = <<>>
    BY <1>1 DEF SameRegion, FreshMd5
  <1> QED
    BY <1>3, <1>4 DEF SoundInv, Md5FollowsImage, Md5AnswerIsFresh, VerifySound, Opening

\* A call that fails or ends the session leaves nothing to be shown.
LEMMA ClosedStep ==
  ASSUME toTarget = <<>>, NEW res, res # "VERIFIED", Finish(res, FALSE, <<>>), session \in Session
  PROVE  SoundInv'
  <1>1. OneFrame' /\ Idle' /\ call' = NoCall
    BY ReturnAlone DEF Finish
  <1>2. ~session'.open /\ result' # "VERIFIED"
    BY DEF Finish, Session
  <1> QED
    BY <1>1, <1>2 DEF SoundInv, Md5FollowsImage, Md5AnswerIsFresh, VerifySound, Opening, NoCall

LEMMA VerifiedStep ==
  ASSUME MaxLate = 0, TypeOK, SoundInv, Verified
  PROVE  SoundInv'
  <1>1. toTarget = <<>> /\ Tail(toHost) = <<>> /\ toHost # <<>> /\ Head(toHost).ok
    BY HostSees DEF TypeOK, SoundInv, Verified, Accepted, Answered
  <1>2. OneFrame' /\ Idle' /\ call' = NoCall
    BY <1>1, ReturnAlone DEF Verified, Finish
  <1>3. session'.image = session.image /\ session'.open
    BY DEF Verified, Finish, TypeOK, HostTypeOK, Session
  <1>4. UNCHANGED <<flash, region, md5, digest>> /\ result' = Verdict(Head(toHost).content)
    BY DEF Verified, Finish, targetVars
  <1>5. session.open /\ ~md5.live /\ (digest.live => digest.data = session.image)
    BY DEF Verified, SoundInv, Md5FollowsImage
  <1>6. Md5FollowsImage'
    BY <1>2, <1>3, <1>4, <1>5 DEF Md5FollowsImage, SoundInv, SameRegion, Idle, Opening, NoCall
  <1>7. VerifySound'
    <2> SUFFICES ASSUME result' = "VERIFIED" PROVE Contents(flash', region') = session'.image
      BY DEF VerifySound
    <2>1. digest.live /\ Head(toHost).content = digest.data
      BY <1>4 DEF Verdict
    <2>2. Head(toHost).content = Contents(flash, region)
      BY <1>1 DEF Verified, SoundInv, Md5AnswerIsFresh
    <2> QED
      BY <2>1, <2>2, <1>3, <1>4, <1>5
  <1> QED
    BY <1>2, <1>6, <1>7 DEF SoundInv, Md5AnswerIsFresh, NoCall

LEMMA VerifyFailsStep ==
  ASSUME MaxLate = 0, TypeOK, SoundInv, VerifyFails
  PROVE  SoundInv'
  <1>1. PICK res \in {"INVALID_RESPONSE", "TIMEOUT"} : toTarget = <<>> /\ Finish(res, TRUE, <<>>)
    BY HostSees DEF TypeOK, SoundInv, VerifyFails, Refused
  <1>2. OneFrame' /\ Idle' /\ call' = NoCall /\ result' # "VERIFIED"
    BY <1>1, ReturnAlone DEF Finish
  <1>3. UNCHANGED <<region, md5>>
    BY DEF VerifyFails
  <1>4. session.open /\ ~md5.live
    BY DEF VerifyFails, SoundInv, Md5FollowsImage
  <1> QED
    BY <1>2, <1>3, <1>4 DEF SoundInv, Md5FollowsImage, Md5AnswerIsFresh, VerifySound, SameRegion,
       Opening, NoCall

LEMMA BlockWrittenStep ==
  ASSUME MaxLate = 0, TypeOK, SoundInv, BlockWritten
  PROVE  SoundInv'
  <1>1. toTarget = <<>> /\ Return(<<>>)
    BY HostSees DEF TypeOK, SoundInv, BlockWritten, Accepted
  <1>2. OneFrame' /\ Idle' /\ call' = NoCall
    BY <1>1, ReturnAlone
  <1>3. session'.image = Append(session.image, block) /\ session'.open = session.open
    BY DEF BlockWritten, TypeOK, HostTypeOK, Session
  <1>4. UNCHANGED <<region, md5>> /\ result' = "SUCCESS"
    BY DEF BlockWritten
  <1>5. session.open /\ (md5.live => md5.data = Append(session.image, block)) /\ SameRegion(md5)
    BY DEF BlockWritten, SoundInv, Md5FollowsImage
  <1> QED
    BY <1>2, <1>3, <1>4, <1>5 DEF SoundInv, Md5FollowsImage, Md5AnswerIsFresh, VerifySound, SameRegion,
       Opening, NoCall

\* Sending a block, for the first time or again.
LEMMA SendBlockStep ==
  ASSUME toTarget = <<>>, SendBlock(block', <<>>), session'.open, SameRegion(md5)', result' # "VERIFIED",
         md5'.live => md5'.data = Append(session'.image, block')
  PROVE  SoundInv'
  <1>1. DataFrame(seq, block').cmd = "FLASH_DATA"
    BY DEF DataFrame, Plain
  <1>2. OneFrame' /\ ~Idle' /\ call' = "FLASH_DATA"
    BY <1>1, SendAlone DEF SendBlock, CommandCodes
  <1> QED
    BY <1>2 DEF SoundInv, Md5FollowsImage, Md5AnswerIsFresh, VerifySound, Opening

LEMMA FlashVerifyStep ==
  ASSUME MaxLate = 0, TypeOK, SoundInv, FlashVerify
  PROVE  SoundInv'
  <1> DEFINE f == OnRegion("SPI_FLASH_MD5", md5)
  <1>1. toTarget = <<>> /\ toHost = <<>>
    BY HostSees DEF TypeOK, SoundInv, FlashVerify
  <1>2. f.cmd = "SPI_FLASH_MD5" /\ f.base = md5.base /\ f.size = md5.size
    BY DEF OnRegion, Plain
  <1>3. /\ OneFrame' /\ ~Idle' /\ call' = "SPI_FLASH_MD5"
        /\ Head(toTarget') = f /\ toHost' = <<>>
    BY <1>1, <1>2, SendAlone DEF FlashVerify, CommandCodes
  <1>4. session.open /\ SameRegion(md5) /\ (md5.live => md5.data = session.image)
    BY DEF FlashVerify, Complete, SoundInv, Md5FollowsImage
  <1>5. /\ digest' = [live |-> md5.live, data |-> md5.data] /\ md5' = Finalized(md5)
        /\ UNCHANGED <<region, session>> /\ result' = "PENDING"
    BY DEF FlashVerify
  <1>6. Md5FollowsImage'
    BY <1>3, <1>4, <1>5 DEF Md5FollowsImage, SameRegion, Finalized, Idle, Opening
  <1>7. Md5AnswerIsFresh'
    BY <1>2, <1>3, <1>4, <1>5 DEF Md5AnswerIsFresh, SameRegion
  <1> QED
    BY <1>3, <1>5, <1>6, <1>7 DEF SoundInv, VerifySound

\* The target, the noise and the line leave the host's variables alone; what
\* is left to show is that the line and the awaited digest stay as they are.
LEMMA EnvironmentStep ==
  ASSUME SoundInv, UNCHANGED <<hostVars, call>>, OneFrame', Md5AnswerIsFresh',
         ~Idle
  PROVE  SoundInv'
  BY DEF SoundInv, Md5FollowsImage, VerifySound, hostVars, SameRegion, Idle

\* The strengthening of VerifySound is an invariant when no frame outlives its
\* call.
THEOREM SoundInvariant ==
  ASSUME MaxLate = 0
  PROVE  Spec => []SoundInv
  <1>1. Init => SoundInv
    BY DEF Init, LinkInit, SoundInv, OneFrame, Md5FollowsImage, Md5AnswerIsFresh, VerifySound, Idle,
       Opening, NoCall
  <1>2. TypeOK /\ SoundInv /\ [Next]_vars => SoundInv'
    <2> SUFFICES ASSUME TypeOK, SoundInv, [Next]_vars PROVE SoundInv'
      OBVIOUS
    <2>a. session \in Session /\ LinkTypeOK
      BY DEF TypeOK, HostTypeOK
    <2>b. /\ Idle => toTarget = <<>> /\ toHost = <<>>
          /\ Answered => toTarget = <<>> /\ Tail(toHost) = <<>>
          /\ Expired => toTarget = <<>> /\ toHost = <<>>
          /\ ~Skip
      BY <2>a, HostSees DEF SoundInv
    <2>1. ASSUME NEW base \in 0 .. MaxBase, NEW size \in 0 .. MaxSize, FlashStart(base, size)
          PROVE  SoundInv'
      <3>1. toTarget = <<>> /\ toHost = <<>> /\ ~session'.open /\ session'.image = <<>>
            /\ result' # "VERIFIED"
        BY <2>1, <2>b DEF FlashStart
      <3>2. CASE BeginFlash(region', toHost)
        BY <3>1, <3>2, BeginStep
      <3>3. CASE Send(Plain("READ_ID"), toHost)
        <4>1. OneFrame' /\ ~Idle' /\ call' = "READ_ID"
          BY <3>1, <3>3, SendAlone DEF Plain, CommandCodes
        <4> QED
          BY <3>1, <4>1 DEF SoundInv, Md5FollowsImage, Md5AnswerIsFresh, VerifySound, Opening
      <3> QED
        BY <2>1, <3>2, <3>3 DEF FlashStart
    <2>2. ASSUME NEW b \in Blocks, FlashWrite(b) PROVE SoundInv'
      <3>1. toTarget = <<>> /\ SendBlock(block', <<>>) /\ result' # "VERIFIED" /\ UNCHANGED <<session, region>>
        BY <2>2, <2>b DEF FlashWrite
      <3>2. session.open /\ SameRegion(md5) /\ (md5.live => md5.data = session.image)
        BY <2>2 DEF FlashWrite, SoundInv, Md5FollowsImage
      <3>3. SameRegion(md5)' /\ (md5'.live => md5'.data = Append(session'.image, block'))
        BY <2>2, <3>1, <3>2 DEF FlashWrite, Feed, SameRegion, TypeOK, HostTypeOK, Md5Context
      <3> QED
        BY <3>1, <3>2, <3>3, SendBlockStep
    <2>3. CASE FlashVerify
      BY <2>3, FlashVerifyStep
    <2>4. ASSUME NEW reboot \in BOOLEAN, FlashFinish(reboot) PROVE SoundInv'
      <3> DEFINE f == [Plain("FLASH_END") EXCEPT !.stay = ~reboot]
      <3>1. f.cmd = "FLASH_END"
        BY DEF Plain
      <3>2. OneFrame' /\ ~Idle' /\ call' = "FLASH_END"
        <4>1. toTarget = <<>> /\ Send(f, <<>>)
          BY <2>4, <2>b DEF FlashFinish
        <4>2. f.cmd \in CommandCodes
          BY <3>1 DEF CommandCodes
        <4> HIDE DEF f
        <4> QED
          BY <3>1, <4>1, <4>2, SendAlone
      <3>3. UNCHANGED <<md5, region, session>> /\ result' # "VERIFIED"
        BY <2>4 DEF FlashFinish
      <3> QED
        BY <3>2, <3>3 DEF SoundInv, Md5FollowsImage, Md5AnswerIsFresh, VerifySound, SameRegion, Opening
    <2>5. CASE Reconnect
      BY <2>5 DEF Reconnect, SoundInv, OneFrame, Md5FollowsImage, Md5AnswerIsFresh, VerifySound, Idle,
         Opening, NoCall
    <2>6. CASE Host
      <3>1. CASE SizeDetected
        <4>1. toTarget = <<>> /\ Tail(toHost) = <<>>
          BY <3>1, <2>b DEF SizeDetected, Accepted
        <4>2. CASE Finish("IMAGE_SIZE", FALSE, Tail(toHost))
          BY <2>a, <4>1, <4>2, ClosedStep
        <4>3. CASE Send(Plain("SPI_SET_PARAMS"), Tail(toHost)) /\ UNCHANGED <<result, session, block, attempt>>
          <5>1. OneFrame' /\ ~Idle' /\ call' = "SPI_SET_PARAMS"
            <6>1. Send(Plain("SPI_SET_PARAMS"), <<>>)
              BY <4>1, <4>3
            <6>2. Plain("SPI_SET_PARAMS").cmd = "SPI_SET_PARAMS"
              BY DEF Plain
            <6> QED
              BY <4>1, <6>1, <6>2, SendAlone DEF CommandCodes
          <5>2. ~session.open /\ session.image = <<>> /\ result # "VERIFIED"
            BY <3>1 DEF SizeDetected, SoundInv, Md5FollowsImage, Opening, Idle, NoCall
          <5> QED
            BY <4>3, <5>1, <5>2 DEF SoundInv, Md5FollowsImage, Md5AnswerIsFresh, VerifySound, Opening
        <4> QED
          BY <3>1, <4>2, <4>3 DEF SizeDetected
      <3>2. CASE SizeNotDetected \/ ParamsSet
        <4>1. toTarget = <<>> /\ BeginFlash(region, <<>>)
          BY <3>2, <2>b DEF SizeNotDetected, ParamsSet, Refused, Accepted
        <4>2. ~session.open /\ session.image = <<>> /\ result # "VERIFIED"
          BY <3>2 DEF SizeNotDetected, ParamsSet, SoundInv, Md5FollowsImage, Opening, Idle, NoCall
        <4>3. UNCHANGED <<region, session, result>>
          BY <3>2 DEF SizeNotDetected, ParamsSet
        <4> QED
          BY <4>1, <4>2, <4>3, BeginStep
      <3>3. CASE Begun
        <4>1. toTarget = <<>> /\ Finish("SUCCESS", TRUE, <<>>)
          BY <3>3, <2>b DEF Begun, Accepted
        <4>2. OneFrame' /\ Idle' /\ call' = NoCall /\ result' # "VERIFIED"
          BY <4>1, ReturnAlone DEF Finish
        <4>3. session'.image = <<>> /\ SameRegion(md5) /\ md5.data = <<>>
          BY <3>3, <4>1, <2>a DEF Begun, Finish, Session, SoundInv, Md5FollowsImage, Opening
        <4>4. UNCHANGED <<md5, region>>
          BY <3>3 DEF Begun
        <4> QED
          BY <4>2, <4>3, <4>4 DEF SoundInv, Md5FollowsImage, Md5AnswerIsFresh, VerifySound, SameRegion,
             Opening, NoCall
      <3>4. CASE BlockWritten
        BY <3>4, BlockWrittenStep
      <3>5. CASE RetryBlock
        <4>1. toTarget = <<>> /\ SendBlock(block, <<>>)
          BY <3>5, <2>b DEF RetryBlock, Refused
        <4>2. /\ session.open /\ SameRegion(md5) /\ result # "VERIFIED"
              /\ md5.live => md5.data = Append(session.image, block)
          BY <3>5 DEF RetryBlock, SoundInv, Md5FollowsImage, Idle, NoCall
        <4>3. UNCHANGED <<md5, region, block, result, session>>
          BY <3>5 DEF RetryBlock
        <4> QED
          BY <4>1, <4>2, <4>3, SendBlockStep DEF SameRegion
      <3>6. CASE Verified
        BY <3>6, VerifiedStep
      <3>7. CASE VerifyFails
        BY <3>7, VerifyFailsStep
      <3>8. CASE Finished \/ CallFails
        <4>1. PICK res \in {"SUCCESS", "INVALID_RESPONSE", "TIMEOUT"} :
                toTarget = <<>> /\ Finish(res, FALSE, <<>>)
          BY <3>8, <2>b DEF Finished, CallFails, Accepted, Refused
        <4> QED
          BY <4>1, <2>a, ClosedStep
      <3>9. CASE SkipAnswer
        BY <3>9, <2>b DEF SkipAnswer
      <3> QED
        BY <2>6, <3>1, <3>2, <3>3, <3>4, <3>5, <3>6, <3>7, <3>8, <3>9 DEF Host
    <2>7. CASE Target
      <3>1. CASE ServeMd5
        <4> DEFINE a == [cmd |-> Head(toTarget).cmd, ok |-> TRUE, content |-> Contents(flash, Head(toTarget))]
        <4>1. toTarget # <<>> /\ Reply(a)
          BY <3>1 DEF ServeMd5, Awake, Respond
        <4>2. OneFrame' /\ call' = call /\ ~Idle /\ toTarget' = <<>> /\ Head(toHost') = a
          BY <4>1, <2>a, ReplyAlone DEF SoundInv
        <4>3. UNCHANGED <<hostVars, flash>>
          BY <3>1 DEF ServeMd5, targetVars
        <4>4. call = "SPI_FLASH_MD5" => Contents(flash, Head(toTarget)) = Contents(flash, region)
          BY <4>1 DEF SoundInv, Md5AnswerIsFresh, SameRegion, Contents
        <4>5. Md5AnswerIsFresh'
          BY <4>2, <4>3, <4>4 DEF Md5AnswerIsFresh, hostVars
        <4> QED
          BY <4>2, <4>3, <4>5, EnvironmentStep
      <3>2. CASE ServeBegin \/ ServeData \/ ServeEnd \/ ServeSetup
        <4>1. /\ toTarget # <<>> /\ Head(toTarget).cmd # "SPI_FLASH_MD5" /\ UNCHANGED hostVars
              /\ \E ok \in BOOLEAN : Respond(ok, <<>>)
          BY <3>2 DEF ServeBegin, ServeData, ServeEnd, ServeSetup, Awake
        <4>2. PICK a : a.cmd = Head(toTarget).cmd /\ Reply(a)
          BY <4>1 DEF Respond
        <4>3. OneFrame' /\ call' = call /\ ~Idle
          BY <4>1, <4>2, <2>a, ReplyAlone DEF SoundInv
        <4>4. call # "SPI_FLASH_MD5"
          BY <4>1 DEF SoundInv, OneFrame
        <4>5. Md5AnswerIsFresh'
          BY <4>3, <4>4 DEF Md5AnswerIsFresh
        <4> QED
          BY <4>1, <4>3, <4>5, EnvironmentStep
      <3>3. CASE Ignore
        <4>1. ~Idle /\ toHost = <<>> /\ Tail(toTarget) = <<>>
          BY <3>3, <2>a, SingleTail DEF Ignore, SoundInv, OneFrame, LinkTypeOK
        <4>2. toTarget' = <<>> /\ UNCHANGED <<toHost, call, hostVars, flash>>
          BY <3>3, <4>1 DEF Ignore, targetVars
        <4>3. OneFrame' /\ Md5AnswerIsFresh'
          BY <4>1, <4>2 DEF OneFrame, Md5AnswerIsFresh, Idle
        <4> QED
          BY <4>1, <4>2, <4>3, EnvironmentStep
      <3> QED
        BY <2>7, <3>1, <3>2, <3>3 DEF Target
    <2>8. CASE Noise
      <3>1. CASE Refuse
        <4> DEFINE a == [cmd |-> Head(toTarget).cmd, ok |-> FALSE, content |-> <<>>]
        <4>1. toTarget # <<>> /\ Reply(a) /\ UNCHANGED hostVars
          BY <3>1 DEF Refuse, Awake, Respond
        <4>2. OneFrame' /\ call' = call /\ ~Idle /\ toTarget' = <<>> /\ Head(toHost') = a
          BY <4>1, <2>a, ReplyAlone DEF SoundInv
        <4>3. Md5AnswerIsFresh'
          BY <4>2 DEF Md5AnswerIsFresh
        <4> QED
          BY <4>1, <4>2, <4>3, EnvironmentStep
      <3>2. CASE Garble
        <4>1. PICK b \in Blocks : toTarget' = [toTarget EXCEPT ![1].block = b]
          BY <3>2 DEF Garble
        <4>2. /\ toTarget # <<>> /\ Head(toTarget).cmd = "FLASH_DATA" /\ toTarget \in Seq(Frame)
              /\ UNCHANGED <<toHost, call, hostVars, flash>>
          BY <3>2, <2>a DEF Garble, Awake, LinkTypeOK, targetVars
        <4>3. ~Idle /\ toHost = <<>> /\ Len(toTarget) = 1 /\ call = "FLASH_DATA"
          BY <4>2 DEF SoundInv, OneFrame
        <4>4. Len(toTarget') = 1 /\ Head(toTarget').cmd = Head(toTarget).cmd
          <5>1. toTarget[1] \in Frame /\ Head(toTarget) = toTarget[1]
            BY <4>2, <4>3
          <5>2. \A f \in Frame : [f EXCEPT !.block = b].cmd = f.cmd
            BY DEF Frame
          <5>3. Len(toTarget') = 1 /\ toTarget'[1] = [toTarget[1] EXCEPT !.block = b]
            BY <4>1, <4>2, <4>3
          <5>4. Head(toTarget') = toTarget'[1]
            BY <5>3
          <5> QED
            BY <5>1, <5>2, <5>3, <5>4
        <4>5. OneFrame' /\ Md5AnswerIsFresh'
          BY <4>2, <4>3, <4>4 DEF OneFrame, Md5AnswerIsFresh, Idle
        <4> QED
          BY <4>2, <4>3, <4>5, EnvironmentStep
      <3>3. CASE Lose
        <4>1. toTarget # <<>> \/ toHost # <<>>
          BY <3>3 DEF Lose, LoseCommand, LoseAnswer
        <4>2. ~Idle
          BY <4>1 DEF SoundInv, OneFrame
        <4>3. toTarget' = <<>> /\ toHost' = <<>> /\ UNCHANGED <<call, hostVars>>
          BY <3>3, <2>a, SingleTail DEF Lose, LoseCommand, LoseAnswer, SoundInv, OneFrame, LinkTypeOK
        <4>4. OneFrame' /\ Md5AnswerIsFresh'
          BY <4>2, <4>3 DEF OneFrame, Md5AnswerIsFresh, Idle
        <4> QED
          BY <4>2, <4>3, <4>4, EnvironmentStep
      <3> QED
        BY <2>8, <3>1, <3>2, <3>3 DEF Noise
    <2>9. CASE UNCHANGED vars
      BY <2>9 DEF vars, linkVars, hostVars, targetVars, SoundInv, OneFrame, Md5FollowsImage,
         Md5AnswerIsFresh, VerifySound, SameRegion, Idle
    <2> QED
      BY <2>1, <2>2, <2>3, <2>4, <2>5, <2>6, <2>7, <2>8, <2>9 DEF Next, Client
  <1> QED
    BY <1>1, <1>2, TypeCorrect, PTL DEF Spec

\* flash_verify returns SUCCESS only when the region of the flash holds the
\* blocks written since flash_start, for every target policy, every number of
\* retries and whatever the line loses, garbles or the target refuses.
THEOREM VerifySoundness ==
  ASSUME MaxLate = 0
  PROVE  Spec => []VerifySound
  <1>1. SoundInv => VerifySound
    BY DEF SoundInv
  <1> QED
    BY <1>1, SoundInvariant, PTL

-----------------------------------------------------------------------------
(***************************************************************************)
(* FlashSession implements FlashPromise, when no frame outlives its call.  *)
(***************************************************************************)

-----------------------------------------------------------------------------
(* The target's window is the region of the open session. *)

WindowIsRegion == target.base = region.base /\ target.size = region.size

WindowInv ==
  /\ call = "FLASH_BEGIN" =>
       /\ seq = 0
       /\ toTarget # <<>> => SameRegion(Head(toTarget))
       /\ toHost # <<>> /\ Head(toHost).ok => WindowIsRegion /\ target.received = 0
  /\ session.open => WindowIsRegion
  /\ call = "FLASH_DATA" => Len(session.image) < region.size

\* The facts about the line and the call that the steps below rest on.
LEMMA Line ==
  ASSUME MaxLate = 0, TypeOK, SoundInv
  PROVE  /\ Idle => toTarget = <<>> /\ toHost = <<>>
         /\ Answered => toTarget = <<>> /\ Tail(toHost) = <<>>
         /\ Expired => toTarget = <<>> /\ toHost = <<>>
         /\ ~Skip
         /\ toTarget # <<>> => /\ Head(toTarget).cmd = call /\ toHost = <<>> /\ Tail(toTarget) = <<>>
                               /\ Head(toTarget) \in Frame
         /\ toHost # <<>> => Head(toHost).cmd = call /\ toTarget = <<>> /\ Tail(toHost) = <<>>
         /\ call \in Opening => ~session.open /\ session.image = <<>>
         /\ call \in {"FLASH_DATA", "SPI_FLASH_MD5"} => session.open
         /\ ~Idle => result # "VERIFIED"
  <1>1. LinkTypeOK /\ OneFrame
    BY DEF TypeOK, SoundInv
  <1>2. toTarget # <<>> => /\ Head(toTarget).cmd = call /\ toHost = <<>> /\ Tail(toTarget) = <<>>
                           /\ Head(toTarget) \in Frame
    BY <1>1, SingleTail DEF OneFrame, LinkTypeOK
  <1>3. toHost # <<>> => Head(toHost).cmd = call /\ toTarget = <<>> /\ Tail(toHost) = <<>>
    BY <1>1, SingleTail DEF OneFrame, LinkTypeOK
  <1> QED
    BY <1>1, <1>2, <1>3, HostSees DEF SoundInv, Md5FollowsImage

\* What a step leaves on the line.
LEMMA Sent ==
  ASSUME NEW f, f.cmd \in CommandCodes, toTarget = <<>>, Send(f, <<>>)
  PROVE  toTarget' # <<>> /\ Head(toTarget') = f /\ toHost' = <<>> /\ call' = f.cmd /\ call' # NoCall
  BY SendAlone DEF Idle

LEMMA FrameFields ==
  /\ \A cmd : Plain(cmd).cmd = cmd
  /\ \A cmd, r : OnRegion(cmd, r).cmd = cmd /\ OnRegion(cmd, r).base = r.base /\ OnRegion(cmd, r).size = r.size
  /\ \A n, b : DataFrame(n, b).cmd = "FLASH_DATA" /\ DataFrame(n, b).seq = n /\ DataFrame(n, b).block = b
  BY DEF Plain, OnRegion, DataFrame

LEMMA WindowBegin ==
  ASSUME toTarget = <<>>, BeginFlash(region', <<>>), ~session'.open
  PROVE  WindowInv'
  <1>1. Send(OnRegion("FLASH_BEGIN", region'), <<>>) /\ seq' = 0
    BY DEF BeginFlash
  <1>2. /\ toTarget' # <<>> /\ Head(toTarget') = OnRegion("FLASH_BEGIN", region') /\ toHost' = <<>>
        /\ call' = "FLASH_BEGIN"
    BY <1>1, Sent, FrameFields DEF CommandCodes
  <1> QED
    BY <1>1, <1>2, FrameFields DEF WindowInv, SameRegion

\* The session is over, or stays open in a call that sends nothing.
LEMMA WindowReturn ==
  ASSUME WindowInv, NEW res, NEW open \in BOOLEAN, NEW inbound, Finish(res, open, inbound),
         open => WindowIsRegion, session \in Session, UNCHANGED <<region, target>>
  PROVE  WindowInv'
  BY DEF WindowInv, WindowIsRegion, Finish, Return, NoCall, Session

\* A step that sends a command other than FLASH_BEGIN, or none.
LEMMA WindowSame ==
  ASSUME WindowInv, call' # "FLASH_BEGIN", UNCHANGED <<session, region>>,
         target'.base = target.base, target'.size = target.size,
         call' = "FLASH_DATA" => Len(session.image) < region.size
  PROVE  WindowInv'
  BY DEF WindowInv, WindowIsRegion

\* A frame of the open call is gone: lost, read by nobody, or refused.
LEMMA WindowGone ==
  ASSUME WindowInv, UNCHANGED <<call, hostVars, target>>, toTarget' = <<>>,
         toHost' # <<>> => ~Head(toHost').ok
  PROVE  WindowInv'
  BY DEF WindowInv, WindowIsRegion, hostVars

LEMMA WindowStep ==
  ASSUME MaxLate = 0, TypeOK, SoundInv, WindowInv, [Next]_vars
  PROVE  WindowInv'
  <1>a. session \in Session /\ target \in TargetState
    BY DEF TypeOK, HostTypeOK, TargetTypeOK
  <1>1. ASSUME NEW base \in 0 .. MaxBase, NEW size \in 0 .. MaxSize, FlashStart(base, size)
        PROVE  WindowInv'
    <2>1. toTarget = <<>> /\ toHost = <<>> /\ ~session'.open
      BY <1>1, Line DEF FlashStart
    <2>2. CASE BeginFlash(region', toHost)
      BY <2>1, <2>2, WindowBegin
    <2>3. CASE Send(Plain("READ_ID"), toHost)
      BY <2>1, <2>3, FrameFields DEF Send, WindowInv
    <2> QED
      BY <1>1, <2>2, <2>3 DEF FlashStart
  <1>2. ASSUME NEW b \in Blocks, FlashWrite(b) PROVE WindowInv'
    BY <1>2, WindowSame, FrameFields DEF FlashWrite, SendBlock, Send, targetVars
  <1>3. CASE FlashVerify
    BY <1>3, WindowSame, FrameFields DEF FlashVerify, Send, targetVars
  <1>4. ASSUME NEW reboot \in BOOLEAN, FlashFinish(reboot) PROVE WindowInv'
    <2>1. [Plain("FLASH_END") EXCEPT !.stay = ~reboot].cmd = "FLASH_END"
      BY DEF Plain
    <2> QED
      BY <1>4, <2>1, WindowSame DEF FlashFinish, Send, targetVars
  <1>5. CASE Reconnect
    BY <1>5 DEF Reconnect, WindowInv, Idle, NoCall
  <1>6. CASE Host
    <2>1. CASE SizeDetected
      <3>1. CASE Finish("IMAGE_SIZE", FALSE, Tail(toHost))
        BY <1>a, <2>1, <3>1, WindowReturn DEF SizeDetected, targetVars
      <3>2. CASE Send(Plain("SPI_SET_PARAMS"), Tail(toHost)) /\ UNCHANGED <<result, session, block, attempt>>
        BY <2>1, <3>2, WindowSame, FrameFields DEF SizeDetected, Send, targetVars
      <3> QED
        BY <2>1, <3>1, <3>2 DEF SizeDetected
    <2>2. CASE SizeNotDetected \/ ParamsSet
      <3>1. toTarget = <<>> /\ BeginFlash(region, <<>>) /\ ~session.open /\ UNCHANGED <<region, session>>
        BY <2>2, Line DEF SizeNotDetected, ParamsSet, Refused, Accepted, Opening
      <3> QED
        BY <3>1, WindowBegin
    <2>3. CASE Begun
      <3>1. WindowIsRegion
        BY <2>3 DEF Begun, Accepted, Answered, WindowInv
      <3> QED
        BY <1>a, <2>3, <3>1, WindowReturn DEF Begun, targetVars
    <2>4. CASE BlockWritten
      BY <1>a, <2>4 DEF BlockWritten, Return, WindowInv, WindowIsRegion, NoCall, targetVars, Session
    <2>5. CASE RetryBlock
      <3>1. call' = "FLASH_DATA"
        BY <2>5, FrameFields DEF RetryBlock, SendBlock, Send
      <3> QED
        BY <2>5, <3>1, WindowSame DEF RetryBlock, targetVars, WindowInv
    <2>6. CASE Verified \/ VerifyFails
      <3>1. WindowIsRegion
        BY <2>6, Line DEF Verified, VerifyFails, WindowInv
      <3>2. \E res, inbound : Finish(res, TRUE, inbound)
        BY <2>6 DEF Verified, VerifyFails
      <3> QED
        BY <1>a, <2>6, <3>1, <3>2, WindowReturn DEF Verified, VerifyFails, targetVars
    <2>7. CASE Finished \/ CallFails
      <3>1. \E res, inbound : Finish(res, FALSE, inbound)
        BY <2>7 DEF Finished, CallFails
      <3> QED
        BY <1>a, <2>7, <3>1, WindowReturn DEF Finished, CallFails, targetVars
    <2>8. CASE SkipAnswer
      BY <2>8, Line DEF SkipAnswer
    <2> QED
      BY <1>6, <2>1, <2>2, <2>3, <2>4, <2>5, <2>6, <2>7, <2>8 DEF Host
  <1>7. CASE Target
    <2>1. CASE ServeBegin
      <3>1. /\ toTarget # <<>> /\ call = "FLASH_BEGIN" /\ toTarget' = <<>>
            /\ UNCHANGED <<call, hostVars>> /\ ~session.open
        BY <2>1, Line DEF ServeBegin, Awake, Respond, Reply, Opening
      <3>2. target'.base = Head(toTarget).base /\ target'.size = Head(toTarget).size /\ target'.received = 0
        BY <1>a, <2>1 DEF ServeBegin, TargetState
      <3> QED
        BY <3>1, <3>2 DEF WindowInv, WindowIsRegion, SameRegion, hostVars
    <2>2. CASE ServeData \/ ServeMd5 \/ ServeEnd \/ ServeSetup
      <3>1. /\ call # "FLASH_BEGIN" /\ UNCHANGED <<call, hostVars>>
            /\ target'.base = target.base /\ target'.size = target.size
        BY <1>a, <2>2, Line DEF ServeData, ServeMd5, ServeEnd, ServeSetup, Awake, Respond, Reply,
           targetVars, TargetState
      <3> QED
        BY <3>1, WindowSame DEF WindowInv, hostVars
    <2>3. CASE Ignore
      BY <2>3, Line, WindowGone DEF Ignore, targetVars
    <2> QED
      BY <1>7, <2>1, <2>2, <2>3 DEF Target
  <1>8. CASE Noise
    <2>1. CASE Refuse
      <3> DEFINE a == [cmd |-> Head(toTarget).cmd, ok |-> FALSE, content |-> <<>>]
      <3>1. toTarget # <<>> /\ Reply(a) /\ UNCHANGED <<hostVars, target>>
        BY <2>1 DEF Refuse, Awake, Respond, targetVars
      <3>2. ~a.ok
        OBVIOUS
      <3>3. toTarget' = <<>> /\ toHost' = <<a>> /\ UNCHANGED call
        <4> HIDE DEF a
        <4>1. toHost = <<>> /\ Tail(toTarget) = <<>>
          BY <3>1, Line
        <4> QED
          BY <3>1, <4>1 DEF Reply
      <3> HIDE DEF a
      <3> QED
        BY <3>1, <3>2, <3>3, WindowGone
    <2>2. CASE Garble
      <3>1. call # "FLASH_BEGIN" /\ UNCHANGED <<call, hostVars, targetVars>>
        BY <2>2, Line DEF Garble, Awake
      <3> QED
        BY <3>1, WindowSame DEF WindowInv, hostVars, targetVars
    <2>3. CASE Lose
      <3>1. toTarget' = <<>> /\ toHost' = <<>> /\ UNCHANGED <<call, hostVars, target>>
        BY <2>3, Line DEF Lose, LoseCommand, LoseAnswer, targetVars
      <3> QED
        BY <3>1, WindowGone
    <2> QED
      BY <1>8, <2>1, <2>2, <2>3 DEF Noise
  <1>9. CASE UNCHANGED vars
    BY <1>9 DEF vars, linkVars, hostVars, targetVars, WindowInv, WindowIsRegion, SameRegion
  <1> QED
    BY <1>1, <1>2, <1>3, <1>4, <1>5, <1>6, <1>7, <1>8, <1>9 DEF Next, Client

\* The window of the target is that of the open session.
LEMMA WindowInvariant ==
  ASSUME MaxLate = 0
  PROVE  Spec => []WindowInv
  <1>1. Init => WindowInv
    BY DEF Init, LinkInit, WindowInv, NoCall
  <1>2. TypeOK /\ SoundInv /\ WindowInv /\ [Next]_vars => WindowInv'
    BY WindowStep
  <1> QED
    BY <1>1, <1>2, TypeCorrect, SoundInvariant, PTL DEF Spec

-----------------------------------------------------------------------------
(* Every step of the session is a step of the promise, or none. *)

\* What the promise sees of a step.
LEMMA Unseen ==
  ASSUME UNCHANGED <<flash, region>>, session'.image = session.image,
         result # "VERIFIED", result' # "VERIFIED"
  PROVE  UNCHANGED Promise!vars
  BY DEF Promise!vars

LEMMA SeenAsNextCall ==
  ASSUME UNCHANGED <<flash, region>>, session'.image = session.image, result' # "VERIFIED"
  PROVE  Promise!Next
  BY DEF Promise!Next, Promise!NextCall

LEMMA SeenAsOpen ==
  ASSUME region' \in Region, session'.image = <<>>, result' # "VERIFIED", UNCHANGED flash
  PROVE  Promise!Next
  <1>1. Promise!Open
    BY DEF Promise!Open, Region
  <1> QED
    BY <1>1 DEF Promise!Next

\* The target changes cells of the region only, and only during a call.
LEMMA SeenAsProgram ==
  ASSUME UNCHANGED hostVars, result # "VERIFIED", flash' \in [Cells -> Cell],
         \A c \in Cells : flash'[c] = flash[c] \/ \E i \in 1 .. region.size : c = CellOf(region.base + i - 1)
  PROVE  Promise!Next
  <1>1. \A c \in Cells \ Promise!Covered(region) : flash'[c] = flash[c]
    BY DEF Promise!Covered, CellOf
  <1>2. Promise!Program
    BY <1>1 DEF Promise!Program, Promise!Cells, Promise!Cell, Cells, Cell, hostVars
  <1> QED
    BY <1>2 DEF Promise!Next

LEMMA SeenAsAcknowledge ==
  ASSUME MaxLate = 0, TypeOK, SoundInv, WindowInv, BlockWritten
  PROVE  Promise!Next
  <1>1. result # "VERIFIED" /\ result' # "VERIFIED" /\ UNCHANGED <<flash, region>>
    BY Line DEF BlockWritten, targetVars, Idle, NoCall
  <1>2. Len(session.image) < region.size /\ block \in Cell /\ session'.image = Append(session.image, block)
    BY DEF BlockWritten, WindowInv, TypeOK, HostTypeOK, Session
  <1>3. Promise!Acknowledge
    BY <1>1, <1>2 DEF Promise!Acknowledge, Promise!Cell, Cell
  <1> QED
    BY <1>3 DEF Promise!Next

LEMMA SeenAsVerify ==
  ASSUME MaxLate = 0, TypeOK, SoundInv, SoundInv', Verified
  PROVE  Promise!Next
  <1>1. session'.image = session.image /\ UNCHANGED <<flash, region>>
    BY DEF Verified, Finish, TypeOK, HostTypeOK, Session, targetVars
  <1>2. CASE result' = "VERIFIED"
    <2>1. Contents(flash, region) = session.image
      BY <1>1, <1>2 DEF SoundInv, VerifySound
    <2>2. Promise!Holds(flash, region, session.image)
      BY <2>1 DEF Promise!Holds, Contents, CellOf
    <2>3. Promise!Verify
      BY <1>1, <1>2, <2>2 DEF Promise!Verify
    <2> QED
      BY <2>3 DEF Promise!Next
  <1>3. CASE result' # "VERIFIED"
    BY <1>1, <1>3, SeenAsNextCall
  <1> QED
    BY <1>2, <1>3

LEMMA BeginProgram ==
  ASSUME MaxLate = 0, TypeOK, TypeOK', SoundInv, WindowInv, ServeBegin
  PROVE  Promise!Next
  <1> DEFINE f == Head(toTarget)
             erasedCells == {CellOf(f.base + i - 1) : i \in 1 .. f.size}
  <1>1. toTarget # <<>> /\ call = "FLASH_BEGIN" /\ result # "VERIFIED" /\ UNCHANGED hostVars
    BY Line DEF ServeBegin, Awake, Idle, NoCall
  <1>2. f.base = region.base /\ f.size = region.size
    BY <1>1 DEF WindowInv, SameRegion
  <1>3. flash' = [c \in Cells |-> IF c \in erasedCells THEN Erased ELSE flash[c]]
    BY DEF ServeBegin
  <1>4. \A c \in Cells : flash'[c] = flash[c] \/ \E i \in 1 .. region.size : c = CellOf(region.base + i - 1)
    BY <1>2, <1>3
  <1>5. flash' \in [Cells -> Cell]
    BY DEF TypeOK, TargetTypeOK
  <1> QED
    BY <1>1, <1>4, <1>5, SeenAsProgram

LEMMA SlotType ==
  ASSUME TypeOK, NEW f \in Frame
  PROVE  Slot(f) \in Nat
  BY DEF TypeOK, TargetTypeOK, TargetState, Slot, Frame

LEMMA DataProgram ==
  ASSUME MaxLate = 0, TypeOK, TypeOK', SoundInv, WindowInv, ServeData
  PROVE  [Promise!Next]_(Promise!vars)
  <1> DEFINE f == Head(toTarget)
  <1>1. /\ toTarget # <<>> /\ call = "FLASH_DATA" /\ result # "VERIFIED" /\ UNCHANGED hostVars
        /\ f \in Frame /\ WindowIsRegion
    BY Line DEF ServeData, Awake, Idle, NoCall, WindowInv
  <1>2. CASE UNCHANGED targetVars
    BY <1>1, <1>2, Unseen DEF targetVars, hostVars
  <1>3. CASE Placeable(f) /\ flash' = [flash EXCEPT ![CellOf(target.base + Slot(f))] = f.block]
    <2>1. Slot(f) \in Nat /\ Slot(f) < region.size /\ region.size \in Nat /\ region.base \in Nat
      BY <1>1, <1>3, SlotType DEF Placeable, WindowIsRegion, TypeOK, HostTypeOK, Region
    <2>2. Slot(f) + 1 \in 1 .. region.size /\ target.base + Slot(f) = region.base + (Slot(f) + 1) - 1
      BY <1>1, <2>1 DEF WindowIsRegion
    <2>3. flash \in [Cells -> Cell] /\ flash' \in [Cells -> Cell]
      BY DEF TypeOK, TargetTypeOK
    <2>4. \A c \in Cells : c # CellOf(target.base + Slot(f)) => flash'[c] = flash[c]
      BY <1>3, <2>3
    <2>5. \A c \in Cells : flash'[c] = flash[c] \/ \E i \in 1 .. region.size : c = CellOf(region.base + i - 1)
      BY <2>2, <2>4
    <2> QED
      BY <1>1, <2>3, <2>5, SeenAsProgram
  <1> QED
    BY <1>2, <1>3 DEF ServeData

LEMMA PromiseStep ==
  ASSUME MaxLate = 0, TypeOK, TypeOK', SoundInv, SoundInv', WindowInv, [Next]_vars
  PROVE  [Promise!Next]_(Promise!vars)
  <1>a. session \in Session
    BY DEF TypeOK, HostTypeOK
  <1>b. \A res, open, inbound :
          Finish(res, open, inbound) => session'.image = session.image /\ result' = res
    BY <1>a DEF Finish, Session
  <1>1. ASSUME NEW base \in 0 .. MaxBase, NEW size \in 0 .. MaxSize, FlashStart(base, size)
        PROVE  Promise!Next
    <2>1. region' \in Region
      BY DEF TypeOK, HostTypeOK
    <2> QED
      BY <1>1, <2>1, SeenAsOpen DEF FlashStart, targetVars
  <1>2. ASSUME NEW b \in Blocks, FlashWrite(b) PROVE Promise!Next
    BY <1>2, SeenAsNextCall DEF FlashWrite, targetVars
  <1>3. CASE FlashVerify
    BY <1>3, SeenAsNextCall DEF FlashVerify, targetVars
  <1>4. ASSUME NEW reboot \in BOOLEAN, FlashFinish(reboot) PROVE Promise!Next
    BY <1>4, SeenAsNextCall DEF FlashFinish, targetVars
  <1>5. CASE Reconnect
    <2>1. region' \in Region
      BY DEF TypeOK, HostTypeOK
    <2> QED
      BY <1>5, <2>1, SeenAsOpen DEF Reconnect
  <1>6. CASE Host
    <2>1. CASE SizeDetected
      <3>1. UNCHANGED <<flash, region>>
        BY <2>1 DEF SizeDetected, targetVars
      <3>2. CASE \E inbound : Finish("IMAGE_SIZE", FALSE, inbound)
        <4>1. session'.image = session.image /\ result' = "IMAGE_SIZE"
          BY <1>b, <3>2
        <4> QED
          BY <3>1, <4>1, SeenAsNextCall
      <3>3. CASE UNCHANGED <<result, session>>
        <4>1. result # "VERIFIED"
          BY <2>1, Line DEF SizeDetected, Idle, NoCall
        <4> QED
          BY <3>1, <3>3, <4>1, Unseen
      <3> QED
        BY <2>1, <3>2, <3>3 DEF SizeDetected
    <2>2. CASE SizeNotDetected \/ ParamsSet \/ RetryBlock
      <3>1. result # "VERIFIED" /\ UNCHANGED <<flash, region, session, result>>
        BY <2>2, Line DEF SizeNotDetected, ParamsSet, RetryBlock, targetVars, Idle, NoCall
      <3> QED
        BY <3>1, Unseen
    <2>3. CASE Begun \/ VerifyFails \/ Finished \/ CallFails
      <3>1. \E res, open, inbound : res # "VERIFIED" /\ Finish(res, open, inbound)
        BY <2>3 DEF Begun, VerifyFails, Finished, CallFails
      <3>2. UNCHANGED <<flash, region>>
        BY <2>3 DEF Begun, VerifyFails, Finished, CallFails, targetVars
      <3> QED
        BY <1>b, <3>1, <3>2, SeenAsNextCall
    <2>4. CASE BlockWritten
      BY <2>4, SeenAsAcknowledge
    <2>5. CASE Verified
      BY <2>5, SeenAsVerify
    <2>6. CASE SkipAnswer
      BY <2>6, Line DEF SkipAnswer
    <2> QED
      BY <1>6, <2>1, <2>2, <2>3, <2>4, <2>5, <2>6 DEF Host
  <1>7. CASE Target \/ Noise
    <2>1. CASE ServeBegin
      BY <2>1, BeginProgram
    <2>2. CASE ServeData
      BY <2>2, DataProgram
    <2>3. CASE ServeMd5 \/ ServeEnd \/ ServeSetup \/ Ignore \/ Noise
      <3>1. UNCHANGED <<flash, hostVars>>
        BY <2>3 DEF ServeMd5, ServeEnd, ServeSetup, Ignore, Noise, Refuse, Garble, Lose, targetVars
      <3> QED
        BY <3>1 DEF hostVars, Promise!vars
    <2> QED
      BY <1>7, <2>1, <2>2, <2>3 DEF Target
  <1>8. CASE UNCHANGED vars
    BY <1>8 DEF vars, hostVars, targetVars, Promise!vars
  <1> QED
    BY <1>1, <1>2, <1>3, <1>4, <1>5, <1>6, <1>7, <1>8 DEF Next, Client

\* The flashing session, with its commands, retries and faults, implements the
\* promise of the interface when no frame outlives its call.
THEOREM PromiseKept ==
  ASSUME MaxLate = 0
  PROVE  Spec => KeepsPromise
  <1>1. Init => Promise!Init
    BY DEF Init, Promise!Init, Promise!Cells, Promise!Cell, Cells, Cell
  <1>2. /\ TypeOK /\ TypeOK' /\ SoundInv /\ SoundInv' /\ WindowInv /\ [Next]_vars
        => [Promise!Next]_(Promise!vars)
    BY PromiseStep
  <1> QED
    BY <1>1, <1>2, TypeCorrect, SoundInvariant, WindowInvariant, PTL DEF Spec, KeepsPromise, Promise!Spec

-----------------------------------------------------------------------------
(***************************************************************************)
(* What the answers of a flashing session are worth, when no frame         *)
(* outlives its call: an image of which every block was acknowledged is in *)
(* the flash, and a mismatch that flash_verify reports is one.             *)
(***************************************************************************)

-----------------------------------------------------------------------------
(* A reported mismatch *)

MismatchInv ==
  /\ result = "INVALID_MD5" => Idle
  /\ MismatchIsReal

LEMMA OtherResult ==
  ASSUME result' # "INVALID_MD5"
  PROVE  MismatchInv'
  BY DEF MismatchInv, MismatchIsReal

\* While a call is open there is nothing to show.
LEMMA StillPending ==
  ASSUME MismatchInv, ~Idle, UNCHANGED result
  PROVE  MismatchInv'
  BY OtherResult DEF MismatchInv

LEMMA MismatchStep ==
  ASSUME MaxLate = 0, TypeOK, SoundInv, MismatchInv, [Next]_vars
  PROVE  MismatchInv'
  <1>1. CASE Client
    BY <1>1, OtherResult DEF Client, FlashStart, FlashWrite, FlashVerify, FlashFinish, Reconnect
  <1>2. CASE Verified
    <2>1. toHost # <<>> /\ Head(toHost).ok /\ call = "SPI_FLASH_MD5"
      BY <1>2 DEF Verified, Accepted, Answered
    <2>2. Head(toHost).content = Contents(flash, region) /\ (digest.live => digest.data = session.image)
      BY <2>1 DEF SoundInv, Md5AnswerIsFresh, Md5FollowsImage
    <2>3. /\ UNCHANGED <<flash, region, digest>> /\ session'.image = session.image
          /\ result' = Verdict(Head(toHost).content) /\ Idle'
      BY <1>2 DEF Verified, Finish, Return, targetVars, Idle, TypeOK, HostTypeOK, Session
    <2> QED
      BY <2>2, <2>3 DEF MismatchInv, MismatchIsReal, Verdict
  <1>3. CASE SizeDetected
    <2>1. ~Idle
      BY <1>3 DEF SizeDetected, Idle, NoCall
    <2> QED
      BY <1>3, <2>1, OtherResult, StillPending DEF SizeDetected, Finish
  <1>4. CASE SizeNotDetected \/ ParamsSet \/ RetryBlock
    <2>1. ~Idle /\ UNCHANGED result
      BY <1>4 DEF SizeNotDetected, ParamsSet, RetryBlock, Idle, NoCall
    <2> QED
      BY <2>1, StillPending
  <1>5. CASE Begun \/ BlockWritten \/ VerifyFails \/ Finished \/ CallFails
    BY <1>5, OtherResult DEF Begun, BlockWritten, VerifyFails, Finished, CallFails, Finish
  <1>6. CASE SkipAnswer
    BY <1>6, Line DEF SkipAnswer
  <1>7. CASE Target \/ Noise
    <2>1. ~Idle
      <3>1. toTarget # <<>> \/ toHost # <<>>
        BY <1>7 DEF Target, ServeBegin, ServeData, ServeMd5, ServeEnd, ServeSetup, Ignore, Awake,
           Noise, Refuse, Garble, Lose, LoseCommand, LoseAnswer
      <3> QED
        BY <3>1, Line
    <2>2. UNCHANGED hostVars
      BY <1>7 DEF Target, ServeBegin, ServeData, ServeMd5, ServeEnd, ServeSetup, Ignore,
         Noise, Refuse, Garble, Lose
    <2> QED
      BY <2>1, <2>2, StillPending DEF hostVars
  <1>8. CASE UNCHANGED vars
    BY <1>8 DEF vars, linkVars, hostVars, targetVars, MismatchInv, MismatchIsReal, Idle
  <1> QED
    BY <1>1, <1>2, <1>3, <1>4, <1>5, <1>6, <1>7, <1>8 DEF Next, Host

\* The first verification of a session reports a mismatch only when the flash
\* differs from the blocks that were written: the digest that answered is that
\* of the region as it is, and the context was fed what the client wrote.
THEOREM MismatchIsNeverFalse ==
  ASSUME MaxLate = 0
  PROVE  Spec => []MismatchIsReal
  <1>1. Init => MismatchInv
    BY DEF Init, MismatchInv, MismatchIsReal
  <1>2. TypeOK /\ SoundInv /\ MismatchInv /\ [Next]_vars => MismatchInv'
    BY MismatchStep
  <1>3. MismatchInv => MismatchIsReal
    BY DEF MismatchInv
  <1> QED
    BY <1>1, <1>2, <1>3, TypeCorrect, SoundInvariant, PTL DEF Spec

-----------------------------------------------------------------------------
(* Where the acknowledged blocks are *)

\* Of an image that k transmissions or blocks have been used for, either one
\* was wasted, or the image lies at the start of the region.
Lands(f, r, k, im) ==
  /\ Len(im) <= k
  /\ k = Len(im) => \A i \in 1 .. Len(im) : im[i] = f[CellOf(r.base + i - 1)]

\* The place in the window that the next block goes to.
Taken == IF target.policy = "positional" THEN seq ELSE target.received

LandsSoFar == Lands(flash, region, Taken, session.image)

InFlight ==
  /\ toTarget # <<>> =>
       /\ Head(toTarget).block = block
       /\ Head(toTarget).seq + 1 = seq
       /\ Lands(flash, region, Slot(Head(toTarget)), session.image)
  /\ toTarget = <<>> /\ ~(toHost # <<>> /\ Head(toHost).ok) => LandsSoFar
  /\ toTarget = <<>> /\ toHost # <<>> /\ Head(toHost).ok =>
       Lands(flash, region, Taken, Append(session.image, block)) /\ Taken <= region.size

LandsInv ==
  /\ region.size <= MaxSize
  /\ session.open /\ trouble # "garble" =>
       /\ call = "FLASH_DATA" => InFlight
       /\ call # "FLASH_DATA" => LandsSoFar /\ Taken <= region.size

\* Cells that are less than the flash apart are different.
LEMMA CellsApart ==
  ASSUME NEW a \in Nat, NEW b \in Nat, a < b, b - a < FlashLen
  PROVE  CellOf(a) # CellOf(b)
  <1> DEFINE m == a \div FlashLen
             n == b \div FlashLen
             r == a % FlashLen
             s == b % FlashLen
  <1>1. m \in Int /\ n \in Int /\ r \in 0 .. FlashLen - 1 /\ a = m * FlashLen + r /\ b = n * FlashLen + s
    BY FlashLenAssumption
  <1> HIDE DEF m, n, r, s
  <1>2. ASSUME r = s PROVE FALSE
    <2>1. (n - m) * FlashLen = b - a
      BY <1>1, <1>2, FlashLenAssumption
    <2>2. n - m \in Int
      BY <1>1
    <2>3. n - m < 1 /\ n - m > 0
      BY <2>1, <2>2, FlashLenAssumption
    <2> QED
      BY <2>2, <2>3
  <1> QED
    BY <1>2 DEF CellOf, r, s

\* A closed session has nothing to show.
LEMMA LandsClosed ==
  ASSUME region'.size <= MaxSize, ~session'.open
  PROVE  LandsInv'
  BY DEF LandsInv

\* A step of another call, which leaves flash, window and image alone.
LEMMA LandsSame ==
  ASSUME LandsInv, call # "FLASH_DATA", call' # "FLASH_DATA", session.open,
         UNCHANGED <<flash, region, seq>>, session'.image = session.image,
         target'.policy = target.policy, target'.received = target.received,
         trouble' # "garble" => trouble # "garble"
  PROVE  LandsInv'
  BY DEF LandsInv, LandsSoFar, Lands, Taken, CellOf

\* The block is sent, for the first time or again.
LEMMA LandsSent ==
  ASSUME TypeOK, LandsInv, toTarget = <<>>, SendBlock(block', <<>>), LandsSoFar \/ trouble = "garble",
         UNCHANGED <<flash, region, session, target>>, trouble' # "garble" => trouble # "garble"
  PROVE  LandsInv'
  <1>1. Send(DataFrame(seq, block'), <<>>) /\ seq' = seq + 1
    BY DEF SendBlock
  <1>2. toTarget' # <<>> /\ Head(toTarget') = DataFrame(seq, block') /\ call' = "FLASH_DATA"
    BY <1>1, Sent, FrameFields DEF CommandCodes
  <1>3. Slot(Head(toTarget))' = Taken
    BY <1>2, FrameFields DEF Slot, Taken
  <1>4. LandsSoFar => InFlight'
    BY <1>1, <1>2, <1>3, FrameFields DEF InFlight, LandsSoFar
  <1> QED
    BY <1>2, <1>4 DEF LandsInv

\* The block, or the answer to it, is gone, or the target has refused it: the
\* number it was sent with is used up.
LEMMA LandsGone ==
  ASSUME TypeOK, LandsInv, call = "FLASH_DATA", UNCHANGED <<call, hostVars, flash>>,
         toTarget # <<>> => Head(toTarget) \in Frame,
         target'.policy = target.policy, target'.received = target.received,
         toTarget' = <<>>, toHost' # <<>> => ~Head(toHost').ok,
         trouble' # "garble" => trouble # "garble"
  PROVE  LandsInv'
  <1>1. Len(session.image) \in Nat /\ seq \in Nat /\ Taken \in Nat /\ block \in Cell /\ session.image \in Seq(Cell)
    BY DEF TypeOK, HostTypeOK, Session, TargetTypeOK, TargetState, Taken
  <1>2. Len(Append(session.image, block)) = Len(session.image) + 1
    BY <1>1
  <1>3. InFlight => LandsSoFar
    <2>1. ASSUME InFlight, toTarget # <<>> PROVE LandsSoFar
      BY <1>1, <2>1 DEF InFlight, LandsSoFar, Lands, Slot, Taken, Frame
    <2>2. ASSUME InFlight, toTarget = <<>> PROVE LandsSoFar
      BY <1>1, <1>2, <2>2 DEF InFlight, LandsSoFar, Lands
    <2> QED
      BY <2>1, <2>2
  <1>4. LandsSoFar => LandsSoFar'
    BY DEF LandsSoFar, Lands, Taken, CellOf, hostVars
  <1> QED
    BY <1>3, <1>4 DEF LandsInv, InFlight, hostVars

\* The target programs the block: what lies below it is left alone.
LEMMA LandsNext ==
  ASSUME TypeOK, NEW k \in Nat, k < region.size, region.size <= FlashLen,
         Lands(flash, region, k, session.image), UNCHANGED region,
         flash' = [flash EXCEPT ![CellOf(region.base + k)] = block]
  PROVE  Lands(flash', region', k + 1, Append(session.image, block))
  <1> DEFINE im == session.image
             n  == Len(im)
  <1>1. im \in Seq(Cell) /\ block \in Cell /\ n \in Nat /\ region.base \in Nat /\ region.size \in Nat
    BY DEF TypeOK, HostTypeOK, Session, Region
  <1>2. /\ Len(Append(im, block)) = n + 1
        /\ \A i \in 1 .. n : Append(im, block)[i] = im[i]
        /\ Append(im, block)[n + 1] = block
    BY <1>1
  <1>3. \A c \in Nat : CellOf(c) \in DOMAIN flash
    BY FlashLenAssumption DEF CellOf, TypeOK, TargetTypeOK, Cells
  <1>4. n <= k /\ (k = n => \A i \in 1 .. n : im[i] = flash[CellOf(region.base + i - 1)])
    BY DEF Lands
  <1> HIDE DEF im, n
  <1>5. ASSUME k = n, NEW i \in 1 .. n + 1
        PROVE  Append(im, block)[i] = flash'[CellOf(region.base + i - 1)]
    <2>1. CASE i = n + 1
      <3>1. region.base + i - 1 = region.base + k
        BY <1>1, <1>5, <2>1
      <3> QED
        BY <1>1, <1>2, <1>3, <2>1, <3>1
    <2>2. CASE i \in 1 .. n
      <3>1. /\ region.base + i - 1 \in Nat /\ region.base + k \in Nat
            /\ region.base + i - 1 < region.base + k
            /\ (region.base + k) - (region.base + i - 1) < FlashLen
        BY <1>1, <1>5, <2>2, FlashLenAssumption
      <3>2. CellOf(region.base + i - 1) # CellOf(region.base + k)
        BY <3>1, CellsApart
      <3>3. flash'[CellOf(region.base + i - 1)] = flash[CellOf(region.base + i - 1)]
        BY <1>3, <3>1, <3>2
      <3> QED
        BY <1>2, <1>4, <1>5, <2>2, <3>3
    <2>3. i = n + 1 \/ i \in 1 .. n
      BY <1>1, <1>5
    <2> QED
      BY <2>1, <2>2, <2>3
  <1> QED
    BY <1>1, <1>2, <1>4, <1>5 DEF Lands, im

LEMMA DataLands ==
  ASSUME MaxLate = 0, MaxSize <= FlashLen, TypeOK, SoundInv, WindowInv, LandsInv, ServeData
  PROVE  LandsInv'
  <1> DEFINE f == Head(toTarget)
  <1>1. /\ toTarget # <<>> /\ f \in Frame /\ f.cmd = call /\ toHost = <<>> /\ Tail(toTarget) = <<>>
        /\ call = "FLASH_DATA" /\ session.open /\ UNCHANGED <<hostVars, trouble>>
    BY Line DEF ServeData, Awake
  <1>2. WindowIsRegion /\ region.size \in Nat /\ region.base \in Nat /\ region.size <= MaxSize
        /\ region.size <= FlashLen
    BY <1>1, FlashLenAssumption, BoundsAssumption DEF WindowInv, TypeOK, HostTypeOK, Region, LandsInv
  <1>3. \A ok \in BOOLEAN : Respond(ok, <<>>) =>
          toTarget' = <<>> /\ toHost' # <<>> /\ Head(toHost').ok = ok /\ call' = call
    BY <1>1 DEF Respond, Reply
  <1>4. CASE /\ Placeable(f)
             /\ flash' = [flash EXCEPT ![CellOf(target.base + Slot(f))] = f.block]
             /\ target' = [target EXCEPT !.received = @ + 1]
             /\ Respond(TRUE, <<>>)
    <2> SUFFICES ASSUME trouble # "garble" PROVE InFlight'
      BY <1>1, <1>2, <1>3, <1>4 DEF LandsInv, hostVars
    <2>1. f.block = block /\ f.seq + 1 = seq /\ Lands(flash, region, Slot(f), session.image)
      BY <1>1 DEF LandsInv, InFlight
    <2>2. Slot(f) \in Nat /\ Slot(f) < region.size
      BY <1>1, <1>2, <1>4, SlotType DEF Placeable, WindowIsRegion
    <2>3. Lands(flash', region', Slot(f) + 1, Append(session.image, block))
      BY <1>1, <1>2, <1>4, <2>1, <2>2, LandsNext DEF WindowIsRegion, hostVars
    <2>4. Taken' = Slot(f) + 1
      BY <1>1, <1>4, <2>1 DEF Taken, Slot, TypeOK, TargetTypeOK, TargetState, hostVars
    <2>5. Taken' <= region'.size
      BY <1>1, <1>2, <2>2, <2>4 DEF hostVars
    <2>6. UNCHANGED <<session, block>> /\ toTarget' = <<>> /\ toHost' # <<>> /\ Head(toHost').ok
      BY <1>1, <1>3, <1>4 DEF hostVars
    <2> QED
      BY <2>3, <2>4, <2>5, <2>6 DEF InFlight
  <1>5. CASE Respond(FALSE, <<>>) /\ UNCHANGED targetVars
    BY <1>1, <1>3, <1>5, LandsGone DEF targetVars
  <1> QED
    BY <1>4, <1>5 DEF ServeData

LEMMA LandsStep ==
  ASSUME MaxLate = 0, MaxSize <= FlashLen, TypeOK, SoundInv, WindowInv, LandsInv, [Next]_vars
  PROVE  LandsInv'
  <1>a. session \in Session /\ target \in TargetState /\ region.size <= MaxSize
    BY DEF TypeOK, HostTypeOK, TargetTypeOK, LandsInv
  <1>b. \A res, open, inbound : Finish(res, open, inbound) =>
          session'.image = session.image /\ session'.open = open /\ call' = NoCall
    BY <1>a DEF Finish, Return, Session
  <1>c. Disturb => (trouble' # "garble" => trouble # "garble")
    BY DEF Disturb
  <1>1. ASSUME NEW base \in 0 .. MaxBase, NEW size \in 0 .. MaxSize, FlashStart(base, size)
        PROVE  LandsInv'
    BY <1>1, BoundsAssumption, LandsClosed DEF FlashStart
  <1>2. ASSUME NEW b \in Blocks, FlashWrite(b) PROVE LandsInv'
    <2>1. toTarget = <<>> /\ toHost = <<>> /\ SendBlock(block', <<>>)
      BY <1>2, Line DEF FlashWrite
    <2>2. LandsSoFar \/ trouble = "garble"
      BY <1>2 DEF FlashWrite, LandsInv, Idle, NoCall
    <2> QED
      BY <1>2, <2>1, <2>2, LandsSent DEF FlashWrite, targetVars
  <1>3. CASE FlashVerify
    BY <1>3, LandsSame, FrameFields DEF FlashVerify, Complete, Send, Idle, NoCall, targetVars
  <1>4. ASSUME NEW reboot \in BOOLEAN, FlashFinish(reboot) PROVE LandsInv'
    <2>1. [Plain("FLASH_END") EXCEPT !.stay = ~reboot].cmd = "FLASH_END"
      BY DEF Plain
    <2> QED
      BY <1>4, <2>1, LandsSame DEF FlashFinish, Complete, Send, Idle, NoCall, targetVars
  <1>5. CASE Reconnect
    BY <1>5, <1>a, LandsClosed DEF Reconnect
  <1>6. CASE Host
    <2>1. CASE SizeDetected \/ SizeNotDetected \/ ParamsSet
      <3>1. ~session.open
        BY <2>1, Line DEF SizeDetected, SizeNotDetected, ParamsSet, Opening
      <3>2. ~session'.open /\ UNCHANGED region
        BY <1>b, <2>1, <3>1 DEF SizeDetected, SizeNotDetected, ParamsSet
      <3> QED
        BY <1>a, <3>2, LandsClosed
    <2>2. CASE Begun
      <3>1. seq = 0 /\ target.received = 0 /\ session.image = <<>>
        BY <2>2, Line DEF Begun, Accepted, Answered, WindowInv, Opening
      <3>2. UNCHANGED <<flash, region, seq, target>> /\ session'.image = <<>> /\ call' = NoCall
        BY <1>b, <2>2, <3>1 DEF Begun, targetVars
      <3>3. Taken' = 0 /\ 0 <= region.size
        BY <3>1, <3>2 DEF Taken, TypeOK, HostTypeOK, Region
      <3>4. Lands(flash', region', 0, <<>>)
        BY DEF Lands
      <3> QED
        BY <1>a, <3>2, <3>3, <3>4 DEF LandsInv, LandsSoFar, NoCall
    <2>3. CASE BlockWritten
      <3>1. call = "FLASH_DATA" /\ toTarget = <<>> /\ toHost # <<>> /\ Head(toHost).ok /\ call' = NoCall
        BY <2>3, Line DEF BlockWritten, Accepted, Answered, Return
      <3>2. /\ session' = [session EXCEPT !.image = Append(@, block)]
            /\ UNCHANGED <<flash, target, region, seq, trouble>>
        BY <2>3 DEF BlockWritten, targetVars
      <3>3. session.open /\ trouble # "garble" =>
              Lands(flash, region, Taken, Append(session.image, block)) /\ Taken <= region.size
        BY <3>1 DEF LandsInv, InFlight
      <3>4. session'.open = session.open /\ session'.image = Append(session.image, block)
        BY <1>a, <3>2 DEF Session
      <3>5. session.open /\ trouble # "garble" => LandsSoFar' /\ Taken' <= region'.size
        BY <3>2, <3>3, <3>4 DEF LandsSoFar, Lands, Taken, CellOf
      <3> QED
        BY <1>a, <3>1, <3>2, <3>4, <3>5 DEF LandsInv, NoCall
    <2>4. CASE RetryBlock
      <3>1. /\ call = "FLASH_DATA" /\ toTarget = <<>> /\ SendBlock(block', <<>>)
            /\ ~(toHost # <<>> /\ Head(toHost).ok) /\ session.open
        BY <2>4, Line DEF RetryBlock, Refused
      <3>2. LandsSoFar \/ trouble = "garble"
        BY <3>1 DEF LandsInv, InFlight
      <3> QED
        BY <1>c, <2>4, <3>1, <3>2, LandsSent DEF RetryBlock, targetVars
    <2>5. CASE Verified \/ VerifyFails
      <3>1. /\ \E res, inbound : Finish(res, TRUE, inbound)
            /\ call = "SPI_FLASH_MD5" /\ UNCHANGED <<flash, region, seq, target>>
            /\ trouble' # "garble" => trouble # "garble"
        BY <1>c, <2>5 DEF Verified, VerifyFails, targetVars
      <3>2. session'.image = session.image /\ call' = NoCall /\ session.open
        BY <1>b, <3>1, Line
      <3> QED
        BY <3>1, <3>2, LandsSame DEF NoCall
    <2>6. CASE Finished \/ CallFails
      <3>1. (\E res, inbound : Finish(res, FALSE, inbound)) /\ UNCHANGED region
        BY <2>6 DEF Finished, CallFails
      <3> QED
        BY <1>a, <1>b, <3>1, LandsClosed
    <2>7. CASE SkipAnswer
      BY <2>7, Line DEF SkipAnswer
    <2> QED
      BY <1>6, <2>1, <2>2, <2>3, <2>4, <2>5, <2>6, <2>7 DEF Host
  <1>7. CASE Target \/ Noise
    <2>1. CASE ServeData
      BY <2>1, DataLands
    <2>2. CASE ServeBegin
      <3>1. ~session.open /\ UNCHANGED hostVars
        BY <2>2, Line DEF ServeBegin, Awake, Opening
      <3> QED
        BY <1>a, <3>1, LandsClosed DEF hostVars
    <2>3. CASE ServeMd5 \/ ServeEnd \/ ServeSetup
      <3>1. /\ call # "FLASH_DATA" /\ UNCHANGED <<call, hostVars, flash, trouble>>
            /\ target'.policy = target.policy /\ target'.received = target.received
        BY <1>a, <2>3, Line DEF ServeMd5, ServeEnd, ServeSetup, Awake, Respond, Reply, targetVars, TargetState
      <3>2. CASE session.open
        BY <3>1, <3>2, LandsSame DEF hostVars
      <3>3. CASE ~session.open
        BY <1>a, <3>1, <3>3, LandsClosed DEF hostVars
      <3> QED
        BY <3>2, <3>3
    <2>4. CASE Garble
      <3>1. trouble' = "garble" /\ UNCHANGED hostVars
        BY <2>4 DEF Garble
      <3> QED
        BY <1>a, <3>1 DEF LandsInv, hostVars
    <2>5. CASE Refuse \/ Lose \/ Ignore
      <3>1. UNCHANGED <<call, hostVars, targetVars>> /\ (trouble' # "garble" => trouble # "garble")
        BY <1>c, <2>5 DEF Refuse, Lose, LoseCommand, LoseAnswer, Ignore, Respond, Reply
      <3>2. toTarget' = <<>> /\ (toHost' # <<>> => ~Head(toHost').ok)
        BY <2>5, Line DEF Refuse, Lose, LoseCommand, LoseAnswer, Ignore, Respond, Reply, Awake
      <3>3. CASE call = "FLASH_DATA"
        BY <3>1, <3>2, <3>3, LandsGone, Line DEF targetVars
      <3>4. CASE call # "FLASH_DATA" /\ session.open
        BY <3>1, <3>4, LandsSame DEF targetVars, hostVars
      <3>5. CASE ~session.open
        BY <1>a, <3>1, <3>5, LandsClosed DEF hostVars
      <3> QED
        BY <3>3, <3>4, <3>5
    <2> QED
      BY <1>7, <2>1, <2>2, <2>3, <2>4, <2>5 DEF Target, Noise
  <1>8. CASE UNCHANGED vars
    BY <1>8 DEF vars, linkVars, hostVars, targetVars, LandsInv, InFlight, LandsSoFar, Lands, Taken, Slot, CellOf
  <1> QED
    BY <1>1, <1>2, <1>3, <1>4, <1>5, <1>6, <1>7, <1>8 DEF Next, Client

\* Unless a block was garbled, a complete image of which flash_write has
\* returned SUCCESS for every block is in the flash, whatever was lost or
\* refused on the way and however the target places a retried block.  The
\* image is no longer than the flash.
THEOREM AckedImageLands ==
  ASSUME MaxLate = 0, MaxSize <= FlashLen
  PROVE  Spec => []AckedImageIsInFlash
  <1>1. Init => LandsInv
    BY BoundsAssumption DEF Init, LandsInv
  <1>2. TypeOK /\ SoundInv /\ WindowInv /\ LandsInv /\ [Next]_vars => LandsInv'
    BY LandsStep
  <1>3. TypeOK /\ LandsInv => AckedImageIsInFlash
    <2> SUFFICES ASSUME TypeOK, LandsInv, trouble # "garble", Complete, Idle
                 PROVE  Contents(flash, region) = session.image
      BY DEF AckedImageIsInFlash
    <2>1. session.image \in Seq(Cell) /\ Len(session.image) = region.size /\ Taken \in Nat
      BY DEF TypeOK, HostTypeOK, Session, TargetTypeOK, TargetState, Taken, Complete
    <2>2. LandsSoFar /\ Taken <= region.size
      BY DEF LandsInv, Complete, Idle, NoCall
    <2>3. \A i \in 1 .. region.size : session.image[i] = flash[CellOf(region.base + i - 1)]
      BY <2>1, <2>2 DEF LandsSoFar, Lands
    <2> QED
      BY <2>1, <2>3 DEF Contents
  <1> QED
    BY <1>1, <1>2, <1>3, TypeCorrect, SoundInvariant, WindowInvariant, PTL DEF Spec
=============================================================================
