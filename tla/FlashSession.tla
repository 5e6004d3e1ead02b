---------------------------- MODULE FlashSession ----------------------------
(***************************************************************************)
(* Writing an image to the target's flash: esp_loader_flash_start, _write, *)
(* _finish and _verify (esp_loader.c) with the commands they send          *)
(* (protocol_common.c) over the line of CommandLink.                       *)
(*                                                                         *)
(* One cell of the flash holds one block of block_size bytes, and one      *)
(* block is a model value; padding and byte counts are those of            *)
(* FlashImage.  The MD5 context is the sequence of blocks it was fed,      *)
(* an injective stand-in for the digest.  The client keeps to the header:  *)
(* it writes only after a successful start, gives up the session when a    *)
(* call fails, as flash_binary does, and verifies a complete image.        *)
(***************************************************************************)
EXTENDS CommandLink

CONSTANTS
  Blocks,    \* block contents
  Erased,    \* what an erased cell holds
  FlashLen,  \* cells of the flash chip
  MaxBase,   \* bound on the first cell of an image
  MaxSize,   \* bound on the cells of an image
  Retries,   \* SERIAL_FLASHER_WRITE_BLOCK_RETRIES
  Policies   \* how the target may place a block, see PolicyKinds

PolicyKinds == {"append", "positional", "strict"}

ASSUME BlocksAssumption   == Erased \notin Blocks
ASSUME FlashLenAssumption == FlashLen \in Nat \ {0}
ASSUME BoundsAssumption   == MaxBase \in Nat /\ MaxSize \in Nat
ASSUME RetriesAssumption  == Retries \in Nat \ {0}
ASSUME PoliciesAssumption == Policies \subseteq PolicyKinds

VARIABLES
  seq,       \* s_sequence_number
  flashSize, \* s_target_flash_size, 0 when not known
  md5,       \* s_start_address, s_image_size, s_md5_context
  region,    \* the arguments offset and image_size of the open flash_start
  block,     \* the payload of the open flash_write
  attempt,   \* its attempt
  digest,    \* raw_md5 of the open flash_verify
  result,    \* what the last call of the interface returned
  session,   \* the client: is a session open, which blocks were written
  flash,     \* the target: contents of the flash chip
  target,    \* the target: mode, flashing window, blocks received
  trouble    \* history: what went wrong since flash_begin, see Troubles

hostVars   == <<seq, flashSize, md5, region, block, attempt, digest, result, session>>
targetVars == <<flash, target>>
vars       == <<linkVars, hostVars, targetVars, trouble>>

Cell  == Blocks \cup {Erased}
Cells == 0 .. FlashLen - 1

CommandCodes ==
  {"READ_ID", "SPI_SET_PARAMS", "FLASH_BEGIN", "FLASH_DATA", "FLASH_END", "SPI_FLASH_MD5"}

Frame  == [cmd : CommandCodes, base : Nat, size : Nat, seq : Nat, block : Cell,
           stay : BOOLEAN]
Answer == [cmd : CommandCodes, ok : BOOLEAN, content : Seq(Cell)]

Plain(cmd) == [cmd |-> cmd, base |-> 0, size |-> 0, seq |-> 0, block |-> Erased,
                       stay |-> TRUE]
OnRegion(cmd, r) == [Plain(cmd) EXCEPT !.base = r.base, !.size = r.size]
DataFrame(n, b) == [Plain("FLASH_DATA") EXCEPT !.seq = n, !.block = b]

\* The chip decodes only as many address bits as it has.
CellOf(a) == a % FlashLen

\* What the chip returns for the cells of a region.
Contents(f, r) == [i \in 1 .. r.size |-> f[CellOf(r.base + i - 1)]]

Idle == call = NoCall

Complete == session.open /\ Len(session.image) = region.size

Init ==
  /\ LinkInit
  /\ seq = 0
  /\ flashSize = 0
  /\ md5 = [base |-> 0, size |-> 0, live |-> FALSE, data |-> <<>>]
  /\ region = [base |-> 0, size |-> 0]
  /\ block = Erased
  /\ attempt = 0
  /\ digest = [live |-> FALSE, data |-> <<>>]
  /\ result = "SUCCESS"
  /\ session = [open |-> FALSE, image |-> <<>>]
  /\ flash \in [Cells -> Cell]
  /\ target \in [mode : {"loader"}, policy : Policies, base : {0}, size : {0}, received : {0}]
  /\ trouble = "loss"

-----------------------------------------------------------------------------
(* Commands and helpers of the host. *)

Mut_Accepted == Answered
Accepted == Answered /\ Head(toHost).ok
Refused  == Answered /\ ~Head(toHost).ok

\* init_md5
Mut_FreshMd5(r) == [base |-> r.base, size |-> r.size, live |-> TRUE, data |-> md5.data]
FreshMd5(r) == [base |-> r.base, size |-> r.size, live |-> TRUE, data |-> <<>>]

\* md5_update: feeding a context MD5Final has cleared leaves it worthless.
Feed(m, b) == IF m.live THEN [m EXCEPT !.data = Append(@, b)] ELSE m

\* MD5Final clears the context it has read (memset in md5_hash.c).
Finalized(m) == [base |-> m.base, size |-> m.size, live |-> FALSE, data |-> <<>>]

\* What esp_loader_flash_verify makes of the answer to SPI_FLASH_MD5.
Mut_FirstBlockVerdict(received) ==
  IF digest.live /\ (received = <<>> \/ Head(received) = Head(digest.data))
  THEN "VERIFIED" ELSE "INVALID_MD5"
Mut_ClearedVerdict(received) ==
  IF ~digest.live \/ received = digest.data THEN "VERIFIED" ELSE "INVALID_MD5"
Verdict(received) ==
  IF digest.live /\ received = digest.data THEN "VERIFIED" ELSE "INVALID_MD5"

Troubles == {"none", "loss", "garble"}

Disturb == trouble' = IF trouble = "garble" THEN trouble ELSE "loss"

NoteBegin(inbound) ==
  trouble' = IF toTarget = <<>> /\ inbound = <<>> /\ target.mode = "loader" THEN "none" ELSE "loss"

\* The second half of esp_loader_flash_start, with loader_flash_begin_cmd.
BeginFlash(r, inbound) ==
  /\ md5' = FreshMd5(r)
  /\ seq' = 0
  /\ Send(OnRegion("FLASH_BEGIN", r), inbound)
  /\ NoteBegin(inbound)

\* loader_flash_data_cmd: every transmission takes a fresh sequence number.
SendBlock(b, inbound) ==
  /\ Send(DataFrame(seq, b), inbound)
  /\ seq' = seq + 1

\* The condition of the do-while loop of esp_loader_flash_write.
Mut_MayRetry == attempt <= Retries
MayRetry == attempt < Retries

\* A call of the interface returns and its locals are gone; session' says
\* whether the client goes on.
Finish(res, open, inbound) ==
  /\ Return(inbound)
  /\ result' = res
  /\ session' = [session EXCEPT !.open = open]
  /\ block' = Erased
  /\ attempt' = 0

-----------------------------------------------------------------------------
(* esp_loader_flash_start *)

\* Detecting the size is one exchange here (esp_loader_flash_detect_size is
\* that of SpiFlashCommand); a known size skips detection and the check.
FlashStart(base, size) ==
  LET r == [base |-> base, size |-> size] IN
  /\ Idle
  /\ region' = r
  /\ session' = [open |-> FALSE, image |-> <<>>]
  /\ result' = "PENDING"
  /\ \/ /\ flashSize = 0
        /\ Send(Plain("READ_ID"), toHost)
        /\ UNCHANGED <<md5, seq, trouble>>
     \/ /\ flashSize # 0
        /\ BeginFlash(r, toHost)
  /\ UNCHANGED <<flashSize, block, attempt, digest, targetVars>>

SizeDetected ==
  /\ call = "READ_ID"
  /\ Accepted
  /\ flashSize' = FlashLen
  /\ \/ /\ region.size + region.base > FlashLen
        /\ Finish("IMAGE_SIZE", FALSE, Tail(toHost))
     \/ /\ region.size + region.base <= FlashLen
        /\ Send(Plain("SPI_SET_PARAMS"), Tail(toHost))
        /\ UNCHANGED <<result, session, block, attempt>>
  /\ UNCHANGED <<seq, md5, region, digest, targetVars, trouble>>

\* "Flash size detection failed, falling back to default"
SizeNotDetected ==
  /\ call = "READ_ID"
  /\ \/ Refused /\ BeginFlash(region, Tail(toHost))
     \/ Expired /\ BeginFlash(region, toHost)
  /\ UNCHANGED <<flashSize, region, block, attempt, digest, result, session, targetVars>>

ParamsSet ==
  /\ call = "SPI_SET_PARAMS"
  /\ Accepted
  /\ BeginFlash(region, Tail(toHost))
  /\ UNCHANGED <<flashSize, region, block, attempt, digest, result, session, targetVars>>

Begun ==
  /\ call = "FLASH_BEGIN"
  /\ Accepted
  /\ Finish("SUCCESS", TRUE, Tail(toHost))
  /\ UNCHANGED <<seq, flashSize, md5, region, digest, targetVars, trouble>>

-----------------------------------------------------------------------------
(* esp_loader_flash_write *)

FlashWrite(b) ==
  /\ Idle
  /\ session.open
  /\ Len(session.image) < region.size
  /\ block' = b
  /\ attempt' = 1
  /\ md5' = Feed(md5, b)
  /\ SendBlock(b, toHost)
  /\ result' = "PENDING"
  /\ UNCHANGED <<flashSize, region, digest, session, targetVars, trouble>>

BlockWritten ==
  /\ call = "FLASH_DATA"
  /\ Accepted
  /\ Return(Tail(toHost))
  /\ result' = "SUCCESS"
  /\ session' = [session EXCEPT !.image = Append(@, block)]
  /\ block' = Erased
  /\ attempt' = 0
  /\ UNCHANGED <<seq, flashSize, md5, region, digest, targetVars, trouble>>

RetryBlock ==
  /\ call = "FLASH_DATA"
  /\ MayRetry
  /\ \/ Refused /\ SendBlock(block, Tail(toHost))
     \/ Expired /\ SendBlock(block, toHost)
  /\ attempt' = attempt + 1
  /\ Disturb
  /\ UNCHANGED <<flashSize, md5, region, block, digest, result, session, targetVars>>

-----------------------------------------------------------------------------
(* esp_loader_flash_verify and esp_loader_flash_finish *)

FlashVerify ==
  /\ Idle
  /\ Complete
  /\ digest' = [live |-> md5.live, data |-> md5.data]
  /\ md5' = Finalized(md5)
  /\ Send(OnRegion("SPI_FLASH_MD5", md5), toHost)
  /\ result' = "PENDING"
  /\ UNCHANGED <<seq, flashSize, region, block, attempt, session, targetVars, trouble>>

Verified ==
  /\ call = "SPI_FLASH_MD5"
  /\ Accepted
  /\ Finish(Verdict(Head(toHost).content), TRUE, Tail(toHost))
  /\ UNCHANGED <<seq, flashSize, md5, region, digest, targetVars, trouble>>

\* A failed md5 command leaves the session as it was: the client may verify again.
VerifyFails ==
  /\ call = "SPI_FLASH_MD5"
  /\ \/ Refused /\ Finish("INVALID_RESPONSE", TRUE, Tail(toHost))
     \/ Expired /\ Finish("TIMEOUT", TRUE, toHost)
  /\ Disturb
  /\ UNCHANGED <<seq, flashSize, md5, region, digest, targetVars>>

FlashFinish(reboot) ==
  /\ Idle
  /\ Complete
  /\ Send([Plain("FLASH_END") EXCEPT !.stay = ~reboot], toHost)
  /\ result' = "PENDING"
  /\ UNCHANGED <<seq, flashSize, md5, region, block, attempt, digest, session, targetVars, trouble>>

Finished ==
  /\ call = "FLASH_END"
  /\ Accepted
  /\ Finish("SUCCESS", FALSE, Tail(toHost))
  /\ UNCHANGED <<seq, flashSize, md5, region, digest, targetVars, trouble>>

\* The failure of any other command is the failure of the call; a block
\* fails with its last attempt.
CallFails ==
  /\ \/ call \in {"SPI_SET_PARAMS", "FLASH_BEGIN", "FLASH_END"}
     \/ call = "FLASH_DATA" /\ ~MayRetry
  /\ \/ Refused /\ Finish("INVALID_RESPONSE", FALSE, Tail(toHost))
     \/ Expired /\ Finish("TIMEOUT", FALSE, toHost)
  /\ Disturb
  /\ UNCHANGED <<seq, flashSize, md5, region, digest, targetVars>>

\* esp_loader_connect resets the target; the synchronisation that follows
\* (Connection) reads past whatever the line still held.
Reconnect ==
  /\ Idle
  /\ toTarget' = <<>>
  /\ toHost' = <<>>
  /\ flashSize' = 0
  /\ session' = [open |-> FALSE, image |-> <<>>]
  /\ result' = "SUCCESS"
  /\ target' = [target EXCEPT !.mode = "loader", !.size = 0]
  /\ Disturb
  /\ UNCHANGED <<call, seq, md5, region, block, attempt, digest, flash>>

-----------------------------------------------------------------------------
(* The target (external): it handles commands in order, one at a time. *)

Awake(cmds) == toTarget # <<>> /\ target.mode = "loader" /\ Head(toTarget).cmd \in cmds

Respond(ok, content) == Reply([cmd |-> Head(toTarget).cmd, ok |-> ok, content |-> content])

ServeBegin ==
  /\ Awake({"FLASH_BEGIN"})
  /\ LET f == Head(toTarget)
         erasedCells == {CellOf(f.base + i - 1) : i \in 1 .. f.size}
     IN  /\ flash' = [c \in Cells |-> IF c \in erasedCells THEN Erased ELSE flash[c]]
         /\ target' = [target EXCEPT !.base = f.base, !.size = f.size, !.received = 0]
  /\ Respond(TRUE, <<>>)
  /\ UNCHANGED <<hostVars, trouble>>

\* The block of the window a data frame goes to.
Slot(f) == IF target.policy = "positional" THEN f.seq ELSE target.received

Placeable(f) ==
  /\ Slot(f) < target.size
  /\ target.policy = "strict" => f.seq = target.received

ServeData ==
  /\ Awake({"FLASH_DATA"})
  /\ LET f == Head(toTarget) IN
     \/ /\ Placeable(f)
        /\ flash' = [flash EXCEPT ![CellOf(target.base + Slot(f))] = f.block]
        /\ target' = [target EXCEPT !.received = @ + 1]
        /\ Respond(TRUE, <<>>)
     \/ /\ ~Placeable(f)
        /\ Respond(FALSE, <<>>)
        /\ UNCHANGED targetVars
  /\ UNCHANGED <<hostVars, trouble>>

ServeMd5 ==
  /\ Awake({"SPI_FLASH_MD5"})
  /\ Respond(TRUE, Contents(flash, Head(toTarget)))
  /\ UNCHANGED <<hostVars, targetVars, trouble>>

ServeEnd ==
  /\ Awake({"FLASH_END"})
  /\ Respond(TRUE, <<>>)
  /\ target' = [target EXCEPT !.mode = IF Head(toTarget).stay THEN "loader" ELSE "app"]
  /\ UNCHANGED <<hostVars, flash, trouble>>

ServeSetup ==
  /\ Awake({"READ_ID", "SPI_SET_PARAMS"})
  /\ Respond(TRUE, <<>>)
  /\ UNCHANGED <<hostVars, targetVars, trouble>>

\* The application the target was rebooted into reads no commands.
Ignore ==
  /\ target.mode = "app"
  /\ toTarget # <<>>
  /\ toTarget' = Tail(toTarget)
  /\ UNCHANGED <<toHost, call, hostVars, targetVars, trouble>>

\* A wrong checksum, an unknown flash id, a failed erase or program.
Refuse ==
  /\ "refuse" \in Faults
  /\ Awake(CommandCodes)
  /\ Respond(FALSE, <<>>)
  /\ Disturb
  /\ UNCHANGED <<hostVars, targetVars>>

\* Line noise that the one-byte XOR checksum does not show.
Garble ==
  /\ "garble" \in Faults
  /\ Awake({"FLASH_DATA"})
  /\ \E b \in Blocks :
       toTarget' = [toTarget EXCEPT ![1].block = b]
  /\ trouble' = "garble"
  /\ UNCHANGED <<toHost, call, hostVars, targetVars>>

Lose ==
  /\ LoseCommand \/ LoseAnswer
  /\ Disturb
  /\ UNCHANGED <<hostVars, targetVars>>

-----------------------------------------------------------------------------
Client ==
  \/ \E base \in 0 .. MaxBase, size \in 0 .. MaxSize : FlashStart(base, size)
  \/ \E b \in Blocks : FlashWrite(b)
  \/ FlashVerify
  \/ \E reboot \in BOOLEAN : FlashFinish(reboot)
  \/ Reconnect

SkipAnswer == Skip /\ UNCHANGED <<hostVars, targetVars, trouble>>

Host ==
  \/ SizeDetected \/ SizeNotDetected \/ ParamsSet \/ Begun
  \/ BlockWritten \/ RetryBlock
  \/ Verified \/ VerifyFails \/ Finished \/ CallFails
  \/ SkipAnswer

Target == ServeBegin \/ ServeData \/ ServeMd5 \/ ServeEnd \/ ServeSetup \/ Ignore

Noise == Refuse \/ Garble \/ Lose

Next == Client \/ Host \/ Target \/ Noise

\* The host's loops run on, its timer runs out, and the target answers what
\* it has received; no fairness on the client, nor on noise.
Spec == Init /\ [][Next]_vars /\ WF_vars(Host) /\ WF_vars(Target)

-----------------------------------------------------------------------------
(* Properties *)

Results == {"PENDING", "SUCCESS", "VERIFIED", "IMAGE_SIZE", "INVALID_MD5",
            "INVALID_RESPONSE", "TIMEOUT"}

Region == [base : Nat, size : Nat]

Md5Context == [base : Nat, size : Nat, live : BOOLEAN, data : Seq(Cell)]
Digest     == [live : BOOLEAN, data : Seq(Cell)]
Session    == [open : BOOLEAN, image : Seq(Cell)]
TargetState ==
  [mode : {"loader", "app"}, policy : PolicyKinds, base : Nat, size : Nat, received : Nat]

LinkTypeOK ==
  /\ toTarget \in Seq(Frame)
  /\ toHost \in Seq(Answer)
  /\ call \in CommandCodes \cup {NoCall}

HostTypeOK ==
  /\ seq \in Nat
  /\ flashSize \in {0, FlashLen}
  /\ md5 \in Md5Context
  /\ region \in Region
  /\ block \in Cell
  /\ attempt \in 0 .. Retries
  /\ digest \in Digest
  /\ result \in Results
  /\ session \in Session
  /\ trouble \in Troubles

TargetTypeOK ==
  /\ flash \in [Cells -> Cell]
  /\ target \in TargetState

\* Type invariant; an attempt is never counted beyond the configured retries.
TypeOK == LinkTypeOK /\ HostTypeOK /\ TargetTypeOK

\* When esp_loader_flash_verify has returned SUCCESS, the region of the chip
\* holds exactly the blocks the client has written since flash_start, however
\* many commands and answers were lost, refused or garbled on the way.
VerifySound == result = "VERIFIED" => Contents(flash, region) = session.image

\* With MaxLate = 0 the line holds at most one frame, and it belongs to the
\* call that is open; so no answer is ever taken for another call's.
OneFrame ==
  /\ Idle => toTarget = <<>> /\ toHost = <<>>
  /\ ~Idle => \/ toTarget = <<>> /\ toHost = <<>>
              \/ Len(toTarget) = 1 /\ Head(toTarget).cmd = call /\ toHost = <<>>
              \/ toTarget = <<>> /\ Len(toHost) = 1 /\ Head(toHost).cmd = call

Opening == {"READ_ID", "SPI_SET_PARAMS", "FLASH_BEGIN"}

SameRegion(r) == r.base = region.base /\ r.size = region.size

\* The MD5 context has been fed exactly the blocks of the client's image.
Md5FollowsImage ==
  /\ call \in Opening => ~session.open /\ session.image = <<>>
  /\ call = "FLASH_BEGIN" => SameRegion(md5) /\ md5.data = <<>>
  /\ session.open => SameRegion(md5)
  /\ session.open /\ Idle /\ md5.live => md5.data = session.image
  /\ call = "FLASH_DATA" =>
       session.open /\ (md5.live => md5.data = Append(session.image, block))
  /\ call = "SPI_FLASH_MD5" =>
       session.open /\ ~md5.live /\ (digest.live => digest.data = session.image)

\* What answers flash_verify is the digest of the region as it is now.
Md5AnswerIsFresh ==
  call = "SPI_FLASH_MD5" =>
    /\ toTarget # <<>> => SameRegion(Head(toTarget))
    /\ toHost # <<>> /\ Head(toHost).ok => Head(toHost).content = Contents(flash, region)

\* The inductive invariant behind VerifySound.
SoundInv ==
  /\ OneFrame
  /\ Md5FollowsImage
  /\ Md5AnswerIsFresh
  /\ result = "VERIFIED" => Idle
  /\ VerifySound

\* The first flash_verify of a session reports a mismatch only when the flash
\* differs from the blocks that were written.
MismatchIsReal ==
  result = "INVALID_MD5" /\ digest.live => Contents(flash, region) # session.image

\* Every call of the interface returns, whatever the line loses.
CallsReturn == ~Idle ~> Idle

\* Unless a block is garbled, a complete image of which every flash_write
\* returned SUCCESS is in the flash: a retry that displaces the blocks after it
\* makes the target refuse the last of them (this rests on the target taking no
\* more blocks than flash_begin announced).
AckedImageIsInFlash ==
  trouble # "garble" /\ Complete /\ Idle => Contents(flash, region) = session.image

\* The session implements the abstract promise of FlashPromise when no frame
\* outlives its call.
Promise == INSTANCE FlashPromise WITH image <- session.image, verified <- (result = "VERIFIED")
KeepsPromise == Promise!Spec
=============================================================================
