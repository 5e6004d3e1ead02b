---------------------------- MODULE RamDownload -----------------------------
(***************************************************************************)
(* Loading programs into the target's RAM over the line of CommandLink:    *)
(* esp_loader_mem_start, _write and _finish (esp_loader.c) with the        *)
(* commands they send, and their two callers: loader_run_stub              *)
(* (protocol_uart.c) loads the software loader of StubImages,              *)
(* load_ram_binary (example_common.c) an application.                      *)
(*                                                                         *)
(* Addresses and sizes are in bytes and the stubs are the real ones.  A    *)
(* piece is what one esp_loader_mem_write carries: it knows the program    *)
(* it is of and the address it belongs to.  The RAM is the set of the      *)
(* pieces that lie there undamaged, each with the address it was put at.   *)
(* The client resets the target before it connects, and gives up when a    *)
(* call fails.  LoaderState has the other orders.                          *)
(***************************************************************************)
EXTENDS CommandLink, Commands, StubImages, FiniteSets

CONSTANTS
  Chips,      \* chips of StubImages
  Layouts,    \* where the application goes, see LayoutKinds
  RamBlock,   \* ESP_RAM_BLOCK
  Retries,    \* SERIAL_FLASHER_WRITE_BLOCK_RETRIES
  Policies,   \* how the target may place a block, see Slot
  MaxPrograms,\* bound on the connects and loads of a behaviour
  MaxFaults   \* bound on the faults of a behaviour

\* The application lies right below and above the first segment of the
\* resident stub, reaches over its last word, over the first word of the
\* second segment, or encloses the second segment.
LayoutKinds == {"beside", "over_first", "over_second", "around_second"}

ASSUME ChipsAssumption    == Chips \subseteq DOMAIN EspStub
ASSUME LayoutsAssumption  == Layouts \subseteq LayoutKinds
\* The length of a command is a uint16_t of its header, the block is part of it.
ASSUME RamBlockAssumption == RamBlock \in Nat /\ RamBlock > 8 /\ RamBlock < 65536
ASSUME RetriesAssumption  == Retries \in Nat \ {0}
ASSUME PoliciesAssumption == Policies \subseteq {"append", "positional", "strict"}
ASSUME BoundsAssumption   == MaxPrograms \in Nat /\ MaxFaults \in Nat

VARIABLES
  chip,       \* s_target
  seq,        \* s_sequence_number
  stubRunning,\* stub_running
  job,        \* the open loader_run_stub or load_ram_binary and its position
  attempt,    \* attempt of the open esp_loader_mem_write
  result,     \* what the last program to be loaded came to
  target,     \* the target: what runs, how it places blocks, the open window
  ram,        \* the target: pieces in its RAM
  app,        \* the layout of the application, fixed
  trouble,    \* history: see Troubles
  count       \* programs started and faults so far

hostVars   == <<chip, seq, stubRunning, job, attempt, result>>
targetVars == <<target, ram>>
vars       == <<linkVars, hostVars, targetVars, app, trouble, count>>

-----------------------------------------------------------------------------
(* Programs *)

\* Where a chip without a stub has RAM for an application.
Anchor(c) == IF HasStub(c) THEN EspStub[c].segments[1] ELSE Segment(1074790400, 0)

End(s) == s.addr + s.size

AppSegments(c) ==
  LET first  == Anchor(c)
      second == EspStub[c].segments[2]
      long   == 2 * RamBlock
  IN  CASE app = "beside" -> <<Segment(first.addr - long, long), Segment(End(first), 8)>>
        [] app = "over_first" -> <<Segment(End(first) - 4, 8)>>
        [] app = "over_second" -> <<Segment(first.addr - 8, 8), Segment(second.addr - 4, 8)>>
        [] app = "around_second" -> <<Segment(second.addr - 8, second.size + 16)>>

Segments(program) ==
  CASE program = "stub" -> EspStub[chip].segments
    [] program = "app"  -> AppSegments(chip)

Entry(program) == IF program = "stub" THEN EspStub[chip].entry ELSE AppSegments(chip)[1].addr

\* ROUNDUP(size, block_size)
BlockCount(size) == (size + RamBlock - 1) \div RamBlock

\* The i-th payload of a segment, from 0: MIN(ESP_RAM_BLOCK, remain_size) bytes.
Piece(program, s, i) ==
  LET left == s.size - i * RamBlock
  IN  [of |-> program, at |-> s.addr + i * RamBlock, size |-> IF left < RamBlock THEN left ELSE RamBlock]

Pieces(program) ==
  UNION {{Piece(program, s, i) : i \in 0 .. BlockCount(s.size) - 1} :
           s \in {Segments(program)[n] : n \in 1 .. Len(Segments(program))}}

\* Every byte of the program is where it belongs.
Whole(program) == \A p \in Pieces(program) : [at |-> p.at, piece |-> p] \in ram

Touches(from, to, start, stop) == from < stop /\ to > start

\* A piece put at an address destroys what lay there.
Overwritten(at, piece) ==
  {r \in ram : ~Touches(at, at + piece.size, r.at, r.at + r.piece.size)}
    \cup {[at |-> at, piece |-> piece]}

Idle == job.program = "none"
NoJob == [program |-> "none", seg |-> 1, sent |-> 0]

Troubles == {"none", "fault", "late"}

Init ==
  /\ LinkInit
  /\ chip \in Chips
  /\ seq = 0
  /\ stubRunning = FALSE
  /\ job = NoJob
  /\ attempt = 0
  /\ result = "NONE"
  /\ target \in [runs : {"app"}, policy : Policies, base : {0}, size : {0}, received : {0}]
  /\ ram = {}
  /\ app \in IF HasStub(chip) THEN Layouts ELSE Layouts \cap {"beside"}
  /\ trouble = "none"
  /\ count = [programs |-> 0, faults |-> 0]

-----------------------------------------------------------------------------
(* Commands and helpers of the host. *)

Accepted == Answered /\ Head(toHost).ok
Refused  == Answered /\ ~Head(toHost).ok

Plain(cmd) == [cmd |-> cmd, base |-> 0, size |-> 0, seq |-> 0, piece |-> {}, stay |-> FALSE]

Here == Segments(job.program)[job.seg]

\* Does the region overlap a segment of the resident stub?
Mut_OverStub(s) ==
  LET stub == EspStub[chip].segments[1] IN s.addr < End(stub) /\ End(s) > stub.addr
Mut_OverNeighbour(s) ==
  \E n \in 1 .. 2 : LET stub == EspStub[chip].segments[n]
                    IN  s.addr <= End(stub) /\ End(s) >= stub.addr
OverStub(s) ==
  \E n \in 1 .. 2 : LET stub == EspStub[chip].segments[n]
                    IN  s.addr < End(stub) /\ End(s) > stub.addr

\* The program is given up or done: every local of the loaders is gone.
Finish(res, inbound) ==
  /\ Return(inbound)
  /\ result' = res
  /\ job' = NoJob
  /\ attempt' = 0
  /\ UNCHANGED seq

\* esp_loader_mem_start of segment n of a program: refused, or MEM_BEGIN.
MemStart(program, n, inbound) ==
  LET s == Segments(program)[n] IN
  \/ /\ stubRunning /\ OverStub(s)
     /\ Finish("INVALID_PARAM", inbound)
  \/ /\ ~(stubRunning /\ OverStub(s))
     /\ Send([Plain("MEM_BEGIN") EXCEPT !.base = s.addr, !.size = s.size], inbound)
     /\ job' = [program |-> program, seg |-> n, sent |-> 0]
     /\ attempt' = 0
     /\ seq' = NextSequence("MEM_BEGIN", seq)
     /\ result' = "PENDING"

\* One transmission of loader_mem_data_cmd; a retry takes a fresh number too.
Transmit(n, inbound) ==
  /\ Send([Plain("MEM_DATA") EXCEPT !.seq = seq, !.piece = {Piece(job.program, Here, n)}], inbound)
  /\ seq' = NextSequence("MEM_DATA", seq)

\* The loops of the callers: the next payload, the next segment, or the end.
Continue(sent, inbound) ==
  \/ /\ sent < BlockCount(Here.size)
     /\ Transmit(sent, inbound)
     /\ job' = [job EXCEPT !.sent = sent]
     /\ attempt' = 0
     /\ UNCHANGED result
  \/ /\ sent = BlockCount(Here.size)
     /\ job.seg < Len(Segments(job.program))
     /\ MemStart(job.program, job.seg + 1, inbound)
  \/ /\ sent = BlockCount(Here.size)
     /\ job.seg = Len(Segments(job.program))
     /\ Send([Plain("MEM_END") EXCEPT !.base = Entry(job.program),
                                      !.stay = (Entry(job.program) = 0)], inbound)
     /\ job' = [job EXCEPT !.sent = sent]
     /\ UNCHANGED <<seq, attempt, result>>

\* A fault, and a call that gives up while its frames are under way.  A call
\* gives up on an empty line after a fault, or where the target says nothing.
NoteFault  == trouble' = IF trouble = "late" THEN trouble ELSE "fault"
NoteExpiry == trouble' = IF toTarget = <<>> /\ toHost = <<>> THEN trouble ELSE "late"

-----------------------------------------------------------------------------
(* The client *)

\* esp_loader_reset_target, then esp_loader_connect or _with_stub: what the
\* reset and the synchronisation (Connection) leave, and loader_run_stub.
Connect(withStub) ==
  /\ Idle
  /\ count.programs < MaxPrograms
  /\ count' = [count EXCEPT !.programs = @ + 1]
  /\ target' = [target EXCEPT !.runs = "rom", !.size = 0]
  /\ stubRunning' = FALSE
  /\ trouble' = "none"
  /\ call' = IF withStub THEN "MEM_BEGIN" ELSE NoCall
  /\ toHost' = <<>>
  /\ \/ /\ withStub
        /\ LET s == EspStub[chip].segments[1] IN
             toTarget' = <<[Plain("MEM_BEGIN") EXCEPT !.base = s.addr, !.size = s.size]>>
        /\ job' = [program |-> "stub", seg |-> 1, sent |-> 0]
        /\ seq' = NextSequence("MEM_BEGIN", seq)
        /\ result' = "PENDING"
     \/ /\ ~withStub
        /\ toTarget' = <<>>
        /\ result' = "CONNECTED"
        /\ UNCHANGED <<job, seq>>
  /\ UNCHANGED <<chip, attempt, ram, app>>

\* load_ram_binary by a client whose connect succeeded.
Load ==
  /\ Idle
  /\ count.programs < MaxPrograms
  /\ count' = [count EXCEPT !.programs = @ + 1]
  /\ result = "CONNECTED"
  /\ MemStart("app", 1, toHost)
  /\ UNCHANGED <<chip, stubRunning, targetVars, app, trouble>>

Begun ==
  /\ call = "MEM_BEGIN"
  /\ Accepted
  /\ Continue(0, Tail(toHost))
  /\ UNCHANGED <<chip, stubRunning, targetVars, app, trouble, count>>

BlockWritten ==
  /\ call = "MEM_DATA"
  /\ Accepted
  /\ Continue(job.sent + 1, Tail(toHost))
  /\ UNCHANGED <<chip, stubRunning, targetVars, app, trouble, count>>

\* The do-while loop of esp_loader_mem_write after a failed transmission.
Mut_SkipsBlock(inbound) ==
  /\ attempt + 1 < Retries
  /\ attempt' = 0
  /\ Continue(job.sent + 1, inbound)
Retry(inbound) ==
  /\ attempt + 1 < Retries
  /\ attempt' = attempt + 1
  /\ Transmit(job.sent, inbound)
  /\ UNCHANGED <<job, result>>

RetryBlock ==
  /\ call = "MEM_DATA"
  /\ \/ Refused /\ Retry(Tail(toHost)) /\ UNCHANGED trouble
     \/ Expired /\ Retry(toHost) /\ NoteExpiry
  /\ UNCHANGED <<chip, stubRunning, targetVars, app, count>>

\* MEM_END is answered: an application runs, a stub has yet to report.
Mut_Finished ==
  /\ call = "MEM_END"
  /\ Accepted
  /\ Finish(IF job.program = "app" THEN "LOADED" ELSE "CONNECTED", Tail(toHost))
  /\ stubRunning' = (stubRunning \/ job.program = "stub")
  /\ UNCHANGED <<chip, targetVars, app, trouble, count>>
Finished ==
  /\ call = "MEM_END"
  /\ Accepted
  /\ \/ job.program = "app" /\ Finish("LOADED", Tail(toHost))
     \/ /\ job.program = "stub"
        /\ call' = "OHAI"
        /\ toHost' = Tail(toHost)
        /\ UNCHANGED <<toTarget, seq, job, attempt, result>>
  /\ UNCHANGED <<chip, stubRunning, targetVars, app, trouble, count>>

\* The next frame, whatever it is, is taken for the report of the stub.
Greeted ==
  /\ call = "OHAI"
  /\ toHost # <<>>
  /\ LET ohai == Head(toHost).cmd = "OHAI" IN
     /\ Finish(IF ohai THEN "CONNECTED" ELSE "INVALID_RESPONSE", Tail(toHost))
     /\ stubRunning' = (stubRunning \/ ohai)
  /\ UNCHANGED <<chip, targetVars, app, trouble, count>>

\* Every other failure, and that of the last attempt, ends the program.
CallFails ==
  /\ call = "MEM_DATA" => attempt + 1 >= Retries
  /\ \/ Refused /\ Finish("INVALID_RESPONSE", Tail(toHost)) /\ UNCHANGED trouble
     \/ Expired /\ Finish("TIMEOUT", toHost) /\ NoteExpiry
  /\ UNCHANGED <<chip, stubRunning, targetVars, app, count>>

SkipAnswer ==
  /\ call # "OHAI"
  /\ Skip
  /\ UNCHANGED <<hostVars, targetVars, app, trouble, count>>

-----------------------------------------------------------------------------
(* The target (external): the ROM or the resident stub handles commands in *)
(* order.                                                                  *)

Awake(cmds) ==
  /\ toTarget # <<>>
  /\ target.runs \in {"rom", "stub"}
  /\ Head(toTarget).cmd \in cmds

Respond(ok) == Reply([cmd |-> Head(toTarget).cmd, ok |-> ok])

ServeBegin ==
  /\ Awake({"MEM_BEGIN"})
  /\ LET f == Head(toTarget)
     IN  target' = [target EXCEPT !.base = f.base, !.size = f.size, !.received = 0]
  /\ Respond(TRUE)
  /\ UNCHANGED <<hostVars, ram, app, trouble, count>>

\* The block of the window a data frame goes to.
Slot(f) == IF target.policy = "positional" THEN f.seq ELSE target.received

Placeable(f, piece) ==
  /\ Slot(f) * RamBlock + piece.size <= target.size
  /\ target.policy = "strict" => f.seq = target.received

ServeData ==
  /\ Awake({"MEM_DATA"})
  /\ LET f == Head(toTarget) IN
     \E piece \in f.piece :
       \/ /\ Placeable(f, piece)
          /\ ram' = Overwritten(target.base + Slot(f) * RamBlock, piece)
          /\ target' = [target EXCEPT !.received = @ + 1]
          /\ Respond(TRUE)
       \/ /\ ~Placeable(f, piece)
          /\ Respond(FALSE)
          /\ UNCHANGED targetVars
  /\ UNCHANGED <<hostVars, app, trouble, count>>

\* It answers and jumps.  A program with a hole in it runs astray; the stub
\* reports itself.
ServeEnd ==
  /\ Awake({"MEM_END"})
  /\ LET f == Head(toTarget)
         entered == IF f.base = Entry("stub") THEN "stub" ELSE "app"
         runs == CASE f.stay -> target.runs
                   [] ~f.stay /\ Whole(entered)  -> entered
                   [] ~f.stay /\ ~Whole(entered) -> "astray"
         answer == [cmd |-> f.cmd, ok |-> TRUE]
         ohai   == [cmd |-> "OHAI", ok |-> TRUE]
     IN  /\ target' = [target EXCEPT !.runs = runs, !.size = 0]
         /\ toHost' = toHost \o (IF runs = "stub" /\ ~f.stay THEN <<answer, ohai>> ELSE <<answer>>)
         /\ toTarget' = Tail(toTarget)
         /\ UNCHANGED call
  /\ UNCHANGED <<hostVars, ram, app, trouble, count>>

Fault ==
  /\ count.faults < MaxFaults
  /\ count' = [count EXCEPT !.faults = @ + 1]
  /\ NoteFault
  /\ UNCHANGED <<hostVars, targetVars, app>>

Refuse == Fault /\ "refuse" \in Faults /\ Awake(CommandNames) /\ Respond(FALSE)

Lose == Fault /\ (LoseCommand \/ LoseAnswer)

-----------------------------------------------------------------------------
Client == Load \/ \E withStub \in BOOLEAN : Connect(withStub)

Host ==
  \/ Begun \/ BlockWritten \/ RetryBlock \/ Finished \/ Greeted \/ CallFails \/ SkipAnswer

Target == ServeBegin \/ ServeData \/ ServeEnd

Next == Client \/ Host \/ Target \/ Refuse \/ Lose

\* The host's loops run on, its timer runs out, and the target answers what
\* it has received; no fairness on the client, nor on faults.
Spec == Init /\ [][Next]_vars /\ WF_vars(Host) /\ WF_vars(Target)

-----------------------------------------------------------------------------
(* Properties *)

\* When load_ram_binary returns SUCCESS the target runs the application it
\* was given, whole, whatever commands and answers were lost or refused and
\* however the target places a retried block; no digest confirms it.  Only
\* an answer that comes after its timer has run out can break this.
LoadedIsWhole == result = "LOADED" /\ trouble # "late" => target.runs = "app"

\* While the resident stub runs nothing the client loads damages its code.
ResidentIntact == stubRunning /\ target.runs = "stub" => Whole("stub")

\* connect_with_stub returns SUCCESS, and stub_running is set, only when the
\* stub runs on the target, whatever was lost or late.
ReportedStubRuns ==
  /\ result = "CONNECTED" => target.runs = (IF stubRunning THEN "stub" ELSE "rom")
  /\ stubRunning => target.runs # "rom"

\* Over a clean line every program is loaded.  A load comes to another end
\* only when the application overlaps the resident stub, and when it is the
\* stub of a chip that has none.
Overlaps(program) ==
  \E n \in 1 .. Len(Segments(program)), m \in 1 .. 2 :
    LET s == Segments(program)[n]
        stub == EspStub[chip].segments[m]
    IN  \E a \in {s.addr, stub.addr} : \* the higher of the two lies in both
          a >= s.addr /\ a < End(s) /\ a >= stub.addr /\ a < End(stub)
CleanLoadsSucceed ==
  [][trouble' = "none" /\ Idle' /\ result' # result =>
       \/ result' \in {"CONNECTED", "LOADED"}
       \/ result' = "INVALID_PARAM" /\ stubRunning /\ Overlaps("app")
       \/ job.program = "stub" /\ ~HasStub(chip)]_vars

\* A download comes to an end: no retry and no wait goes on for ever.
DownloadsEnd == ~Idle ~> Idle
=============================================================================
