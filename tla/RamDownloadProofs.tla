-------------------------- MODULE RamDownloadProofs --------------------------
(***************************************************************************)
(* Loading programs into RAM, for every chip with or without a stub, every *)
(* block size and number of retries, any number of programs and faults and *)
(* any number of late frames.                                              *)
(***************************************************************************)
EXTENDS RamDownload, Integers, SequenceTheorems, TLAPS

-----------------------------------------------------------------------------
(* Segments and their pieces *)

Region == [addr : Nat, size : Nat]

\* The application has a layout that makes sense on the chip.
Fitting(c) == c \in DOMAIN EspStub /\ app \in LayoutKinds /\ (HasStub(c) \/ app = "beside")

\* The tables, and the numbers in them.
LEMMA StubTable ==
  ASSUME NEW c \in DOMAIN EspStub
  PROVE  LET img == EspStub[c] IN
         /\ Len(img.segments) = 2 /\ img.entry \in Nat
         /\ img.segments[1] \in Region /\ img.segments[2] \in Region
         /\ HasStub(c) =>
              /\ img.segments[1].size > 16 /\ img.segments[2].size > 16
              /\ img.segments[1].addr > 1000000000 /\ img.segments[2].addr > 1000000000
              /\ img.entry > 0
              /\ img.entry >= img.segments[1].addr /\ img.entry < img.segments[1].addr + img.segments[1].size - 4
              /\ \/ img.segments[1].addr + img.segments[1].size <= img.segments[2].addr
                 \/ img.segments[2].addr + img.segments[2].size + 8 <= img.segments[1].addr
              /\ img.segments[2].addr - 8 # img.entry
         /\ ~HasStub(c) => img = Placeholder
  BY DEF EspStub, HasStub, Placeholder, Loader, Segment, Region

Programs == {"stub", "app"}

LEMMA AppTable ==
  ASSUME Fitting(chip)
  PROVE  LET segs == AppSegments(chip) IN
         /\ Len(segs) \in 1 .. 2
         /\ \A n \in 1 .. Len(segs) : segs[n] \in Region /\ segs[n].size > 0
         /\ \A m, n \in 1 .. Len(segs) : m < n => End(segs[m]) <= segs[n].addr \/ End(segs[n]) <= segs[m].addr
         /\ Entry("app") \in Nat /\ Entry("app") > 0 /\ Entry("app") # EspStub[chip].entry
  <1> DEFINE first  == Anchor(chip)
             second == EspStub[chip].segments[2]
             long   == 2 * RamBlock
             segs   == AppSegments(chip)
  <1>1. /\ chip \in DOMAIN EspStub /\ app \in LayoutKinds /\ (HasStub(chip) \/ app = "beside")
        /\ long \in Nat /\ long > 16 /\ long < 131072
    BY RamBlockAssumption DEF Fitting
  <1>2. first \in Region /\ first.addr > 1000000000
    <2>1. CASE HasStub(chip)
      BY <1>1, <2>1, StubTable DEF Anchor
    <2>2. CASE ~HasStub(chip)
      BY <2>2 DEF Anchor, Segment, Region
    <2> QED
      BY <2>1, <2>2
  <1>3. /\ EspStub[chip].entry \in Nat /\ second \in Region
        /\ HasStub(chip) => /\ first = EspStub[chip].segments[1] /\ first.size > 16
                            /\ second.size > 16 /\ second.addr > 1000000000
                            /\ EspStub[chip].entry >= first.addr
                            /\ EspStub[chip].entry < first.addr + first.size - 4
                            /\ \/ first.addr + first.size <= second.addr
                               \/ second.addr + second.size + 8 <= first.addr
                            /\ second.addr - 8 # EspStub[chip].entry
        /\ ~HasStub(chip) => EspStub[chip].entry = 0
    <2>1. ~HasStub(chip) => EspStub[chip].entry = 0
      BY <1>1, StubTable DEF Placeholder
    <2> QED
      BY <1>1, <2>1, StubTable DEF Anchor
  <1>4. segs = CASE app = "beside" -> <<Segment(first.addr - long, long), Segment(first.addr + first.size, 8)>>
                 [] app = "over_first" -> <<Segment(first.addr + first.size - 4, 8)>>
                 [] app = "over_second" -> <<Segment(first.addr - 8, 8), Segment(second.addr - 4, 8)>>
                 [] app = "around_second" -> <<Segment(second.addr - 8, second.size + 16)>>
    BY DEF AppSegments, End
  <1>5. Entry("app") = segs[1].addr
    BY DEF Entry
  <1> HIDE DEF first, second, long, segs
  <1>6. CASE app = "beside"
    <2>1. segs = <<Segment(first.addr - long, long), Segment(first.addr + first.size, 8)>>
      BY <1>4, <1>6
    <2> QED
      BY <1>1, <1>2, <1>3, <1>5, <2>1 DEF Segment, Region, End, segs
  <1>7. CASE app = "over_first"
    <2>1. segs = <<Segment(first.addr + first.size - 4, 8)>>
      BY <1>4, <1>7
    <2> QED
      BY <1>1, <1>2, <1>3, <1>5, <1>7, <2>1 DEF Segment, Region, End, segs
  <1>8. CASE app = "over_second"
    <2>1. segs = <<Segment(first.addr - 8, 8), Segment(second.addr - 4, 8)>>
      BY <1>4, <1>8
    <2> QED
      BY <1>1, <1>2, <1>3, <1>5, <1>8, <2>1 DEF Segment, Region, End, segs
  <1>9. CASE app = "around_second"
    <2>1. segs = <<Segment(second.addr - 8, second.size + 16)>>
      BY <1>4, <1>9
    <2> QED
      BY <1>1, <1>2, <1>3, <1>5, <1>9, <2>1 DEF Segment, Region, End, segs
  <1> QED
    BY <1>1, <1>6, <1>7, <1>8, <1>9 DEF LayoutKinds

\* What the proofs need of the segments of a program.
LEMMA SegmentTypes ==
  ASSUME Fitting(chip), NEW p \in Programs
  PROVE  /\ Len(Segments(p)) \in 1 .. 2
         /\ \A n \in 1 .. Len(Segments(p)) : Segments(p)[n] \in Region
         /\ Entry(p) \in Nat
  <1>1. CASE p = "stub"
    BY <1>1, StubTable DEF Segments, Entry, Fitting
  <1>2. CASE p = "app"
    BY <1>2, AppTable DEF Segments
  <1> QED
    BY <1>1, <1>2 DEF Programs

LEMMA Products ==
  ASSUME NEW m \in Int, NEW n \in Int
  PROVE  /\ m * RamBlock \in Int
         /\ m >= 0 => m * RamBlock >= 0
         /\ m <= n => m * RamBlock <= n * RamBlock
         /\ m < n => m * RamBlock + RamBlock <= n * RamBlock
  <1>1. RamBlock \in Nat
    BY RamBlockAssumption
  <1> QED
    BY <1>1

\* A segment has as many blocks as reach into it.
LEMMA Blocks ==
  ASSUME NEW size \in Nat
  PROVE  /\ BlockCount(size) \in Nat
         /\ \A i \in Nat : i < BlockCount(size) <=> i * RamBlock < size
  <1> DEFINE q == BlockCount(size)
  <1>1. RamBlock \in Nat \ {0}
    BY RamBlockAssumption
  <1>2. q \in Nat /\ q * RamBlock <= size + RamBlock - 1 /\ size + RamBlock - 1 < q * RamBlock + RamBlock
    BY <1>1 DEF BlockCount
  <1> HIDE DEF q
  <1>3. ASSUME NEW i \in Nat, i < q PROVE i * RamBlock < size
    BY <1>1, <1>2, <1>3, Products
  <1>4. ASSUME NEW i \in Nat, ~(i < q) PROVE ~(i * RamBlock < size)
    <2>1. q * RamBlock <= i * RamBlock /\ i * RamBlock \in Int /\ q * RamBlock \in Int
      BY <1>2, <1>4, Products
    <2> QED
      BY <1>1, <1>2, <2>1
  <1> QED
    BY <1>2, <1>3, <1>4 DEF q

PieceType == [of : Programs, at : Nat, size : Nat \ {0}]

LEMMA PieceFields ==
  ASSUME NEW p \in Programs, NEW s \in Region, NEW i \in Nat, i < BlockCount(s.size)
  PROVE  LET x == Piece(p, s, i) IN
         /\ x \in PieceType
         /\ x.at = s.addr + i * RamBlock /\ x.at >= s.addr
         /\ x.size <= RamBlock /\ i * RamBlock + x.size <= s.size /\ x.at + x.size <= End(s)
  <1> DEFINE k == i * RamBlock
             left == s.size - k
             x == Piece(p, s, i)
  <1>1. s.addr \in Nat /\ s.size \in Nat /\ RamBlock \in Nat /\ RamBlock > 8
    BY RamBlockAssumption DEF Region
  <1>2. k \in Nat /\ k < s.size
    BY <1>1, Blocks, Products
  <1>3. x = [of |-> p, at |-> s.addr + k, size |-> IF left < RamBlock THEN left ELSE RamBlock]
    BY DEF Piece
  <1> HIDE DEF k
  <1> QED
    BY <1>1, <1>2, <1>3 DEF PieceType, End, k

-----------------------------------------------------------------------------
(* Types *)

Exchanges  == {"MEM_BEGIN", "MEM_DATA", "MEM_END"}
FrameType  == [cmd : Exchanges, base : Nat, size : Nat, seq : Nat, piece : SUBSET PieceType, stay : BOOLEAN]
AnswerType == [cmd : Exchanges \cup {"OHAI"}, ok : BOOLEAN]
TargetType == [runs : {"app", "rom", "stub", "astray"}, policy : {"append", "positional", "strict"},
               base : Nat, size : Nat, received : Nat]
Results    == {"NONE", "PENDING", "CONNECTED", "LOADED", "INVALID_PARAM", "INVALID_RESPONSE", "TIMEOUT"}

LineType ==
  /\ toTarget \in Seq(FrameType) /\ toHost \in Seq(AnswerType)
  /\ call \in Exchanges \cup {"OHAI", NoCall}

HostType ==
  /\ Fitting(chip)
  /\ seq \in Nat
  /\ stubRunning \in BOOLEAN
  /\ job \in [program : Programs \cup {"none"}, seg : 1 .. 2, sent : Nat]
  /\ ~Idle => job.seg <= Len(Segments(job.program))
  /\ Idle <=> call = NoCall
  /\ call = "MEM_DATA" => job.sent < BlockCount(Here.size)
  /\ result \in Results

\* One call of the loader is open for a program that is loaded.
TypeOK ==
  /\ LineType
  /\ HostType
  /\ target \in TargetType
  /\ ram \subseteq [at : Nat, piece : PieceType]
  /\ trouble \in Troubles

BeginFrame(s)     == [Plain("MEM_BEGIN") EXCEPT !.base = s.addr, !.size = s.size]
DataFrame(n, sq)  == [Plain("MEM_DATA") EXCEPT !.seq = sq, !.piece = {Piece(job.program, Here, n)}]
EndFrame(p)       == [Plain("MEM_END") EXCEPT !.base = Entry(p), !.stay = (Entry(p) = 0)]

LEMMA PlainFields == \A cmd \in Exchanges : Plain(cmd) \in FrameType /\ Plain(cmd).cmd = cmd
  BY DEF Plain, FrameType

LEMMA BeginFields ==
  ASSUME NEW s \in Region
  PROVE  LET f == BeginFrame(s) IN
         f \in FrameType /\ f.cmd = "MEM_BEGIN" /\ f.base = s.addr /\ f.size = s.size
  BY DEF BeginFrame, Plain, FrameType, Exchanges, Region

LEMMA DataFields ==
  ASSUME HostType, ~Idle, NEW n \in Nat, n < BlockCount(Here.size), NEW sq \in Nat
  PROVE  LET f == DataFrame(n, sq) IN
         f \in FrameType /\ f.cmd = "MEM_DATA" /\ f.seq = sq /\ f.piece = {Piece(job.program, Here, n)}
  <1> DEFINE r == Plain("MEM_DATA")
             x == {Piece(job.program, Here, n)}
  <1>1. job.program \in Programs /\ Here \in Region
    BY SegmentTypes DEF HostType, Idle, Here
  <1>2. x \in SUBSET PieceType
    BY <1>1, PieceFields
  <1>3. r \in FrameType /\ r.cmd = "MEM_DATA"
    BY PlainFields DEF Exchanges
  <1>4. DataFrame(n, sq) = [r EXCEPT !.seq = sq, !.piece = x]
    BY DEF DataFrame
  <1> HIDE DEF r, x
  <1>5. DataFrame(n, sq) \in FrameType /\ DataFrame(n, sq).cmd = "MEM_DATA" /\ DataFrame(n, sq).seq = sq
        /\ DataFrame(n, sq).piece = x
    BY <1>2, <1>3, <1>4 DEF FrameType
  <1> QED
    BY <1>5 DEF x

LEMMA EndFields ==
  ASSUME Fitting(chip), NEW p \in Programs
  PROVE  LET f == EndFrame(p) IN
         f \in FrameType /\ f.cmd = "MEM_END" /\ f.base = Entry(p) /\ f.stay = (Entry(p) = 0)
  <1>1. Entry(p) \in Nat
    BY SegmentTypes
  <1> DEFINE r == Plain("MEM_END")
             e == Entry(p)
             b == (Entry(p) = 0)
  <1>2. r \in FrameType /\ r.cmd = "MEM_END"
    BY PlainFields DEF Exchanges
  <1>3. EndFrame(p) = [r EXCEPT !.base = e, !.stay = b]
    BY DEF EndFrame
  <1>4. b \in BOOLEAN /\ e \in Nat
    BY <1>1
  <1> HIDE DEF r, e, b
  <1>5. EndFrame(p) \in FrameType /\ EndFrame(p).cmd = "MEM_END" /\ EndFrame(p).base = e /\ EndFrame(p).stay = b
    BY <1>2, <1>3, <1>4 DEF FrameType
  <1> QED
    BY <1>5 DEF e, b

-----------------------------------------------------------------------------
(* What the steps of the host come to *)

LEMMA Numbering ==
  \A n : NextSequence("MEM_BEGIN", n) = 0 /\ NextSequence("MEM_DATA", n) = n + 1
  BY DEF NextSequence, RestartsSequence, DataCommands

LEMMA Codes ==
  /\ \A s : BeginFrame(s).cmd = "MEM_BEGIN"
  /\ \A p : EndFrame(p).cmd = "MEM_END"
  /\ \A n, sq : DataFrame(n, sq).cmd = "MEM_DATA"
  BY DEF BeginFrame, EndFrame, DataFrame, Plain

\* A download of segment n of program p is begun.
Begins(p, n, inbound) ==
  /\ n \in 1 .. Len(Segments(p))
  /\ ~(stubRunning /\ OverStub(Segments(p)[n]))
  /\ toTarget' = Append(toTarget, BeginFrame(Segments(p)[n])) /\ toHost' = inbound /\ call' = "MEM_BEGIN"
  /\ job' = [program |-> p, seg |-> n, sent |-> 0]
  /\ seq' = 0 /\ result' = "PENDING"

\* Block n of the segment is sent, for the first time or again.
Sends(n, inbound) ==
  /\ n < BlockCount(Here.size)
  /\ toTarget' = Append(toTarget, DataFrame(n, seq)) /\ toHost' = inbound /\ call' = "MEM_DATA"
  /\ job' = [job EXCEPT !.sent = n]
  /\ seq' = seq + 1 /\ UNCHANGED result

\* The last segment is done.
Ends(n, inbound) ==
  /\ n = BlockCount(Here.size) /\ job.seg = Len(Segments(job.program))
  /\ toTarget' = Append(toTarget, EndFrame(job.program)) /\ toHost' = inbound /\ call' = "MEM_END"
  /\ job' = [job EXCEPT !.sent = n]
  /\ UNCHANGED <<seq, result>>

LEMMA Continues ==
  ASSUME NEW n, NEW inbound, Continue(n, inbound), job.seg \in Nat, Len(Segments(job.program)) \in Nat
  PROVE  \/ Sends(n, inbound)
         \/ /\ n = BlockCount(Here.size) /\ job.seg < Len(Segments(job.program))
            /\ \/ Begins(job.program, job.seg + 1, inbound)
               \/ stubRunning /\ OverStub(Segments(job.program)[job.seg + 1]) /\ Finish("INVALID_PARAM", inbound)
         \/ Ends(n, inbound)
  <1>1. ASSUME Transmit(n, inbound)
        PROVE  toTarget' = Append(toTarget, DataFrame(n, seq)) /\ toHost' = inbound /\ call' = "MEM_DATA" /\ seq' = seq + 1
    <2>1. Send(DataFrame(n, seq), inbound) /\ seq' = NextSequence("MEM_DATA", seq)
      BY <1>1 DEF Transmit, DataFrame
    <2> QED
      BY <2>1, Numbering, Codes DEF Send
  <1>2. ASSUME job.seg < Len(Segments(job.program)), MemStart(job.program, job.seg + 1, inbound)
        PROVE  \/ Begins(job.program, job.seg + 1, inbound)
               \/ stubRunning /\ OverStub(Segments(job.program)[job.seg + 1]) /\ Finish("INVALID_PARAM", inbound)
    <2>1. job.seg + 1 \in 1 .. Len(Segments(job.program))
      BY <1>2
    <2> DEFINE s == Segments(job.program)[job.seg + 1]
    <2>2. CASE ~(stubRunning /\ OverStub(s))
      <3>1. Send(BeginFrame(s), inbound) /\ seq' = NextSequence("MEM_BEGIN", seq) /\ result' = "PENDING"
            /\ job' = [program |-> job.program, seg |-> job.seg + 1, sent |-> 0]
        BY <1>2, <2>2 DEF MemStart, BeginFrame
      <3> QED
        BY <2>1, <2>2, <3>1, Numbering, Codes DEF Begins, Send
    <2>3. CASE stubRunning /\ OverStub(s)
      BY <1>2, <2>3 DEF MemStart
    <2> QED
      BY <2>2, <2>3
  <1>3. ASSUME Send(EndFrame(job.program), inbound)
        PROVE  toTarget' = Append(toTarget, EndFrame(job.program)) /\ toHost' = inbound /\ call' = "MEM_END"
    BY <1>3, Codes DEF Send
  <1> QED
    BY <1>1, <1>2, <1>3 DEF Continue, Sends, Ends, EndFrame

LEMMA LoadBegins ==
  ASSUME Load, Len(Segments("app")) \in Nat, Len(Segments("app")) >= 1
  PROVE  \/ Begins("app", 1, toHost)
         \/ stubRunning /\ OverStub(Segments("app")[1]) /\ Finish("INVALID_PARAM", toHost)
  <1> DEFINE s == Segments("app")[1]
  <1>1. MemStart("app", 1, toHost)
    BY DEF Load
  <1>2. CASE ~(stubRunning /\ OverStub(s))
    <2>1. Send(BeginFrame(s), toHost) /\ seq' = NextSequence("MEM_BEGIN", seq) /\ result' = "PENDING"
          /\ job' = [program |-> "app", seg |-> 1, sent |-> 0]
      BY <1>1, <1>2 DEF MemStart, BeginFrame
    <2> QED
      BY <1>2, <2>1, Numbering, Codes DEF Begins, Send
  <1>3. CASE stubRunning /\ OverStub(s)
    BY <1>1, <1>3 DEF MemStart
  <1> QED
    BY <1>2, <1>3

LEMMA ConnectBegins ==
  ASSUME Fitting(chip), NEW withStub \in BOOLEAN, Connect(withStub)
  PROVE  /\ toHost' = <<>> /\ stubRunning' = FALSE /\ target' = [target EXCEPT !.runs = "rom", !.size = 0]
         /\ trouble' = "none" /\ UNCHANGED ram
         /\ \/ /\ toTarget' = <<BeginFrame(Segments("stub")[1])>> /\ call' = "MEM_BEGIN"
               /\ job' = [program |-> "stub", seg |-> 1, sent |-> 0] /\ seq' = 0 /\ result' = "PENDING"
            \/ toTarget' = <<>> /\ call' = NoCall /\ result' = "CONNECTED" /\ UNCHANGED <<job, seq>>
  <1>1. Segments("stub") = EspStub[chip].segments
    BY DEF Segments
  <1>2. CASE withStub
    <2>1. toTarget' = <<BeginFrame(EspStub[chip].segments[1])>> /\ seq' = NextSequence("MEM_BEGIN", seq)
      BY <1>2 DEF Connect, BeginFrame
    <2> QED
      BY <1>1, <1>2, <2>1, Numbering DEF Connect
  <1>3. CASE ~withStub
    BY <1>3 DEF Connect
  <1> QED
    BY <1>2, <1>3

LEMMA RetrySends ==
  ASSUME RetryBlock, HostType
  PROVE  \/ Sends(job.sent, Tail(toHost)) /\ Refused /\ UNCHANGED trouble
         \/ Sends(job.sent, toHost) /\ Expired /\ NoteExpiry
  <1>1. job' = job /\ result' = result /\ job.sent < BlockCount(Here.size)
    BY DEF RetryBlock, Retry, HostType
  <1>2. job = [job EXCEPT !.sent = job.sent]
    BY DEF HostType
  <1>3. ASSUME NEW inbound, Retry(inbound) PROVE Sends(job.sent, inbound)
    <2>1. Send(DataFrame(job.sent, seq), inbound) /\ seq' = NextSequence("MEM_DATA", seq)
      BY <1>3 DEF Retry, Transmit, DataFrame
    <2> QED
      BY <1>1, <1>2, <2>1, Numbering, Codes DEF Sends, Send
  <1> QED
    BY <1>3 DEF RetryBlock

-----------------------------------------------------------------------------
(* The types are kept *)

LEMMA QueueTypes ==
  ASSUME LineType
  PROVE  /\ toTarget # <<>> => Head(toTarget) \in FrameType /\ Tail(toTarget) \in Seq(FrameType)
         /\ toHost # <<>> => Head(toHost) \in AnswerType /\ Tail(toHost) \in Seq(AnswerType)
  BY DEF LineType

LEMMA BeginsType ==
  ASSUME TypeOK, NEW p \in Programs, NEW n, NEW inbound \in Seq(AnswerType), Begins(p, n, inbound),
         UNCHANGED <<chip, app, stubRunning>>
  PROVE  LineType' /\ HostType'
  <1>1. Fitting(chip) /\ Len(Segments(p)) \in 1 .. 2 /\ Segments(p)[n] \in Region
    BY SegmentTypes DEF TypeOK, HostType, Begins
  <1>2. BeginFrame(Segments(p)[n]) \in FrameType
    BY <1>1, BeginFields
  <1>3. LineType'
    BY <1>2 DEF TypeOK, LineType, Begins, Exchanges
  <1>4. Segments(p)' = Segments(p) /\ Fitting(chip)'
    BY <1>1 DEF Segments, AppSegments, Anchor, Fitting
  <1>5. /\ job' \in [program : Programs \cup {"none"}, seg : 1 .. 2, sent : Nat] /\ ~Idle'
        /\ job'.seg = n /\ job'.program = p
    BY <1>1 DEF Begins, Idle, Programs
  <1>6. job'.seg <= Len(Segments(p))
    BY <1>1, <1>5 DEF Begins
  <1>7. seq' \in Nat /\ call' = "MEM_BEGIN" /\ call' # NoCall /\ result' \in Results
    BY DEF Begins, NoCall, Results
  <1>8. Len(Segments(job.program))' = Len(Segments(p))
    BY <1>4, <1>5 DEF Segments, AppSegments, Anchor
  <1> QED
    BY <1>3, <1>4, <1>5, <1>6, <1>7, <1>8 DEF TypeOK, HostType

LEMMA HereStays ==
  ASSUME UNCHANGED <<chip, app>>, job'.program = job.program, job'.seg = job.seg
  PROVE  Segments(job.program)' = Segments(job.program) /\ Here' = Here
  BY DEF Here, Segments, AppSegments, Anchor

LEMMA SendsType ==
  ASSUME TypeOK, ~Idle, NEW n \in Nat, NEW inbound \in Seq(AnswerType), Sends(n, inbound) \/ Ends(n, inbound),
         UNCHANGED <<chip, app, stubRunning>>
  PROVE  LineType' /\ HostType'
  <1>1. /\ job' \in [program : Programs \cup {"none"}, seg : 1 .. 2, sent : Nat]
        /\ job'.program = job.program /\ job'.seg = job.seg /\ job'.sent = n
    BY DEF TypeOK, HostType, Sends, Ends
  <1>2. Segments(job.program)' = Segments(job.program) /\ Here' = Here
    BY <1>1, HereStays
  <1>3. Fitting(chip)' /\ Fitting(chip) /\ job.program \in Programs /\ ~Idle' /\ seq \in Nat
    BY <1>1 DEF TypeOK, HostType, Fitting, Idle
  <1>4. seq' \in Nat /\ result' \in Results
    BY <1>3 DEF TypeOK, HostType, Sends, Ends
  <1>5. CASE Sends(n, inbound)
    <2>1. LineType' /\ call' = "MEM_DATA"
      <3>1. DataFrame(n, seq) \in FrameType
        BY <1>3, <1>5, DataFields DEF TypeOK, Sends
      <3> QED
        BY <1>5, <3>1 DEF TypeOK, LineType, Sends, Exchanges
    <2>2. n < BlockCount(Here.size)
      BY <1>5 DEF Sends
    <2>3. BlockCount(Here.size)' = BlockCount(Here.size)
      BY <1>2 DEF BlockCount
    <2> QED
      BY <1>1, <1>2, <1>3, <1>4, <2>1, <2>2, <2>3 DEF TypeOK, HostType, NoCall
  <1>6. CASE Ends(n, inbound)
    <2>1. LineType' /\ call' = "MEM_END"
      <3>1. EndFrame(job.program) \in FrameType
        BY <1>3, EndFields
      <3> QED
        BY <1>6, <3>1 DEF TypeOK, LineType, Ends, Exchanges
    <2> QED
      BY <1>1, <1>2, <1>3, <1>4, <2>1 DEF TypeOK, HostType, NoCall
  <1> QED
    BY <1>5, <1>6

LEMMA FinishType ==
  ASSUME TypeOK, NEW res \in Results, NEW inbound \in Seq(AnswerType), Finish(res, inbound),
         UNCHANGED <<chip, app>>, stubRunning' \in BOOLEAN
  PROVE  LineType' /\ HostType'
  BY DEF TypeOK, LineType, HostType, Finish, Return, NoJob, Idle, Fitting, NoCall

\* The ways a download goes on.
LEMMA ContinueType ==
  ASSUME TypeOK, ~Idle, NEW n \in Nat, NEW inbound \in Seq(AnswerType), Continue(n, inbound),
         UNCHANGED <<chip, app, stubRunning>>
  PROVE  LineType' /\ HostType'
  <1>1. job.program \in Programs /\ Len(Segments(job.program)) \in Nat /\ job.seg \in Nat
    BY SegmentTypes DEF TypeOK, HostType, Idle
  <1>2. CASE Sends(n, inbound) \/ Ends(n, inbound)
    BY <1>2, SendsType
  <1>3. CASE Begins(job.program, job.seg + 1, inbound)
    BY <1>1, <1>3, BeginsType
  <1>4. CASE Finish("INVALID_PARAM", inbound)
    BY <1>4, FinishType DEF TypeOK, HostType, Results
  <1> QED
    BY <1>1, <1>2, <1>3, <1>4, Continues

LEMMA NoteType == trouble \in Troubles /\ (NoteFault \/ NoteExpiry) => trouble' \in Troubles
  BY DEF NoteFault, NoteExpiry, Troubles

LEMMA HostTypeStep ==
  ASSUME TypeOK, Host \/ Load
  PROVE  TypeOK'
  <1>1. UNCHANGED <<chip, target, ram, app>>
    BY DEF Host, Begun, BlockWritten, RetryBlock, Finished, Greeted, CallFails, SkipAnswer, Load, hostVars, targetVars
  <1>2. toHost \in Seq(AnswerType) /\ (toHost # <<>> => Tail(toHost) \in Seq(AnswerType)) /\ stubRunning \in BOOLEAN
    BY QueueTypes DEF TypeOK, LineType, HostType
  <1>3. trouble' \in Troubles
    BY NoteType DEF TypeOK, Host, Begun, BlockWritten, RetryBlock, Finished, Greeted, CallFails, SkipAnswer, Load
  <1> SUFFICES LineType' /\ HostType'
    BY <1>1, <1>3 DEF TypeOK
  <1>4. call # NoCall => ~Idle
    BY DEF TypeOK, HostType
  <1>5. CASE Load
    <2>1. Len(Segments("app")) \in 1 .. 2 /\ "app" \in Programs
      BY SegmentTypes DEF TypeOK, HostType, Programs
    <2>2. UNCHANGED stubRunning
      BY <1>5 DEF Load
    <2> QED
      BY <1>1, <1>2, <1>5, <2>1, <2>2, LoadBegins, BeginsType, FinishType DEF Results
  <1>6. CASE Begun
    BY <1>1, <1>2, <1>4, <1>6, ContinueType DEF Begun, Accepted, Answered
  <1>7. CASE BlockWritten
    <2>1. job.sent + 1 \in Nat
      BY DEF TypeOK, HostType
    <2> QED
      BY <1>1, <1>2, <1>4, <1>7, <2>1, ContinueType DEF BlockWritten, Accepted, Answered
  <1>8. CASE RetryBlock
    <2>1. job.sent \in Nat /\ UNCHANGED stubRunning /\ ~Idle
      BY <1>4, <1>8 DEF RetryBlock, TypeOK, HostType, NoCall
    <2> QED
      BY <1>1, <1>2, <1>8, <2>1, RetrySends, SendsType DEF TypeOK, Refused, Answered
  <1>9. CASE Finished
    <2>1. toHost # <<>> /\ UNCHANGED stubRunning
      BY <1>9 DEF Finished, Accepted, Answered
    <2>2. CASE Finish("LOADED", Tail(toHost))
      BY <1>1, <1>2, <2>1, <2>2, FinishType DEF Results
    <2>3. CASE ~Finish("LOADED", Tail(toHost))
      <3>1. call' = "OHAI" /\ toHost' = Tail(toHost) /\ UNCHANGED <<toTarget, seq, job, attempt, result>>
            /\ call = "MEM_END"
        BY <1>9, <2>3 DEF Finished
      <3>2. Segments(job.program)' = Segments(job.program) /\ Here' = Here
        BY <1>1, <3>1, HereStays
      <3> QED
        BY <1>1, <1>2, <2>1, <3>1, <3>2 DEF TypeOK, LineType, HostType, Fitting, Idle, NoCall
    <2> QED
      BY <2>2, <2>3
  <1>10. CASE Greeted
    BY <1>1, <1>2, <1>10, FinishType DEF Greeted, Results
  <1>11. CASE CallFails
    BY <1>1, <1>2, <1>11, FinishType DEF CallFails, Results, Refused, Answered
  <1>12. CASE SkipAnswer
    <2>1. UNCHANGED hostVars /\ toHost' = Tail(toHost) /\ toHost # <<>> /\ UNCHANGED <<toTarget, call>>
      BY <1>12 DEF SkipAnswer, Skip
    <2>2. Segments(job.program)' = Segments(job.program) /\ Here' = Here
      BY <1>1, <2>1, HereStays DEF hostVars
    <2> QED
      BY <1>1, <1>2, <2>1, <2>2 DEF TypeOK, LineType, HostType, Fitting, Idle, hostVars, BlockCount
  <1> QED
    BY <1>5, <1>6, <1>7, <1>8, <1>9, <1>10, <1>11, <1>12 DEF Host

\* The place of a block in the RAM.
LEMMA SlotType ==
  ASSUME TypeOK, toTarget # <<>>
  PROVE  /\ Slot(Head(toTarget)) \in Nat /\ Slot(Head(toTarget)) * RamBlock \in Nat
         /\ target.base + Slot(Head(toTarget)) * RamBlock \in Nat
  <1>1. Slot(Head(toTarget)) \in Nat /\ target.base \in Nat
    BY QueueTypes DEF Slot, TypeOK, TargetType, FrameType
  <1>2. Slot(Head(toTarget)) * RamBlock \in Nat
    BY <1>1, Products
  <1> QED
    BY <1>1, <1>2

LEMMA HostSame ==
  ASSUME HostType, UNCHANGED <<hostVars, app, call>>
  PROVE  HostType'
  <1>1. Segments(job.program)' = Segments(job.program) /\ Here' = Here
    BY HereStays DEF hostVars
  <1>2. BlockCount(Here.size)' = BlockCount(Here.size)
    BY <1>1 DEF BlockCount
  <1> QED
    BY <1>1, <1>2 DEF HostType, Fitting, Idle, hostVars

\* The answers of the target.
LEMMA ReplyType ==
  ASSUME LineType, toTarget # <<>>, NEW ok \in BOOLEAN, Respond(ok)
  PROVE  /\ LineType' /\ call' = call /\ toTarget' = Tail(toTarget)
         /\ toHost' = Append(toHost, [cmd |-> Head(toTarget).cmd, ok |-> ok])
  <1>1. [cmd |-> Head(toTarget).cmd, ok |-> ok] \in AnswerType
    BY QueueTypes DEF AnswerType, FrameType
  <1> QED
    BY <1>1, QueueTypes DEF Respond, Reply, LineType

\* What the target does with each command.
LEMMA DataOutcome ==
  ASSUME TypeOK, ServeData
  PROVE  /\ toTarget # <<>> /\ Head(toTarget).cmd = "MEM_DATA" /\ UNCHANGED <<hostVars, app, trouble>>
         /\ target.runs \in {"rom", "stub"}
         /\ \E piece \in Head(toTarget).piece :
              /\ piece \in PieceType
              /\ \/ /\ Placeable(Head(toTarget), piece)
                    /\ ram' = Overwritten(target.base + Slot(Head(toTarget)) * RamBlock, piece)
                    /\ target' = [target EXCEPT !.received = @ + 1]
                    /\ Respond(TRUE)
                 \/ ~Placeable(Head(toTarget), piece) /\ Respond(FALSE) /\ UNCHANGED <<target, ram>>
  <1>1. toTarget # <<>> /\ Head(toTarget).cmd = "MEM_DATA" /\ target.runs \in {"rom", "stub"}
        /\ UNCHANGED <<hostVars, app, trouble>>
    BY DEF ServeData, Awake
  <1>2. Head(toTarget).piece \subseteq PieceType
    BY <1>1, QueueTypes DEF TypeOK, FrameType
  <1> QED
    BY <1>1, <1>2 DEF ServeData, targetVars

LEMMA EndOutcome ==
  ASSUME TypeOK, ServeEnd
  PROVE  /\ toTarget # <<>> /\ Head(toTarget).cmd = "MEM_END" /\ UNCHANGED <<hostVars, ram, app, trouble, call>>
         /\ toTarget' = Tail(toTarget)
         /\ target'.size = 0 /\ target'.policy = target.policy /\ target' \in TargetType
         /\ target'.base = target.base
         /\ LET f == Head(toTarget)
                entered == IF f.base = Entry("stub") THEN "stub" ELSE "app"
                answer  == [cmd |-> "MEM_END", ok |-> TRUE]
                ohai    == [cmd |-> "OHAI", ok |-> TRUE]
            IN  /\ target'.runs = IF f.stay THEN target.runs ELSE IF Whole(entered) THEN entered ELSE "astray"
                /\ \/ target'.runs = "stub" /\ ~f.stay /\ toHost' = toHost \o <<answer, ohai>>
                   \/ ~(target'.runs = "stub" /\ ~f.stay) /\ toHost' = Append(toHost, answer)
  <1> DEFINE f == Head(toTarget)
             entered == IF f.base = Entry("stub") THEN "stub" ELSE "app"
             r == IF f.stay THEN target.runs ELSE IF Whole(entered) THEN entered ELSE "astray"
  <1>1. /\ toTarget # <<>> /\ f.cmd = "MEM_END" /\ UNCHANGED <<hostVars, ram, app, trouble, call>>
        /\ toTarget' = Tail(toTarget) /\ target.runs \in {"rom", "stub"}
    BY DEF ServeEnd, Awake
  <1>2. f.stay \in BOOLEAN
    BY <1>1, QueueTypes DEF TypeOK, FrameType
  <1>3. r = CASE f.stay -> target.runs [] ~f.stay /\ Whole(entered) -> entered [] ~f.stay /\ ~Whole(entered) -> "astray"
    BY <1>2
  <1>4. r \in {"app", "rom", "stub", "astray"}
    BY <1>1
  <1>5. target' = [target EXCEPT !.runs = r, !.size = 0]
    BY <1>3 DEF ServeEnd
  <1>6. toHost' = toHost \o (IF r = "stub" /\ ~f.stay THEN <<[cmd |-> f.cmd, ok |-> TRUE], [cmd |-> "OHAI", ok |-> TRUE]>>
                            ELSE <<[cmd |-> f.cmd, ok |-> TRUE]>>)
    BY <1>3 DEF ServeEnd
  <1> HIDE DEF r
  <1>7. target'.runs = r /\ target'.size = 0 /\ target'.policy = target.policy /\ target'.base = target.base
        /\ target' \in TargetType
    BY <1>4, <1>5 DEF TypeOK, TargetType
  <1>8. \A a \in AnswerType : toHost \o <<a>> = Append(toHost, a)
    BY DEF TypeOK, LineType
  <1>9. [cmd |-> "MEM_END", ok |-> TRUE] \in AnswerType
    BY DEF AnswerType, Exchanges
  <1>10. toHost \o <<[cmd |-> "MEM_END", ok |-> TRUE]>> = Append(toHost, [cmd |-> "MEM_END", ok |-> TRUE])
    BY <1>8, <1>9
  <1>11. \/ r = "stub" /\ ~f.stay /\ toHost' = toHost \o <<[cmd |-> "MEM_END", ok |-> TRUE], [cmd |-> "OHAI", ok |-> TRUE]>>
         \/ ~(r = "stub" /\ ~f.stay) /\ toHost' = Append(toHost, [cmd |-> "MEM_END", ok |-> TRUE])
    BY <1>1, <1>6, <1>10
  <1> QED
    BY <1>1, <1>7, <1>11 DEF r

LEMMA TypeStep ==
  ASSUME TypeOK, [Next]_vars
  PROVE  TypeOK'
  <1>1. CASE Host \/ Load
    BY <1>1, HostTypeStep
  <1>2. ASSUME NEW withStub \in BOOLEAN, Connect(withStub) PROVE TypeOK'
    <2>1. Fitting(chip) /\ Idle /\ UNCHANGED <<chip, app>>
      BY <1>2 DEF TypeOK, HostType, Connect
    <2>2. target' = [target EXCEPT !.runs = "rom", !.size = 0] /\ target' \in TargetType
      BY <1>2 DEF Connect, TypeOK, TargetType
    <2>3. toHost' = <<>> /\ stubRunning' = FALSE /\ trouble' = "none" /\ UNCHANGED ram
      BY <1>2, <2>1, ConnectBegins
    <2>4. CASE toTarget' = <<BeginFrame(Segments("stub")[1])>> /\ call' = "MEM_BEGIN"
               /\ job' = [program |-> "stub", seg |-> 1, sent |-> 0] /\ seq' = 0 /\ result' = "PENDING"
      <3>1. Segments("stub")[1] \in Region /\ Len(Segments("stub")) \in 1 .. 2 /\ "stub" \in Programs
        BY <2>1, SegmentTypes DEF Programs
      <3>2. BeginFrame(Segments("stub")[1]) \in FrameType
        BY <3>1, BeginFields
      <3>3. LineType'
        BY <2>3, <2>4, <3>2 DEF LineType, Exchanges
      <3>4. Len(Segments(job.program))' = Len(Segments("stub")) /\ ~Idle'
        BY <2>1, <2>4 DEF Segments, AppSegments, Anchor, Idle
      <3>5. /\ job' \in [program : Programs \cup {"none"}, seg : 1 .. 2, sent : Nat]
            /\ job'.seg <= Len(Segments(job.program))'
        BY <2>4, <3>1, <3>4
      <3>6. Fitting(chip)' /\ seq' \in Nat /\ stubRunning' \in BOOLEAN /\ result' \in Results
            /\ call' # NoCall /\ call' # "MEM_DATA"
        BY <2>1, <2>3, <2>4 DEF Fitting, Results, NoCall
      <3>7. HostType'
        BY <3>4, <3>5, <3>6 DEF HostType
      <3> QED
        BY <2>2, <2>3, <3>3, <3>7 DEF TypeOK, Troubles
    <2>5. CASE toTarget' = <<>> /\ call' = NoCall /\ result' = "CONNECTED" /\ UNCHANGED <<job, seq>>
      <3>1. Fitting(chip)' /\ seq' \in Nat /\ stubRunning' \in BOOLEAN /\ result' \in Results /\ Idle'
            /\ call' # "MEM_DATA"
        BY <2>1, <2>3, <2>5 DEF TypeOK, HostType, Fitting, Results, Idle, NoCall
      <3>2. HostType'
        BY <2>5, <3>1 DEF TypeOK, HostType
      <3> QED
        BY <2>2, <2>3, <2>5, <3>2 DEF TypeOK, LineType, Troubles
    <2> QED
      BY <1>2, <2>1, <2>4, <2>5, ConnectBegins
  <1>3. CASE ServeBegin
    <2>1. toTarget # <<>> /\ Respond(TRUE) /\ UNCHANGED <<hostVars, ram, app, trouble>>
      BY <1>3 DEF ServeBegin, Awake
    <2>2. Head(toTarget).base \in Nat /\ Head(toTarget).size \in Nat
      BY <2>1, QueueTypes DEF TypeOK, FrameType
    <2>3. target' \in TargetType
      BY <1>3, <2>2 DEF ServeBegin, TypeOK, TargetType
    <2> QED
      BY <2>1, <2>3, ReplyType, HostSame DEF TypeOK
  <1>4. CASE ServeData
    <2>1. PICK piece \in PieceType :
              \/ /\ ram' = Overwritten(target.base + Slot(Head(toTarget)) * RamBlock, piece)
                 /\ target' = [target EXCEPT !.received = @ + 1]
                 /\ Respond(TRUE)
              \/ Respond(FALSE) /\ UNCHANGED <<target, ram>>
      BY <1>4, DataOutcome
    <2>2. toTarget # <<>> /\ UNCHANGED <<hostVars, app, trouble>>
      BY <1>4, DataOutcome
    <2>3. target' \in TargetType
      <3>1. target.received + 1 \in Nat /\ target \in TargetType
        BY DEF TypeOK, TargetType
      <3>2. [target EXCEPT !.received = @ + 1] \in TargetType
        BY <3>1 DEF TargetType
      <3> QED
        BY <2>1, <3>1, <3>2
    <2>4. ram' \subseteq [at : Nat, piece : PieceType]
      <3> DEFINE at == target.base + Slot(Head(toTarget)) * RamBlock
      <3>1. at \in Nat
        BY <2>2, SlotType
      <3> HIDE DEF at
      <3>2. Overwritten(at, piece) \subseteq [at : Nat, piece : PieceType]
        BY <3>1 DEF TypeOK, Overwritten
      <3> QED
        BY <2>1, <3>2 DEF TypeOK, at
    <2> QED
      BY <2>1, <2>2, <2>3, <2>4, ReplyType, HostSame DEF TypeOK
  <1>5. CASE ServeEnd
    <2>1. [cmd |-> "MEM_END", ok |-> TRUE] \in AnswerType /\ [cmd |-> "OHAI", ok |-> TRUE] \in AnswerType
      BY DEF AnswerType, Exchanges
    <2>2. toTarget' = Tail(toTarget) /\ toTarget # <<>> /\ UNCHANGED <<hostVars, ram, app, trouble, call>>
          /\ target' \in TargetType
      BY <1>5, EndOutcome
    <2>3. toHost' \in Seq(AnswerType)
      <3>1. toHost' = toHost \o <<[cmd |-> "MEM_END", ok |-> TRUE], [cmd |-> "OHAI", ok |-> TRUE]>>
            \/ toHost' = Append(toHost, [cmd |-> "MEM_END", ok |-> TRUE])
        BY <1>5, EndOutcome
      <3> DEFINE answer == [cmd |-> "MEM_END", ok |-> TRUE]
                 ohai   == [cmd |-> "OHAI", ok |-> TRUE]
                 both   == <<answer, ohai>>
      <3>2. answer \in AnswerType /\ both \in Seq(AnswerType)
        BY <2>1
      <3>3. toHost' = toHost \o both \/ toHost' = Append(toHost, answer)
        BY <3>1
      <3>4. toHost \in Seq(AnswerType)
        BY DEF TypeOK, LineType
      <3> HIDE DEF both, answer
      <3>5. toHost \o both \in Seq(AnswerType)
        BY <3>2, <3>4, ConcatProperties
      <3>6. Append(toHost, answer) \in Seq(AnswerType)
        BY <3>2, <3>4
      <3> QED
        BY <3>3, <3>5, <3>6
    <2> QED
      BY <2>2, <2>3, QueueTypes, HostSame DEF TypeOK, LineType
  <1>6. CASE Refuse \/ Lose
    <2>1. UNCHANGED <<hostVars, targetVars, app>> /\ trouble' \in Troubles
      BY <1>6, NoteType DEF Refuse, Lose, Fault, TypeOK, Troubles
    <2>2. LineType' /\ call' = call
      <3>1. CASE Refuse
        BY <3>1, ReplyType DEF Refuse, Awake, TypeOK
      <3>2. CASE Lose
        BY <3>2, QueueTypes DEF Lose, LoseCommand, LoseAnswer, TypeOK, LineType
      <3> QED
        BY <1>6, <3>1, <3>2
    <2> QED
      BY <2>1, <2>2, HostSame DEF TypeOK, targetVars
  <1>7. CASE UNCHANGED vars
    BY <1>7, HostSame DEF vars, linkVars, hostVars, targetVars, TypeOK, LineType
  <1> QED
    BY <1>1, <1>2, <1>3, <1>4, <1>5, <1>6, <1>7 DEF Next, Client, Target

LEMMA InitType == Init => TypeOK
  <1> SUFFICES ASSUME Init PROVE TypeOK
    OBVIOUS
  <1>1. Fitting(chip)
    BY ChipsAssumption, LayoutsAssumption DEF Init, Fitting
  <1>2. target \in TargetType
    <2>1. PICK p \in Policies : target = [runs |-> "app", policy |-> p, base |-> 0, size |-> 0, received |-> 0]
      BY DEF Init
    <2> QED
      BY <2>1, PoliciesAssumption DEF TargetType
  <1>3. LineType
    BY DEF Init, LinkInit, LineType
  <1>4. job = [program |-> "none", seg |-> 1, sent |-> 0] /\ seq = 0 /\ stubRunning = FALSE /\ result = "NONE"
        /\ call = NoCall /\ ram = {} /\ trouble = "none"
    BY DEF Init, LinkInit, NoJob
  <1>5. Idle /\ call # "MEM_DATA" /\ job \in [program : Programs \cup {"none"}, seg : 1 .. 2, sent : Nat]
    BY <1>4 DEF Idle, NoCall
  <1>6. seq \in Nat /\ stubRunning \in BOOLEAN /\ result \in Results
    BY <1>4 DEF Results
  <1>7. HostType
    BY <1>1, <1>4, <1>5, <1>6 DEF HostType
  <1> QED
    BY <1>2, <1>3, <1>4, <1>7 DEF TypeOK, Troubles

LEMMA Typed == Spec => []TypeOK
  BY InitType, TypeStep, PTL DEF Spec

-----------------------------------------------------------------------------
(* The resident stub *)

\* A region that spares the resident stub of a chip.
Apart(c, addr, size) ==
  \A n \in 1 .. 2 : LET stub == EspStub[c].segments[n] IN ~(addr < End(stub) /\ addr + size > stub.addr)

LEMMA ApartMeans == \A s : OverStub(s) <=> ~Apart(chip, s.addr, s.size)
  BY DEF OverStub, Apart, End

Reported == \E n \in 1 .. Len(toHost) : toHost[n].cmd = "OHAI"

\* Nothing follows the command that ends a download.
EndLast == \A n \in 1 .. Len(toTarget) : toTarget[n].cmd = "MEM_END" =>
              n = Len(toTarget) /\ (Idle \/ call \in {"MEM_END", "OHAI"})

\* A report on the line is that of the stub being loaded.
ReportTrue == job.program = "stub" /\ Reported =>
  /\ Whole("stub") /\ target.runs = "stub" /\ target.size = 0
  /\ toTarget = <<>> /\ call \in {"MEM_END", "OHAI"}

ConnectedTrue == result = "CONNECTED" =>
  Idle /\ toTarget = <<>> /\ target.runs = (IF stubRunning THEN "stub" ELSE "rom")

StubFirst ==
  /\ job.program = "stub" => ~stubRunning
  /\ call = "OHAI" => job.program = "stub"

\* Nothing that is under way can reach a stub that runs.
Guarded == stubRunning =>
  /\ target.runs # "rom"
  /\ Whole("stub")
  /\ target.size > 0 => Apart(chip, target.base, target.size)
  /\ \A n \in 1 .. Len(toTarget) : toTarget[n].cmd = "MEM_BEGIN" => Apart(chip, toTarget[n].base, toTarget[n].size)

Resident == EndLast /\ ReportTrue /\ ConnectedTrue /\ StubFirst /\ Guarded

LEMMA TailElements ==
  ASSUME NEW S, NEW q \in Seq(S), q # <<>>
  PROVE  /\ Len(q) \in Nat \ {0} /\ Len(Tail(q)) = Len(q) - 1 /\ Head(q) = q[1]
         /\ \A n \in 1 .. Len(Tail(q)) : n + 1 \in 1 .. Len(q) /\ Tail(q)[n] = q[n + 1]
  <1>1. Len(q) \in Nat \ {0} /\ Head(q) = q[1]
    BY EmptySeq
  <1> QED
    BY <1>1, HeadTailProperties

LEMMA AppendElements ==
  ASSUME NEW S, NEW q \in Seq(S), NEW e \in S
  PROVE  /\ Len(q) \in Nat /\ Len(Append(q, e)) = Len(q) + 1 /\ Append(q, e)[Len(q) + 1] = e
         /\ Append(q, e) # <<>>
         /\ \A n \in 1 .. Len(q) : Append(q, e)[n] = q[n]
  OBVIOUS

LEMMA WholeStays ==
  ASSUME UNCHANGED <<chip, app, ram>>, NEW p \in Programs
  PROVE  Whole(p)' = Whole(p)
  <1>1. Segments(p)' = Segments(p)
    BY DEF Segments, AppSegments, Anchor
  <1> QED
    BY <1>1 DEF Whole, Pieces

\* Every piece of a program lies in one of its segments.
LEMMA PieceWithin ==
  ASSUME Fitting(chip), NEW p \in Programs, NEW x \in Pieces(p)
  PROVE  /\ x \in PieceType
         /\ \E n \in 1 .. Len(Segments(p)) :
              LET s == Segments(p)[n] IN s \in Region /\ x.at >= s.addr /\ x.at + x.size <= End(s)
  <1>1. PICK n \in 1 .. Len(Segments(p)) : \E i \in 0 .. BlockCount(Segments(p)[n].size) - 1 : x = Piece(p, Segments(p)[n], i)
    BY DEF Pieces
  <1>2. Segments(p)[n] \in Region
    BY SegmentTypes
  <1>3. BlockCount(Segments(p)[n].size) \in Nat
    BY <1>2, Blocks DEF Region
  <1>4. PICK i \in Nat : i < BlockCount(Segments(p)[n].size) /\ x = Piece(p, Segments(p)[n], i)
    BY <1>1, <1>3
  <1> QED
    BY <1>2, <1>4, PieceFields

\* A block spares what lies before and behind it.
LEMMA WriteSpares ==
  ASSUME NEW at \in Nat, NEW x \in PieceType, NEW y \in PieceType, [at |-> y.at, piece |-> y] \in ram,
         y.at + y.size <= at \/ at + x.size <= y.at
  PROVE  [at |-> y.at, piece |-> y] \in Overwritten(at, x)
  <1> DEFINE r == [at |-> y.at, piece |-> y]
  <1>1. r.at = y.at /\ r.piece = y
    OBVIOUS
  <1>2. x.size \in Nat /\ y.size \in Nat /\ y.at \in Nat
    BY DEF PieceType
  <1>3. ~Touches(at, at + x.size, y.at, y.at + y.size)
    BY <1>2 DEF Touches
  <1> QED
    BY <1>1, <1>3 DEF Overwritten

LEMMA WindowSpares ==
  ASSUME TypeOK, Whole("stub"), target.size > 0 => Apart(chip, target.base, target.size),
         toTarget # <<>>, NEW x \in PieceType, Placeable(Head(toTarget), x),
         UNCHANGED <<chip, app>>, ram' = Overwritten(target.base + Slot(Head(toTarget)) * RamBlock, x)
  PROVE  Whole("stub")'
  <1> DEFINE k  == Slot(Head(toTarget)) * RamBlock
             at == target.base + k
  <1>1. k \in Nat /\ target.base \in Nat /\ target.size \in Nat /\ x.size \in Nat \ {0}
    BY SlotType DEF TypeOK, TargetType, PieceType
  <1>2. k + x.size <= target.size
    BY DEF Placeable
  <1>3. Fitting(chip) /\ "stub" \in Programs
    BY DEF TypeOK, HostType, Programs
  <1> HIDE DEF k
  <1>4. at \in Nat /\ at >= target.base /\ at + x.size <= target.base + target.size /\ target.size > 0
    BY <1>1, <1>2
  <1>5. ASSUME NEW y \in Pieces("stub") PROVE [at |-> y.at, piece |-> y] \in ram'
    <2>1. y \in PieceType /\ [at |-> y.at, piece |-> y] \in ram
      BY <1>3, PieceWithin DEF Whole
    <2>2. PICK n \in 1 .. 2 : LET s == EspStub[chip].segments[n] IN s \in Region /\ y.at >= s.addr /\ y.at + y.size <= End(s)
      <3>1. Segments("stub") = EspStub[chip].segments /\ Len(Segments("stub")) = 2
        BY <1>3, StubTable DEF Segments, Fitting
      <3> QED
        BY <1>3, <3>1, PieceWithin
    <2>3. ~(target.base < End(EspStub[chip].segments[n]) /\ target.base + target.size > EspStub[chip].segments[n].addr)
      BY <1>4 DEF Apart, End
    <2>4. y.at \in Nat /\ y.size \in Nat /\ End(EspStub[chip].segments[n]) \in Nat /\ EspStub[chip].segments[n].addr \in Nat
      BY <2>1, <2>2 DEF PieceType, Region, End
    <2> DEFINE lo == EspStub[chip].segments[n].addr
               hi == End(EspStub[chip].segments[n])
               b  == target.base
               e  == target.base + target.size
    <2>5. y.at \in Nat /\ y.size \in Nat /\ x.size \in Nat /\ at \in Nat /\ lo \in Nat /\ hi \in Nat /\ b \in Nat
          /\ e \in Nat /\ y.at >= lo /\ y.at + y.size <= hi /\ (b >= hi \/ e <= lo) /\ at >= b /\ at + x.size <= e
      <3>1. b \in Nat /\ e \in Nat
        BY <1>1
      <3>2. b >= hi \/ e <= lo
        BY <2>3, <2>4, <3>1
      <3>3. x.size \in Nat /\ at \in Nat /\ at >= b /\ at + x.size <= e
        BY <1>1, <1>4
      <3> QED
        BY <2>2, <2>4, <3>1, <3>2, <3>3
    <2> HIDE DEF lo, hi, b, e, at
    <2>7. y.at + y.size <= at \/ at + x.size <= y.at
      BY <2>5
    <2>6. [at |-> y.at, piece |-> y] \in Overwritten(at, x)
      BY <2>1, <2>5, <2>7, WriteSpares
    <2> QED
      BY <2>6 DEF at, k
  <1>6. Pieces("stub")' = Pieces("stub")
    BY DEF Pieces, Segments, AppSegments, Anchor
  <1> QED
    BY <1>5, <1>6 DEF Whole

\* A command of the host to a target that is left alone.
LEMMA SendResident ==
  ASSUME TypeOK, Resident, NEW f \in FrameType,
         toTarget' = Append(toTarget, f), call' = f.cmd, ~Idle', result' # "CONNECTED",
         toHost' = toHost \/ (toHost # <<>> /\ toHost' = Tail(toHost)),
         UNCHANGED <<chip, app, target, ram, stubRunning>>,
         \/ Idle /\ toTarget = <<>> /\ job'.program = "app"
         \/ call \in {"MEM_BEGIN", "MEM_DATA"} /\ job'.program = job.program,
         f.cmd = "MEM_BEGIN" /\ stubRunning => Apart(chip, f.base, f.size)
  PROVE  Resident'
  <1>1. /\ Len(toTarget) \in Nat /\ Len(toTarget') = Len(toTarget) + 1 /\ toTarget'[Len(toTarget) + 1] = f
        /\ \A n \in 1 .. Len(toTarget) : toTarget'[n] = toTarget[n]
    BY AppendElements DEF TypeOK, LineType
  <1>2. \A n \in 1 .. Len(toTarget) : toTarget[n].cmd # "MEM_END"
    <2>1. CASE toTarget = <<>>
      BY <2>1
    <2>2. CASE call \in {"MEM_BEGIN", "MEM_DATA"}
      <3>1. ~Idle
        BY <2>2 DEF TypeOK, HostType, NoCall
      <3> QED
        BY <2>2, <3>1 DEF Resident, EndLast
    <2> QED
      BY <2>1, <2>2
  <1>3. EndLast'
    BY <1>1, <1>2 DEF EndLast
  <1>4. call' \in Exchanges
    BY DEF FrameType
  <1>5. ReportTrue'
    <2>1. ~(job'.program = "stub" /\ Reported')
      <3>1. CASE job'.program = "app"
        BY <3>1
      <3>2. CASE call \in {"MEM_BEGIN", "MEM_DATA"} /\ job'.program = job.program
        <4>1. job.program = "stub" => ~Reported
          BY <3>2 DEF Resident, ReportTrue
        <4>2. Reported' => Reported
          <5>1. CASE toHost' = toHost
            BY <5>1 DEF Reported
          <5>2. CASE toHost # <<>> /\ toHost' = Tail(toHost)
            BY <5>2, TailElements DEF Reported, TypeOK, LineType
          <5> QED
            BY <5>1, <5>2
        <4> QED
          BY <3>2, <4>1, <4>2
      <3> QED
        BY <3>1, <3>2
    <2> QED
      BY <2>1 DEF ReportTrue
  <1>6. ConnectedTrue'
    BY DEF ConnectedTrue
  <1>7. StubFirst'
    BY <1>4 DEF StubFirst, Resident, Exchanges
  <1>8. Guarded'
    <2>1. Whole("stub")' = Whole("stub")
      BY WholeStays DEF Programs
    <2>3. CASE stubRunning
      <3>1. target.runs # "rom" /\ Whole("stub") /\ (target.size > 0 => Apart(chip, target.base, target.size))
        BY <2>3 DEF Resident, Guarded
      <3>2. \A n \in 1 .. Len(toTarget) : toTarget[n].cmd = "MEM_BEGIN" => Apart(chip, toTarget[n].base, toTarget[n].size)
        BY <2>3 DEF Resident, Guarded
      <3>3. \A n \in 1 .. Len(toTarget') :
              toTarget'[n].cmd = "MEM_BEGIN" => Apart(chip, toTarget'[n].base, toTarget'[n].size)
        BY <1>1, <2>3, <3>2
      <3> QED
        BY <2>1, <3>1, <3>3 DEF Guarded
    <2>4. CASE ~stubRunning
      BY <2>4 DEF Guarded
    <2> QED
      BY <2>3, <2>4
  <1> QED
    BY <1>3, <1>5, <1>6, <1>7, <1>8 DEF Resident

\* A call that returns, and every step that only shortens the line.
LEMMA ShortenResident ==
  ASSUME TypeOK, Resident,
         toHost' = toHost \/ (toHost # <<>> /\ toHost' = Tail(toHost)),
         toTarget' = toTarget \/ (toTarget # <<>> /\ toTarget' = Tail(toTarget)),
         UNCHANGED <<chip, app, target, ram, stubRunning>>,
         \/ UNCHANGED <<job, call, result>>
         \/ Idle' /\ call' = NoCall /\ result' # "CONNECTED"
         \/ job.program = "stub" /\ call = "MEM_END" /\ call' = "OHAI" /\ UNCHANGED <<job, result, toTarget>>
  PROVE  Resident'
  <1>1. Reported' => Reported
    <2>1. CASE toHost' = toHost
      BY <2>1 DEF Reported
    <2>2. CASE toHost # <<>> /\ toHost' = Tail(toHost)
      BY <2>2, TailElements DEF Reported, TypeOK, LineType
    <2> QED
      BY <2>1, <2>2
  <1>2. Len(toTarget) \in Nat /\ (toTarget = <<>> => toTarget' = <<>>)
    BY DEF TypeOK, LineType
  <1>3. \/ toTarget' = toTarget
        \/ /\ Len(toTarget') = Len(toTarget) - 1
           /\ \A n \in 1 .. Len(toTarget') : n + 1 \in 1 .. Len(toTarget) /\ toTarget'[n] = toTarget[n + 1]
    BY TailElements DEF TypeOK, LineType
  <1>4. (Idle /\ UNCHANGED job => Idle') /\ (job'.program = "stub" => job.program = "stub" /\ UNCHANGED <<job, result>>)
    BY DEF Idle
  <1>5. EndLast'
    <2>1. \A n \in 1 .. Len(toTarget') : toTarget'[n].cmd = "MEM_END" =>
             n = Len(toTarget') /\ (Idle \/ call \in {"MEM_END", "OHAI"})
      BY <1>2, <1>3 DEF Resident, EndLast
    <2>2. Idle \/ call \in {"MEM_END", "OHAI"} => Idle' \/ call' \in {"MEM_END", "OHAI"}
      BY <1>4
    <2> QED
      BY <2>1, <2>2 DEF EndLast
  <1>6. Whole("stub")' = Whole("stub")
    BY WholeStays DEF Programs
  <1>7. ReportTrue'
    BY <1>1, <1>2, <1>4, <1>6 DEF Resident, ReportTrue, Idle, NoCall
  <1>8. ConnectedTrue'
    BY <1>2, <1>4 DEF Resident, ConnectedTrue, Idle
  <1>9. StubFirst'
    BY <1>4 DEF Resident, StubFirst, NoCall, Idle
  <1>10. Guarded'
    <2>3. CASE stubRunning
      <3>1. target.runs # "rom" /\ Whole("stub") /\ (target.size > 0 => Apart(chip, target.base, target.size))
        BY <2>3 DEF Resident, Guarded
      <3>2. \A n \in 1 .. Len(toTarget) : toTarget[n].cmd = "MEM_BEGIN" => Apart(chip, toTarget[n].base, toTarget[n].size)
        BY <2>3 DEF Resident, Guarded
      <3>3. \A n \in 1 .. Len(toTarget') :
              toTarget'[n].cmd = "MEM_BEGIN" => Apart(chip, toTarget'[n].base, toTarget'[n].size)
        BY <1>3, <3>2
      <3> QED
        BY <1>6, <3>1, <3>3 DEF Guarded
    <2>4. CASE ~stubRunning
      BY <2>4 DEF Guarded
    <2> QED
      BY <2>3, <2>4
  <1> QED
    BY <1>5, <1>7, <1>8, <1>9, <1>10 DEF Resident

\* The target takes a command; Guarded has to be looked at for each kind.
GuardedTarget ==
  stubRunning => /\ target'.runs # "rom"
                 /\ Whole("stub")'
                 /\ target'.size > 0 => Apart(chip, target'.base, target'.size)

LEMMA ServeKeepsRest ==
  ASSUME TypeOK, Resident, toTarget # <<>>, toTarget' = Tail(toTarget), GuardedTarget,
         UNCHANGED <<hostVars, app, call>>
  PROVE  EndLast' /\ ConnectedTrue' /\ StubFirst' /\ Guarded'
  <1>1. /\ UNCHANGED <<chip, app, stubRunning, job, result, call>> /\ result # "CONNECTED" /\ Len(toTarget) \in Nat
        /\ (Idle <=> Idle')
    BY DEF hostVars, Resident, ConnectedTrue, TypeOK, LineType, Idle
  <1>2. /\ Len(toTarget') = Len(toTarget) - 1
        /\ \A n \in 1 .. Len(toTarget') : n + 1 \in 1 .. Len(toTarget) /\ toTarget'[n] = toTarget[n + 1]
    BY TailElements DEF TypeOK, LineType
  <1>3. EndLast'
    <2>1. \A n \in 1 .. Len(toTarget') : toTarget'[n].cmd = "MEM_END" =>
             n = Len(toTarget') /\ (Idle \/ call \in {"MEM_END", "OHAI"})
      <3>1. ASSUME NEW n \in 1 .. Len(toTarget'), toTarget'[n].cmd = "MEM_END"
            PROVE  n = Len(toTarget') /\ (Idle \/ call \in {"MEM_END", "OHAI"})
        <4>1. n + 1 \in 1 .. Len(toTarget) /\ toTarget[n + 1].cmd = "MEM_END"
          BY <1>2, <3>1
        <4>2. n + 1 = Len(toTarget) /\ (Idle \/ call \in {"MEM_END", "OHAI"})
          BY <4>1 DEF Resident, EndLast
        <4>3. n + 1 = Len(toTarget)
          BY <4>2
        <4>4. Len(toTarget) \in Nat /\ Len(toTarget') = Len(toTarget) - 1
          BY <1>1, <1>2
        <4>5. n = Len(toTarget')
          BY <4>3, <4>4
        <4> QED
          BY <4>2, <4>5
      <3> QED
        BY <3>1
    <2> QED
      BY <1>1, <2>1 DEF EndLast
  <1>4. ConnectedTrue' /\ StubFirst'
    BY <1>1 DEF Resident, ConnectedTrue, StubFirst
  <1>5. Guarded'
    <2>1. CASE stubRunning
      <3>1. \A n \in 1 .. Len(toTarget) : toTarget[n].cmd = "MEM_BEGIN" => Apart(chip, toTarget[n].base, toTarget[n].size)
        BY <2>1 DEF Resident, Guarded
      <3>2. \A n \in 1 .. Len(toTarget') :
              toTarget'[n].cmd = "MEM_BEGIN" => Apart(chip, toTarget'[n].base, toTarget'[n].size)
        BY <1>2, <3>1
      <3> QED
        BY <1>1, <2>1, <3>2 DEF Guarded, GuardedTarget
    <2>2. CASE ~stubRunning
      BY <1>1, <2>2 DEF Guarded
    <2> QED
      BY <2>1, <2>2
  <1> QED
    BY <1>3, <1>4, <1>5

LEMMA ServeResident ==
  ASSUME TypeOK, Resident, toTarget # <<>>, toTarget' = Tail(toTarget), GuardedTarget,
         UNCHANGED <<hostVars, app, call>>,
         NEW a \in AnswerType, a.cmd # "OHAI", toHost' = Append(toHost, a)
  PROVE  Resident'
  <1>1. Reported' => Reported
    <2>1. /\ Len(toHost) \in Nat /\ Len(toHost') = Len(toHost) + 1 /\ toHost'[Len(toHost) + 1] = a
          /\ \A n \in 1 .. Len(toHost) : toHost'[n] = toHost[n]
      BY AppendElements DEF TypeOK, LineType
    <2> QED
      BY <2>1 DEF Reported
  <1>2. UNCHANGED job
    BY DEF hostVars
  <1>3. ReportTrue'
    BY <1>1, <1>2 DEF Resident, ReportTrue
  <1> QED
    BY <1>3, ServeKeepsRest DEF Resident

LEMMA RespondResident ==
  ASSUME TypeOK, Resident, toTarget # <<>>, NEW ok \in BOOLEAN, Respond(ok), GuardedTarget, UNCHANGED <<hostVars, app>>
  PROVE  Resident'
  <1>1. [cmd |-> Head(toTarget).cmd, ok |-> ok] \in AnswerType /\ Head(toTarget).cmd # "OHAI"
    BY QueueTypes DEF TypeOK, AnswerType, FrameType, Exchanges
  <1>2. call' = call /\ toTarget' = Tail(toTarget) /\ toHost' = Append(toHost, [cmd |-> Head(toTarget).cmd, ok |-> ok])
    BY DEF Respond, Reply
  <1> QED
    BY <1>1, <1>2, ServeResident

LEMMA ServeEndResident ==
  ASSUME TypeOK, Resident, ServeEnd
  PROVE  Resident'
  <1> DEFINE f == Head(toTarget)
             entered == IF f.base = Entry("stub") THEN "stub" ELSE "app"
             answer == [cmd |-> "MEM_END", ok |-> TRUE]
             ohai == [cmd |-> "OHAI", ok |-> TRUE]
  <1>1. /\ toTarget # <<>> /\ f.cmd = "MEM_END" /\ toTarget' = Tail(toTarget) /\ target'.size = 0
        /\ UNCHANGED <<hostVars, ram, app, call>>
        /\ target'.runs = IF f.stay THEN target.runs ELSE IF Whole(entered) THEN entered ELSE "astray"
        /\ \/ target'.runs = "stub" /\ ~f.stay /\ toHost' = toHost \o <<answer, ohai>>
           \/ ~(target'.runs = "stub" /\ ~f.stay) /\ toHost' = Append(toHost, answer)
    BY EndOutcome
  <1>2. UNCHANGED <<chip, app, ram, job, stubRunning>>
    BY <1>1 DEF hostVars
  <1>3. Whole("stub")' = Whole("stub")
    BY <1>2, WholeStays DEF Programs
  <1>4. GuardedTarget
    BY <1>1, <1>3 DEF Resident, Guarded, GuardedTarget
  <1>5. CASE toHost' = Append(toHost, answer)
    <2>1. answer \in AnswerType /\ answer.cmd # "OHAI"
      BY DEF AnswerType, Exchanges
    <2> HIDE DEF answer
    <2> QED
      BY <1>1, <1>4, <1>5, <2>1, ServeResident
  <1>6. CASE target'.runs = "stub" /\ ~f.stay
    <2>1. Whole("stub")
      BY <1>1, <1>6
    <2>2. toTarget' = <<>> /\ (Idle \/ call \in {"MEM_END", "OHAI"})
      <3>1. 1 \in 1 .. Len(toTarget) /\ f = toTarget[1] /\ Len(toTarget) \in Nat /\ Len(toTarget') = Len(toTarget) - 1
        BY <1>1, TailElements DEF TypeOK, LineType
      <3>2. 1 = Len(toTarget) /\ (Idle \/ call \in {"MEM_END", "OHAI"})
        BY <1>1, <3>1 DEF Resident, EndLast
      <3>3. toTarget' \in Seq(FrameType)
        BY <1>1, QueueTypes DEF TypeOK
      <3>4. Len(toTarget') = 0
        <4>1. 1 = Len(toTarget) /\ Len(toTarget') = Len(toTarget) - 1
          BY <3>1, <3>2
        <4> QED
          BY <4>1
      <3>5. toTarget' = <<>>
        BY <3>3, <3>4, EmptySeq
      <3> QED
        BY <3>2, <3>5
    <2>3. ReportTrue'
      BY <1>1, <1>2, <1>3, <1>6, <2>1, <2>2 DEF ReportTrue, Idle
    <2> QED
      BY <1>1, <1>4, <2>3, ServeKeepsRest DEF Resident
  <1> QED
    BY <1>1, <1>5, <1>6

LEMMA ServeDataResident ==
  ASSUME TypeOK, Resident, ServeData
  PROVE  Resident'
  <1>1. PICK piece \in PieceType :
              \/ /\ Placeable(Head(toTarget), piece)
                 /\ ram' = Overwritten(target.base + Slot(Head(toTarget)) * RamBlock, piece)
                 /\ target' = [target EXCEPT !.received = @ + 1]
                 /\ Respond(TRUE)
              \/ Respond(FALSE) /\ UNCHANGED <<target, ram>>
    BY DataOutcome
  <1>2. toTarget # <<>> /\ UNCHANGED <<hostVars, app>>
    BY DataOutcome
  <1>3. UNCHANGED <<chip, app, stubRunning>>
    BY <1>2 DEF hostVars
  <1>4. target'.runs = target.runs /\ target'.base = target.base /\ target'.size = target.size
    BY <1>1 DEF TypeOK, TargetType
  <1>5. stubRunning => Whole("stub")'
    <2>1. CASE ram' = ram
      BY <1>3, <2>1, WholeStays DEF Resident, Guarded, Programs
    <2>2. CASE Placeable(Head(toTarget), piece) /\ ram' = Overwritten(target.base + Slot(Head(toTarget)) * RamBlock, piece)
      BY <1>2, <1>3, <2>2, WindowSpares DEF Resident, Guarded
    <2> QED
      BY <1>1, <2>1, <2>2
  <1>6. GuardedTarget
    BY <1>4, <1>5 DEF Resident, Guarded, GuardedTarget
  <1> QED
    BY <1>1, <1>2, <1>6, RespondResident

LEMMA ServeBeginResident ==
  ASSUME TypeOK, Resident, ServeBegin
  PROVE  Resident'
  <1> DEFINE f == Head(toTarget)
  <1>1. /\ toTarget # <<>> /\ f.cmd = "MEM_BEGIN" /\ Respond(TRUE) /\ UNCHANGED <<hostVars, ram, app>>
        /\ target' = [target EXCEPT !.base = f.base, !.size = f.size, !.received = 0]
    BY DEF ServeBegin, Awake
  <1>2. target'.runs = target.runs /\ target'.base = f.base /\ target'.size = f.size
    BY <1>1 DEF TypeOK, TargetType
  <1>3. stubRunning => Apart(chip, f.base, f.size)
    <2>1. 1 \in 1 .. Len(toTarget) /\ f = toTarget[1]
      BY <1>1, TailElements DEF TypeOK, LineType
    <2> QED
      BY <1>1, <2>1 DEF Resident, Guarded
  <1>4. Whole("stub")' = Whole("stub")
    BY <1>1, WholeStays DEF hostVars, Programs
  <1>5. GuardedTarget
    BY <1>2, <1>3, <1>4 DEF Resident, Guarded, GuardedTarget
  <1> QED
    BY <1>1, <1>5, RespondResident

LEMMA BeginsResident ==
  ASSUME TypeOK, Resident, NEW p \in Programs, NEW n, NEW inbound, Begins(p, n, inbound),
         inbound = toHost \/ (toHost # <<>> /\ inbound = Tail(toHost)),
         UNCHANGED <<chip, app, target, ram, stubRunning>>,
         \/ Idle /\ toTarget = <<>> /\ p = "app"
         \/ call \in {"MEM_BEGIN", "MEM_DATA"} /\ p = job.program
  PROVE  Resident'
  <1> DEFINE s == Segments(p)[n]
             f == BeginFrame(s)
  <1>1. s \in Region
    BY SegmentTypes DEF TypeOK, HostType, Begins
  <1>2. f \in FrameType /\ f.cmd = "MEM_BEGIN" /\ f.base = s.addr /\ f.size = s.size
    BY <1>1, BeginFields
  <1>3. stubRunning => Apart(chip, f.base, f.size)
    BY <1>2, ApartMeans DEF Begins
  <1>4. toTarget' = Append(toTarget, f) /\ call' = "MEM_BEGIN" /\ toHost' = inbound /\ result' = "PENDING"
        /\ job'.program = p /\ ~Idle'
    BY DEF Begins, Idle, Programs
  <1> HIDE DEF f
  <1> QED
    BY <1>2, <1>3, <1>4, SendResident

LEMMA SendsResident ==
  ASSUME TypeOK, Resident, NEW n \in Nat, NEW inbound, Sends(n, inbound) \/ Ends(n, inbound),
         inbound = toHost \/ (toHost # <<>> /\ inbound = Tail(toHost)),
         UNCHANGED <<chip, app, target, ram, stubRunning>>, call \in {"MEM_BEGIN", "MEM_DATA"}
  PROVE  Resident'
  <1>1. ~Idle /\ result # "CONNECTED" /\ seq \in Nat /\ Fitting(chip) /\ job.program \in Programs
    BY DEF TypeOK, HostType, NoCall, Resident, ConnectedTrue, Idle
  <1>2. job'.program = job.program /\ result' # "CONNECTED" /\ toHost' = inbound /\ ~Idle'
    BY <1>1 DEF Sends, Ends, TypeOK, HostType, Idle
  <1>3. PICK f \in FrameType : f.cmd # "MEM_BEGIN" /\ toTarget' = Append(toTarget, f) /\ call' = f.cmd
    <2>1. CASE Sends(n, inbound)
      <3>1. LET f == DataFrame(n, seq) IN f \in FrameType /\ f.cmd = "MEM_DATA"
        BY <1>1, <2>1, DataFields DEF TypeOK, Sends
      <3> QED
        BY <2>1, <3>1 DEF Sends
    <2>2. CASE Ends(n, inbound)
      <3>1. LET f == EndFrame(job.program) IN f \in FrameType /\ f.cmd = "MEM_END"
        BY <1>1, EndFields
      <3> QED
        BY <2>2, <3>1 DEF Ends
    <2> QED
      BY <2>1, <2>2
  <1> QED
    BY <1>2, <1>3, SendResident

LEMMA FinishResident ==
  ASSUME TypeOK, Resident, NEW res, res # "CONNECTED", NEW inbound, Finish(res, inbound),
         inbound = toHost \/ (toHost # <<>> /\ inbound = Tail(toHost)),
         UNCHANGED <<chip, app, target, ram, stubRunning>>
  PROVE  Resident'
  <1>1. toHost' = inbound /\ toTarget' = toTarget /\ Idle' /\ call' = NoCall /\ result' # "CONNECTED"
    BY DEF Finish, Return, Idle, NoJob
  <1> QED
    BY <1>1, ShortenResident

LEMMA ContinueResident ==
  ASSUME TypeOK, Resident, NEW n \in Nat, Continue(n, Tail(toHost)), toHost # <<>>,
         UNCHANGED <<chip, app, target, ram, stubRunning>>, call \in {"MEM_BEGIN", "MEM_DATA"}
  PROVE  Resident'
  <1>1. job.program \in Programs /\ Len(Segments(job.program)) \in Nat /\ job.seg \in Nat
    BY SegmentTypes DEF TypeOK, HostType, Idle, NoCall
  <1>2. CASE Sends(n, Tail(toHost)) \/ Ends(n, Tail(toHost))
    BY <1>2, SendsResident
  <1>3. CASE Begins(job.program, job.seg + 1, Tail(toHost))
    BY <1>1, <1>3, BeginsResident
  <1>4. CASE Finish("INVALID_PARAM", Tail(toHost))
    BY <1>4, FinishResident
  <1> QED
    BY <1>1, <1>2, <1>3, <1>4, Continues

LEMMA GreetedResident ==
  ASSUME TypeOK, Resident, Greeted
  PROVE  Resident'
  <1> DEFINE ohai == Head(toHost).cmd = "OHAI"
  <1>1. /\ call = "OHAI" /\ toHost # <<>> /\ UNCHANGED <<chip, target, ram, app>>
        /\ Finish(IF ohai THEN "CONNECTED" ELSE "INVALID_RESPONSE", Tail(toHost))
        /\ stubRunning' = (stubRunning \/ ohai)
    BY DEF Greeted, targetVars
  <1>2. CASE ~ohai
    <2>1. stubRunning' = stubRunning
      BY <1>1, <1>2 DEF TypeOK, HostType
    <2> QED
      BY <1>1, <1>2, <2>1, FinishResident
  <1>3. CASE ohai
    <2>1. Reported
      <3>1. 1 \in 1 .. Len(toHost) /\ Head(toHost) = toHost[1]
        BY <1>1, TailElements DEF TypeOK, LineType
      <3> QED
        BY <1>3, <3>1 DEF Reported
    <2>2. job.program = "stub" /\ Whole("stub") /\ target.runs = "stub" /\ target.size = 0 /\ toTarget = <<>>
      BY <1>1, <2>1 DEF Resident, StubFirst, ReportTrue
    <2>3. toTarget' = <<>> /\ job'.program = "none" /\ call' = NoCall /\ stubRunning'
      BY <1>1, <1>3, <2>2 DEF Finish, Return, NoJob
    <2>4. Whole("stub")'
      BY <1>1, <2>2, WholeStays DEF Programs
    <2> QED
      BY <1>1, <2>2, <2>3, <2>4
      DEF Resident, EndLast, ReportTrue, ConnectedTrue, StubFirst, Guarded, Idle, NoCall
  <1> QED
    BY <1>2, <1>3

LEMMA ConnectResident ==
  ASSUME TypeOK, Resident, NEW withStub \in BOOLEAN, Connect(withStub)
  PROVE  Resident'
  <1>1. Fitting(chip) /\ target \in TargetType /\ Idle
    BY DEF TypeOK, HostType, Connect
  <1>2. /\ toHost' = <<>> /\ stubRunning' = FALSE /\ target' = [target EXCEPT !.runs = "rom", !.size = 0]
        /\ \/ /\ toTarget' = <<BeginFrame(Segments("stub")[1])>> /\ call' = "MEM_BEGIN"
              /\ job' = [program |-> "stub", seg |-> 1, sent |-> 0] /\ result' = "PENDING"
           \/ toTarget' = <<>> /\ call' = NoCall /\ result' = "CONNECTED" /\ job' = job
    BY <1>1, ConnectBegins
  <1>3. target'.runs = "rom" /\ ~Reported'
    BY <1>1, <1>2 DEF TargetType, Reported
  <1>4. ReportTrue' /\ Guarded'
    BY <1>2, <1>3 DEF ReportTrue, Guarded
  <1>5. CASE /\ toTarget' = <<BeginFrame(Segments("stub")[1])>> /\ call' = "MEM_BEGIN"
             /\ job' = [program |-> "stub", seg |-> 1, sent |-> 0] /\ result' = "PENDING"
    <2>1. \A n \in 1 .. Len(toTarget') : toTarget'[n].cmd = "MEM_BEGIN"
      BY <1>5, Codes
    <2>2. EndLast'
      BY <2>1 DEF EndLast
    <2>3. ConnectedTrue' /\ StubFirst'
      BY <1>2, <1>5 DEF ConnectedTrue, StubFirst
    <2> QED
      BY <1>4, <2>2, <2>3 DEF Resident
  <1>6. CASE toTarget' = <<>> /\ call' = NoCall /\ result' = "CONNECTED" /\ job' = job
    <2>1. EndLast' /\ ConnectedTrue' /\ StubFirst'
      BY <1>1, <1>2, <1>3, <1>6 DEF EndLast, ConnectedTrue, StubFirst, Idle, NoCall
    <2> QED
      BY <1>4, <2>1 DEF Resident
  <1> QED
    BY <1>2, <1>5, <1>6

LEMMA ResidentStep ==
  ASSUME TypeOK, Resident, [Next]_vars
  PROVE  Resident'
  <1>1. CASE Load
    <2>1. UNCHANGED <<chip, app, target, ram, stubRunning>> /\ Idle /\ toTarget = <<>>
      BY <1>1 DEF Load, targetVars, Resident, ConnectedTrue
    <2>2. Len(Segments("app")) \in Nat /\ Len(Segments("app")) >= 1 /\ "app" \in Programs
      <3>1. "app" \in Programs /\ Fitting(chip)
        BY DEF TypeOK, HostType, Programs
      <3>2. Len(Segments("app")) \in 1 .. 2
        BY <3>1, SegmentTypes
      <3> QED
        BY <3>1, <3>2
    <2> QED
      BY <1>1, <2>1, <2>2, LoadBegins, BeginsResident, FinishResident
  <1>2. ASSUME NEW withStub \in BOOLEAN, Connect(withStub) PROVE Resident'
    BY <1>2, ConnectResident
  <1>3. CASE Begun
    <2>1. UNCHANGED <<chip, app, target, ram, stubRunning>> /\ call = "MEM_BEGIN" /\ toHost # <<>>
          /\ Continue(0, Tail(toHost))
      BY <1>3 DEF Begun, targetVars, Accepted, Answered
    <2> QED
      BY <2>1, ContinueResident
  <1>4. CASE BlockWritten
    <2>1. UNCHANGED <<chip, app, target, ram, stubRunning>> /\ call = "MEM_DATA" /\ toHost # <<>>
          /\ Continue(job.sent + 1, Tail(toHost)) /\ job.sent + 1 \in Nat
      BY <1>4 DEF BlockWritten, targetVars, Accepted, Answered, TypeOK, HostType
    <2> QED
      BY <2>1, ContinueResident
  <1>5. CASE RetryBlock
    <2>1. UNCHANGED <<chip, app, target, ram, stubRunning>> /\ call = "MEM_DATA" /\ job.sent \in Nat
      BY <1>5 DEF RetryBlock, targetVars, TypeOK, HostType
    <2> QED
      BY <1>5, <2>1, RetrySends, SendsResident DEF TypeOK, Refused, Answered
  <1>6. CASE Finished
    <2>1. UNCHANGED <<chip, app, target, ram, stubRunning>> /\ call = "MEM_END" /\ toHost # <<>>
      BY <1>6 DEF Finished, targetVars, Accepted, Answered
    <2>2. CASE Finish("LOADED", Tail(toHost))
      BY <2>1, <2>2, FinishResident
    <2>3. CASE ~Finish("LOADED", Tail(toHost))
      <3>1. job.program = "stub" /\ call' = "OHAI" /\ toHost' = Tail(toHost) /\ UNCHANGED <<toTarget, job, result>>
        BY <1>6, <2>3 DEF Finished
      <3> QED
        BY <2>1, <3>1, ShortenResident
    <2> QED
      BY <2>2, <2>3
  <1>7. CASE Greeted
    BY <1>7, GreetedResident
  <1>8. CASE CallFails
    <2>1. UNCHANGED <<chip, app, target, ram, stubRunning>>
      BY <1>8 DEF CallFails, targetVars
    <2> QED
      BY <1>8, <2>1, FinishResident DEF CallFails, Refused, Answered
  <1>9. CASE SkipAnswer \/ Lose
    <2>1. /\ UNCHANGED <<chip, app, target, ram, stubRunning, job, call, result>>
          /\ toHost' = toHost \/ (toHost # <<>> /\ toHost' = Tail(toHost))
          /\ toTarget' = toTarget \/ (toTarget # <<>> /\ toTarget' = Tail(toTarget))
      BY <1>9 DEF SkipAnswer, Skip, hostVars, targetVars, Lose, Fault, LoseCommand, LoseAnswer
    <2> QED
      BY <2>1, ShortenResident
  <1>10. CASE ServeBegin
    BY <1>10, ServeBeginResident
  <1>11. CASE ServeData
    BY <1>11, ServeDataResident
  <1>12. CASE ServeEnd
    BY <1>12, ServeEndResident
  <1>13. CASE Refuse
    <2>1. toTarget # <<>> /\ Respond(FALSE) /\ UNCHANGED <<hostVars, app, target, ram>>
      BY <1>13 DEF Refuse, Fault, Awake, targetVars
    <2>2. Whole("stub")' = Whole("stub")
      BY <2>1, WholeStays DEF hostVars, Programs
    <2>3. GuardedTarget
      BY <2>1, <2>2 DEF GuardedTarget, Resident, Guarded
    <2> QED
      BY <2>1, <2>3, RespondResident
  <1>14. CASE UNCHANGED vars
    BY <1>14, ShortenResident DEF vars, linkVars, hostVars, targetVars
  <1> QED
    BY <1>1, <1>2, <1>3, <1>4, <1>5, <1>6, <1>7, <1>8, <1>9, <1>10, <1>11, <1>12, <1>13, <1>14
    DEF Next, Client, Host, Target

LEMMA InitResident == Init => Resident
  BY DEF Init, LinkInit, NoJob, NoCall, Resident, EndLast, ReportTrue, ConnectedTrue, StubFirst, Guarded, Idle

LEMMA ResidentAlways == Spec => []Resident
  <1>1. TypeOK /\ Resident /\ [Next]_vars => Resident'
    BY ResidentStep
  <1> QED
    BY <1>1, Typed, InitResident, PTL DEF Spec

\* While the resident stub runs its code is undamaged, whatever the client
\* loads and however many commands and answers are lost, refused or late: the
\* check of esp_loader_mem_start is enough.
THEOREM RamResidentIntact == Spec => []ResidentIntact
  <1>1. Resident => ResidentIntact
    BY DEF Resident, Guarded, ResidentIntact
  <1> QED
    BY <1>1, ResidentAlways, PTL

\* When esp_loader_connect or _with_stub returns SUCCESS the target runs what
\* stub_running says, also when frames of the download were lost or late.
THEOREM RamReportedStubRuns == Spec => []ReportedStubRuns
  <1>1. Resident => ReportedStubRuns
    BY DEF Resident, ConnectedTrue, Guarded, ReportedStubRuns
  <1> QED
    BY <1>1, ResidentAlways, PTL

-----------------------------------------------------------------------------
(* What has landed *)

Landed(p) == [at |-> p.at, piece |-> p] \in ram

\* Program p has landed up to block n of its segment k.
Done(p, k, n) ==
  /\ \A m \in 1 .. Len(Segments(p)) : m < k =>
       \A i \in Nat : i < BlockCount(Segments(p)[m].size) => Landed(Piece(p, Segments(p)[m], i))
  /\ \A i \in Nat : i < n => Landed(Piece(p, Segments(p)[k], i))

LEMMA SegmentsStay ==
  ASSUME UNCHANGED <<chip, app>>, NEW p \in Programs
  PROVE  Segments(p)' = Segments(p)
  <1>1. AppSegments(chip)' = AppSegments(chip)
    BY DEF AppSegments, Anchor
  <1> QED
    BY <1>1 DEF Segments

LEMMA DoneStays ==
  ASSUME UNCHANGED <<chip, app, ram>>, NEW p \in Programs, NEW k, NEW n
  PROVE  Done(p, k, n)' = Done(p, k, n)
  <1>1. Segments(p)' = Segments(p)
    BY SegmentsStay
  <1> QED
    BY <1>1 DEF Done, Landed

LEMMA DoneNext ==
  ASSUME Fitting(chip), NEW p \in Programs, NEW k \in 1 .. Len(Segments(p)), Done(p, k, BlockCount(Segments(p)[k].size))
  PROVE  /\ k < Len(Segments(p)) => Done(p, k + 1, 0)
         /\ k = Len(Segments(p)) => Whole(p)
  <1>1. Len(Segments(p)) \in Nat /\ \A m \in 1 .. Len(Segments(p)) : BlockCount(Segments(p)[m].size) \in Nat
    <2>1. Len(Segments(p)) \in Nat /\ \A m \in 1 .. Len(Segments(p)) : Segments(p)[m] \in Region
      BY SegmentTypes
    <2>2. \A m \in 1 .. Len(Segments(p)) : Segments(p)[m].size \in Nat
      BY <2>1 DEF Region
    <2> QED
      BY <2>1, <2>2, Blocks
  <1>2. ASSUME NEW m \in 1 .. Len(Segments(p)), m <= k, NEW i \in Nat, i < BlockCount(Segments(p)[m].size)
        PROVE  Landed(Piece(p, Segments(p)[m], i))
    <2>1. CASE m < k
      BY <1>2, <2>1 DEF Done
    <2>2. CASE m = k
      BY <1>2, <2>2 DEF Done
    <2> QED
      BY <1>1, <1>2, <2>1, <2>2
  <1>3. k < Len(Segments(p)) => Done(p, k + 1, 0)
    <2>1. \A m \in 1 .. Len(Segments(p)) : m < k + 1 => m <= k
      BY <1>1
    <2>2. \A i \in Nat : ~(i < 0)
      OBVIOUS
    <2> QED
      BY <1>2, <2>1, <2>2 DEF Done
  <1>4. ASSUME k = Len(Segments(p)) PROVE Whole(p)
    <2>1. ASSUME NEW x \in Pieces(p) PROVE Landed(x)
      <3>1. PICK m \in 1 .. Len(Segments(p)) : \E i \in 0 .. BlockCount(Segments(p)[m].size) - 1 : x = Piece(p, Segments(p)[m], i)
        BY DEF Pieces
      <3>2. m <= k /\ \A i \in 0 .. BlockCount(Segments(p)[m].size) - 1 : i \in Nat /\ i < BlockCount(Segments(p)[m].size)
        BY <1>1, <1>4, <3>1
      <3> QED
        BY <1>2, <3>1, <3>2
    <2> QED
      BY <2>1 DEF Whole, Landed
  <1> QED
    BY <1>3, <1>4

LEMMA SegmentsAre ==
  /\ Segments("stub") = EspStub[chip].segments
  /\ Segments("app") = AppSegments(chip)
  BY Zenon DEF Segments

\* The segments of a program do not overlap, nor do the blocks of a segment.
LEMMA SegmentsApart ==
  ASSUME Fitting(chip), NEW p \in Programs, NEW m \in 1 .. Len(Segments(p)), NEW k \in 1 .. Len(Segments(p)), m < k
  PROVE  LET s == Segments(p)[m]
             t == Segments(p)[k]
         IN  s.size > 0 /\ t.size > 0 => End(s) <= t.addr \/ End(t) <= s.addr
  <1>1. CASE p = "app"
    BY <1>1, AppTable, SegmentsAre
  <1>2. CASE p = "stub"
    <2>1. Segments(p) = EspStub[chip].segments /\ chip \in DOMAIN EspStub
      BY <1>2, SegmentsAre DEF Fitting
    <2>2. Len(EspStub[chip].segments) = 2
      BY <2>1, StubTable
    <2>3. m = 1 /\ k = 2
      BY <2>1, <2>2
    <2> DEFINE s == EspStub[chip].segments[1]
               t == EspStub[chip].segments[2]
    <2>4. s \in Region /\ t \in Region
      BY <2>1, StubTable
    <2>5. HasStub(chip) => s.addr + s.size <= t.addr \/ t.addr + t.size + 8 <= s.addr
      BY <2>1, StubTable
    <2>6. ~HasStub(chip) => s.size = 0
      <3>1. ~HasStub(chip) => EspStub[chip] = Placeholder
        BY <2>1, StubTable
      <3> QED
        BY <3>1 DEF Placeholder, Segment
    <2> HIDE DEF s, t
    <2>7. s.size > 0 => s.addr + s.size <= t.addr \/ t.addr + t.size <= s.addr
      <3>1. s.addr \in Nat /\ s.size \in Nat /\ t.addr \in Nat /\ t.size \in Nat
        BY <2>4 DEF Region
      <3> QED
        BY <2>5, <2>6, <3>1
    <2> QED
      BY <2>1, <2>3, <2>7 DEF End, s, t
  <1> QED
    BY <1>1, <1>2 DEF Programs

LEMMA BlocksApart ==
  ASSUME NEW p \in Programs, NEW s \in Region, NEW i \in Nat, NEW n \in Nat, i < n, n < BlockCount(s.size)
  PROVE  LET x == Piece(p, s, i)
             y == Piece(p, s, n)
         IN  x \in PieceType /\ y \in PieceType /\ x.at + x.size <= y.at
  <1> DEFINE x == Piece(p, s, i)
             y == Piece(p, s, n)
             a == i * RamBlock
             b == n * RamBlock
  <1>1. i < BlockCount(s.size)
    BY Blocks DEF Region
  <1>2. x \in PieceType /\ x.at = s.addr + a /\ x.size <= RamBlock /\ y \in PieceType /\ y.at = s.addr + b
    BY <1>1, PieceFields
  <1>3. a \in Int /\ b \in Int /\ a + RamBlock <= b
    BY Products
  <1>4. s.addr \in Nat /\ RamBlock \in Nat
    BY RamBlockAssumption DEF Region
  <1>5. x.size \in Nat
    BY <1>2 DEF PieceType
  <1> HIDE DEF a, b, x, y
  <1>6. x.at + x.size <= y.at
    BY <1>2, <1>3, <1>4, <1>5
  <1> QED
    BY <1>2, <1>6 DEF x, y

\* A block that is put where it belongs.
LEMMA DoneWrite ==
  ASSUME Fitting(chip), NEW p \in Programs, NEW k \in 1 .. Len(Segments(p)), NEW n \in Nat,
         n < BlockCount(Segments(p)[k].size), Done(p, k, n), UNCHANGED <<chip, app>>,
         ram' = Overwritten(Piece(p, Segments(p)[k], n).at, Piece(p, Segments(p)[k], n))
  PROVE  Done(p, k, n + 1)'
  <1> DEFINE t == Segments(p)[k]
             y == Piece(p, t, n)
  <1>1. t \in Region /\ y \in PieceType /\ y.at >= t.addr /\ y.at + y.size <= End(t)
    BY SegmentTypes, PieceFields
  <1>2. Segments(p)' = Segments(p)
    BY SegmentsStay
  <1>3. ASSUME NEW x \in PieceType, Landed(x), x.at + x.size <= y.at \/ y.at + y.size <= x.at
        PROVE  [at |-> x.at, piece |-> x] \in ram'
    <2>1. y.at \in Nat
      BY <1>1 DEF PieceType
    <2> HIDE DEF y
    <2>2. [at |-> x.at, piece |-> x] \in Overwritten(y.at, y)
      BY <1>1, <1>3, <2>1, WriteSpares DEF Landed
    <2> QED
      BY <2>2 DEF y
  <1>4. ASSUME NEW m \in 1 .. Len(Segments(p)), m < k, NEW i \in Nat, i < BlockCount(Segments(p)[m].size)
        PROVE  [at |-> Piece(p, Segments(p)[m], i).at, piece |-> Piece(p, Segments(p)[m], i)] \in ram'
    <2> DEFINE s == Segments(p)[m]
               x == Piece(p, s, i)
    <2>1. s \in Region /\ x \in PieceType /\ x.at >= s.addr /\ x.at + x.size <= End(s)
      BY <1>4, SegmentTypes, PieceFields
    <2>2. Landed(x)
      BY <1>4 DEF Done
    <2>3. End(s) <= t.addr \/ End(t) <= s.addr
      <3>1. s.size > 0
        BY <2>1 DEF PieceType, Region, End
      <3>2. t.size > 0
        BY <1>1 DEF PieceType, Region, End
      <3> QED
        BY <1>4, <3>1, <3>2, SegmentsApart
    <2>4. x.at \in Nat /\ x.size \in Nat /\ y.at \in Nat /\ y.size \in Nat
      BY <1>1, <2>1 DEF PieceType
    <2>6. s.addr \in Nat /\ t.addr \in Nat /\ s.addr + s.size \in Nat /\ t.addr + t.size \in Nat
      BY <1>1, <2>1 DEF Region
    <2>7. /\ x.at >= s.addr /\ x.at + x.size <= s.addr + s.size
          /\ y.at >= t.addr /\ y.at + y.size <= t.addr + t.size
          /\ s.addr + s.size <= t.addr \/ t.addr + t.size <= s.addr
      BY <1>1, <2>1, <2>3 DEF End
    <2> DEFINE es == s.addr + s.size
               et == t.addr + t.size
    <2>5. x.at + x.size <= y.at \/ y.at + y.size <= x.at
      <3>1. es \in Nat /\ et \in Nat /\ x.at >= s.addr /\ x.at + x.size <= es /\ y.at >= t.addr /\ y.at + y.size <= et
            /\ (es <= t.addr \/ et <= s.addr)
        BY <2>6, <2>7
      <3>2. s.addr \in Nat /\ t.addr \in Nat
        BY <2>6
      <3> DEFINE xa == x.at
                 xs == x.size
                 ya == y.at
                 ys == y.size
                 sa == s.addr
                 ta == t.addr
      <3>3. /\ xa \in Nat /\ xs \in Nat /\ ya \in Nat /\ ys \in Nat /\ sa \in Nat /\ ta \in Nat /\ es \in Nat /\ et \in Nat
            /\ xa >= sa /\ xa + xs <= es /\ ya >= ta /\ ya + ys <= et /\ (es <= ta \/ et <= sa)
        BY <2>4, <3>1, <3>2
      <3> HIDE DEF x, y, s, t, es, et, xa, xs, ya, ys, sa, ta
      <3>4. xa + xs <= ya \/ ya + ys <= xa
        BY <3>3
      <3> QED
        BY <3>4 DEF xa, xs, ya, ys
    <2> QED
      BY <1>3, <2>1, <2>2, <2>5
  <1>5. ASSUME NEW i \in Nat, i < n + 1
        PROVE  [at |-> Piece(p, t, i).at, piece |-> Piece(p, t, i)] \in ram'
    <2>1. CASE i = n
      BY <2>1 DEF Overwritten
    <2>2. CASE i < n
      BY <1>1, <1>3, <2>2, BlocksApart DEF Done
    <2> QED
      BY <1>5, <2>1, <2>2
  <1>6. \A m \in 1 .. Len(Segments(p)) : BlockCount(Segments(p)[m].size)' = BlockCount(Segments(p)[m].size)
    BY <1>2 DEF BlockCount
  <1> QED
    BY <1>2, <1>4, <1>5 DEF Done, Landed

-----------------------------------------------------------------------------
(* A line without late frames *)

Calm == trouble # "late"
Yes(cmd) == [cmd |-> cmd, ok |-> TRUE]

AsSent(f) ==
  /\ call \in Exchanges
  /\ call = "MEM_BEGIN" => f = BeginFrame(Here)
  /\ call = "MEM_DATA"  => f = DataFrame(job.sent, seq - 1)
  /\ call = "MEM_END"   => f = EndFrame(job.program)

\* The command of the open call, or its answer, or neither; the end of a stub
\* has two answers.
Shape ==
  \/ toTarget = <<>> /\ toHost = <<>>
  \/ toHost = <<>> /\ \E f \in FrameType : toTarget = <<f>> /\ AsSent(f)
  \/ toTarget = <<>> /\ call # NoCall /\ \E ok \in BOOLEAN : toHost = <<[cmd |-> call, ok |-> ok]>>
  \/ /\ toTarget = <<>> /\ job.program = "stub" /\ call = "MEM_END"
     /\ toHost = <<Yes("MEM_END"), Yes("OHAI")>> \/ toHost = <<Yes("OHAI")>>

Window(p, k) == target.base = Segments(p)[k].addr /\ target.size = Segments(p)[k].size

\* Where the command under way goes, and where an accepted block went.
NextSlot == IF target.policy = "positional" THEN seq - 1 ELSE target.received
UsedSlot == IF target.policy = "positional" THEN seq - 1 ELSE target.received - 1

\* Either every block so far is in its place, or the slots have run ahead of
\* the blocks for good, and the last block of the segment will not fit.
LoadingOf(p, k, n) ==
  /\ call = "MEM_BEGIN" =>
       /\ seq = 0 /\ n = 0 /\ Done(p, k, 0)
       /\ Accepted => Window(p, k) /\ target.received = 0
  /\ call = "MEM_DATA" =>
       /\ Window(p, k) /\ seq > n /\ NextSlot >= n
       /\ NextSlot = n => Done(p, k, n)
       /\ Accepted => /\ UsedSlot >= n /\ UsedSlot < BlockCount(Segments(p)[k].size)
                      /\ UsedSlot = n => Done(p, k, n + 1)
  /\ call = "MEM_END" =>
       /\ Whole(p)
       /\ Accepted /\ p = "app" => target.runs = "app"

Loading ==
  /\ \A p \in Programs, k \in 1 .. 2, n \in Nat :
       job = [program |-> p, seg |-> k, sent |-> n] => LoadingOf(p, k, n)
  /\ result = "LOADED" => Idle /\ target.runs = "app"

Orderly == Calm => Shape /\ Loading

LEMMA Tuples ==
  \A a, b : /\ Head(<<a>>) = a /\ Tail(<<a>>) = <<>> /\ <<a>> # <<>> /\ Append(<<>>, a) = <<a>>
            /\ Head(<<a, b>>) = a /\ Tail(<<a, b>>) = <<b>> /\ <<a, b>> # <<>> /\ <<>> \o <<a, b>> = <<a, b>>
  OBVIOUS

\* What is known of the open download.
LEMMA OpenJob ==
  ASSUME TypeOK, Loading, ~Idle
  PROVE  /\ job.program \in Programs /\ job.seg \in 1 .. 2 /\ job.sent \in Nat
         /\ job.seg \in 1 .. Len(Segments(job.program)) /\ Len(Segments(job.program)) \in 1 .. 2
         /\ job = [program |-> job.program, seg |-> job.seg, sent |-> job.sent]
         /\ LoadingOf(job.program, job.seg, job.sent)
         /\ result # "LOADED" /\ Here = Segments(job.program)[job.seg] /\ Fitting(chip)
  <1>1. /\ job.program \in Programs /\ job.seg \in 1 .. 2 /\ job.sent \in Nat /\ Fitting(chip)
        /\ job = [program |-> job.program, seg |-> job.seg, sent |-> job.sent]
        /\ job.seg <= Len(Segments(job.program))
    BY DEF TypeOK, HostType, Idle
  <1>2. Len(Segments(job.program)) \in 1 .. 2
    BY <1>1, SegmentTypes
  <1>3. job.seg \in 1 .. Len(Segments(job.program))
    BY <1>1, <1>2
  <1>4. LoadingOf(job.program, job.seg, job.sent)
    BY <1>1 DEF Loading
  <1> QED
    BY <1>1, <1>2, <1>3, <1>4 DEF Loading, Here

LEMMA FrameAhead ==
  ASSUME TypeOK, Shape, toTarget # <<>>
  PROVE  /\ toHost = <<>> /\ toTarget = <<Head(toTarget)>> /\ Tail(toTarget) = <<>>
         /\ AsSent(Head(toTarget)) /\ Head(toTarget) \in FrameType /\ Head(toTarget).cmd = call /\ ~Idle
  <1>1. PICK f \in FrameType : toHost = <<>> /\ toTarget = <<f>> /\ AsSent(f)
    BY DEF Shape
  <1>2. Head(toTarget) = f /\ Tail(toTarget) = <<>>
    BY <1>1, Tuples
  <1>3. f.cmd = call
    BY <1>1, Codes DEF AsSent, Exchanges
  <1>4. ~Idle
    BY <1>1 DEF AsSent, Exchanges, TypeOK, HostType, NoCall
  <1> QED
    BY <1>1, <1>2, <1>3, <1>4

LEMMA Heard ==
  ASSUME TypeOK, Shape, Answered
  PROVE  /\ toTarget = <<>> /\ ~Idle
         /\ \/ Tail(toHost) = <<>> /\ toHost = <<Head(toHost)>>
            \/ job.program = "stub" /\ call = "MEM_END" /\ Tail(toHost) = <<Yes("OHAI")>> /\ Head(toHost) = Yes("MEM_END")
  <1>1. toHost # <<>> /\ call # NoCall /\ Head(toHost).cmd = call /\ ~Idle
    BY DEF Answered, Matches, TypeOK, HostType
  <1>2. CASE toTarget = <<>> /\ \E ok \in BOOLEAN : toHost = <<[cmd |-> call, ok |-> ok]>>
    BY <1>1, <1>2, Tuples
  <1>3. CASE toTarget = <<>> /\ job.program = "stub" /\ call = "MEM_END" /\ toHost = <<Yes("MEM_END"), Yes("OHAI")>>
    BY <1>1, <1>3, Tuples
  <1>4. CASE call = "MEM_END" /\ toHost = <<Yes("OHAI")>>
    <2>1. Head(toHost) = Yes("OHAI")
      BY <1>4, Tuples
    <2> QED
      BY <1>1, <1>4, <2>1 DEF Yes
  <1> QED
    BY <1>1, <1>2, <1>3, <1>4 DEF Shape

LEMMA BeginsOrderly ==
  ASSUME TypeOK, NEW p \in Programs, NEW k, Begins(p, k, <<>>), toTarget = <<>>, Done(p, k, 0),
         UNCHANGED <<chip, app, ram>>
  PROVE  Shape' /\ Loading'
  <1>1. Fitting(chip) /\ Segments(p)[k] \in Region /\ Segments(p)' = Segments(p)
    BY SegmentTypes, SegmentsStay DEF TypeOK, HostType, Begins
  <1>2. /\ toTarget' = <<BeginFrame(Segments(p)[k])>> /\ toHost' = <<>> /\ call' = "MEM_BEGIN" /\ seq' = 0
        /\ job' = [program |-> p, seg |-> k, sent |-> 0] /\ result' = "PENDING"
    BY Tuples DEF Begins
  <1>3. Here' = Segments(p)[k]
    <2>1. job'.program = p /\ job'.seg = k
      BY <1>2
    <2>2. Here' = Segments(p)'[k]
      BY <2>1 DEF Here, Segments, AppSegments, Anchor
    <2> QED
      BY <1>1, <2>2
  <1>4. BeginFrame(Segments(p)[k]) \in FrameType
    BY <1>1, BeginFields
  <1>5. BeginFrame(Here)' = BeginFrame(Segments(p)[k])
    BY <1>3 DEF BeginFrame, Plain
  <1>6. Shape'
    BY <1>2, <1>4, <1>5 DEF Shape, AsSent, Exchanges
  <1>7. ASSUME NEW q \in Programs, NEW m \in 1 .. 2, NEW n \in Nat, job' = [program |-> q, seg |-> m, sent |-> n]
        PROVE  LoadingOf(q, m, n)'
    <2>1. q = p /\ m = k /\ n = 0
      BY <1>2, <1>7
    <2>2. Done(p, k, 0)'
      BY DoneStays
    <2>3. ~Accepted'
      BY <1>2 DEF Accepted, Answered
    <2> QED
      BY <1>2, <2>1, <2>2, <2>3 DEF LoadingOf
  <1> QED
    BY <1>2, <1>6, <1>7 DEF Loading

LEMMA SendsOrderly ==
  ASSUME TypeOK, Loading, ~Idle, NEW n \in Nat, Sends(n, <<>>), toTarget = <<>>, UNCHANGED <<chip, app, ram, target>>,
         Window(job.program, job.seg), seq >= n,
         NEW slot, slot = (IF target.policy = "positional" THEN seq ELSE target.received),
         slot >= n, slot = n => Done(job.program, job.seg, n)
  PROVE  Shape' /\ Loading'
  <1>1. job.program \in Programs /\ job.seg \in 1 .. 2 /\ Fitting(chip) /\ result # "LOADED" /\ seq \in Nat
    BY OpenJob DEF TypeOK, HostType
  <1>2. /\ toTarget' = <<DataFrame(n, seq)>> /\ toHost' = <<>> /\ call' = "MEM_DATA" /\ seq' = seq + 1
        /\ job' = [job EXCEPT !.sent = n] /\ result' = result
    BY Tuples DEF Sends
  <1>3. job'.program = job.program /\ job'.seg = job.seg /\ job'.sent = n
    BY <1>2 DEF TypeOK, HostType
  <1>4. Here' = Here /\ Segments(job.program)' = Segments(job.program)
    BY <1>3, HereStays
  <1>5. DataFrame(n, seq) \in FrameType
    BY <1>1, DataFields DEF TypeOK, Sends
  <1>6. DataFrame(job.sent, seq - 1)' = DataFrame(n, seq)
    <2>1. seq' - 1 = seq
      BY <1>1, <1>2
    <2> QED
      BY <1>3, <1>4, <2>1 DEF DataFrame, Plain, Piece
  <1>7. Shape'
    BY <1>2, <1>5, <1>6 DEF Shape, AsSent, Exchanges
  <1>8. ASSUME NEW q \in Programs, NEW m \in 1 .. 2, NEW i \in Nat, job' = [program |-> q, seg |-> m, sent |-> i]
        PROVE  LoadingOf(q, m, i)'
    <2>1. q = job.program /\ m = job.seg /\ i = n
      BY <1>3, <1>8
    <2>2. ~Accepted'
      BY <1>2 DEF Accepted, Answered
    <2>3. Segments(q)' = Segments(q)
      BY SegmentsStay
    <2>4. Window(q, m)'
      BY <2>1, <2>3 DEF Window
    <2>5. seq' > i /\ NextSlot' = slot
      BY <1>1, <1>2, <2>1 DEF NextSlot
    <2>6. slot = i => Done(q, m, i)'
      BY <2>1, DoneStays
    <2>7. slot >= i
      BY <2>1
    <2> QED
      BY <1>2, <2>2, <2>4, <2>5, <2>6, <2>7 DEF LoadingOf
  <1> QED
    BY <1>1, <1>2, <1>7, <1>8 DEF Loading

LEMMA EndsOrderly ==
  ASSUME TypeOK, Loading, ~Idle, NEW n \in Nat, Ends(n, <<>>), toTarget = <<>>, UNCHANGED <<chip, app, ram, target>>,
         Whole(job.program)
  PROVE  Shape' /\ Loading'
  <1>1. job.program \in Programs /\ Fitting(chip) /\ result # "LOADED"
    BY OpenJob
  <1>2. /\ toTarget' = <<EndFrame(job.program)>> /\ toHost' = <<>> /\ call' = "MEM_END"
        /\ job' = [job EXCEPT !.sent = n] /\ result' = result
    BY Tuples DEF Ends
  <1>3. job'.program = job.program /\ job'.seg = job.seg
    BY <1>2 DEF TypeOK, HostType
  <1>4. EndFrame(job.program) \in FrameType
    BY <1>1, EndFields
  <1>5. EndFrame(job.program)' = EndFrame(job.program)
    <2>1. Entry(job.program)' = Entry(job.program)
      BY <1>3 DEF Entry, AppSegments, Anchor
    <2> QED
      BY <2>1 DEF EndFrame, Plain
  <1>6. Shape'
    BY <1>2, <1>4, <1>5 DEF Shape, AsSent, Exchanges
  <1>7. ASSUME NEW q \in Programs, NEW m \in 1 .. 2, NEW i \in Nat, job' = [program |-> q, seg |-> m, sent |-> i]
        PROVE  LoadingOf(q, m, i)'
    <2>1. q = job.program
      BY <1>3, <1>7
    <2>2. ~Accepted'
      BY <1>2 DEF Accepted, Answered
    <2>3. Whole(q)'
      BY <2>1, WholeStays
    <2> QED
      BY <1>2, <2>2, <2>3 DEF LoadingOf
  <1> QED
    BY <1>1, <1>2, <1>6, <1>7 DEF Loading

LEMMA FinishOrderly ==
  ASSUME NEW res, Finish(res, <<>>), toTarget = <<>>, UNCHANGED target, res = "LOADED" => target.runs = "app"
  PROVE  Shape' /\ Loading'
  <1>1. toTarget' = <<>> /\ toHost' = <<>> /\ job' = NoJob /\ result' = res
    BY DEF Finish, Return
  <1>2. \A p \in Programs, k \in 1 .. 2, n \in Nat : job' # [program |-> p, seg |-> k, sent |-> n]
    BY <1>1 DEF NoJob, Programs
  <1> QED
    BY <1>1, <1>2 DEF Shape, Loading, Idle, NoJob

\* Where the next command is going to go.
FreshSlot == IF target.policy = "positional" THEN seq ELSE target.received

LEMMA ContinueOrderly ==
  ASSUME TypeOK, Loading, ~Idle, NEW n \in Nat, Continue(n, <<>>), toTarget = <<>>, UNCHANGED <<chip, app, ram, target>>,
         n < BlockCount(Here.size) => /\ Window(job.program, job.seg) /\ seq >= n /\ FreshSlot >= n
                                      /\ FreshSlot = n => Done(job.program, job.seg, n),
         n = BlockCount(Here.size) => Done(job.program, job.seg, n)
  PROVE  Shape' /\ Loading'
  <1>1. /\ job.program \in Programs /\ Fitting(chip) /\ Here = Segments(job.program)[job.seg]
        /\ job.seg \in 1 .. Len(Segments(job.program)) /\ Len(Segments(job.program)) \in 1 .. 2
    BY OpenJob
  <1>2. job.seg \in Nat /\ Len(Segments(job.program)) \in Nat
    BY <1>1
  <1>3. n = BlockCount(Here.size) => /\ job.seg < Len(Segments(job.program)) => Done(job.program, job.seg + 1, 0)
                                     /\ job.seg = Len(Segments(job.program)) => Whole(job.program)
    BY <1>1, DoneNext
  <1>4. CASE Sends(n, <<>>)
    BY <1>4, SendsOrderly DEF Sends, FreshSlot
  <1>5. CASE n = BlockCount(Here.size) /\ job.seg < Len(Segments(job.program)) /\ Begins(job.program, job.seg + 1, <<>>)
    BY <1>1, <1>3, <1>5, BeginsOrderly
  <1>6. CASE Ends(n, <<>>)
    BY <1>3, <1>6, EndsOrderly DEF Ends
  <1>7. CASE Finish("INVALID_PARAM", <<>>)
    BY <1>7, FinishOrderly
  <1> QED
    BY <1>2, <1>4, <1>5, <1>6, <1>7, Continues

\* A step that leaves the download where it is.
LEMMA QuietLoading ==
  ASSUME TypeOK, Loading, UNCHANGED <<chip, app, ram, target, seq, job, call, result>>, ~Accepted'
  PROVE  Loading'
  <1>1. ASSUME NEW p \in Programs, NEW k \in 1 .. 2, NEW n \in Nat, job' = [program |-> p, seg |-> k, sent |-> n]
        PROVE  LoadingOf(p, k, n)'
    <2>1. LoadingOf(p, k, n)
      BY <1>1 DEF Loading
    <2>2. Segments(p)' = Segments(p) /\ Whole(p)' = Whole(p) /\ Done(p, k, n)' = Done(p, k, n)
          /\ Done(p, k, 0)' = Done(p, k, 0)
      BY SegmentsStay, WholeStays, DoneStays
    <2>3. Window(p, k)' = Window(p, k) /\ NextSlot' = NextSlot
      BY <2>2 DEF Window, NextSlot
    <2> QED
      BY <2>1, <2>2, <2>3 DEF LoadingOf
  <1>2. result' = "LOADED" => Idle' /\ target'.runs = "app"
    BY DEF Loading, Idle
  <1> QED
    BY <1>1, <1>2 DEF Loading

LEMMA NothingAccepted == toHost' = <<>> => ~Accepted'
  BY DEF Accepted, Answered

\* A call that gives up in time finds the line empty.
LEMMA ExpiredCalm ==
  ASSUME Expired, NoteExpiry, Calm'
  PROVE  toTarget = <<>> /\ toHost = <<>> /\ Calm
  BY DEF NoteExpiry, Calm

LEMMA RefusedAlone ==
  ASSUME TypeOK, Shape, Refused
  PROVE  toTarget = <<>> /\ Tail(toHost) = <<>> /\ ~Idle
  <1>1. Answered /\ ~Head(toHost).ok
    BY DEF Refused
  <1> QED
    BY <1>1, Heard DEF Yes

LEMMA BegunOrderly ==
  ASSUME TypeOK, Shape, Loading, Begun
  PROVE  Shape' /\ Loading'
  <1>1. /\ call = "MEM_BEGIN" /\ Accepted /\ Continue(0, Tail(toHost)) /\ UNCHANGED <<chip, app, ram, target>>
    BY DEF Begun, targetVars
  <1>2. toTarget = <<>> /\ ~Idle /\ Tail(toHost) = <<>>
    BY <1>1, Heard DEF Accepted
  <1>3. LoadingOf(job.program, job.seg, job.sent)
    BY <1>2, OpenJob
  <1>4. seq = 0 /\ Done(job.program, job.seg, 0) /\ Window(job.program, job.seg) /\ target.received = 0
    BY <1>1, <1>3 DEF LoadingOf
  <1>5. FreshSlot >= 0 /\ seq >= 0
    BY <1>4 DEF FreshSlot
  <1>6. Continue(0, <<>>) /\ 0 \in Nat
    BY <1>1, <1>2
  <1>7. Window(job.program, job.seg) /\ Done(job.program, job.seg, 0)
    BY <1>4
  <1> QED
    BY <1>1, <1>2, <1>5, <1>6, <1>7, ContinueOrderly

LEMMA BlockWrittenOrderly ==
  ASSUME TypeOK, Shape, Loading, BlockWritten
  PROVE  Shape' /\ Loading'
  <1> DEFINE n == job.sent + 1
             blocks == BlockCount(Here.size)
  <1>1. /\ call = "MEM_DATA" /\ Accepted /\ Continue(n, Tail(toHost)) /\ UNCHANGED <<chip, app, ram, target>>
    BY DEF BlockWritten, targetVars
  <1>2. toTarget = <<>> /\ ~Idle /\ Tail(toHost) = <<>>
    BY <1>1, Heard DEF Accepted
  <1>3. LoadingOf(job.program, job.seg, job.sent) /\ job.sent \in Nat /\ Here = Segments(job.program)[job.seg]
        /\ job.program \in Programs /\ job.seg \in 1 .. Len(Segments(job.program)) /\ Fitting(chip)
    BY <1>2, OpenJob
  <1>4. /\ Window(job.program, job.seg) /\ seq > job.sent
        /\ UsedSlot >= job.sent /\ UsedSlot < blocks
    BY <1>1, <1>3 DEF LoadingOf
  <1>5. UsedSlot = job.sent => Done(job.program, job.seg, n)
    BY <1>1, <1>3 DEF LoadingOf
  <1>6. seq \in Nat /\ target.received \in Nat
    BY DEF TypeOK, HostType, TargetType
  <1>7. blocks \in Nat
    <2>1. Here \in Region
      BY <1>3, SegmentTypes
    <2> QED
      BY <2>1, Blocks DEF Region
  <1>8. UsedSlot \in Int /\ FreshSlot = UsedSlot + 1 /\ FreshSlot \in Int
    BY <1>6 DEF FreshSlot, UsedSlot
  <1>9. n \in Nat /\ seq >= n /\ FreshSlot >= n /\ (FreshSlot = n => UsedSlot = job.sent) /\ (n = blocks => UsedSlot = job.sent)
    BY <1>3, <1>4, <1>6, <1>7, <1>8
  <1> HIDE DEF n
  <1> QED
    BY <1>1, <1>2, <1>4, <1>5, <1>9, ContinueOrderly

LEMMA RetryOrderly ==
  ASSUME TypeOK, Shape, Loading, RetryBlock, Calm'
  PROVE  Shape' /\ Loading'
  <1>1. call = "MEM_DATA" /\ UNCHANGED <<chip, app, ram, target>>
    BY DEF RetryBlock, targetVars
  <1>2. toTarget = <<>> /\ Sends(job.sent, <<>>)
    <2>1. CASE Sends(job.sent, Tail(toHost)) /\ Refused
      BY <2>1, RefusedAlone
    <2>2. CASE Sends(job.sent, toHost) /\ Expired /\ NoteExpiry
      BY <2>2, ExpiredCalm
    <2> QED
      BY <2>1, <2>2, RetrySends DEF TypeOK
  <1>3. ~Idle
    BY <1>1 DEF TypeOK, HostType, NoCall
  <1>4. LoadingOf(job.program, job.seg, job.sent) /\ job.sent \in Nat
    BY <1>3, OpenJob
  <1>5. Window(job.program, job.seg) /\ seq > job.sent /\ NextSlot >= job.sent
    BY <1>1, <1>4 DEF LoadingOf
  <1>6. NextSlot = job.sent => Done(job.program, job.seg, job.sent)
    BY <1>1, <1>4 DEF LoadingOf
  <1>7. seq \in Nat /\ target.received \in Nat
    BY DEF TypeOK, HostType, TargetType
  <1>8. seq >= job.sent /\ FreshSlot >= job.sent /\ (FreshSlot = job.sent => NextSlot = job.sent)
    BY <1>4, <1>5, <1>7 DEF FreshSlot, NextSlot
  <1> QED
    BY <1>1, <1>2, <1>3, <1>4, <1>5, <1>6, <1>8, SendsOrderly DEF FreshSlot

LEMMA FinishedOrderly ==
  ASSUME TypeOK, Shape, Loading, Finished
  PROVE  Shape' /\ Loading'
  <1>1. call = "MEM_END" /\ Accepted /\ UNCHANGED <<chip, app, ram, target>>
    BY DEF Finished, targetVars
  <1>2. /\ toTarget = <<>> /\ ~Idle
        /\ Tail(toHost) = <<>> \/ (job.program = "stub" /\ Tail(toHost) = <<Yes("OHAI")>>)
    BY <1>1, Heard DEF Accepted
  <1>3. LoadingOf(job.program, job.seg, job.sent) /\ result # "LOADED"
    BY <1>2, OpenJob
  <1>4. CASE job.program = "app" /\ Finish("LOADED", Tail(toHost))
    <2>1. target.runs = "app"
      BY <1>1, <1>3, <1>4 DEF LoadingOf
    <2>2. Tail(toHost) = <<>>
      BY <1>2, <1>4
    <2> QED
      BY <1>1, <1>2, <1>4, <2>1, <2>2, FinishOrderly
  <1>5. CASE job.program = "stub" /\ call' = "OHAI" /\ toHost' = Tail(toHost)
             /\ UNCHANGED <<toTarget, seq, job, attempt, result>>
    <2>1. toHost' = <<>> \/ toHost' = <<[cmd |-> call', ok |-> TRUE]>>
      BY <1>2, <1>5 DEF Yes
    <2>2. Shape'
      BY <1>2, <1>5, <2>1 DEF Shape, NoCall
    <2>3. Loading'
      BY <1>3, <1>5 DEF Loading, LoadingOf
    <2> QED
      BY <2>2, <2>3
  <1> QED
    BY <1>4, <1>5 DEF Finished

LEMMA GreetedOrderly ==
  ASSUME TypeOK, Shape, Loading, Greeted
  PROVE  Shape' /\ Loading'
  <1>1. call = "OHAI" /\ toHost # <<>> /\ UNCHANGED target
    BY DEF Greeted, targetVars
  <1>2. toTarget = <<>> /\ Tail(toHost) = <<>>
    BY <1>1, Tuples DEF Shape
  <1>3. PICK res \in {"CONNECTED", "INVALID_RESPONSE"} : Finish(res, <<>>)
    BY <1>2 DEF Greeted
  <1> QED
    BY <1>1, <1>2, <1>3, FinishOrderly

LEMMA CallFailsOrderly ==
  ASSUME TypeOK, Shape, Loading, CallFails, Calm'
  PROVE  Shape' /\ Loading'
  <1>1. UNCHANGED target
    BY DEF CallFails, targetVars
  <1>2. CASE Refused /\ Finish("INVALID_RESPONSE", Tail(toHost))
    BY <1>1, <1>2, RefusedAlone, FinishOrderly
  <1>3. CASE Expired /\ Finish("TIMEOUT", toHost) /\ NoteExpiry
    BY <1>1, <1>3, ExpiredCalm, FinishOrderly
  <1> QED
    BY <1>2, <1>3 DEF CallFails

\* A frame is lost, or dropped by the loop of check_response.
LEMMA LostOrderly ==
  ASSUME TypeOK, Shape, Loading, SkipAnswer \/ Lose
  PROVE  Shape' /\ Loading'
  <1>1. UNCHANGED <<chip, app, ram, target, seq, job, call, result>>
    BY DEF SkipAnswer, Skip, Lose, Fault, LoseCommand, LoseAnswer, hostVars, targetVars
  <1>2. /\ toTarget' = <<>>
        /\ toHost' = <<>> \/ (toHost' = <<Yes("OHAI")>> /\ job.program = "stub" /\ call = "MEM_END")
    <2>1. CASE Lose /\ LoseCommand
      <3>1. toTarget # <<>> /\ toTarget' = Tail(toTarget) /\ toHost' = toHost
        BY <2>1 DEF LoseCommand
      <3> QED
        BY <3>1, FrameAhead
    <2>2. CASE (Lose /\ LoseAnswer) \/ SkipAnswer
      <3>1. toHost # <<>> /\ toHost' = Tail(toHost) /\ toTarget' = toTarget
        BY <2>2 DEF LoseAnswer, SkipAnswer, Skip
      <3>2. toTarget = <<>>
        BY <3>1 DEF Shape
      <3>3. Tail(toHost) = <<>> \/ (Tail(toHost) = <<Yes("OHAI")>> /\ job.program = "stub" /\ call = "MEM_END")
        BY <3>1, Tuples DEF Shape
      <3> QED
        BY <3>1, <3>2, <3>3
    <2> QED
      BY <2>1, <2>2 DEF Lose
  <1>3. ~Accepted'
    <2>1. CASE toHost' = <<Yes("OHAI")>> /\ call = "MEM_END"
      <3>1. Head(toHost') = Yes("OHAI")
        BY <2>1, Tuples
      <3> QED
        BY <1>1, <2>1, <3>1 DEF Accepted, Answered, Matches, Yes
    <2> QED
      BY <1>2, <2>1, NothingAccepted
  <1>4. Shape'
    BY <1>1, <1>2 DEF Shape
  <1> QED
    BY <1>1, <1>3, <1>4, QuietLoading

LEMMA DoneStart == \A p \in Programs : Done(p, 1, 0) /\ Done(p, 1, 0)'
  <1> SUFFICES ASSUME NEW p \in Programs PROVE Done(p, 1, 0) /\ Done(p, 1, 0)'
    OBVIOUS
  <1>1. \A i \in Nat : ~(i < 0)
    OBVIOUS
  <1>2. \A s : \A m \in 1 .. Len(s) : ~(m < 1)
    OBVIOUS
  <1> QED
    BY <1>1, <1>2 DEF Done

LEMMA ConnectOrderly ==
  ASSUME TypeOK, NEW withStub \in BOOLEAN, Connect(withStub)
  PROVE  Shape' /\ Loading'
  <1>1. Fitting(chip) /\ Idle /\ UNCHANGED <<chip, app>>
    BY DEF TypeOK, HostType, Connect
  <1>2. toHost' = <<>> /\ ~Accepted'
    BY <1>1, ConnectBegins, NothingAccepted
  <1>3. CASE /\ toTarget' = <<BeginFrame(Segments("stub")[1])>> /\ call' = "MEM_BEGIN"
             /\ job' = [program |-> "stub", seg |-> 1, sent |-> 0] /\ seq' = 0 /\ result' = "PENDING"
    <2>1. BeginFrame(Segments("stub")[1]) \in FrameType
      BY <1>1, SegmentTypes, BeginFields DEF Programs
    <2>2. BeginFrame(Here)' = BeginFrame(Segments("stub")[1])
      <3>1. job'.program = "stub" /\ job'.seg = 1
        BY <1>3
      <3>2. Here' = Segments("stub")'[1]
        BY <3>1 DEF Here, Segments, AppSegments, Anchor
      <3>3. Segments("stub")' = Segments("stub")
        BY <1>1, SegmentsStay DEF Programs
      <3> QED
        BY <3>2, <3>3 DEF BeginFrame, Plain
    <2>3. Shape'
      BY <1>2, <1>3, <2>1, <2>2 DEF Shape, AsSent, Exchanges
    <2>4. ASSUME NEW p \in Programs, NEW k \in 1 .. 2, NEW n \in Nat, job' = [program |-> p, seg |-> k, sent |-> n]
          PROVE  LoadingOf(p, k, n)'
      <3>1. k = 1 /\ n = 0
        BY <1>3, <2>4
      <3>2. Done(p, 1, 0)'
        BY DoneStart
      <3> QED
        BY <1>2, <1>3, <3>1, <3>2 DEF LoadingOf
    <2> QED
      BY <1>3, <2>3, <2>4 DEF Loading
  <1>4. CASE toTarget' = <<>> /\ call' = NoCall /\ result' = "CONNECTED" /\ UNCHANGED <<job, seq>>
    <2>1. \A p \in Programs, k \in 1 .. 2, n \in Nat : job' # [program |-> p, seg |-> k, sent |-> n]
      BY <1>1, <1>4 DEF Idle, Programs
    <2> QED
      BY <1>2, <1>4, <2>1 DEF Shape, Loading
  <1> QED
    BY <1>1, <1>3, <1>4, ConnectBegins

LEMMA LoadOrderly ==
  ASSUME TypeOK, Shape, Load
  PROVE  Shape' /\ Loading'
  <1>1. Idle /\ UNCHANGED <<chip, app, ram, target>>
    BY DEF Load, targetVars
  <1>2. toTarget = <<>> /\ toHost = <<>>
    BY <1>1 DEF TypeOK, HostType, Shape, AsSent, Exchanges, NoCall, Idle
  <1>3. "app" \in Programs /\ Fitting(chip)
    BY DEF TypeOK, HostType, Programs
  <1>4. Len(Segments("app")) \in 1 .. 2
    BY <1>3, SegmentTypes
  <1>5. Len(Segments("app")) \in Nat /\ Len(Segments("app")) >= 1
    BY <1>4
  <1> QED
    BY <1>1, <1>2, <1>3, <1>5, LoadBegins, BeginsOrderly, FinishOrderly, DoneStart

\* The target takes the one command under way.
LEMMA Taken ==
  ASSUME TypeOK, Shape, toTarget # <<>>, NEW ok \in BOOLEAN, Respond(ok), UNCHANGED hostVars
  PROVE  /\ Shape' /\ toTarget' = <<>> /\ call' = call
         /\ toHost' = <<[cmd |-> call, ok |-> ok]>> /\ Accepted' = ok
  <1>1. /\ toHost = <<>> /\ Tail(toTarget) = <<>> /\ Head(toTarget).cmd = call /\ ~Idle
    BY FrameAhead
  <1>2. toTarget' = <<>> /\ call' = call /\ toHost' = <<[cmd |-> call, ok |-> ok]>>
    BY <1>1, Tuples DEF Respond, Reply
  <1>3. call' # NoCall
    BY <1>1, <1>2 DEF TypeOK, HostType
  <1>4. Accepted' = ok
    <2>1. Head(toHost') = [cmd |-> call, ok |-> ok] /\ toHost' # <<>>
      BY <1>2, Tuples
    <2> QED
      BY <1>2, <1>3, <2>1 DEF Accepted, Answered, Matches
  <1>5. Shape'
    BY <1>2, <1>3 DEF Shape
  <1> QED
    BY <1>2, <1>4, <1>5

LEMMA RefuseOrderly ==
  ASSUME TypeOK, Shape, Loading, Refuse
  PROVE  Shape' /\ Loading'
  <1>1. toTarget # <<>> /\ Respond(FALSE) /\ UNCHANGED <<hostVars, app, target, ram>>
    BY DEF Refuse, Fault, Awake, targetVars
  <1>2. Shape' /\ ~Accepted' /\ call' = call
    BY <1>1, Taken
  <1> QED
    BY <1>1, <1>2, QuietLoading DEF hostVars

LEMMA ServeBeginOrderly ==
  ASSUME TypeOK, Shape, Loading, ServeBegin
  PROVE  Shape' /\ Loading'
  <1> DEFINE f == Head(toTarget)
             s == Segments(job.program)[job.seg]
  <1>1. /\ toTarget # <<>> /\ f.cmd = "MEM_BEGIN" /\ Respond(TRUE) /\ UNCHANGED <<hostVars, ram, app>>
        /\ target' = [target EXCEPT !.base = f.base, !.size = f.size, !.received = 0]
    BY DEF ServeBegin, Awake
  <1>2. Shape' /\ call' = call
    BY <1>1, Taken
  <1>3. call = "MEM_BEGIN" /\ f = BeginFrame(Here) /\ ~Idle
    BY <1>1, FrameAhead DEF AsSent
  <1>4. LoadingOf(job.program, job.seg, job.sent) /\ Here = s /\ s \in Region /\ result # "LOADED"
    BY <1>3, OpenJob, SegmentTypes
  <1>5. seq = 0 /\ job.sent = 0 /\ Done(job.program, job.seg, 0)
    BY <1>3, <1>4 DEF LoadingOf
  <1>6. f.base = s.addr /\ f.size = s.size
    BY <1>3, <1>4, BeginFields
  <1>7. target'.base = s.addr /\ target'.size = s.size /\ target'.received = 0
    BY <1>1, <1>6 DEF TypeOK, TargetType
  <1>8. UNCHANGED <<chip, app, ram, seq, job, result>>
    BY <1>1 DEF hostVars
  <1>9. ASSUME NEW p \in Programs, NEW k \in 1 .. 2, NEW n \in Nat, job' = [program |-> p, seg |-> k, sent |-> n]
        PROVE  LoadingOf(p, k, n)'
    <2>1. p = job.program /\ k = job.seg /\ n = job.sent
      BY <1>8, <1>9
    <2>2. Segments(p)' = Segments(p) /\ Done(p, k, 0)'
      BY <1>5, <1>8, <2>1, SegmentsStay, DoneStays
    <2>3. Window(p, k)'
      BY <1>7, <2>1, <2>2 DEF Window
    <2> QED
      BY <1>2, <1>3, <1>5, <1>7, <1>8, <2>1, <2>2, <2>3 DEF LoadingOf
  <1> QED
    BY <1>2, <1>4, <1>8, <1>9 DEF Loading

LEMMA ServeEndOrderly ==
  ASSUME TypeOK, Shape, Loading, ServeEnd
  PROVE  Shape' /\ Loading'
  <1> DEFINE f == Head(toTarget)
             entered == IF f.base = Entry("stub") THEN "stub" ELSE "app"
             answer == [cmd |-> "MEM_END", ok |-> TRUE]
             ohai == [cmd |-> "OHAI", ok |-> TRUE]
  <1>1. /\ toTarget # <<>> /\ f.cmd = "MEM_END" /\ toTarget' = Tail(toTarget)
        /\ UNCHANGED <<hostVars, ram, app, call>>
        /\ target'.runs = IF f.stay THEN target.runs ELSE IF Whole(entered) THEN entered ELSE "astray"
        /\ \/ target'.runs = "stub" /\ ~f.stay /\ toHost' = toHost \o <<answer, ohai>>
           \/ ~(target'.runs = "stub" /\ ~f.stay) /\ toHost' = Append(toHost, answer)
    BY EndOutcome
  <1>2. toHost = <<>> /\ toTarget' = <<>> /\ call = "MEM_END" /\ f = EndFrame(job.program) /\ ~Idle
    BY <1>1, FrameAhead DEF AsSent
  <1>3. /\ job.program \in Programs /\ Fitting(chip) /\ LoadingOf(job.program, job.seg, job.sent)
        /\ result # "LOADED"
    BY <1>2, OpenJob
  <1>4. Whole(job.program)
    BY <1>2, <1>3 DEF LoadingOf
  <1>5. UNCHANGED <<chip, app, ram, seq, job, result, call>>
    BY <1>1 DEF hostVars
  <1>6. job.program = "app" => target'.runs = "app"
    <2>1. ASSUME job.program = "app" PROVE target'.runs = "app"
      <3>1. f.base = Entry("app") /\ f.stay = (Entry("app") = 0)
        BY <1>2, <1>3, <2>1, EndFields
      <3>2. Entry("app") > 0 /\ Entry("app") \in Nat /\ Entry("app") # EspStub[chip].entry
        BY <1>3, AppTable
      <3>3. Entry("stub") = EspStub[chip].entry
        BY DEF Entry
      <3>4. Entry("app") # 0
        BY <3>2
      <3>5. ~f.stay
        BY <3>1, <3>4
      <3>6. f.base # Entry("stub")
        BY <3>1, <3>2, <3>3
      <3>7. entered = "app"
        BY <3>6
      <3> HIDE DEF entered
      <3> QED
        BY <1>1, <1>4, <2>1, <3>5, <3>7
    <2> QED
      BY <2>1
  <1>7. \/ job.program = "stub" /\ toHost' = <<answer, ohai>>
        \/ toHost' = <<answer>>
    <2>1. CASE target'.runs = "stub" /\ toHost' = toHost \o <<answer, ohai>>
      BY <1>2, <1>3, <1>6, <2>1, Tuples DEF Programs
    <2>2. CASE toHost' = Append(toHost, answer)
      BY <1>2, <2>2, Tuples
    <2> QED
      BY <1>1, <2>1, <2>2
  <1>8. Shape'
    BY <1>2, <1>5, <1>7 DEF Shape, Yes, NoCall
  <1>9. ASSUME NEW p \in Programs, NEW k \in 1 .. 2, NEW n \in Nat, job' = [program |-> p, seg |-> k, sent |-> n]
        PROVE  LoadingOf(p, k, n)'
    <2>1. p = job.program
      BY <1>5, <1>9
    <2>2. Whole(p)'
      BY <1>4, <1>5, <2>1, WholeStays
    <2> QED
      BY <1>2, <1>5, <1>6, <2>1, <2>2 DEF LoadingOf
  <1> QED
    BY <1>3, <1>5, <1>8, <1>9 DEF Loading

LEMMA DoneLess ==
  ASSUME NEW p \in Programs, NEW k, NEW n \in Nat, Done(p, k, n + 1)'
  PROVE  Done(p, k, n)'
  <1>1. \A i \in Nat : i < n => i < n + 1
    OBVIOUS
  <1> QED
    BY <1>1 DEF Done

LEMMA ServeDataOrderly ==
  ASSUME TypeOK, Shape, Loading, ServeData
  PROVE  Shape' /\ Loading'
  <1> DEFINE f == Head(toTarget)
             n == job.sent
             s == Segments(job.program)[job.seg]
             block == Piece(job.program, s, n)
             used == NextSlot
  <1>1. /\ toTarget # <<>> /\ f.cmd = "MEM_DATA" /\ UNCHANGED <<hostVars, app>>
    BY DataOutcome
  <1>2. /\ call = "MEM_DATA" /\ f = DataFrame(job.sent, seq - 1) /\ ~Idle
    BY <1>1, FrameAhead DEF AsSent
  <1>3. /\ LoadingOf(job.program, job.seg, n) /\ Here = s /\ result # "LOADED" /\ n \in Nat /\ Fitting(chip)
        /\ job.program \in Programs /\ job.seg \in 1 .. Len(Segments(job.program)) /\ job.seg \in 1 .. 2
    BY <1>2, OpenJob
  <1>4. s \in Region
    BY <1>3, SegmentTypes
  <1>5. seq \in Nat /\ seq > n /\ target.received \in Nat /\ n < BlockCount(s.size)
    BY <1>2, <1>3 DEF TypeOK, HostType, TargetType, LoadingOf
  <1>6. f.seq = seq - 1 /\ f.piece = {block}
    <2>1. seq - 1 \in Nat
      BY <1>3, <1>5
    <2> QED
      BY <1>2, <1>3, <1>5, <2>1, DataFields DEF TypeOK
  <1>7. UNCHANGED <<chip, app, seq, job, result>>
    BY <1>1 DEF hostVars
  <1>8. PICK piece \in f.piece :
          \/ /\ Placeable(f, piece)
             /\ ram' = Overwritten(target.base + Slot(f) * RamBlock, piece)
             /\ target' = [target EXCEPT !.received = @ + 1]
             /\ Respond(TRUE)
          \/ Respond(FALSE) /\ UNCHANGED <<target, ram>>
    BY DataOutcome
  <1>9. piece = block
    BY <1>6, <1>8
  <1>10. CASE Respond(FALSE) /\ UNCHANGED <<target, ram>>
    <2>1. Shape' /\ ~Accepted' /\ call' = call
      BY <1>1, <1>10, Taken
    <2> QED
      BY <1>7, <1>10, <2>1, QuietLoading
  <1>11. CASE /\ Placeable(f, piece) /\ ram' = Overwritten(target.base + Slot(f) * RamBlock, piece)
              /\ target' = [target EXCEPT !.received = @ + 1] /\ Respond(TRUE)
    <2>1. Shape' /\ call' = call
      BY <1>1, <1>11, Taken
    <2>2. Slot(f) = used /\ used \in Nat /\ used >= n
      BY <1>2, <1>3, <1>5, <1>6 DEF Slot, NextSlot, LoadingOf
    <2>3. target.base = s.addr /\ target.size = s.size
      BY <1>2, <1>3 DEF LoadingOf, Window
    <2>4. used = n => Done(job.program, job.seg, n)
      BY <1>2, <1>3 DEF LoadingOf
    <2>5. used < BlockCount(s.size)
      <3> DEFINE x == used * RamBlock
      <3>1. x + piece.size <= s.size
        BY <1>11, <2>2, <2>3 DEF Placeable
      <3>2. x \in Nat
        BY <2>2, Products
      <3>3. piece.size \in Nat /\ piece.size > 0 /\ s.size \in Nat
        BY <1>3, <1>4, <1>5, <1>9, PieceFields DEF PieceType, Region
      <3> HIDE DEF x
      <3>4. x < s.size
        BY <3>1, <3>2, <3>3
      <3> QED
        BY <2>2, <3>3, <3>4, Blocks DEF x
    <2>7. target'.base = target.base /\ target'.size = target.size /\ target'.policy = target.policy
          /\ target'.received = target.received + 1 /\ target'.runs = target.runs
      BY <1>11 DEF TypeOK, TargetType
    <2>8. UsedSlot' = used /\ NextSlot' >= n /\ (NextSlot' = n => used = n)
      BY <1>3, <1>5, <1>7, <2>2, <2>7 DEF UsedSlot, NextSlot
    <2>9. ASSUME NEW p \in Programs, NEW k \in 1 .. 2, NEW i \in Nat, job' = [program |-> p, seg |-> k, sent |-> i]
          PROVE  LoadingOf(p, k, i)'
      <3>1. p = job.program /\ k = job.seg /\ i = n
        BY <1>7, <2>9
      <3>2. Segments(p)' = Segments(p) /\ k \in 1 .. Len(Segments(p)) /\ s = Segments(p)[k]
        BY <1>3, <1>7, <3>1, SegmentsStay
      <3>3. used = i => Done(p, k, i + 1)'
        <4>1. ASSUME used = i PROVE Done(p, k, i + 1)'
          <5>1. block.at = s.addr + n * RamBlock
            BY <1>3, <1>4, <1>5, PieceFields
          <5>2. ram' = Overwritten(block.at, block)
            BY <1>9, <1>11, <2>2, <2>3, <3>1, <4>1, <5>1
          <5>3. ram' = Overwritten(Piece(p, Segments(p)[k], i).at, Piece(p, Segments(p)[k], i))
            BY <3>1, <5>2
          <5>4. Done(p, k, i) /\ i < BlockCount(Segments(p)[k].size)
            BY <1>5, <2>4, <3>1, <4>1
          <5> QED
            BY <1>3, <1>7, <3>2, <5>3, <5>4, DoneWrite
        <4> QED
          BY <4>1
      <3>4. NextSlot' = i => Done(p, k, i)'
        BY <2>8, <3>1, <3>3, DoneLess
      <3>5. Window(p, k)'
        BY <2>3, <2>7, <3>1, <3>2 DEF Window
      <3>6. BlockCount(Segments(p)[k].size)' = BlockCount(s.size)
        BY <3>2 DEF BlockCount
      <3>7. /\ seq' > i /\ NextSlot' >= i /\ UsedSlot' >= i /\ UsedSlot' < BlockCount(Segments(p)[k].size)'
            /\ (UsedSlot' = i => Done(p, k, i + 1)')
        BY <1>5, <1>7, <2>2, <2>5, <2>8, <3>1, <3>3, <3>6
      <3> QED
        BY <1>2, <2>1, <3>4, <3>5, <3>7 DEF LoadingOf
    <2> QED
      BY <1>3, <1>7, <2>1, <2>9 DEF Loading
  <1> QED
    BY <1>8, <1>10, <1>11

LEMMA StutterOrderly ==
  ASSUME TypeOK, Shape, Loading, UNCHANGED vars
  PROVE  Shape' /\ Loading'
  <1>1. UNCHANGED <<toTarget, toHost, call, chip, app, ram, target, seq, job, result>>
    BY DEF vars, linkVars, hostVars, targetVars
  <1>2. Here' = Here
    BY <1>1, HereStays
  <1>3. \A f : AsSent(f)' <=> AsSent(f)
    <2>1. BeginFrame(Here)' = BeginFrame(Here)
      BY <1>2 DEF BeginFrame, Plain
    <2>2. DataFrame(job.sent, seq - 1)' = DataFrame(job.sent, seq - 1)
      BY <1>1, <1>2 DEF DataFrame, Plain, Piece
    <2>3. EndFrame(job.program)' = EndFrame(job.program)
      <3>1. Entry(job.program)' = Entry(job.program)
        BY <1>1 DEF Entry, AppSegments, Anchor
      <3> QED
        BY <3>1 DEF EndFrame, Plain
    <2> QED
      BY <1>1, <2>1, <2>2, <2>3 DEF AsSent
  <1>4. Shape'
    BY <1>1, <1>3 DEF Shape
  <1>5. ASSUME NEW p \in Programs, NEW k \in 1 .. 2, NEW n \in Nat, job' = [program |-> p, seg |-> k, sent |-> n]
        PROVE  LoadingOf(p, k, n)'
    <2>1. LoadingOf(p, k, n)
      BY <1>1, <1>5 DEF Loading
    <2>2. Segments(p)' = Segments(p) /\ Whole(p)' = Whole(p) /\ Done(p, k, n)' = Done(p, k, n)
          /\ Done(p, k, n + 1)' = Done(p, k, n + 1) /\ Done(p, k, 0)' = Done(p, k, 0)
      BY <1>1, SegmentsStay, WholeStays, DoneStays
    <2>3. Window(p, k)' = Window(p, k) /\ NextSlot' = NextSlot /\ UsedSlot' = UsedSlot /\ Accepted' = Accepted
      BY <1>1, <2>2 DEF Window, NextSlot, UsedSlot, Accepted, Answered, Matches
    <2>4. BlockCount(Segments(p)[k].size)' = BlockCount(Segments(p)[k].size)
      BY <2>2 DEF BlockCount
    <2> QED
      BY <1>1, <2>1, <2>2, <2>3, <2>4 DEF LoadingOf
  <1>6. result' = "LOADED" => Idle' /\ target'.runs = "app"
    BY <1>1 DEF Loading, Idle
  <1> QED
    BY <1>4, <1>5, <1>6 DEF Loading

\* Only a reset of the target puts an end to the trouble.
LEMMA TroubleStays ==
  ASSUME [Next]_vars, \A withStub \in BOOLEAN : ~Connect(withStub)
  PROVE  /\ trouble' \in {trouble, "fault", "late"}
         /\ Calm' => Calm
         /\ trouble' = "none" => trouble = "none" /\ ~Refuse /\ ~Lose
  <1>1. trouble' = trouble \/ NoteFault \/ NoteExpiry
    BY DEF Next, Client, Host, Target, Load, Begun, BlockWritten, RetryBlock, Finished, Greeted, CallFails, SkipAnswer,
       ServeBegin, ServeData, ServeEnd, Refuse, Lose, Fault, vars
  <1>2. Refuse \/ Lose => NoteFault
    BY DEF Refuse, Lose, Fault
  <1> QED
    BY <1>1, <1>2 DEF NoteFault, NoteExpiry, Calm

LEMMA OrderlyStep ==
  ASSUME TypeOK, Orderly, [Next]_vars
  PROVE  Orderly'
  <1> SUFFICES ASSUME Calm' PROVE Shape' /\ Loading'
    BY DEF Orderly
  <1>1. ASSUME NEW withStub \in BOOLEAN, Connect(withStub) PROVE Shape' /\ Loading'
    BY <1>1, ConnectOrderly
  <1>2. CASE \A withStub \in BOOLEAN : ~Connect(withStub)
    <2>1. Shape /\ Loading
      BY <1>2, TroubleStays DEF Orderly
    <2>2. CASE Host
      BY <2>1, <2>2, BegunOrderly, BlockWrittenOrderly, RetryOrderly, FinishedOrderly, GreetedOrderly,
         CallFailsOrderly, LostOrderly DEF Host
    <2>3. CASE Target
      BY <2>1, <2>3, ServeBeginOrderly, ServeDataOrderly, ServeEndOrderly DEF Target
    <2>4. CASE Load \/ Refuse \/ Lose \/ UNCHANGED vars
      BY <2>1, <2>4, LoadOrderly, RefuseOrderly, LostOrderly, StutterOrderly
    <2> QED
      BY <1>2, <2>2, <2>3, <2>4 DEF Next, Client
  <1> QED
    BY <1>1, <1>2

LEMMA InitOrderly == Init => Orderly
  <1> SUFFICES ASSUME Init PROVE Shape /\ Loading
    BY DEF Orderly
  <1>1. toTarget = <<>> /\ toHost = <<>> /\ job = [program |-> "none", seg |-> 1, sent |-> 0] /\ result = "NONE"
    BY DEF Init, LinkInit, NoJob
  <1>2. \A p \in Programs, k \in 1 .. 2, n \in Nat : job # [program |-> p, seg |-> k, sent |-> n]
    BY <1>1 DEF Programs
  <1> QED
    BY <1>1, <1>2 DEF Shape, Loading

LEMMA OrderlyAlways == Spec => []Orderly
  <1>1. TypeOK /\ Orderly /\ [Next]_vars => Orderly'
    BY OrderlyStep
  <1> QED
    BY <1>1, Typed, InitOrderly, PTL DEF Spec

\* When load_ram_binary returns SUCCESS the application runs, whole, although
\* a block may have been sent several times and the answers carry no digest:
\* for every policy of the target a block that went astray pushes the last
\* one out of the window, and no order of losses and refusals hides it.
THEOREM RamLoadedIsWhole == Spec => []LoadedIsWhole
  <1>1. Orderly => LoadedIsWhole
    BY DEF Orderly, Calm, Loading, LoadedIsWhole
  <1> QED
    BY <1>1, OrderlyAlways, PTL

-----------------------------------------------------------------------------
(* A line without faults *)

Answers ==
  /\ call \in Exchanges => toTarget # <<>> \/ Accepted
  /\ call = "MEM_DATA" =>
       /\ seq = job.sent + 1
       /\ toTarget # <<>> => target.received = job.sent
       /\ Accepted => target.received = job.sent + 1
  /\ HasStub(chip) /\ job.program = "stub" =>
       /\ call = "MEM_END" /\ toTarget = <<>> => toHost = <<Yes("MEM_END"), Yes("OHAI")>>
       /\ call = "OHAI" => toHost = <<Yes("OHAI")>>

\* What a load that comes to its end may end in.
Excuses ==
  \/ result' \in {"CONNECTED", "LOADED"}
  \/ result' = "INVALID_PARAM" /\ stubRunning /\ Overlaps("app")
  \/ job.program = "stub" /\ ~HasStub(chip)

\* Every command is carried out and answered, and every block is in its place.
Prompt == trouble = "none" => Answers

LEMMA OverlapMeans ==
  ASSUME Fitting(chip), NEW n \in 1 .. Len(Segments("app")), OverStub(Segments("app")[n])
  PROVE  Overlaps("app")
  <1> DEFINE s == Segments("app")[n]
  <1>1. PICK m \in 1 .. 2 : LET stub == EspStub[chip].segments[m] IN s.addr < End(stub) /\ End(s) > stub.addr
    BY DEF OverStub
  <1> DEFINE stub == EspStub[chip].segments[m]
  <1>2. s \in Region /\ s.size > 0
    BY AppTable, SegmentsAre
  <1>3. stub \in Region /\ stub.size > 0
    <2>0. HasStub(chip)
      <3>1. ASSUME ~HasStub(chip) PROVE FALSE
        <4>1. stub.addr = 0 /\ stub.size = 0
          BY <3>1, StubTable DEF Fitting, Placeholder, Segment
        <4>2. s.addr \in Nat /\ s.addr < 0
          BY <1>1, <1>2, <4>1 DEF Region, End
        <4> QED
          BY <4>2
      <3> QED
        BY <3>1
    <2>1. EspStub[chip].segments[1].size > 16 /\ EspStub[chip].segments[2].size > 16
          /\ EspStub[chip].segments[1] \in Region /\ EspStub[chip].segments[2] \in Region
      BY <2>0, StubTable DEF Fitting
    <2> QED
      BY <2>1 DEF Region
  <1> HIDE DEF s, stub
  <1>4. s.addr \in Nat /\ stub.addr \in Nat /\ s.size \in Nat /\ stub.size \in Nat
    BY <1>2, <1>3 DEF Region
  <1>5. \E a \in {s.addr, stub.addr} : a >= s.addr /\ a < End(s) /\ a >= stub.addr /\ a < End(stub)
    <2>1. s.addr < End(stub) /\ End(s) > stub.addr
      BY <1>1 DEF stub
    <2>2. CASE s.addr >= stub.addr
      BY <1>2, <1>3, <1>4, <2>1, <2>2 DEF End
    <2>3. CASE ~(s.addr >= stub.addr)
      BY <1>2, <1>3, <1>4, <2>1, <2>3 DEF End
    <2> QED
      BY <2>2, <2>3
  <1> QED
    BY <1>5 DEF Overlaps, s, stub

\* A download goes on, and the program is not given up.
LEMMA GoesOn ==
  ASSUME TypeOK, NEW n \in Nat, ~Idle,
         Sends(n, <<>>) \/ Ends(n, <<>>) \/ (\E p \in Programs : \E k : Begins(p, k, <<>>)),
         toTarget = <<>>, n = seq, target' = target, target.received = n
  PROVE  Answers' /\ ~Idle'
  <1>1. PICK f : toTarget' = <<f>> /\ toHost' = <<>>
    BY Tuples DEF Sends, Ends, Begins
  <1>2. toTarget' # <<>> /\ ~Accepted'
    BY <1>1, Tuples, NothingAccepted
  <1>3. CASE Sends(n, <<>>)
    <2>1. call' = "MEM_DATA" /\ seq' = seq + 1 /\ job'.sent = n /\ job'.program = job.program
      BY <1>3 DEF Sends, TypeOK, HostType
    <2> QED
      BY <1>2, <2>1 DEF Answers, Idle
  <1>4. CASE Ends(n, <<>>)
    <2>1. call' = "MEM_END" /\ job'.program = job.program
      BY <1>4 DEF Ends, TypeOK, HostType
    <2> QED
      BY <1>2, <2>1 DEF Answers, Idle
  <1>5. ASSUME NEW p \in Programs, NEW k, Begins(p, k, <<>>) PROVE Answers' /\ ~Idle'
    <2>1. call' = "MEM_BEGIN" /\ job'.program = p
      BY <1>5 DEF Begins
    <2> QED
      BY <1>2, <2>1 DEF Answers, Idle, Programs
  <1> QED
    BY <1>3, <1>4, <1>5

LEMMA GivesUp ==
  ASSUME NEW res, NEW inbound, Finish(res, inbound),
         \/ res \in {"CONNECTED", "LOADED"}
         \/ res = "INVALID_PARAM" /\ stubRunning /\ Overlaps("app")
         \/ job.program = "stub" /\ ~HasStub(chip)
  PROVE  Answers' /\ Excuses
  <1>1. call' = NoCall /\ job'.program = "none" /\ result' = res
    BY DEF Finish, Return, NoJob
  <1> QED
    BY <1>1 DEF Answers, Excuses, Exchanges, NoCall

LEMMA ContinuePrompt ==
  ASSUME TypeOK, Resident, ~Idle, NEW n \in Nat, Continue(n, <<>>), toTarget = <<>>, n = seq, target.received = n,
         UNCHANGED <<chip, app, target, stubRunning>>
  PROVE  Answers' /\ (Idle' /\ result' # result => Excuses)
  <1>1. /\ job.program \in Programs /\ Fitting(chip) /\ job.seg \in Nat /\ job.seg >= 1
    BY DEF TypeOK, HostType, Idle
  <1>2. Len(Segments(job.program)) \in Nat
    BY <1>1, SegmentTypes
  <1>3. CASE Sends(n, <<>>) \/ Ends(n, <<>>) \/ Begins(job.program, job.seg + 1, <<>>)
    BY <1>1, <1>3, GoesOn
  <1>4. CASE /\ job.seg < Len(Segments(job.program)) /\ stubRunning
             /\ OverStub(Segments(job.program)[job.seg + 1]) /\ Finish("INVALID_PARAM", <<>>)
    <2>1. job.program = "app"
      BY <1>1, <1>4 DEF Resident, StubFirst, Programs
    <2>2. job.seg + 1 \in 1 .. Len(Segments("app"))
      BY <1>1, <1>2, <1>4, <2>1
    <2>3. Overlaps("app")
      BY <1>1, <1>4, <2>1, <2>2, OverlapMeans
    <2> QED
      BY <1>4, <2>3, GivesUp
  <1> QED
    BY <1>1, <1>2, <1>3, <1>4, Continues

LEMMA HeardYes ==
  ASSUME TypeOK, Shape, Answers, call \in Exchanges, toTarget = <<>>
  PROVE  Accepted /\ ~Refused /\ toHost # <<>> /\ Matches(Head(toHost))
  BY DEF Answers, Accepted, Refused, Answered

LEMMA LoadPrompt ==
  ASSUME TypeOK, Shape, Load
  PROVE  Answers' /\ (Idle' /\ result' # result => Excuses)
  <1>1. Idle /\ UNCHANGED <<chip, app, target, stubRunning>>
    BY DEF Load, targetVars
  <1>2. toTarget = <<>> /\ toHost = <<>>
    BY <1>1 DEF TypeOK, HostType, Shape, AsSent, Exchanges, NoCall, Idle
  <1>3. "app" \in Programs /\ Fitting(chip)
    BY DEF TypeOK, HostType, Programs
  <1>4. Len(Segments("app")) \in 1 .. 2
    BY <1>3, SegmentTypes
  <1>5. Len(Segments("app")) \in Nat /\ Len(Segments("app")) >= 1 /\ 1 \in 1 .. Len(Segments("app"))
    BY <1>4
  <1>6. CASE Begins("app", 1, <<>>)
    <2>1. toTarget' # <<>> /\ toHost' = <<>> /\ call' = "MEM_BEGIN" /\ job'.program = "app"
      BY <1>2, <1>6, Tuples DEF Begins
    <2> QED
      BY <2>1 DEF Answers, Idle
  <1>7. CASE stubRunning /\ OverStub(Segments("app")[1]) /\ Finish("INVALID_PARAM", <<>>)
    <2>1. Overlaps("app")
      BY <1>3, <1>5, <1>7, OverlapMeans
    <2> QED
      BY <1>7, <2>1, GivesUp
  <1> QED
    BY <1>2, <1>5, <1>6, <1>7, LoadBegins

LEMMA ConnectPrompt ==
  ASSUME TypeOK, NEW withStub \in BOOLEAN, Connect(withStub)
  PROVE  Answers' /\ (Idle' /\ result' # result => Excuses)
  <1>1. Fitting(chip) /\ Idle /\ UNCHANGED <<chip, app>>
    BY DEF TypeOK, HostType, Connect
  <1>2. CASE toTarget' = <<BeginFrame(Segments("stub")[1])>> /\ call' = "MEM_BEGIN"
             /\ job' = [program |-> "stub", seg |-> 1, sent |-> 0]
    <2>1. toTarget' # <<>> /\ job'.program = "stub"
      BY <1>2, Tuples
    <2> QED
      BY <1>2, <2>1 DEF Answers, Idle
  <1>3. CASE call' = NoCall /\ result' = "CONNECTED" /\ UNCHANGED job
    BY <1>1, <1>3 DEF Answers, Excuses, Idle, NoCall, Exchanges
  <1> QED
    BY <1>1, <1>2, <1>3, ConnectBegins

LEMMA HostPrompt ==
  ASSUME TypeOK, Resident, Shape, Loading, Answers, Host, trouble' = "none"
  PROVE  Answers' /\ (Idle' /\ result' # result => Excuses)
  <1>1. UNCHANGED <<chip, app, target>>
    BY DEF Host, Begun, BlockWritten, RetryBlock, Finished, Greeted, CallFails, SkipAnswer, hostVars, targetVars
  <1>2. CASE Begun
    <2>1. call = "MEM_BEGIN" /\ Accepted /\ Continue(0, Tail(toHost)) /\ UNCHANGED stubRunning
      BY <1>2 DEF Begun
    <2>2. toTarget = <<>> /\ ~Idle /\ Tail(toHost) = <<>>
      BY <2>1, Heard DEF Accepted
    <2>3. seq = 0 /\ target.received = 0
      BY <2>1, <2>2, OpenJob DEF LoadingOf
    <2>4. Continue(0, <<>>) /\ 0 \in Nat
      BY <2>1, <2>2
    <2> QED
      BY <1>1, <2>1, <2>2, <2>3, <2>4, ContinuePrompt
  <1>3. CASE BlockWritten
    <2>1. call = "MEM_DATA" /\ Accepted /\ Continue(job.sent + 1, Tail(toHost)) /\ UNCHANGED stubRunning
      BY <1>3 DEF BlockWritten
    <2>2. toTarget = <<>> /\ ~Idle /\ Tail(toHost) = <<>>
      BY <2>1, Heard DEF Accepted
    <2>3. seq = job.sent + 1 /\ target.received = job.sent + 1
      BY <2>1 DEF Answers
    <2>4. Continue(job.sent + 1, <<>>)
      BY <2>1, <2>2
    <2>5. job.sent + 1 \in Nat
      BY DEF TypeOK, HostType
    <2> QED
      BY <1>1, <2>1, <2>2, <2>3, <2>4, <2>5, ContinuePrompt
  <1>4. CASE RetryBlock
    <2>1. call = "MEM_DATA"
      BY <1>4 DEF RetryBlock
    <2>2. Refused \/ (Expired /\ NoteExpiry)
      BY <1>4 DEF RetryBlock
    <2>3. toTarget = <<>> /\ (~Refused => toHost = <<>>)
      BY <2>2, RefusedAlone, ExpiredCalm DEF Calm
    <2> QED
      BY <2>1, <2>2, <2>3, HeardYes DEF Exchanges
  <1>5. CASE Finished
    <2>1. call = "MEM_END" /\ Accepted /\ UNCHANGED stubRunning
      BY <1>5 DEF Finished
    <2>2. toTarget = <<>> /\ ~Idle
      BY <2>1, Heard DEF Accepted
    <2>3. CASE Finish("LOADED", Tail(toHost))
      BY <2>3, GivesUp
    <2>4. CASE job.program = "stub" /\ call' = "OHAI" /\ toHost' = Tail(toHost) /\ UNCHANGED <<toTarget, job>>
      <3>1. HasStub(chip) => toHost' = <<Yes("OHAI")>>
        <4>1. HasStub(chip) => toHost = <<Yes("MEM_END"), Yes("OHAI")>>
          BY <2>1, <2>2, <2>4 DEF Answers
        <4>2. Tail(<<Yes("MEM_END"), Yes("OHAI")>>) = <<Yes("OHAI")>>
          BY Tuples
        <4>3. toHost' = Tail(toHost)
          BY <2>4
        <4> QED
          BY <4>1, <4>2, <4>3
      <3> QED
        BY <1>1, <2>2, <2>4, <3>1 DEF Answers, Idle, Exchanges
    <2> QED
      BY <1>5, <2>3, <2>4 DEF Finished
  <1>6. CASE Greeted
    <2>1. call = "OHAI" /\ job.program = "stub"
      BY <1>6 DEF Greeted, Resident, StubFirst
    <2>2. HasStub(chip) => Head(toHost).cmd = "OHAI"
      <3>1. HasStub(chip) => toHost = <<Yes("OHAI")>>
        BY <2>1 DEF Answers
      <3> QED
        BY <3>1, Tuples DEF Yes
    <2>3. Finish(IF Head(toHost).cmd = "OHAI" THEN "CONNECTED" ELSE "INVALID_RESPONSE", Tail(toHost))
      BY <1>6 DEF Greeted
    <2> QED
      BY <2>1, <2>2, <2>3, GivesUp
  <1>7. CASE CallFails
    <2>1. PICK res, inbound : Finish(res, inbound)
      BY <1>7 DEF CallFails
    <2>2. Refused \/ (Expired /\ NoteExpiry)
      BY <1>7 DEF CallFails
    <2>3. toTarget = <<>> /\ (~Refused => toHost = <<>>) /\ call # NoCall
      BY <2>2, RefusedAlone, ExpiredCalm DEF Calm, Refused, Answered, Expired
    <2>4. call \notin Exchanges
      BY <2>2, <2>3, HeardYes
    <2>5. call = "OHAI" /\ job.program = "stub"
      BY <2>3, <2>4 DEF TypeOK, LineType, Resident, StubFirst
    <2>6. ~HasStub(chip)
      <3>1. ASSUME HasStub(chip) PROVE FALSE
        <4>1. toHost = <<Yes("OHAI")>>
          BY <2>5, <3>1 DEF Answers
        <4>2. toHost # <<>> /\ Head(toHost).ok
          BY <4>1, Tuples DEF Yes
        <4> QED
          BY <2>3, <4>2 DEF Refused
      <3> QED
        BY <3>1
    <2> QED
      BY <2>1, <2>5, <2>6, GivesUp
  <1>8. CASE SkipAnswer
    <2>1. call # NoCall /\ toHost # <<>> /\ ~Matches(Head(toHost)) /\ call # "OHAI"
      BY <1>8 DEF SkipAnswer, Skip
    <2>2. call \in Exchanges /\ toTarget = <<>>
      BY <2>1 DEF TypeOK, LineType, Shape
    <2> QED
      BY <2>1, <2>2, HeardYes
  <1> QED
    BY <1>2, <1>3, <1>4, <1>5, <1>6, <1>7, <1>8 DEF Host

LEMMA ServeDataPrompt ==
  ASSUME TypeOK, Shape, Loading, Answers, ServeData
  PROVE  Answers' /\ ~Idle'
  <1> DEFINE f == Head(toTarget)
             n == job.sent
             s == Segments(job.program)[job.seg]
             block == Piece(job.program, s, n)
  <1>1. /\ toTarget # <<>> /\ f.cmd = "MEM_DATA" /\ UNCHANGED <<hostVars, app>>
    BY DataOutcome
  <1>2. /\ call = "MEM_DATA" /\ f = DataFrame(job.sent, seq - 1) /\ ~Idle
    BY <1>1, FrameAhead DEF AsSent
  <1>3. /\ LoadingOf(job.program, job.seg, n) /\ Here = s /\ n \in Nat /\ Fitting(chip)
        /\ job.program \in Programs /\ job.seg \in 1 .. Len(Segments(job.program))
    BY <1>2, OpenJob
  <1>4. s \in Region
    BY <1>3, SegmentTypes
  <1>5. seq = n + 1 /\ target.received = n /\ n < BlockCount(s.size)
    BY <1>1, <1>2, <1>3 DEF TypeOK, HostType, Answers
  <1>6. f.seq = n /\ f.piece = {block}
    <2>1. seq - 1 = n
      BY <1>3, <1>5
    <2> QED
      BY <1>2, <1>3, <1>5, <2>1, DataFields DEF TypeOK
  <1>7. target.size = s.size
    BY <1>2, <1>3 DEF LoadingOf, Window
  <1>8. Slot(f) = n
    BY <1>5, <1>6 DEF Slot
  <1>9. Placeable(f, block)
    <2>1. n * RamBlock + block.size <= s.size
      BY <1>3, <1>4, <1>5, PieceFields
    <2> QED
      BY <1>5, <1>6, <1>7, <1>8, <2>1 DEF Placeable
  <1>10. target' = [target EXCEPT !.received = @ + 1] /\ Respond(TRUE)
    BY <1>6, <1>9, DataOutcome
  <1>11. target'.received = n + 1
    BY <1>5, <1>10 DEF TypeOK, TargetType
  <1>12. toTarget' = <<>> /\ call' = "MEM_DATA" /\ Accepted' /\ UNCHANGED <<job, seq>>
    BY <1>1, <1>2, <1>10, Taken DEF hostVars
  <1> QED
    BY <1>2, <1>5, <1>11, <1>12 DEF Answers, Idle

LEMMA ServeEndPrompt ==
  ASSUME TypeOK, Shape, Loading, ServeEnd
  PROVE  Answers' /\ ~Idle'
  <1> DEFINE f == Head(toTarget)
             entered == IF f.base = Entry("stub") THEN "stub" ELSE "app"
             answer == [cmd |-> "MEM_END", ok |-> TRUE]
             ohai == [cmd |-> "OHAI", ok |-> TRUE]
  <1>1. /\ toTarget # <<>> /\ f.cmd = "MEM_END" /\ toTarget' = Tail(toTarget)
        /\ UNCHANGED <<hostVars, ram, app, call>>
        /\ target'.runs = IF f.stay THEN target.runs ELSE IF Whole(entered) THEN entered ELSE "astray"
        /\ \/ target'.runs = "stub" /\ ~f.stay /\ toHost' = toHost \o <<answer, ohai>>
           \/ ~(target'.runs = "stub" /\ ~f.stay) /\ toHost' = Append(toHost, answer)
    BY EndOutcome
  <1>2. toHost = <<>> /\ toTarget' = <<>> /\ call = "MEM_END" /\ f = EndFrame(job.program) /\ ~Idle
    BY <1>1, FrameAhead DEF AsSent
  <1>3. job.program \in Programs /\ Fitting(chip) /\ LoadingOf(job.program, job.seg, job.sent)
    BY <1>2, OpenJob
  <1>4. UNCHANGED <<chip, job, call>>
    BY <1>1 DEF hostVars
  <1>5. toHost' = <<answer, ohai>> \/ toHost' = <<answer>>
    BY <1>1, <1>2, Tuples
  <1>6. Accepted'
    <2>1. toHost' # <<>> /\ Head(toHost') = answer
      BY <1>5, Tuples
    <2> QED
      BY <1>2, <1>4, <2>1 DEF Accepted, Answered, Matches, NoCall
  <1>7. HasStub(chip) /\ job.program = "stub" => toHost' = <<answer, ohai>>
    <2>1. ASSUME HasStub(chip), job.program = "stub" PROVE toHost' = <<answer, ohai>>
      <3>1. f.base = Entry("stub") /\ f.stay = (Entry("stub") = 0)
        BY <1>2, <1>3, <2>1, EndFields
      <3>2. Entry("stub") = EspStub[chip].entry
        BY DEF Entry
      <3>3. EspStub[chip].entry > 0 /\ EspStub[chip].entry \in Nat
        BY <1>3, <2>1, StubTable DEF Fitting
      <3>4. Entry("stub") # 0
        BY <3>2, <3>3
      <3>5. ~f.stay
        BY <3>1, <3>4
      <3>6. Whole("stub")
        BY <1>2, <1>3, <2>1 DEF LoadingOf
      <3>7. target'.runs = "stub"
        BY <1>1, <3>1, <3>5, <3>6
      <3> QED
        BY <1>1, <1>2, <3>5, <3>7, Tuples
    <2> QED
      BY <2>1
  <1> QED
    BY <1>2, <1>4, <1>6, <1>7 DEF Answers, Idle, Yes

LEMMA TargetPrompt ==
  ASSUME TypeOK, Shape, Loading, Answers, Target
  PROVE  Answers' /\ ~Idle'
  <1>1. CASE ServeBegin
    <2>1. toTarget # <<>> /\ Head(toTarget).cmd = "MEM_BEGIN" /\ Respond(TRUE) /\ UNCHANGED hostVars
      BY <1>1 DEF ServeBegin, Awake
    <2>2. call = "MEM_BEGIN" /\ ~Idle
      BY <2>1, FrameAhead
    <2>3. toTarget' = <<>> /\ call' = "MEM_BEGIN" /\ Accepted' /\ UNCHANGED <<chip, job>>
      BY <2>1, <2>2, Taken DEF hostVars
    <2> QED
      BY <2>2, <2>3 DEF Answers, Idle
  <1>2. CASE ServeData
    BY <1>2, ServeDataPrompt
  <1>3. CASE ServeEnd
    BY <1>3, ServeEndPrompt
  <1> QED
    BY <1>1, <1>2, <1>3 DEF Target

LEMMA PromptStep ==
  ASSUME TypeOK, Resident, Orderly, Prompt, [Next]_vars, trouble' = "none"
  PROVE  Answers' /\ (Idle' /\ result' # result => Excuses)
  <1>1. ASSUME NEW withStub \in BOOLEAN, Connect(withStub) PROVE Answers' /\ (Idle' /\ result' # result => Excuses)
    BY <1>1, ConnectPrompt
  <1>2. CASE \A withStub \in BOOLEAN : ~Connect(withStub)
    <2>1. trouble = "none" /\ ~Refuse /\ ~Lose
      BY <1>2, TroubleStays
    <2>2. Shape /\ Loading /\ Answers
      BY <2>1 DEF Orderly, Calm, Prompt
    <2>3. CASE Host
      BY <2>2, <2>3, HostPrompt
    <2>4. CASE Target
      BY <2>2, <2>4, TargetPrompt
    <2>5. CASE Load
      BY <2>2, <2>5, LoadPrompt
    <2>6. CASE UNCHANGED vars
      <3>1. UNCHANGED <<toTarget, toHost, call, chip, target, seq, job, result>>
        BY <2>6 DEF vars, linkVars, hostVars, targetVars
      <3> QED
        BY <2>2, <3>1 DEF Answers, Accepted, Answered, Matches
    <2> QED
      BY <1>2, <2>1, <2>3, <2>4, <2>5, <2>6 DEF Next, Client
  <1> QED
    BY <1>1, <1>2

LEMMA InitPrompt == Init => Prompt
  <1> SUFFICES ASSUME Init PROVE Answers
    BY DEF Prompt
  <1>1. call = NoCall /\ job.program = "none"
    BY DEF Init, LinkInit, NoJob
  <1> QED
    BY <1>1 DEF Answers, Exchanges, NoCall

LEMMA PromptAlways == Spec => []Prompt
  <1>1. TypeOK /\ Resident /\ Orderly /\ Prompt /\ [Next]_vars => Prompt'
    BY PromptStep DEF Prompt
  <1> QED
    BY <1>1, Typed, ResidentAlways, OrderlyAlways, InitPrompt, PTL DEF Spec

\* Over a line without faults every load ends well, for every layout of the
\* application, every size of a block and every policy of the target: no
\* call is refused and none runs out of time, save those for an application
\* that overlaps the resident stub and for a stub the chip does not have.
THEOREM RamCleanLoadsSucceed == Spec => CleanLoadsSucceed
  <1> DEFINE EndsWell == trouble' = "none" /\ Idle' /\ result' # result =>
                       \/ result' \in {"CONNECTED", "LOADED"}
                       \/ result' = "INVALID_PARAM" /\ stubRunning /\ Overlaps("app")
                       \/ job.program = "stub" /\ ~HasStub(chip)
  <1>1. TypeOK /\ Resident /\ Orderly /\ Prompt /\ [Next]_vars => [EndsWell]_vars
    BY PromptStep DEF Excuses
  <1> QED
    BY <1>1, Typed, ResidentAlways, OrderlyAlways, PromptAlways, PTL DEF Spec, CleanLoadsSucceed
=============================================================================
