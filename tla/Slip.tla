-------------------------------- MODULE Slip --------------------------------
(***************************************************************************)
(* The framing of slip.c: what SLIP_send and SLIP_send_delimiter put on    *)
(* the line for a frame, and SLIP_receive_packet reading the line byte by  *)
(* byte.  A call that runs out of time leaves the rest of a frame on the   *)
(* line, and the next call starts in the middle of it.  The target sends   *)
(* with the same encoding (external); it may be cut off in a frame, and    *)
(* the line may hold noise before the first one.                           *)
(***************************************************************************)
EXTENDS Naturals, SequencesExt

CONSTANTS
  Frames,     \* the frames the target may send
  MaxFrames,  \* bound on the frames sent
  MaxSize,    \* max_size, the size of the host's buffer
  MaxAborts,  \* bound on the calls that run out of time
  MaxCuts,    \* bound on the frames that are cut off
  Noise       \* what the line may hold at the start

C0 == 192
DB == 219
DC == 220
DD == 221
Octet == 0 .. 255

\* A frame begins with the direction byte of a response, or the O of OHAI:
\* never with a byte that is escaped on the line.
ASSUME FramesAssumption == \A f \in Frames : f \in Seq(Octet) /\ f # <<>> /\ f[1] \notin {C0, DB}

\* The noise of a boot message: a delimiter in it only as its last byte.
ASSUME NoiseAssumption ==
  \A n \in Noise : n \in Seq(Octet) /\ \A i \in 1 .. Len(n) : n[i] = C0 => i = Len(n)
ASSUME BoundsAssumption == MaxSize \in Nat \ {0} /\ {MaxFrames, MaxAborts, MaxCuts} \subseteq Nat

VARIABLES
  line,       \* bytes on their way to the host
  state,      \* where SLIP_receive_packet is
  buff,       \* its buffer
  sent,       \* history: the frames the target sent
  delivered,  \* history: the frames calls have returned
  aborts,     \* calls that ran out of time
  cuts        \* frames cut off

slipVars == <<line, state, buff, sent, delivered, aborts, cuts>>

Replacement(b) == IF b = C0 THEN <<DB, DC>> ELSE <<DB, DD>>

\* SLIP_send writes the bytes queued since the last special one, then that
\* one's replacement.
Queue(st, data, i) == SubSeq(data, st.written + 1, i - 1)

SLIP_send(data) ==
  LET after[i \in 0 .. Len(data)] ==
        IF i = 0 THEN [out |-> <<>>, written |-> 0]
        ELSE LET st == after[i - 1]
             IN  IF data[i] \notin {C0, DB} THEN st
                 ELSE [out |-> st.out \o Queue(st, data, i) \o Replacement(data[i]), written |-> i]
      end == after[Len(data)]
  IN  end.out \o Queue(end, data, Len(data) + 1)

OnLine(f) == <<C0>> \o SLIP_send(f) \o <<C0>>

SlipInit ==
  /\ line \in Noise
  /\ state = "idle"
  /\ buff = <<>>
  /\ sent = <<>>
  /\ delivered = <<>>
  /\ aborts = 0
  /\ cuts = 0

SendFrame(f) ==
  /\ Len(sent) < MaxFrames
  /\ line' = line \o OnLine(f)
  /\ sent' = Append(sent, f)
  /\ UNCHANGED <<state, buff, delivered, aborts, cuts>>

\* The target is reset while it sends.
SendCut(f) ==
  /\ Len(sent) < MaxFrames /\ cuts < MaxCuts
  /\ \E n \in 1 .. Len(OnLine(f)) - 1 : line' = line \o SubSeq(OnLine(f), 1, n)
  /\ sent' = Append(sent, f)
  /\ cuts' = cuts + 1
  /\ UNCHANGED <<state, buff, delivered, aborts>>

-----------------------------------------------------------------------------
(* SLIP_receive_packet, one peripheral_read of one byte per step. *)

Call ==
  /\ state = "idle"
  /\ state' = "hunt"
  /\ buff' = <<>>
  /\ UNCHANGED <<line, sent, delivered, aborts, cuts>>

\* The timer runs out in peripheral_read.
Abort ==
  /\ state # "idle"
  /\ aborts < MaxAborts
  /\ state' = "idle"
  /\ aborts' = aborts + 1
  /\ UNCHANGED <<line, buff, sent, delivered, cuts>>

PeripheralRead(ch) ==
  /\ line # <<>>
  /\ ch = Head(line)
  /\ line' = Tail(line)
  /\ UNCHANGED <<sent, aborts, cuts>>

\* "Wait for delimiter"
Hunt(ch) ==
  /\ state = "hunt"
  /\ state' = IF ch = C0 THEN "open" ELSE "hunt"
  /\ UNCHANGED <<buff, delivered>>

Store(b) ==
  /\ buff' = Append(buff, b)
  /\ state' = IF Len(buff) + 1 < MaxSize THEN "body" ELSE "drain"
  /\ UNCHANGED delivered

Deliver ==
  /\ delivered' = Append(delivered, buff)
  /\ state' = "idle"
  /\ UNCHANGED buff

Mut_Opening(ch) ==
  /\ state = "open"
  /\ \/ ch = C0 /\ state' = "idle" /\ UNCHANGED <<buff, delivered>>
     \/ ch # C0 /\ Store(ch)

\* "bootloader sends two dummy(0xC0) bytes"; the first other byte is stored as it is.
Opening(ch) ==
  /\ state = "open"
  /\ \/ ch = C0 /\ UNCHANGED <<state, buff, delivered>>
     \/ ch # C0 /\ Store(ch)

Body(ch) ==
  /\ state = "body"
  /\ \/ ch = DB /\ state' = "escape" /\ UNCHANGED <<buff, delivered>>
     \/ ch = C0 /\ Deliver
     \/ ch \notin {DB, C0} /\ Store(ch)

Mut_Unescape(ch) ==
  /\ state = "escape"
  /\ Store(IF ch = DC THEN C0 ELSE DB)

\* INVALID_RESPONSE for anything but the two replacements.
Unescape(ch) ==
  /\ state = "escape"
  /\ \/ ch = DC /\ Store(C0)
     \/ ch = DD /\ Store(DB)
     \/ ch \notin {DC, DD} /\ state' = "idle" /\ UNCHANGED <<buff, delivered>>

\* "Wait for delimiter if we already reached max receive size"
Drain(ch) ==
  /\ state = "drain"
  /\ \/ ch = C0 /\ Deliver
     \/ ch # C0 /\ UNCHANGED <<state, buff, delivered>>

Receive ==
  \E ch \in ToSet(line) : PeripheralRead(ch) /\ (Hunt(ch) \/ Opening(ch) \/ Body(ch) \/ Unescape(ch) \/ Drain(ch))

SlipNext == (\E f \in Frames : SendFrame(f) \/ SendCut(f)) \/ Call \/ Abort \/ Receive

SlipSpec == SlipInit /\ [][SlipNext]_slipVars

-----------------------------------------------------------------------------
(* Properties *)

Received(f) == SubSeq(f, 1, IF Len(f) < MaxSize THEN Len(f) ELSE MaxSize)

\* Every frame a call returns is a frame that was sent, in the order in which
\* they were sent and none glued together from two, wherever calls were given
\* up and frames cut off.  It is whole, or as much of it as fits the buffer;
\* only a frame that was cut off may be returned shorter.
Genuine ==
  \E at \in [1 .. Len(delivered) -> 1 .. Len(sent)] :
    /\ \A i, j \in 1 .. Len(delivered) : i < j => at[i] < at[j]
    /\ \A i \in 1 .. Len(delivered) :
         /\ IsPrefix(delivered[i], sent[at[i]])
         /\ cuts = 0 => delivered[i] = Received(sent[at[i]])

\* A call given up in a frame costs that frame, a frame cut off costs itself
\* and the one after it, and then the host is in step with the target again.
LossIsBounded ==
  line = <<>> => Len(sent) - Len(delivered) <= aborts + 2 * cuts + (IF state \in {"body", "escape", "drain"} THEN 1 ELSE 0)
=============================================================================
