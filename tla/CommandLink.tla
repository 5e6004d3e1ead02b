----------------------------- MODULE CommandLink -----------------------------
(***************************************************************************)
(* One command/answer exchange of the serial protocol, as send_cmd and     *)
(* check_response (protocol_uart.c) perform it: the host writes a command  *)
(* frame, then reads frames until one carries its own command code, and    *)
(* gives up when the timer the caller started has run out.  The host is    *)
(* synchronous: it has at most one call open.  Nothing empties the line    *)
(* when a call gives up, so what the line still holds then is delivered    *)
(* to a later call.                                                        *)
(*                                                                         *)
(* The module gives the variables of the line and the operators over them; *)
(* the modules that extend it supply the commands, the caller and the      *)
(* target.  A command frame is a record with a field cmd, an answer a      *)
(* record with the fields cmd and ok (status->failed of the response).     *)
(***************************************************************************)
EXTENDS Naturals, Sequences

CONSTANTS
  MaxLate,   \* frames that may outlive the call they belong to
  Faults     \* what the line and the target may do wrong, see FaultKinds

FaultKinds == {"lose_command", "lose_answer", "garble", "refuse"}

ASSUME MaxLateAssumption == MaxLate \in Nat
ASSUME FaultsAssumption  == Faults \subseteq FaultKinds

VARIABLES
  toTarget,  \* command frames written by the host, not yet handled
  toHost,    \* answer frames written by the target, not yet read
  call       \* the command code send_cmd waits for, or NoCall

linkVars == <<toTarget, toHost, call>>

NoCall == "none"

LinkInit ==
  /\ toTarget = <<>>
  /\ toHost   = <<>>
  /\ call     = NoCall

-----------------------------------------------------------------------------
(* The host side. *)

\* The frame goes out between two delimiters and the call opens; inbound is
\* what is left of toHost when the host starts to read.
Send(frame, inbound) ==
  /\ call'     = frame.cmd
  /\ toTarget' = Append(toTarget, frame)
  /\ toHost'   = inbound

\* send_cmd returns to its caller, with inbound still unread.
Return(inbound) ==
  /\ call'   = NoCall
  /\ toHost' = inbound
  /\ UNCHANGED toTarget

\* The next frame on the line ends the loop of check_response.  A frame that
\* is too short or not an answer is dropped like one with another command
\* code: for the host such a frame is a lost answer.
Matches(answer) == answer.cmd = call

Answered ==
  /\ call # NoCall
  /\ toHost # <<>>
  /\ Matches(Head(toHost))

\* The loop of check_response drops a frame with another command code.
Skip ==
  /\ call # NoCall
  /\ toHost # <<>>
  /\ ~Matches(Head(toHost))
  /\ toHost' = Tail(toHost)
  /\ UNCHANGED <<toTarget, call>>

\* loader_port_remaining_time() is 0: the port read returns TIMEOUT.  With
\* MaxLate = 0 this happens only when nothing can arrive any more.
Mut_NeverExpires == FALSE
Expired ==
  /\ call # NoCall
  /\ Len(toTarget) + Len(toHost) <= MaxLate

-----------------------------------------------------------------------------
(* The line and the target (external). *)

LoseCommand ==
  /\ "lose_command" \in Faults
  /\ toTarget # <<>>
  /\ toTarget' = Tail(toTarget)
  /\ UNCHANGED <<toHost, call>>

LoseAnswer ==
  /\ "lose_answer" \in Faults
  /\ toHost # <<>>
  /\ toHost' = Tail(toHost)
  /\ UNCHANGED <<toTarget, call>>

\* The target has handled the oldest command and writes its answer.
Reply(answer) ==
  /\ toTarget' = Tail(toTarget)
  /\ toHost'   = Append(toHost, answer)
  /\ UNCHANGED call
=============================================================================
