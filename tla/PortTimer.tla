------------------------------ MODULE PortTimer ------------------------------
(***************************************************************************)
(* The timer of the ports, loader_port_start_timer and                     *)
(* loader_port_remaining_time, under the loop it is for: slip.c starts     *)
(* loader_port_read again and again with the time that remains, while the  *)
(* target sends bytes that are not what the loop waits for.  One port is   *)
(* at work; the ports differ in the clock they read, in the width they     *)
(* keep of it and in how loader_port_read waits.  Time is in milliseconds  *)
(* (the rounding of microseconds is left out), the host's own code takes   *)
(* none, and the target sends at most one byte per millisecond.            *)
(***************************************************************************)
EXTENDS Integers

CONSTANTS
  Ports,     \* the ports, see PortKinds
  Wrap,      \* one more than the largest uint32_t, in the port's unit
  Decisec,   \* 100: the raspberry port waits in tenths of a second
  MaxVtime,  \* 255: the most that fits VTIME
  Timeouts,  \* arguments of loader_port_start_timer
  Starts,    \* values of the clock at the start
  Horizon    \* bound on the clock

\* esp32 stands for esp32_spi too.
PortKinds == {"esp32", "stm32", "pico", "usb", "raspberry"}

ASSUME PortsAssumption    == Ports \subseteq PortKinds
ASSUME WrapAssumption     == Wrap \in Nat \ {0}
ASSUME VtimeAssumption    == {Decisec, MaxVtime} \subseteq Nat \ {0}
ASSUME TimeoutsAssumption == Timeouts \subseteq {t \in Nat : 2 * t < Wrap}
ASSUME ClockAssumption    == Starts \subseteq Nat /\ Horizon \in Nat

VARIABLES
  port,     \* the port
  now,      \* time since boot, of any width
  cpu,      \* processor time the process has used, counted for raspberry only
  timeEnd,  \* s_time_end
  loop,     \* "idle", "ready" to read or "reading"
  until,    \* when loader_port_read gives up, on the clock it reads
  heard,    \* has a byte come in this millisecond
  due,      \* history: when the timer should run out
  timeout,  \* history: what it was started with
  gaveUp    \* history: when the last loop timed out, when it should have, and its timeout

timerVars == <<port, now, cpu, timeEnd, loop, until, heard, due, timeout, gaveUp>>

Never == [at |-> 0, due |-> 0, timeout |-> 0]

TimerInit ==
  /\ port \in Ports
  /\ now \in Starts
  /\ cpu = 0
  /\ timeEnd = 0
  /\ loop = "idle"
  /\ until = 0
  /\ heard = FALSE
  /\ due = 0 /\ timeout = 0
  /\ gaveUp = Never

-----------------------------------------------------------------------------
(* loader_port_start_timer and loader_port_remaining_time *)

\* An int32_t that holds x.
Signed(x) == IF 2 * x >= Wrap THEN x - Wrap ELSE x

\* usb adds 64-bit microseconds and keeps 32 bits of the sum.
TimeEnd(ms) ==
  CASE port = "esp32" -> now + ms
    [] port = "raspberry" -> cpu + ms
    [] port \in {"stm32", "pico", "usb"} -> (now + ms) % Wrap

Mut_Difference ==
  CASE port \in {"esp32", "usb"} -> timeEnd - now
    [] port = "raspberry" -> timeEnd - cpu
    [] port \in {"stm32", "pico"} -> timeEnd - (now % Wrap)
Difference ==
  CASE port \in {"esp32", "usb"} -> timeEnd - now
    [] port = "raspberry" -> timeEnd - cpu
    [] port \in {"stm32", "pico"} -> Signed((timeEnd - now) % Wrap)

Mut_RemainingTime == timeout
RemainingTime == IF Difference > 0 THEN Difference ELSE 0

-----------------------------------------------------------------------------
(* loader_port_read of one byte *)

\* set_timeout of the raspberry port.
Vtime(ms) ==
  LET d == ms \div Decisec
  IN  Decisec * (IF d < 1 THEN 1 ELSE IF d > MaxVtime THEN MaxVtime ELSE d)

GiveUpAt(ms) ==
  CASE port = "pico" -> (now + ms) % Wrap
    [] port = "raspberry" -> now + Vtime(ms)
    [] OTHER -> now + ms

GivesUp == IF port = "pico" THEN now % Wrap > until ELSE now >= until

Start(ms) ==
  /\ loop = "idle"
  /\ timeEnd' = TimeEnd(ms)
  /\ due' = now + ms /\ timeout' = ms
  /\ loop' = "ready"
  /\ gaveUp' = Never
  /\ UNCHANGED <<port, now, cpu, until, heard>>

Read ==
  /\ loop = "ready"
  /\ until' = GiveUpAt(RemainingTime)
  /\ loop' = "reading"
  /\ UNCHANGED <<port, now, cpu, timeEnd, heard, due, timeout, gaveUp>>

\* A byte that does not end the loop, and one that does.
Byte ==
  /\ loop = "reading" /\ ~heard
  /\ heard' = TRUE
  /\ loop' \in {"ready", "idle"}
  /\ UNCHANGED <<port, now, cpu, timeEnd, until, due, timeout, gaveUp>>

TimesOut ==
  /\ loop = "reading" /\ GivesUp
  /\ loop' = "idle"
  /\ gaveUp' = [at |-> now, due |-> due, timeout |-> timeout]
  /\ UNCHANGED <<port, now, cpu, timeEnd, until, heard, due, timeout>>

\* A process that waits in read uses next to no processor time.
Tick ==
  /\ loop = "idle" \/ (loop = "reading" /\ ~GivesUp)
  /\ now < Horizon
  /\ now' = now + 1
  /\ cpu' \in IF port = "raspberry" THEN {cpu, cpu + 1} ELSE {cpu}
  /\ heard' = FALSE
  /\ UNCHANGED <<port, timeEnd, loop, until, due, timeout, gaveUp>>

TimerNext == (\E ms \in Timeouts : Start(ms)) \/ Read \/ Byte \/ TimesOut \/ Tick

TimerSpec == TimerInit /\ [][TimerNext]_timerVars

-----------------------------------------------------------------------------
(* Properties *)

\* How far a port's timer reaches: usb to the first wrap of the 32 bits it
\* keeps, pico to the next one, raspberry to what VTIME holds.
InReach(deadline, ms) ==
  CASE port = "usb" -> deadline < Wrap
    [] port = "pico" -> (deadline - ms) \div Wrap = deadline \div Wrap
    [] port = "raspberry" -> ms <= Decisec * MaxVtime
    [] OTHER -> TRUE

\* A loop that times out has waited for the time its timer was started with,
\* to the tenth of a second: on esp32 and stm32 at any time since boot, on the
\* other ports in the reach of their timers.
NotEarly == InReach(gaveUp.due, gaveUp.timeout) => gaveUp.due < gaveUp.at + Decisec

\* A loop does not go on for more than a tenth of a second after its timer has
\* run out, however many bytes the target sends in the meantime.  Two ports
\* promise nothing of the kind: the timer of raspberry counts processor time,
\* and pico reads on to the end of the millisecond when no time remains.
WaitBounded ==
  loop # "idle" /\ port \notin {"pico", "raspberry"} => now <= due + Decisec
=============================================================================
