-------------------------- MODULE SerialPortProofs --------------------------
(***************************************************************************)
(* The ports.  The loops of slip.c wait for as long as their timer says,   *)
(* on every port in the reach of its timer, for every width of the clock,  *)
(* every timeout below half of it and every time since boot.  The handles  *)
(* of the USB port, when the driver's task preempts the application, for   *)
(* any number of sessions.  The framing of slip.c, for all frames, sizes of *)
(* the buffer, calls given up and frames cut off.                          *)
(***************************************************************************)
EXTENDS PortTimer, UsbCdcPort, Slip, FiniteSetTheorems, SequenceTheorems, WellFoundedInduction, TLAPS

-----------------------------------------------------------------------------
(* The timer of the ports *)

LEMMA DivMod ==
  ASSUME NEW W \in Nat \ {0}, NEW n \in Nat
  PROVE  n \div W \in Nat /\ n % W \in 0 .. W - 1 /\ n = (n \div W) * W + (n % W)
OBVIOUS

\* The difference to a time less than half a turn of the clock ahead survives
\* the reduction of both times to the width of the clock.
LEMMA WrappedDifference ==
  ASSUME NEW W \in Nat \ {0}, NEW d \in Nat, NEW n \in Nat, n <= d, d - n < W
  PROVE  ((d % W) - n) % W = d - n /\ ((d % W) - (n % W)) % W = d - n
<1> DEFINE k == d \div W
           r == d % W
           l == n \div W
           q == n % W
<1>1. /\ k \in Int /\ r \in 0 .. W - 1 /\ d = k * W + r
      /\ l \in Int /\ q \in 0 .. W - 1 /\ n = l * W + q
  OBVIOUS
<1> HIDE DEF k, r, l, q
<1>2. ASSUME NEW x \in Int, NEW j \in Int, x = (d - n) + j * W
      PROVE  x % W = d - n
  <2> DEFINE m == x \div W
             s == x % W
  <2>1. m \in Int /\ s \in 0 .. W - 1 /\ x = m * W + s
    OBVIOUS
  <2> HIDE DEF m, s
  <2>2. (m - j) * W = (d - n) - s
    BY <1>2, <2>1
  <2>3. (d - n) - s < W /\ (d - n) - s > -W
    BY <2>1
  <2>4. m - j \in Int
    BY <2>1, <1>2
  <2>5. m - j = 0
    BY <2>2, <2>3, <2>4
  <2>6. s = d - n
    BY <2>5, <2>2, <2>1
  <2> QED
    BY <2>6 DEF s
<1>3. r - n = (d - n) + (-k) * W /\ -k \in Int /\ r - n \in Int
  BY <1>1
<1>4. r - q = (d - n) + (l - k) * W /\ l - k \in Int /\ r - q \in Int
  BY <1>1
<1>5. (r - n) % W = d - n
  BY <1>2, <1>3
<1>6. (r - q) % W = d - n
  BY <1>2, <1>4
<1> QED
  BY <1>5, <1>6 DEF r, q

\* Two times in the same turn of the clock compare as what the clock shows.
LEMMA SameTurn ==
  ASSUME NEW W \in Nat \ {0}, NEW s \in Nat, NEW n \in Nat, NEW d \in Nat,
         s <= n, n <= d, s \div W = d \div W
  PROVE  n % W <= d % W
<1> DEFINE k == s \div W
           l == n \div W
           q == n % W
           r == d % W
<1>0. s % W \in 0 .. W - 1 /\ s = k * W + (s % W)
  BY DivMod
<1>1. /\ k \in Int /\ l \in Int /\ q \in 0 .. W - 1 /\ r \in 0 .. W - 1
      /\ n = l * W + q /\ d = k * W + r
  <2>1. k = d \div W
    OBVIOUS
  <2>2. d \div W \in Nat /\ r \in 0 .. W - 1 /\ d = (d \div W) * W + r
    BY DivMod
  <2>3. l \in Int /\ q \in 0 .. W - 1 /\ n = l * W + q
    BY DivMod
  <2> HIDE DEF k, l, q, r
  <2> QED
    BY <2>1, <2>2, <2>3
<1> HIDE DEF k, l, q, r
<1>2. l = k
  <2>1. (l - k) * W < W /\ (l - k) * W > -W
    BY <1>0, <1>1
  <2>2. l - k \in Int
    BY <1>1
  <2> QED
    BY <2>1, <2>2, <1>1
<1> QED
  BY <1>1, <1>2 DEF q, r

\* VTIME holds a wait up to a tenth of a second less than the one asked for.
LEMMA VtimeReach ==
  ASSUME NEW ms \in Nat
  PROVE  /\ Vtime(ms) \in Nat
         /\ ms <= Decisec * MaxVtime => Vtime(ms) + Decisec > ms
<1> DEFINE d == ms \div Decisec
<1>1. Decisec \in Nat \ {0} /\ MaxVtime \in Nat \ {0}
  BY VtimeAssumption
<1>2. d \in Nat /\ ms % Decisec \in 0 .. Decisec - 1 /\ ms = d * Decisec + (ms % Decisec)
  BY <1>1, DivMod
<1> HIDE DEF d
<1> DEFINE v == IF d < 1 THEN 1 ELSE IF d > MaxVtime THEN MaxVtime ELSE d
<1>3. v \in Nat /\ Vtime(ms) = Decisec * v
  BY <1>1, <1>2 DEF Vtime, d
<1>4. CASE d <= MaxVtime
  <2>1. v >= d
    BY <1>2, <1>4
  <2> HIDE DEF v
  <2>2. Decisec * v >= Decisec * d
    BY <2>1, <1>1, <1>2, <1>3
  <2> QED
    BY <2>2, <1>1, <1>2, <1>3
<1>5. CASE d > MaxVtime
  <2>1. v = MaxVtime
    BY <1>1, <1>2, <1>5
  <2>2. Decisec * d > Decisec * MaxVtime
    BY <1>1, <1>2, <1>5
  <2> QED
    BY <2>1, <2>2, <1>1, <1>2, <1>3
<1> QED
  BY <1>4, <1>5, <1>1, <1>2

\* The ports whose loops end with their timer.
Sound == {"esp32", "stm32", "usb"}

\* The timer is kept in the port's clock; a read that starts waits up to it, in
\* the reach of the port; no loop of a sound port outlives it.
TimerInv ==
  /\ port \in PortKinds
  /\ now \in Nat /\ cpu \in Nat /\ due \in Nat /\ timeEnd \in Nat /\ until \in Nat
  /\ timeout \in Timeouts \cup {0}
  /\ loop \in {"idle", "ready", "reading"}
  /\ gaveUp \in [at : Nat, due : Nat, timeout : Nat]
  /\ loop # "idle" =>
       /\ timeout \in Timeouts
       /\ due <= now + timeout
       /\ port \in Sound => now <= due
       /\ port = "esp32" => timeEnd = due
       /\ port \in {"stm32", "pico", "usb"} => timeEnd = due % Wrap
       /\ port = "raspberry" => timeEnd - cpu >= due - now /\ timeEnd - cpu <= timeout
  /\ loop = "reading" =>
       /\ port \in {"esp32", "stm32"} => until = due
       /\ port = "usb" => until <= due /\ (due < Wrap => until = due)
       /\ port = "pico" => now > due \/ until = due % Wrap
       /\ port = "raspberry" /\ timeout <= Decisec * MaxVtime => until + Decisec > due
  /\ NotEarly

LEMMA Constants ==
  /\ Wrap \in Nat \ {0}
  /\ Decisec \in Nat \ {0} /\ MaxVtime \in Nat \ {0}
  /\ Starts \subseteq Nat
  /\ Timeouts \cup {0} \subseteq Nat
  /\ \A t \in Timeouts : t \in Nat /\ 2 * t < Wrap
BY WrapAssumption, VtimeAssumption, TimeoutsAssumption, ClockAssumption

\* A remainder is less than the width, and no more than the number.
LEMMA Remainder ==
  ASSUME NEW W \in Nat \ {0}, NEW n \in Nat
  PROVE  n % W \in Nat /\ n % W < W /\ n % W <= n /\ (n < W => n % W = n)
<1>1. n % W \in 0 .. W - 1 /\ n \div W \in Nat /\ n = (n \div W) * W + (n % W)
  BY DivMod
<1> DEFINE k == n \div W
           r == n % W
<1> HIDE DEF k, r
<1>2. k \in Nat /\ r \in 0 .. W - 1 /\ n = k * W + r
  BY <1>1 DEF k, r
<1>3. k * W \in Nat
  BY <1>2
<1>4. n < W => k = 0
  <2> SUFFICES ASSUME n < W, k >= 1 PROVE FALSE
    BY <1>2
  <2>1. k * W >= W
    BY <1>2
  <2> QED
    BY <2>1, <1>2
<1> QED
  BY <1>2, <1>3, <1>4 DEF r

\* The time that remains, port by port: the true one on the 64-bit and the
\* signed timers, and on usb until the first wrap; what processor time leaves
\* of it on raspberry, never less than the true one.
LEMMA Remaining ==
  ASSUME TimerInv, loop = "ready"
  PROVE  /\ RemainingTime \in Nat
         /\ port \in {"esp32", "stm32"} => RemainingTime = due - now
         /\ port = "usb" => RemainingTime <= due - now
         /\ port = "usb" /\ due < Wrap => RemainingTime = due - now
         /\ port = "pico" /\ now <= due => RemainingTime = due - now
         /\ port = "raspberry" => RemainingTime >= due - now /\ RemainingTime <= timeout
<1>1. /\ port \in PortKinds /\ now \in Nat /\ due \in Nat /\ cpu \in Nat /\ timeEnd \in Nat
      /\ timeout \in Timeouts /\ timeout \in Nat /\ 2 * timeout < Wrap /\ due <= now + timeout
      /\ Wrap \in Nat \ {0}
  BY Constants DEF TimerInv
<1>2. CASE port = "esp32"
  BY <1>1, <1>2 DEF TimerInv, Sound, RemainingTime, Difference
<1>3. CASE port \in {"stm32", "pico"}
  <2> DEFINE y == (timeEnd - now) % Wrap
  <2>1. y \in Nat /\ y < Wrap
    BY <1>1
  <2>2. Difference = Signed(y)
    BY <1>3 DEF Difference
  <2>3. Signed(y) \in Int
    <3> HIDE DEF y
    <3> QED BY <2>1, <1>1 DEF Signed
  <2>4. ASSUME now <= due PROVE Signed(y) = due - now
    <3>1. y = due - now
      <4>1. timeEnd = due % Wrap
        BY <1>3 DEF TimerInv
      <4>2. due - now < Wrap
        BY <1>1
      <4>3. ((due % Wrap) - now) % Wrap = due - now
        BY <1>1, <2>4, <4>2, WrappedDifference
      <4> QED
        BY <4>1, <4>3
    <3> HIDE DEF y
    <3> QED
      BY <3>1, <2>4, <1>1 DEF Signed
  <2>5. port = "stm32" => now <= due
    BY DEF TimerInv, Sound
  <2> HIDE DEF y
  <2> QED
    BY <1>1, <1>3, <2>2, <2>3, <2>4, <2>5 DEF RemainingTime
<1>4. CASE port = "usb"
  <2>1. timeEnd = due % Wrap /\ now <= due
    BY <1>4 DEF TimerInv, Sound
  <2>2. timeEnd <= due /\ (due < Wrap => timeEnd = due)
    BY <2>1, <1>1, Remainder
  <2> QED
    BY <1>1, <1>4, <2>1, <2>2 DEF RemainingTime, Difference
<1>5. CASE port = "raspberry"
  BY <1>1, <1>5 DEF TimerInv, RemainingTime, Difference
<1> QED
  BY <1>1, <1>2, <1>3, <1>4, <1>5 DEF PortKinds

LEMMA TimerInitInv == TimerInit => TimerInv
<1> SUFFICES ASSUME TimerInit PROVE TimerInv
  OBVIOUS
<1>1. port \in PortKinds /\ now \in Nat
  BY PortsAssumption, Constants DEF TimerInit
<1>2. gaveUp = [at |-> 0, due |-> 0, timeout |-> 0]
  BY DEF TimerInit, Never
<1>3. NotEarly
  BY <1>2, Constants DEF NotEarly
<1> QED
  BY <1>1, <1>2, <1>3 DEF TimerInit, TimerInv

LEMMA StartKeepsTimer ==
  ASSUME TimerInv, NEW ms \in Timeouts, Start(ms)
  PROVE  TimerInv'
<1>1. /\ ms \in Nat /\ now \in Nat /\ cpu \in Nat /\ due' = now + ms /\ timeout' = ms
      /\ loop' = "ready" /\ gaveUp' = Never
      /\ port' = port /\ now' = now /\ cpu' = cpu /\ until' = until /\ timeEnd' = TimeEnd(ms)
  BY Constants DEF Start, TimerInv
<1>2. /\ port = "esp32" => timeEnd' = due'
      /\ port \in {"stm32", "pico", "usb"} => timeEnd' = due' % Wrap
      /\ port = "raspberry" => timeEnd' = cpu + ms
  BY <1>1 DEF TimeEnd
<1>3. timeEnd' \in Nat
  BY <1>1, <1>2, Remainder, Constants DEF TimerInv, PortKinds
<1>4. NotEarly'
  BY <1>1, Constants DEF NotEarly, Never
<1> QED
  BY <1>1, <1>2, <1>3, <1>4 DEF TimerInv, Never, Sound

LEMMA ReadKeepsTimer ==
  ASSUME TimerInv, Read
  PROVE  TimerInv'
<1>1. /\ loop = "ready" /\ loop' = "reading" /\ until' = GiveUpAt(RemainingTime)
      /\ port' = port /\ now' = now /\ cpu' = cpu /\ timeEnd' = timeEnd
      /\ due' = due /\ timeout' = timeout /\ gaveUp' = gaveUp
  BY DEF Read
<1>2. port \in PortKinds /\ now \in Nat /\ due \in Nat /\ timeout \in Nat /\ RemainingTime \in Nat
  BY <1>1, Remaining, Constants DEF TimerInv
<1> DEFINE until0 == GiveUpAt(RemainingTime)
<1>3. CASE port \in {"esp32", "stm32", "usb"}
  <2>1. until0 = now + RemainingTime
    BY <1>3 DEF GiveUpAt
  <2> QED
    BY <1>1, <1>2, <1>3, <2>1, Remaining DEF TimerInv, NotEarly, InReach
<1>4. CASE port = "pico"
  <2>1. until0 = (now + RemainingTime) % Wrap
    BY <1>4 DEF GiveUpAt
  <2>2. until0 \in Nat
    BY <2>1, <1>2, Remainder, Constants
  <2>3. now <= due => until0 = due % Wrap
    BY <1>1, <1>2, <1>4, <2>1, Remaining
  <2> QED
    BY <1>1, <1>2, <1>4, <2>2, <2>3 DEF TimerInv, NotEarly, InReach
<1>5. CASE port = "raspberry"
  <2>1. until0 = now + Vtime(RemainingTime)
    BY <1>5 DEF GiveUpAt
  <2>2. Vtime(RemainingTime) \in Nat
    BY <1>2, VtimeReach
  <2>3. RemainingTime >= due - now /\ RemainingTime <= timeout
    BY <1>1, <1>5, Remaining
  <2>4. timeout <= Decisec * MaxVtime => Vtime(RemainingTime) + Decisec > RemainingTime
    <3>1. Decisec * MaxVtime \in Nat
      BY Constants
    <3> QED
      BY <3>1, <2>3, <1>2, VtimeReach
  <2>5. until0 \in Nat
    BY <1>2, <2>1, <2>2
  <2>6. timeout <= Decisec * MaxVtime => until0 + Decisec > due
    BY <1>2, <2>1, <2>2, <2>3, <2>4, Constants
  <2> QED
    BY <1>1, <1>2, <1>5, <2>5, <2>6 DEF TimerInv, NotEarly, InReach
<1> QED
  BY <1>2, <1>3, <1>4, <1>5 DEF PortKinds

\* A loop that gives up does so when its timer has run out, in its port's reach.
LEMMA GivesUpInTime ==
  ASSUME TimerInv, TimesOut, InReach(due, timeout)
  PROVE  due < now + Decisec
<1>1. /\ loop = "reading" /\ GivesUp
      /\ port \in PortKinds /\ now \in Nat /\ due \in Nat /\ until \in Nat /\ timeout \in Nat
      /\ due <= now + timeout /\ Decisec \in Nat \ {0} /\ Wrap \in Nat \ {0}
  BY Constants DEF TimerInv, TimesOut
<1>2. CASE port \in {"esp32", "stm32"}
  BY <1>1, <1>2 DEF TimerInv, GivesUp
<1>3. CASE port = "usb"
  BY <1>1, <1>3 DEF TimerInv, GivesUp, InReach
<1>4. CASE port = "raspberry"
  BY <1>1, <1>4 DEF TimerInv, GivesUp, InReach
<1>5. CASE port = "pico"
  <2> SUFFICES ASSUME now <= due PROVE FALSE
    BY <1>1
  <2>1. until = due % Wrap /\ now % Wrap > until
    BY <1>1, <1>5 DEF TimerInv, GivesUp
  <2>2. (due - timeout) \div Wrap = due \div Wrap
    BY <1>5 DEF InReach
  <2>3. CASE due >= timeout
    <3>1. now % Wrap <= due % Wrap
      <4>1. due - timeout \in Nat /\ due - timeout <= now
        BY <1>1, <2>3
      <4> QED
        BY <4>1, <1>1, <2>2, SameTurn
    <3> QED
      BY <3>1, <2>1, <1>1, Remainder
  <2>4. CASE due < timeout
    <3>1. due < Wrap
      BY <1>1, <2>4, Constants DEF TimerInv
    <3>2. now % Wrap = now /\ due % Wrap = due
      BY <1>1, <3>1, Remainder
    <3> QED
      BY <3>2, <2>1, <1>1
  <2> QED
    BY <2>3, <2>4, <1>1
<1> QED
  BY <1>1, <1>2, <1>3, <1>4, <1>5 DEF PortKinds

LEMMA TickKeepsTimer ==
  ASSUME TimerInv, Tick
  PROVE  TimerInv'
<1>1. /\ now' = now + 1 /\ cpu' \in {cpu, cpu + 1} /\ port' = port /\ timeEnd' = timeEnd
      /\ loop' = loop /\ until' = until /\ due' = due /\ timeout' = timeout /\ gaveUp' = gaveUp
      /\ loop # "ready" /\ (loop = "reading" => ~GivesUp)
  BY DEF Tick
<1>2. /\ port \in PortKinds /\ now \in Nat /\ cpu \in Nat /\ due \in Nat /\ timeEnd \in Nat
      /\ until \in Nat /\ timeout \in Nat
  BY Constants DEF TimerInv
<1>3. loop = "reading" /\ port \in Sound => now < due
  BY <1>1, <1>2 DEF TimerInv, GivesUp, Sound
<1>4. NotEarly'
  BY <1>1 DEF TimerInv, NotEarly, InReach
<1>5. cpu' \in Nat /\ now' \in Nat
  BY <1>1, <1>2
<1>6. loop = "idle" \/ loop = "reading"
  BY <1>1 DEF TimerInv
<1>7. loop = "reading" =>
       /\ timeout \in Timeouts
       /\ due <= now' + timeout
       /\ port \in Sound => now' <= due
       /\ port = "esp32" => timeEnd = due
       /\ port \in {"stm32", "pico", "usb"} => timeEnd = due % Wrap
       /\ port = "raspberry" => timeEnd - cpu' >= due - now' /\ timeEnd - cpu' <= timeout
  <2> SUFFICES ASSUME loop = "reading"
               PROVE  /\ timeout \in Timeouts /\ due <= now' + timeout
                      /\ port \in Sound => now' <= due
                      /\ port = "esp32" => timeEnd = due
                      /\ port \in {"stm32", "pico", "usb"} => timeEnd = due % Wrap
                      /\ port = "raspberry" => timeEnd - cpu' >= due - now' /\ timeEnd - cpu' <= timeout
    OBVIOUS
  <2>1. timeout \in Timeouts /\ due <= now' + timeout
    BY <1>1, <1>2 DEF TimerInv
  <2>2. port \in Sound => now' <= due
    BY <1>1, <1>2, <1>3
  <2>3. /\ port = "esp32" => timeEnd = due
        /\ port \in {"stm32", "pico", "usb"} => timeEnd = due % Wrap
    BY DEF TimerInv
  <2>4. port = "raspberry" => timeEnd - cpu >= due - now /\ timeEnd - cpu <= timeout
    BY DEF TimerInv
  <2>5. port = "raspberry" => timeEnd - cpu' >= due - now' /\ timeEnd - cpu' <= timeout
    <3>1. CASE cpu' = cpu
      BY <2>4, <3>1, <1>1, <1>2
    <3>2. CASE cpu' = cpu + 1
      BY <2>4, <3>2, <1>1, <1>2
    <3> QED
      BY <3>1, <3>2, <1>1
  <2> QED
    BY <2>1, <2>2, <2>3, <2>5
<1>8. loop = "reading" =>
       /\ port \in {"esp32", "stm32"} => until = due
       /\ port = "usb" => until <= due /\ (due < Wrap => until = due)
       /\ port = "pico" => now' > due \/ until = due % Wrap
       /\ port = "raspberry" /\ timeout <= Decisec * MaxVtime => until + Decisec > due
  BY <1>1, <1>2 DEF TimerInv
<1>9. gaveUp \in [at : Nat, due : Nat, timeout : Nat] /\ timeout \in Timeouts \cup {0}
  BY DEF TimerInv
<1> QED
  BY <1>1, <1>2, <1>4, <1>5, <1>6, <1>7, <1>8, <1>9 DEF TimerInv

LEMMA TimerStep == TimerInv /\ [TimerNext]_timerVars => TimerInv'
<1> SUFFICES ASSUME TimerInv, [TimerNext]_timerVars PROVE TimerInv'
  OBVIOUS
<1>1. ASSUME NEW ms \in Timeouts, Start(ms) PROVE TimerInv'
  BY <1>1, StartKeepsTimer
<1>2. CASE Read
  BY <1>2, ReadKeepsTimer
<1>3. CASE Byte
  BY <1>3 DEF Byte, TimerInv, NotEarly, InReach
<1>4. CASE TimesOut
  <2>1. InReach(due, timeout) => due < now + Decisec
    BY <1>4, GivesUpInTime
  <2>2. timeout \in Nat /\ due \in Nat /\ now \in Nat
    BY Constants DEF TimerInv
  <2>3. gaveUp' = [at |-> now, due |-> due, timeout |-> timeout] /\ port' = port
    BY <1>4 DEF TimesOut
  <2>4. NotEarly'
    BY <2>1, <2>3 DEF NotEarly, InReach
  <2> QED
    BY <1>4, <2>2, <2>3, <2>4 DEF TimesOut, TimerInv
<1>5. CASE Tick
  BY <1>5, TickKeepsTimer
<1>6. CASE UNCHANGED timerVars
  BY <1>6 DEF timerVars, TimerInv, NotEarly, InReach
<1> QED
  BY <1>1, <1>2, <1>3, <1>4, <1>5, <1>6 DEF TimerNext

\* A loop that times out has waited for its whole timeout, to a tenth of a
\* second, in the reach of its port's timer (loader_port_start_timer,
\* loader_port_remaining_time and loader_port_read of the five kinds of port).
THEOREM TimeoutNotEarly == TimerSpec => []NotEarly
<1>1. TimerInv => NotEarly
  BY DEF TimerInv
<1> QED
  BY TimerInitInv, TimerStep, <1>1, PTL DEF TimerSpec

\* And on the ports whose timer promises it no loop outlives its timer,
\* whatever the target sends: on usb at any time since boot too, where a timer
\* set across the wrap ends early.
THEOREM LoopsEndInTime == TimerSpec => []WaitBounded
<1>1. TimerInv => WaitBounded
  BY Constants DEF TimerInv, WaitBounded, Sound, PortKinds
<1> QED
  BY TimerInitInv, TimerStep, <1>1, PTL DEF TimerSpec

-----------------------------------------------------------------------------
(* The handles of the USB port *)

AppLabels == {"init", "stream", "open", "opened", "create", "flash", "calling", "wait",
              "clear", "delete", "deleted", "close", "closed", "aborted", "exhausted"}
DriverLabels == {"idle", "notify", "clear", "delete", "deleted", "close", "closed"}

Busy      == pc.driver # "idle"
InSession == pc.app \in {"create", "flash", "calling", "wait"}
Connected == InSession \/ pc.app = "opened"
Undoing   == pc.app \in {"clear", "delete", "deleted", "close", "closed"}

\* The session has begun while the driver gave up an earlier one, or the one
\* behind it did.
Overtaken(s) == s \in overtaking \/ s + 1 \in overtaking

PortTyped ==
  /\ session \in Nat /\ (pc.app # "init" => session # 0)
  /\ device \in 0 .. session /\ stream \in 0 .. session /\ sem \in 0 .. session
  /\ opened \subseteq 1 .. session /\ live \subseteq 1 .. session /\ given \subseteq 1 .. session
  /\ pc \in [Tasks -> AppLabels \cup DriverLabels]
  /\ pc.app \in AppLabels /\ pc.driver \in DriverLabels

\* What each handle stands for, and what it no longer stands for.
HandlesHeld ==
  /\ stream \in live => stream = session \/ Overtaken(stream)
  /\ device \in opened => device = session \/ Overtaken(device)
  /\ ~Stopped => \A s \in Leaked : Overtaken(s)

\* An init finds the handles given up, or the driver still at it.
BeforeSession ==
  /\ pc.app = "init" /\ ~Busy => stream = Null /\ device = Null
  /\ pc.app \in {"init", "stream", "open"} \/ Undoing => (~Busy => device = Null)
  /\ pc.app = "opened" /\ device # Null => session \in overtaking
  /\ pc.app \in {"stream", "open"} \/ Undoing => (Busy => session \in overtaking)
  /\ pc.app = "stream" => session \notin live /\ stream # session
  /\ pc.app \in {"stream", "open"} => session \notin opened
  /\ pc.app \in {"stream", "open", "opened"} => device # session
  /\ pc.app = "open" /\ session \notin overtaking => stream = session /\ session \in live
  /\ pc.app = "deleted" => stream \notin live
  /\ pc.app \in {"close", "closed"} => stream = Null
  /\ pc.app = "closed" => device \notin opened

\* A deinit of the driver forgets a handle only of a session that overtook it.
DriverUndoes ==
  /\ pc.driver = "deleted" /\ stream \in live => stream \in overtaking
  /\ pc.driver = "closed" /\ device \in opened => device \in overtaking
  /\ pc.driver = "closed" /\ pc.app = "opened" => session \in overtaking
  /\ pc.driver \in {"close", "closed"} /\ pc.app = "init" => stream = Null

\* A session is disconnected once, gets its semaphore once, and both before the
\* driver gives up its handles.
Signals ==
  /\ event \/ attached # {} \/ pc.driver = "notify" => (Connected \/ Stopped) /\ session \notin given
  /\ event => attached = {} /\ ~intact /\ pc.driver # "notify"
  /\ pc.driver = "notify" => attached = {} /\ ~intact
  /\ session \in given => ~intact /\ (pc.app \in {"flash", "calling", "wait"} \/ Stopped)
  /\ pc.app \in {"flash", "calling", "wait"} => sem = session
  /\ pc.app \in {"stream", "open", "opened", "create"} \/ Undoing => sem # session
  /\ session \in given /\ InSession =>
       /\ pc.driver = "deleted" => stream \notin live
       /\ pc.driver \in {"close", "closed", "idle"} => stream = Null
       /\ pc.driver = "idle" => device = Null

\* While the device stays the driver keeps off the handles.
WhilePlugged ==
  /\ intact => Connected \/ Stopped
  /\ intact /\ Connected /\ session \notin overtaking =>
       /\ ~Busy /\ stream = session /\ session \in live /\ session \in opened
       /\ InSession => device = session
  /\ IntactWhilePlugged

Inv ==
  /\ PortTyped /\ HandlesHeld /\ BeforeSession /\ DriverUndoes /\ Signals /\ WhilePlugged
  /\ preempts => overtaking = {}

LEMMA Moves ==
  ASSUME pc \in [Tasks -> AppLabels \cup DriverLabels], NEW label \in AppLabels \cup DriverLabels
  PROVE  /\ Goto("app", label) => /\ pc'.app = label /\ pc'.driver = pc.driver
                                  /\ pc' \in [Tasks -> AppLabels \cup DriverLabels]
         /\ Goto("driver", label) => /\ pc'.driver = label /\ pc'.app = pc.app
                                     /\ pc' \in [Tasks -> AppLabels \cup DriverLabels]
  BY DEF Goto, Tasks

LEMMA InitInv == Init => Inv
  BY DEF Init, Inv, PortTyped, HandlesHeld, BeforeSession, DriverUndoes, Signals, WhilePlugged,
         IntactWhilePlugged, Overtaken, Leaked, Busy, InSession, Connected, Undoing, Stopped, Tasks,
         AppLabels, DriverLabels, Null

LEMMA CreateStreamKeeps ==
  ASSUME Inv, CreateStream
  PROVE  Inv'
<1> USE Moves DEF Inv, PortTyped, AppLabels, DriverLabels, Null, Tasks, handles, kernel, world,
                  history, Aborts, CreateStream
<1>1. PortTyped'
  <2>1. /\ pc' \in [Tasks -> AppLabels \cup DriverLabels]
        /\ pc'.app \in AppLabels /\ pc'.driver \in DriverLabels
    OBVIOUS
  <2>2. session \in 1 .. session /\ session' = session
    OBVIOUS
  <2>3. opened' \subseteq 1 .. session /\ live' \subseteq 1 .. session /\ given' \subseteq 1 .. session
    BY <2>2
  <2> QED
    BY <2>1, <2>2, <2>3
<1>2. HandlesHeld'
  BY DEF HandlesHeld, BeforeSession, DriverUndoes, Overtaken, Leaked, Busy, Undoing, Stopped
<1>3. BeforeSession'
  BY DEF BeforeSession, DriverUndoes, Signals, InSession, Connected, Busy, Undoing, Stopped
<1>4. DriverUndoes'
  BY DEF BeforeSession, DriverUndoes, Signals, InSession, Busy, Undoing, Stopped
<1>5. Signals'
  BY DEF BeforeSession, DriverUndoes, Signals, InSession, Connected, Busy, Undoing, Stopped
<1>6. WhilePlugged'
  BY DEF WhilePlugged, IntactWhilePlugged, BeforeSession, Signals, InSession, Connected, Busy,
         Undoing, Stopped
<1>7. (preempts => overtaking = {})'
  OBVIOUS
<1> QED
  BY <1>1, <1>2, <1>3, <1>4, <1>5, <1>6, <1>7

LEMMA OpenKeeps ==
  ASSUME Inv, Open
  PROVE  Inv'
<1> USE Moves DEF Inv, PortTyped, AppLabels, DriverLabels, Null, Tasks, handles, kernel, world,
                  history, Aborts, Open
<1>1. PortTyped'
  <2>1. /\ pc' \in [Tasks -> AppLabels \cup DriverLabels]
        /\ pc'.app \in AppLabels /\ pc'.driver \in DriverLabels
    OBVIOUS
  <2>2. session \in 1 .. session /\ session' = session
    OBVIOUS
  <2>3. opened' \subseteq 1 .. session /\ live' \subseteq 1 .. session /\ given' \subseteq 1 .. session
    BY <2>2
  <2> QED
    BY <2>1, <2>2, <2>3
<1>2. HandlesHeld'
  BY DEF HandlesHeld, BeforeSession, DriverUndoes, Overtaken, Leaked, Busy, Undoing, Stopped
<1>3. BeforeSession'
  BY DEF BeforeSession, DriverUndoes, Signals, InSession, Connected, Busy, Undoing, Stopped
<1>4. DriverUndoes'
  BY DEF BeforeSession, DriverUndoes, Signals, InSession, Busy, Undoing, Stopped
<1>5. Signals'
  BY DEF BeforeSession, DriverUndoes, Signals, InSession, Connected, Busy, Undoing, Stopped
<1>6. WhilePlugged'
  BY DEF WhilePlugged, IntactWhilePlugged, BeforeSession, Signals, InSession, Connected, Busy,
         Undoing, Stopped
<1>7. (preempts => overtaking = {})'
  OBVIOUS
<1> QED
  BY <1>1, <1>2, <1>3, <1>4, <1>5, <1>6, <1>7

LEMMA GiveKeeps ==
  ASSUME Inv, Give, ~Stopped
  PROVE  Inv'
<1> USE Moves DEF Inv, PortTyped, AppLabels, DriverLabels, Null, Tasks, handles, kernel, world,
                  history, Aborts, Give
<1>1. PortTyped'
  <2>1. /\ pc' \in [Tasks -> AppLabels \cup DriverLabels]
        /\ pc'.app \in AppLabels /\ pc'.driver \in DriverLabels
    OBVIOUS
  <2>2. session # 0 /\ session' = session
    BY DEF Signals, Connected, InSession, Stopped
  <2>3. given' \subseteq 1 .. session
    <3>1. sem # 0 => sem \in 1 .. session
      OBVIOUS
    <3>2. given' = given \/ (sem # 0 /\ given' = given \cup {sem})
      OBVIOUS
    <3>3. given \subseteq 1 .. session
      OBVIOUS
    <3> QED
      BY <3>1, <3>2, <3>3
  <2> QED
    BY <2>1, <2>2, <2>3
<1>2. HandlesHeld'
  BY DEF HandlesHeld, BeforeSession, DriverUndoes, Overtaken, Leaked, Busy, Undoing, Stopped
<1>3. BeforeSession'
  BY DEF BeforeSession, DriverUndoes, Signals, InSession, Connected, Busy, Undoing, Stopped
<1>4. DriverUndoes'
  BY DEF BeforeSession, DriverUndoes, Signals, InSession, Busy, Undoing, Stopped
<1>5. Signals'
  BY DEF BeforeSession, DriverUndoes, Signals, InSession, Connected, Busy, Undoing, Stopped
<1>6. WhilePlugged'
  BY DEF WhilePlugged, IntactWhilePlugged, BeforeSession, Signals, InSession, Connected, Busy,
         Undoing, Stopped
<1>7. (preempts => overtaking = {})'
  OBVIOUS
<1> QED
  BY <1>1, <1>2, <1>3, <1>4, <1>5, <1>6, <1>7

LEMMA UnplugKeeps ==
  ASSUME Inv, Unplug
  PROVE  Inv'
<1> USE Moves DEF Inv, PortTyped, AppLabels, DriverLabels, Null, Tasks, handles, kernel, world,
                  history, Aborts, Unplug
<1>1. PortTyped'
  OBVIOUS
<1>2. HandlesHeld'
  BY DEF HandlesHeld, BeforeSession, DriverUndoes, Overtaken, Leaked, Busy, Undoing, Stopped
<1>3. BeforeSession'
  BY DEF BeforeSession, DriverUndoes, Signals, InSession, Connected, Busy, Undoing, Stopped
<1>4. DriverUndoes'
  BY DEF BeforeSession, DriverUndoes, Signals, InSession, Busy, Undoing, Stopped
<1>5. Signals'
  BY DEF BeforeSession, DriverUndoes, Signals, InSession, Connected, Busy, Undoing, Stopped
<1>6. WhilePlugged'
  BY DEF WhilePlugged, IntactWhilePlugged, BeforeSession, Signals, InSession, Connected, Busy,
         Undoing, Stopped
<1>7. (preempts => overtaking = {})'
  OBVIOUS
<1> QED
  BY <1>1, <1>2, <1>3, <1>4, <1>5, <1>6, <1>7

LEMMA DeinitKeeps ==
  ASSUME Inv, NEW task \in Tasks, Deinit(task), task = "driver" => ~Stopped
  PROVE  Inv'
<1> USE Moves DEF Inv, PortTyped, HandlesHeld, BeforeSession, DriverUndoes, Signals, WhilePlugged,
                  IntactWhilePlugged, Overtaken, Leaked, Busy, InSession, Connected, Undoing, Stopped,
                  AppLabels, DriverLabels, Null, Tasks, handles, kernel, world, history, Aborts, Returns
<1>1. CASE task = "app"
  <2>1. CASE Clear("app")
    BY <2>1, SMTT(20) DEF Clear
  <2>2. CASE Delete("app")
    BY <2>2, SMTT(20) DEF Delete
  <2>3. CASE ForgetStream("app")
    <3> USE <2>3 DEF ForgetStream
    <3>1. PortTyped'
      OBVIOUS
    <3>2. HandlesHeld' /\ BeforeSession' /\ DriverUndoes'
      BY <3>1
    <3>3. Signals' /\ WhilePlugged' /\ (preempts => overtaking = {})'
      BY <3>1
    <3> QED
      BY <3>1, <3>2, <3>3
  <2>4. CASE Close("app")
    BY <2>4, SMTT(20) DEF Close
  <2>5. CASE ForgetDevice("app")
    BY <2>5, SMTT(20) DEF ForgetDevice
  <2> QED
    BY <1>1, <2>1, <2>2, <2>3, <2>4, <2>5 DEF Deinit
<1>2. CASE task = "driver"
  <2>1. CASE Clear("driver")
    BY <1>2, <2>1, SMTT(20) DEF Clear
  <2>2. CASE Delete("driver")
    BY <1>2, <2>2, SMTT(20) DEF Delete
  <2>3. CASE ForgetStream("driver")
    BY <1>2, <2>3, SMTT(20) DEF ForgetStream
  <2>4. CASE Close("driver")
    BY <1>2, <2>4, SMTT(20) DEF Close
  <2>5. CASE ForgetDevice("driver")
    BY <1>2, <2>5, SMTT(20) DEF ForgetDevice
  <2> QED
    BY <1>2, <2>1, <2>2, <2>3, <2>4, <2>5 DEF Deinit
<1> QED
  BY <1>1, <1>2

LEMMA AppKeeps ==
  ASSUME Inv, App
  PROVE  Inv'
<1> USE Moves DEF Inv, PortTyped, HandlesHeld, BeforeSession, DriverUndoes, Signals, WhilePlugged,
                  IntactWhilePlugged, Overtaken, Leaked, Busy, InSession, Connected, Undoing, Stopped,
                  AppLabels, DriverLabels, Null, Tasks, handles, kernel, world, history, Aborts
<1>1. CASE SetCallbacks
  <2>1. preempts => ~Busy
    BY DEF App, AppRuns
  <2> QED
    BY <1>1, <2>1, SMTT(20) DEF SetCallbacks
<1>2. CASE StoreHandle
  BY <1>2, SMTT(20) DEF StoreHandle
<1>3. CASE CreateSemaphore
  BY <1>3, SMTT(20) DEF CreateSemaphore
<1>4. CASE PortCall
  BY <1>4, SMTT(20) DEF PortCall
<1>5. CASE CallReturns
  BY <1>5, SMTT(20) DEF CallReturns
<1>6. CASE TakeSemaphore
  BY <1>6, SMTT(20) DEF TakeSemaphore
<1> QED
  BY <1>1, <1>2, <1>3, <1>4, <1>5, <1>6, CreateStreamKeeps, OpenKeeps, DeinitKeeps DEF App

LEMMA DriverKeeps ==
  ASSUME Inv, Driver
  PROVE  Inv'
<1>1. ~Stopped
  BY DEF Driver
<1> USE Moves DEF Inv, PortTyped, HandlesHeld, BeforeSession, DriverUndoes, Signals, WhilePlugged,
                  IntactWhilePlugged, Overtaken, Leaked, Busy, InSession, Connected, Undoing, Stopped,
                  AppLabels, DriverLabels, Null, Tasks, handles, kernel, world, history, Aborts
<1>2. CASE Notify
  BY <1>1, <1>2, SMTT(20) DEF Notify
<1>3. CASE HandleData
  BY <1>1, <1>3, SMTT(20) DEF HandleData
<1> QED
  BY <1>1, <1>2, <1>3, GiveKeeps, DeinitKeeps DEF Driver

LEMMA InvAlways == Spec => []Inv
<1>1. Inv /\ [Next]_vars => Inv'
  <2> SUFFICES ASSUME Inv, [Next]_vars PROVE Inv'
    OBVIOUS
  <2>1. CASE Plug
    <3> USE DEF Inv, PortTyped, HandlesHeld, BeforeSession, DriverUndoes, Signals, WhilePlugged,
              IntactWhilePlugged, Overtaken, Leaked, Busy, InSession, Connected, Undoing, Stopped,
              AppLabels, DriverLabels, Null, Tasks, handles, kernel, world, history, Aborts
    <3> QED
      BY <2>1, SMTT(20) DEF Plug
  <2>2. CASE UNCHANGED vars
    <3> USE DEF Inv, PortTyped, HandlesHeld, BeforeSession, DriverUndoes, Signals, WhilePlugged,
              IntactWhilePlugged, Overtaken, Leaked, Busy, InSession, Connected, Undoing, Stopped,
              AppLabels, DriverLabels, Null, Tasks, handles, kernel, world, history, Aborts
    <3> QED
      BY <2>2, SMTT(20) DEF vars
  <2> QED
    BY <2>1, <2>2, AppKeeps, DriverKeeps, UnplugKeeps DEF Next
<1> QED
  BY InitInv, <1>1, PTL DEF Spec

-----------------------------------------------------------------------------

\* However many sessions the application opens, after failed inits and
\* unplugged devices alike, loader_port_esp32_usb_cdc_acm_deinit leaves a
\* stream buffer or an open device behind only where the application begins a
\* session before the driver's task has ended its deinit; which takes two
\* cores.
THEOREM LeaksNeedOvertaking == Spec => []LeaksOnlyWhenOvertaken
<1>1. Inv => LeaksOnlyWhenOvertaken
  BY DEF Inv, HandlesHeld, Overtaken, LeaksOnlyWhenOvertaken
<1> QED
  BY InvAlways, <1>1, PTL

\* On one core and on two, in a session whose device was never unplugged, the
\* assertions at the head of loader_port_write, loader_port_read and the reset
\* functions hold, the data of the device finds its stream buffer and nothing
\* is given up twice, unless the session overtook the driver's deinit.
THEOREM HandlesStay == Spec => []IntactWhilePlugged
<1>1. Inv => IntactWhilePlugged
  BY DEF Inv, WhilePlugged
<1> QED
  BY InvAlways, <1>1, PTL

-----------------------------------------------------------------------------
(* The framing.  Each byte on the line has a mark: the frame it belongs to, *)
(* counted from 1, its place in it, 0 for the delimiter before and one more *)
(* than the length for the one behind, and which half it is of a byte that  *)
(* is escaped.  Noise is frame 0, a delimiter in it has place 0.            *)

Mark == [frame : Nat, place : Nat, half : {1, 2}]

Special(b) == b \in {C0, DB}

Opener(k) == [frame |-> k, place |-> 0, half |-> 1]

\* Of a mark m in frame f.
Inside(m, f)   == m.place \in 1 .. Len(f)
Closes(m, f)   == m.frame > 0 /\ m.place = Len(f) + 1
Complete(m, f) == Inside(m, f) /\ Special(f[m.place]) => m.half = 2
Fits(m, f)     ==
  /\ m.frame > 0 => m.place <= Len(f) + 1
  /\ m.half = 2 => m.frame > 0 /\ Inside(m, f) /\ Special(f[m.place])

\* The bytes that may have mark m.
Stands(b, m, f) ==
  IF m.frame > 0 /\ Inside(m, f)
  THEN b = IF Special(f[m.place]) THEN Replacement(f[m.place])[m.half] ELSE f[m.place]
  ELSE b = C0 <=> (m.frame > 0 \/ m.place = 0)

\* The next mark in the same frame.
Continues(m, n, f) ==
  /\ n.frame = m.frame
  /\ IF m.frame = 0 THEN m.place # 0
     ELSE \/ n.place = m.place /\ m.half = 1 /\ n.half = 2
          \/ n.place = m.place + 1 /\ n.half = 1 /\ Complete(m, f)

\* A frame may begin behind mark m.
Leaves(m, f, cut) == m.frame = 0 \/ m.frame \in cut \/ Closes(m, f)

Follows(m, n, f, cut) ==
  \/ Continues(m, n, f)
  \/ n = Opener(m.frame + 1) /\ Leaves(m, f, cut)

-----------------------------------------------------------------------------
(* The encoder *)

\* What SLIP_send has written, and how far, when i bytes have been looked at.
After(after, data, i) ==
  IF i = 0 THEN [out |-> <<>>, written |-> 0]
  ELSE LET st == after[i - 1]
       IN  IF data[i] \notin {C0, DB} THEN st
           ELSE [out |-> st.out \o Queue(st, data, i) \o Replacement(data[i]), written |-> i]

LEMMA Least ==
  ASSUME NEW T \in SUBSET Nat, T # {}
  PROVE  \E n \in T : \A k \in T : n <= k
<1>1. IsWellFoundedOn(OpToRel(<, Nat), Nat)
  BY NatLessThanWellFounded
<1>2. PICK n \in T : \A k \in T : <<k, n>> \notin OpToRel(<, Nat)
  BY <1>1, WFMin
<1>3. \A k \in T : ~(k < n)
  BY <1>2 DEF OpToRel
<1> QED
  BY <1>3

\* The loop of SLIP_send is well defined.
LEMMA LoopOfSend ==
  ASSUME NEW f, NEW N \in Nat
  PROVE  \E after : after = [i \in 0 .. N |-> After(after, f, i)]
<1> DEFINE Good(n) == \E after : after = [i \in 0 .. n |-> After(after, f, i)]
           T == {n \in Nat : ~Good(n)}
<1>1. Good(0)
  <2>1. [i \in 0 .. 0 |-> [out |-> <<>>, written |-> 0]]
          = [i \in 0 .. 0 |-> After([j \in 0 .. 0 |-> [out |-> <<>>, written |-> 0]], f, i)]
    BY DEF After
  <2> QED
    BY <2>1
<1>2. ASSUME NEW n \in Nat, Good(n) PROVE Good(n + 1)
  <2>1. PICK g : g = [i \in 0 .. n |-> After(g, f, i)]
    BY <1>2
  <2> DEFINE h == [i \in 0 .. n + 1 |-> IF i <= n THEN g[i] ELSE After(g, f, n + 1)]
  <2>2. \A i \in 0 .. n : h[i] = g[i]
    OBVIOUS
  <2>3. h[n + 1] = After(g, f, n + 1)
    OBVIOUS
  <2> HIDE DEF h
  <2>4. \A i \in 0 .. n + 1 : After(h, f, i) = After(g, f, i)
    <3> TAKE i \in 0 .. n + 1
    <3>1. i # 0 => h[i - 1] = g[i - 1]
      BY <2>2
    <3> QED
      BY <3>1 DEF After
  <2>5. \A i \in 0 .. n + 1 : h[i] = After(h, f, i)
    <3> TAKE i \in 0 .. n + 1
    <3>1. CASE i = n + 1
      BY <3>1, <2>3, <2>4
    <3>2. CASE i \in 0 .. n
      <4>1. g[i] = After(g, f, i)
        BY <3>2, <2>1
      <4> QED
        BY <3>2, <2>2, <2>4, <4>1
    <3> QED
      BY <3>1, <3>2
  <2>6. h = [i \in 0 .. n + 1 |-> After(h, f, i)]
    BY <2>5 DEF h
  <2> QED
    BY <2>6
<1> HIDE DEF Good
<1>3. ASSUME T # {} PROVE FALSE
  <2>1. PICK n \in T : \A k \in T : n <= k
    BY <1>3, Least
  <2>2. n # 0
    BY <1>1
  <2>3. n - 1 \in Nat /\ n - 1 \notin T
    BY <2>1, <2>2
  <2>4. Good((n - 1) + 1)
    BY <1>2, <2>3
  <2> QED
    BY <2>1, <2>4
<1>4. Good(N)
  BY <1>3
<1> QED
  BY <1>4 DEF Good

LEMMA SendIs ==
  ASSUME NEW f \in Seq(Octet)
  PROVE  \E after : /\ \A i \in 0 .. Len(f) : after[i] = After(after, f, i)
                    /\ SLIP_send(f) = after[Len(f)].out \o Queue(after[Len(f)], f, Len(f) + 1)
<1> DEFINE c == CHOOSE after : after = [i \in 0 .. Len(f) |-> After(after, f, i)]
<1>1. Len(f) \in Nat
  OBVIOUS
<1>2. \E after : after = [i \in 0 .. Len(f) |-> After(after, f, i)]
  BY <1>1, LoopOfSend
<1>3. c = [i \in 0 .. Len(f) |-> After(c, f, i)]
  BY <1>2, Zenon
<1>4. SLIP_send(f) = c[Len(f)].out \o Queue(c[Len(f)], f, Len(f) + 1)
  BY DEF SLIP_send, c, After
<1> HIDE DEF c
<1>5. \A i \in 0 .. Len(f) : c[i] = After(c, f, i)
  BY <1>3
<1> QED
  BY <1>4, <1>5

LEMMA Joined == \A s, t \in Seq(Octet) : s \o t \in Seq(Octet)
  BY ConcatProperties

LEMMA Regrouped == \A s, t, u \in Seq(Octet) : (s \o t) \o u = s \o (t \o u)
  BY ConcatAssociative

LEMMA Octets ==
  /\ \A s \in Seq(Octet) : s \o <<>> = s /\ <<>> \o s = s
  /\ <<>> \in Seq(Octet)
  /\ \A b \in Octet : <<b>> \in Seq(Octet)
  /\ \A b, c \in Octet : <<b, c>> = <<b>> \o <<c>>
<1>1. \A s \in Seq(Octet) : s \o <<>> = s /\ <<>> \o s = s
  BY ConcatEmptySeq
<1>2. <<>> \in Seq(Octet) /\ \A b \in Octet : <<b>> \in Seq(Octet)
  BY EmptySeq
<1>3. ASSUME NEW b \in Octet, NEW c \in Octet PROVE <<b, c>> = <<b>> \o <<c>>
  <2> DEFINE x == <<b>>
             y == <<c>>
             z == <<b, c>>
  <2>1. /\ x \in Seq(Octet) /\ y \in Seq(Octet) /\ z \in Seq(Octet)
        /\ Len(x) = 1 /\ Len(y) = 1 /\ Len(z) = 2
        /\ x[1] = b /\ y[1] = c /\ z[1] = b /\ z[2] = c
    OBVIOUS
  <2> HIDE DEF x, y, z
  <2>2. /\ x \o y \in Seq(Octet) /\ Len(x \o y) = Len(x) + Len(y)
        /\ \A j \in 1 .. Len(x) + Len(y) : (x \o y)[j] = IF j <= Len(x) THEN x[j] ELSE y[j - Len(x)]
    BY <2>1, ConcatProperties
  <2>3. \A j \in 1 .. Len(z) : (x \o y)[j] = z[j]
    BY <2>1, <2>2
  <2>4. Len(x \o y) = Len(z)
    BY <2>1, <2>2
  <2>5. z = x \o y
    BY <2>1, <2>2, <2>3, <2>4, SeqEqual
  <2> QED
    BY <2>5 DEF x, y, z
<1> QED
  BY <1>1, <1>2, <1>3

LEMMA Replaced ==
  ASSUME NEW o \in Seq(Octet), NEW q \in Seq(Octet), NEW r \in Octet
  PROVE  <<C0>> \o ((o \o q \o <<DB, r>>) \o <<>>) = ((<<C0>> \o (o \o q)) \o <<DB>>) \o <<r>>
<1> DEFINE v == <<C0>>
           u == o \o q
           x == <<DB>>
           y == <<r>>
<1>1. v \in Seq(Octet) /\ x \in Seq(Octet) /\ y \in Seq(Octet) /\ <<DB, r>> = x \o y
  <2>1. C0 \in Octet /\ DB \in Octet
    BY DEF C0, DB, Octet
  <2> QED
    BY <2>1, Octets
<1>2. u \in Seq(Octet)
  BY Joined
<1> HIDE DEF v, u, x, y
<1>3. u \o (x \o y) \in Seq(Octet)
  BY <1>1, <1>2, Joined
<1>4. (u \o (x \o y)) \o <<>> = u \o (x \o y)
  BY <1>3, Octets
<1>5. v \o (u \o (x \o y)) = ((v \o u) \o x) \o y
  <2>1. v \o u \in Seq(Octet)
    BY <1>1, <1>2, Joined
  <2>2. x \o y \in Seq(Octet)
    BY <1>1, Joined
  <2>3. (v \o u) \o (x \o y) = v \o (u \o (x \o y))
    <3>1. v \in Seq(Octet)
      BY <1>1
    <3> QED
      BY <1>2, <2>2, <3>1, Regrouped
  <2>4. ((v \o u) \o x) \o y = (v \o u) \o (x \o y)
    <3>1. x \in Seq(Octet) /\ y \in Seq(Octet)
      BY <1>1
    <3> QED
      BY <2>1, <3>1, Regrouped
  <2> QED
    BY <2>3, <2>4
<1>6. v \o ((u \o (x \o y)) \o <<>>) = ((v \o u) \o x) \o y
  BY <1>4, <1>5
<1> QED
  BY <1>1, <1>6 DEF v, u, x, y

\* Bytes e, with marks ms, are the beginning of frame f, the k-th, on the line.
Coded(e, ms, f, k) ==
  /\ e \in Seq(Octet) /\ ms \in Seq(Mark) /\ Len(ms) = Len(e) /\ e # <<>>
  /\ ms[1] = Opener(k)
  /\ \A i \in 1 .. Len(e) : ms[i].frame = k /\ Fits(ms[i], f) /\ Stands(e[i], ms[i], f)
  /\ \A i \in 2 .. Len(e) : Continues(ms[i - 1], ms[i], f)

\* The last of them has mark m.
CodedTo(e, m, f, k) == \E ms : Coded(e, ms, f, k) /\ ms[Len(e)] = m

LEMMA OneMore ==
  ASSUME NEW f, NEW k, NEW e, NEW m, NEW b \in Octet, NEW n \in Mark,
         CodedTo(e, m, f, k), n.frame = k, Fits(n, f), Stands(b, n, f), Continues(m, n, f)
  PROVE  CodedTo(e \o <<b>>, n, f, k)
<1>1. PICK ms : Coded(e, ms, f, k) /\ ms[Len(e)] = m
  BY DEF CodedTo
<1> DEFINE d == e \o <<b>>
           ns == ms \o <<n>>
<1>2. /\ e \in Seq(Octet) /\ ms \in Seq(Mark) /\ Len(ms) = Len(e) /\ Len(e) \in Nat \ {0}
      /\ <<b>> \in Seq(Octet) /\ <<n>> \in Seq(Mark) /\ Len(<<b>>) = 1 /\ Len(<<n>>) = 1
  BY <1>1 DEF Coded
<1>3. /\ d \in Seq(Octet) /\ Len(d) = Len(e) + 1 /\ d[Len(e) + 1] = b
      /\ \A i \in 1 .. Len(e) : d[i] = e[i]
  BY <1>2, ConcatProperties
<1>4. /\ ns \in Seq(Mark) /\ Len(ns) = Len(e) + 1 /\ ns[Len(e) + 1] = n
      /\ \A i \in 1 .. Len(e) : ns[i] = ms[i]
  BY <1>2, ConcatProperties
<1> HIDE DEF d, ns
<1>5. ns[1] = Opener(k) /\ d # <<>>
  BY <1>1, <1>2, <1>3, <1>4 DEF Coded
<1>6. \A i \in 1 .. Len(d) : ns[i].frame = k /\ Fits(ns[i], f) /\ Stands(d[i], ns[i], f)
  <2> TAKE i \in 1 .. Len(d)
  <2>1. i \in 1 .. Len(e) \/ i = Len(e) + 1
    BY <1>2, <1>3
  <2> QED
    BY <1>1, <1>2, <1>3, <1>4, <2>1 DEF Coded
<1>7. \A i \in 2 .. Len(d) : Continues(ns[i - 1], ns[i], f)
  <2> TAKE i \in 2 .. Len(d)
  <2>1. CASE i = Len(e) + 1
    BY <1>1, <1>2, <1>4, <2>1 DEF Coded
  <2>2. CASE i # Len(e) + 1
    <3>1. i \in 2 .. Len(e) /\ i - 1 \in 1 .. Len(e) /\ i \in 1 .. Len(e)
      BY <1>2, <1>3, <2>2
    <3> QED
      BY <1>1, <1>4, <3>1 DEF Coded
  <2> QED
    BY <2>1, <2>2
<1>8. Coded(d, ns, f, k)
  BY <1>3, <1>4, <1>5, <1>6, <1>7 DEF Coded
<1> QED
  BY <1>3, <1>4, <1>8 DEF CodedTo, d

LastMark(f, k, i) ==
  [frame |-> k, place |-> i, half |-> IF i > 0 /\ Special(f[i]) THEN 2 ELSE 1]

\* Every byte SLIP_send makes of a frame has its mark.
LEMMA FrameCoded ==
  ASSUME NEW f \in Seq(Octet), f # <<>>, ~Special(f[1]), NEW k \in Nat \ {0}
  PROVE  \E ms : Coded(OnLine(f), ms, f, k) /\ ms[Len(OnLine(f))] = [frame |-> k, place |-> Len(f) + 1, half |-> 1]
<1> DEFINE N == Len(f)
<1>1. N \in Nat \ {0}
  OBVIOUS
<1>2. PICK g : /\ \A i \in 0 .. N : g[i] = After(g, f, i)
               /\ SLIP_send(f) = g[N].out \o Queue(g[N], f, N + 1)
  BY SendIs
<1> DEFINE text(i) == <<C0>> \o (g[i].out \o SubSeq(f, g[i].written + 1, i))
           Good(i) == /\ g[i].out \in Seq(Octet) /\ g[i].written \in 0 .. i
                      /\ CodedTo(text(i), LastMark(f, k, i), f, k)
<1>3. <<C0>> \in Seq(Octet) /\ <<DB>> \in Seq(Octet) /\ {C0, DB, DC, DD} \subseteq Octet
  BY DEF C0, DB, DC, DD, Octet
<1>4. Good(0)
  <2>1. g[0] = [out |-> <<>>, written |-> 0]
    <3>1. g[0] = After(g, f, 0)
      BY <1>1, <1>2
    <3> QED
      BY <3>1 DEF After
  <2>2. SubSeq(f, 0 + 1, 0) = <<>>
    BY SubSeqEmpty
  <2>3. text(0) = <<C0>>
    <3>1. <<>> \o <<>> = <<>> /\ <<C0>> \o <<>> = <<C0>>
      BY <1>3, Octets
    <3>2. text(0) = <<C0>> \o (<<>> \o <<>>)
      <4>1. g[0].out = <<>> /\ g[0].written = 0
        BY <2>1
      <4>2. SubSeq(f, g[0].written + 1, 0) = <<>>
        BY <2>2, <4>1
      <4> QED
        BY <4>1, <4>2
    <3> QED
      BY <3>1, <3>2
  <2>4. Coded(<<C0>>, <<Opener(k)>>, f, k)
    BY <1>1, <1>3 DEF Coded, Opener, Mark, Fits, Stands, Inside, Special
  <2>5. LastMark(f, k, 0) = Opener(k)
    BY DEF LastMark, Opener
  <2>6. CodedTo(<<C0>>, Opener(k), f, k)
    <3>1. <<Opener(k)>>[Len(<<C0>>)] = Opener(k)
      OBVIOUS
    <3> QED
      BY <2>4, <3>1 DEF CodedTo
  <2>7. g[0].out \in Seq(Octet) /\ g[0].written \in 0 .. 0
    BY <2>1
  <2> HIDE DEF text
  <2> QED
    BY <2>3, <2>5, <2>6, <2>7
<1>5. ASSUME NEW i \in 1 .. N, Good(i - 1) PROVE Good(i)
  <2> DEFINE o == g[i - 1].out
             w == g[i - 1].written
             q == SubSeq(f, w + 1, i - 1)
             old == LastMark(f, k, i - 1)
  <2>1. g[i] = IF ~Special(f[i]) THEN g[i - 1]
               ELSE [out |-> o \o q \o Replacement(f[i]), written |-> i]
    <3>1. g[i] = After(g, f, i) /\ i # 0
      BY <1>1, <1>2
    <3> QED
      BY <3>1 DEF After, Queue, Special
  <2>2. o \in Seq(Octet) /\ w \in 0 .. i - 1 /\ CodedTo(<<C0>> \o (o \o q), old, f, k)
    BY <1>5
  <2>3. f[i] \in Octet /\ i \in 1 .. Len(f) /\ w + 1 \in 1 .. i
    BY <1>1, <2>2
  <2>4. q \in Seq(Octet)
    BY <1>1, <2>2, SubSeqProperties
  <2> HIDE DEF o, w, q
  <2>5. old \in Mark /\ Complete(old, f)
    BY <1>1 DEF LastMark, Mark, Complete, Inside
  <2>6. CASE ~Special(f[i])
    <3>1. g[i].out = o /\ g[i].written = w
      BY <2>1, <2>6 DEF o, w
    <3>2. SubSeq(f, w + 1, i) = q \o <<f[i]>>
      <4>1. w + 1 \in 1 .. Len(f) /\ i \in w + 1 .. Len(f)
        BY <2>2, <2>3
      <4>2. SubSeq(f, w + 1, i) = SubSeq(f, w + 1, i - 1) \o <<f[i]>>
        BY <4>1, SubSeqRecursiveSecond
      <4> QED
        BY <4>2 DEF q
    <3>3. text(i) = (<<C0>> \o (o \o q)) \o <<f[i]>>
      <4>1. o \o (q \o <<f[i]>>) = (o \o q) \o <<f[i]>> /\ o \o q \in Seq(Octet) /\ <<f[i]>> \in Seq(Octet)
        BY <2>2, <2>3, <2>4, ConcatAssociative, ConcatProperties
      <4>2. <<C0>> \o ((o \o q) \o <<f[i]>>) = (<<C0>> \o (o \o q)) \o <<f[i]>>
        BY <1>3, <4>1, Regrouped, ZenonT(30)
      <4> QED
        BY <3>1, <3>2, <4>1, <4>2
    <3>4. /\ LastMark(f, k, i) \in Mark /\ LastMark(f, k, i).frame = k
          /\ Fits(LastMark(f, k, i), f) /\ Stands(f[i], LastMark(f, k, i), f)
      BY <2>3, <2>6 DEF LastMark, Mark, Fits, Stands, Inside
    <3>5. Continues(old, LastMark(f, k, i), f)
      BY <2>3, <2>5, <2>6 DEF LastMark, Continues
    <3>6. CodedTo((<<C0>> \o (o \o q)) \o <<f[i]>>, LastMark(f, k, i), f, k)
      BY <2>2, <2>3, <3>4, <3>5, OneMore
    <3>7. g[i].out \in Seq(Octet) /\ g[i].written \in 0 .. i
      BY <2>2, <2>3, <3>1
    <3> HIDE DEF text
    <3> QED
      BY <3>3, <3>6, <3>7
  <2>7. CASE Special(f[i])
    <3> DEFINE r == Replacement(f[i])[2]
               half == [frame |-> k, place |-> i, half |-> 1]
               e == <<C0>> \o (o \o q)
    <3>1. Replacement(f[i]) = <<DB, r>> /\ r \in Octet /\ Replacement(f[i])[1] = DB
      BY <1>3, <2>7 DEF Replacement, Special
    <3> HIDE DEF r
    <3>2. /\ g[i].written = i /\ SubSeq(f, i + 1, i) = <<>>
          /\ g[i].out = o \o q \o <<DB, r>>
      <4>1. SubSeq(f, i + 1, i) = <<>>
        BY <2>3, SubSeqEmpty
      <4> QED
        BY <2>1, <2>7, <3>1, <4>1
    <3>3. text(i) = (e \o <<DB>>) \o <<r>>
      <4>1. text(i) = <<C0>> \o ((o \o q \o <<DB, r>>) \o <<>>)
        BY <3>2
      <4>2. o \in Seq(Octet) /\ q \in Seq(Octet) /\ r \in Octet
        BY <2>2, <2>4, <3>1
      <4> QED
        BY <4>1, <4>2, Replaced
    <3>4. /\ half \in Mark /\ half.frame = k /\ Fits(half, f) /\ Stands(DB, half, f)
      BY <2>3, <2>7, <3>1 DEF Mark, Fits, Stands, Inside
    <3>5. Continues(old, half, f)
      BY <2>3, <2>5 DEF LastMark, Continues
    <3> DEFINE d == e \o <<DB>>
    <3>6. CodedTo(d, half, f, k)
      BY <1>3, <2>2, <3>4, <3>5, OneMore
    <3>7. /\ LastMark(f, k, i) \in Mark /\ LastMark(f, k, i).frame = k
          /\ Fits(LastMark(f, k, i), f) /\ Stands(r, LastMark(f, k, i), f)
          /\ Continues(half, LastMark(f, k, i), f)
      BY <2>3, <2>7 DEF LastMark, Mark, Fits, Stands, Inside, Continues, r
    <3> HIDE DEF d, half
    <3>8. CodedTo(d \o <<r>>, LastMark(f, k, i), f, k)
      BY <3>1, <3>6, <3>7, OneMore
    <3>9. g[i].out \in Seq(Octet)
      <4>1. o \o q \in Seq(Octet) /\ <<DB, r>> \in Seq(Octet)
        BY <1>3, <2>2, <2>4, <3>1, ConcatProperties
      <4> QED
        BY <3>2, <4>1, ConcatProperties
    <3>10. g[i].written \in 0 .. i
      BY <2>3, <3>2
    <3> HIDE DEF text
    <3> QED
      BY <3>3, <3>8, <3>9, <3>10 DEF d
  <2> QED
    BY <2>6, <2>7
<1> HIDE DEF Good
<1>6. Good(N)
  <2> DEFINE T == {n \in 0 .. N : ~Good(n)}
  <2>1. ASSUME T # {} PROVE FALSE
    <3>1. T \in SUBSET Nat
      OBVIOUS
    <3>2. PICK n \in T : \A j \in T : n <= j
      BY <2>1, <3>1, Least
    <3>3. n \in 1 .. N /\ n - 1 \in 0 .. N /\ n - 1 \notin T
      BY <1>4, <3>2
    <3>4. Good(n - 1)
      BY <3>3
    <3> QED
      BY <1>5, <3>2, <3>3, <3>4
  <2> QED
    BY <1>1, <2>1
<1> DEFINE last == LastMark(f, k, N)
           end  == [frame |-> k, place |-> N + 1, half |-> 1]
<1>7. g[N].out \in Seq(Octet) /\ g[N].written \in 0 .. N /\ CodedTo(text(N), last, f, k)
  BY <1>6 DEF Good
<1>8. OnLine(f) = text(N) \o <<C0>>
  <2>1. Queue(g[N], f, N + 1) = SubSeq(f, g[N].written + 1, N)
    <3>1. (N + 1) - 1 = N
      BY <1>1
    <3> QED
      BY <3>1 DEF Queue
  <2>2. SubSeq(f, g[N].written + 1, N) \in Seq(Octet)
    BY <1>1, <1>7, SubSeqProperties
  <2> DEFINE u == SubSeq(f, g[N].written + 1, N)
  <2> HIDE DEF u
  <2>3. g[N].out \o u \in Seq(Octet)
    BY <1>7, <2>2, ConcatProperties DEF u
  <2> DEFINE c == <<C0>>
             v == g[N].out \o u
  <2>4. (c \o v) \o c = c \o (v \o c)
    <3> HIDE DEF v
    <3>1. c \in Seq(Octet) /\ v \in Seq(Octet)
      BY <1>3, <2>3 DEF v
    <3> HIDE DEF c
    <3> QED
      BY <3>1, Regrouped
  <2> QED
    BY <1>2, <2>1, <2>4 DEF OnLine, u
<1>9. /\ end \in Mark /\ end.frame = k /\ Fits(end, f) /\ Stands(C0, end, f)
      /\ Continues(last, end, f)
  BY <1>1 DEF LastMark, Mark, Fits, Stands, Inside, Continues, Complete
<1> HIDE DEF text, last, end
<1>10. CodedTo(text(N) \o <<C0>>, end, f, k)
  BY <1>3, <1>7, <1>9, OneMore
<1> QED
  BY <1>8, <1>10 DEF CodedTo, end

-----------------------------------------------------------------------------
(* The receiver *)

SlipType ==
  /\ line \in Seq(Octet) /\ buff \in Seq(Octet)
  /\ state \in {"idle", "hunt", "open", "body", "escape", "drain"}
  /\ sent \in Seq(Frames) /\ delivered \in Seq(Seq(Octet))
  /\ aborts \in Nat /\ cuts \in Nat

\* The marks of the byte read last and of the bytes on the line.
Marked(trace, cut) ==
  /\ trace \in Seq(Mark) /\ Len(trace) = Len(line) + 1
  /\ \A i \in 1 .. Len(trace) : trace[i].frame <= Len(sent) /\ Fits(trace[i], sent[trace[i].frame])
  /\ \A i \in 1 .. Len(line) :
       /\ Stands(line[i], trace[i + 1], sent[trace[i + 1].frame])
       /\ Follows(trace[i], trace[i + 1], sent[trace[i].frame], cut)
  /\ trace[Len(trace)].frame = Len(sent)
  /\ Leaves(trace[Len(trace)], sent[trace[Len(trace)].frame], cut)

InBody == state \in {"body", "escape", "drain"}

\* Where SLIP_receive_packet is when it has read the byte of mark m in frame f.
Reading(m, f) ==
  /\ state \in {"hunt", "open"} => buff = <<>>
  /\ state = "open" => m.place = 0 \/ Closes(m, f)
  /\ InBody => (m.frame > 0 /\ Inside(m, f))
  /\ state = "body" => m.place < MaxSize /\ Complete(m, f) /\ buff = SubSeq(f, 1, m.place)
  /\ state = "escape" =>
       m.place <= MaxSize /\ m.half = 1 /\ Special(f[m.place]) /\ buff = SubSeq(f, 1, m.place - 1)
  /\ state = "drain" => m.place >= MaxSize /\ buff = SubSeq(f, 1, MaxSize)

\* The frames that have been returned lie behind the byte of mark m.
Returned(m, at) ==
  /\ at \in [1 .. Len(delivered) -> 1 .. Len(sent)]
  /\ \A i, j \in 1 .. Len(delivered) : i < j => at[i] < at[j]
  /\ \A i \in 1 .. Len(delivered) :
       /\ at[i] <= m.frame
       /\ InBody \/ m.place = 0 => at[i] < m.frame
       /\ IsPrefix(delivered[i], sent[at[i]])
       /\ cuts = 0 => delivered[i] = Received(sent[at[i]])

\* The frames that have been returned or will not be.
Settled(m) ==
  IF m.frame > 0 /\ (InBody \/ (state = "open" /\ m.place = 0)) THEN m.frame - 1 ELSE m.frame

\* The frames cut off before frame k.
CutBefore(cut, k) == Cardinality({c \in cut : c < k})

\* A cut is paid for when the next frame begins.
Lost(m, cut) ==
  /\ cut \subseteq 1 .. Len(sent) /\ Cardinality(cut) = cuts
  /\ Settled(m) <= Len(delivered) + aborts + 2 * CutBefore(cut, m.frame)

\* All of it, when the byte of mark m has been read.
Heard(m, cut, at) == Reading(m, sent[m.frame]) /\ Returned(m, at) /\ Lost(m, cut)

Tracked(trace, cut, at) == Marked(trace, cut) /\ Heard(trace[1], cut, at)

SlipInv == SlipType /\ \E trace, cut, at : Tracked(trace, cut, at)

LEMMA FrameOf ==
  ASSUME SlipType, NEW k \in 1 .. Len(sent)
  PROVE  sent[k] \in Frames /\ sent[k] \in Seq(Octet) /\ Len(sent[k]) \in Nat \ {0} /\ ~Special(sent[k][1])
<1>1. sent[k] \in Frames
  BY DEF SlipType
<1> QED
  BY <1>1, FramesAssumption DEF Special

LEMMA CutsCounted ==
  ASSUME NEW n \in Nat, NEW cut \in SUBSET (1 .. n), NEW k \in Nat
  PROVE  /\ Cardinality(cut) \in Nat /\ (cut # {} => Cardinality(cut) > 0)
         /\ CutBefore(cut, k) \in Nat /\ CutBefore(cut, k) <= CutBefore(cut, k + 1)
         /\ k \in cut => CutBefore(cut, k + 1) = CutBefore(cut, k) + 1
         /\ CutBefore(cut, k) <= Cardinality(cut)
         /\ k \in cut => CutBefore(cut, k) + 1 <= Cardinality(cut)
<1> DEFINE A == {c \in cut : c < k}
           B == {c \in cut : c < k + 1}
<1>1. IsFiniteSet(cut)
  <2>1. IsFiniteSet(1 .. n)
    BY FS_Interval
  <2> QED
    BY <2>1, FS_Subset
<1>2. /\ A \in SUBSET cut /\ B \in SUBSET cut /\ A \in SUBSET B
      /\ k \in cut => B = A \cup {k}
      /\ k \notin A
  <2>1. \A c \in cut : (c < k + 1 <=> c < k \/ c = k) /\ (c < k => c < k + 1)
    OBVIOUS
  <2>2. k \in cut => B = A \cup {k}
    BY <2>1, Zenon
  <2>3. A \in SUBSET B
    BY <2>1, Zenon
  <2>4. k \notin A
    OBVIOUS
  <2> QED
    BY <2>2, <2>3, <2>4, Zenon
<1>3. /\ IsFiniteSet(A) /\ IsFiniteSet(B)
      /\ Cardinality(A) <= Cardinality(cut) /\ Cardinality(B) <= Cardinality(cut)
  BY <1>1, <1>2, FS_Subset
<1>4. Cardinality(A) <= Cardinality(B)
  BY <1>2, <1>3, FS_Subset
<1>5. Cardinality(A \cup {k}) = Cardinality(A) + 1
  BY <1>2, <1>3, FS_AddElement
<1>6. Cardinality(A) \in Nat /\ Cardinality(B) \in Nat /\ Cardinality(cut) \in Nat
  BY <1>1, <1>3, FS_CardinalityType
<1>7. Cardinality(cut) = 0 <=> cut = {}
  BY <1>1, FS_EmptySet
<1>8. CutBefore(cut, k) = Cardinality(A) /\ CutBefore(cut, k + 1) = Cardinality(B)
  BY DEF CutBefore
<1> HIDE DEF A, B
<1>9. k \in cut => Cardinality(B) = Cardinality(A) + 1
  BY <1>2, <1>5
<1>10. cut # {} => Cardinality(cut) > 0
  <2>1. cut # {} => Cardinality(cut) # 0
    BY <1>7, Zenon
  <2> QED
    BY <1>6, <2>1
<1>11. k \in cut => Cardinality(A) + 1 <= Cardinality(cut)
  BY <1>3, <1>9
<1> QED
  BY <1>3, <1>4, <1>6, <1>8, <1>9, <1>10, <1>11

\* The marks before and after a byte is read.
LEMMA NextMark ==
  ASSUME SlipType, NEW trace, NEW cut, Marked(trace, cut), NEW ch, PeripheralRead(ch)
  PROVE  /\ ch = line[1] /\ ch \in Octet
         /\ trace[1] \in Mark /\ trace[2] \in Mark /\ Tail(trace)[1] = trace[2]
         /\ trace[1].frame \in 0 .. Len(sent) /\ trace[2].frame \in 0 .. Len(sent)
         /\ Fits(trace[1], sent[trace[1].frame]) /\ Fits(trace[2], sent[trace[2].frame])
         /\ Stands(ch, trace[2], sent[trace[2].frame])
         /\ Follows(trace[1], trace[2], sent[trace[1].frame], cut)
<1>1. line # <<>> /\ ch = Head(line) /\ line \in Seq(Octet) /\ Len(line) \in Nat \ {0} /\ sent \in Seq(Frames)
  BY DEF PeripheralRead, SlipType
<1>2. trace \in Seq(Mark) /\ Len(trace) = Len(line) + 1
  BY DEF Marked
<1>3. 1 \in 1 .. Len(trace) /\ 2 \in 1 .. Len(trace) /\ 1 \in 1 .. Len(line) /\ 1 \in 1 .. Len(Tail(trace))
  BY <1>1, <1>2
<1>4. trace[1] \in Mark /\ trace[2] \in Mark /\ ch = line[1] /\ ch \in Octet /\ Tail(trace)[1] = trace[2]
  BY <1>1, <1>2, <1>3
<1>5. /\ trace[1].frame <= Len(sent) /\ Fits(trace[1], sent[trace[1].frame])
      /\ trace[2].frame <= Len(sent) /\ Fits(trace[2], sent[trace[2].frame])
  BY <1>3 DEF Marked
<1>6. /\ Stands(line[1], trace[1 + 1], sent[trace[1 + 1].frame])
      /\ Follows(trace[1], trace[1 + 1], sent[trace[1].frame], cut)
  BY <1>3 DEF Marked
<1>8. /\ Stands(ch, trace[2], sent[trace[2].frame])
      /\ Follows(trace[1], trace[2], sent[trace[1].frame], cut)
  <2>1. 1 + 1 = 2
    OBVIOUS
  <2> QED
    BY <1>4, <1>6, <2>1
<1>7. trace[1].frame \in 0 .. Len(sent) /\ trace[2].frame \in 0 .. Len(sent)
  BY <1>1, <1>4, <1>5 DEF Mark
<1> QED
  BY <1>4, <1>5, <1>7, <1>8

LEMMA TailMarked ==
  ASSUME SlipType, NEW trace, NEW cut, Marked(trace, cut), NEW ch, PeripheralRead(ch)
  PROVE  Marked(Tail(trace), cut)'
<1> DEFINE t == Tail(trace)
           l == Tail(line)
<1>1. line # <<>> /\ line \in Seq(Octet) /\ Len(line) \in Nat \ {0} /\ line' = l /\ sent' = sent
  BY DEF PeripheralRead, SlipType
<1>2. trace \in Seq(Mark) /\ Len(trace) = Len(line) + 1
  BY DEF Marked
<1>3. /\ t \in Seq(Mark) /\ Len(t) = Len(line)
      /\ \A i \in 1 .. Len(t) : t[i] = trace[i + 1]
  BY <1>1, <1>2, HeadTailProperties
<1>4. /\ l \in Seq(Octet) /\ Len(l) = Len(line) - 1
      /\ \A i \in 1 .. Len(l) : l[i] = line[i + 1]
  BY <1>1, HeadTailProperties
<1> HIDE DEF t, l
<1>5. \A i \in 1 .. Len(t) : t[i].frame <= Len(sent) /\ Fits(t[i], sent[t[i].frame])
  <2> TAKE i \in 1 .. Len(t)
  <2>1. t[i] = trace[i + 1] /\ i + 1 \in 1 .. Len(trace)
    BY <1>1, <1>2, <1>3
  <2>2. trace[i + 1].frame <= Len(sent) /\ Fits(trace[i + 1], sent[trace[i + 1].frame])
    BY <2>1 DEF Marked
  <2> QED
    BY <2>1, <2>2
<1>6. \A i \in 1 .. Len(l) : Stands(l[i], t[i + 1], sent[t[i + 1].frame]) /\ Follows(t[i], t[i + 1], sent[t[i].frame], cut)
  <2> TAKE i \in 1 .. Len(l)
  <2>1. i \in 1 .. Len(t) /\ i + 1 \in 1 .. Len(t) /\ i + 1 \in 1 .. Len(line)
    BY <1>1, <1>3, <1>4
  <2>2. t[i] = trace[i + 1] /\ t[i + 1] = trace[(i + 1) + 1] /\ l[i] = line[i + 1]
    BY <1>3, <1>4, <2>1
  <2>3. /\ Stands(line[i + 1], trace[(i + 1) + 1], sent[trace[(i + 1) + 1].frame])
        /\ Follows(trace[i + 1], trace[(i + 1) + 1], sent[trace[i + 1].frame], cut)
    BY <2>1 DEF Marked
  <2> QED
    BY <2>2, <2>3
<1>7. t[Len(t)] = trace[Len(trace)]
  BY <1>1, <1>2, <1>3
<1>8. t[Len(t)].frame = Len(sent) /\ Leaves(t[Len(t)], sent[t[Len(t)].frame], cut)
  BY <1>7 DEF Marked
<1>9. Len(t) = Len(l) + 1
  BY <1>1, <1>3, <1>4
<1> QED
  BY <1>1, <1>3, <1>5, <1>6, <1>8, <1>9 DEF Marked, t

\* A delimiter ends a frame, begins one, or ends the noise.
LEMMA AtDelimiter ==
  ASSUME SlipType, NEW trace, NEW cut, Marked(trace, cut), PeripheralRead(C0)
  PROVE  LET m == trace[1]
             n == trace[2]
             f == sent[trace[1].frame]
         IN  \/ n = Opener(m.frame + 1) /\ Leaves(m, f, cut)
             \/ n.frame = m.frame /\ m.frame > 0 /\ Closes(n, f) /\ n.place = m.place + 1 /\ Complete(m, f)
             \/ n.frame = 0 /\ m.frame = 0 /\ m.place # 0 /\ n.place = 0
<1> DEFINE m == trace[1]
           n == trace[2]
           f == sent[trace[1].frame]
           g == sent[trace[2].frame]
<1>1. /\ m \in Mark /\ n \in Mark /\ m.frame \in 0 .. Len(sent)
      /\ Fits(m, f) /\ Fits(n, g) /\ Stands(C0, n, g) /\ Follows(m, n, f, cut)
  BY NextMark
<1>2. m.frame > 0 => f \in Seq(Octet) /\ Len(f) \in Nat \ {0}
  BY <1>1, FrameOf
<1>3. Continues(m, n, f) => n.frame = m.frame /\ g = f
  BY DEF Continues
<1> HIDE DEF m, n, f, g
<1>4. Follows(m, n, f, cut) => Continues(m, n, f) \/ (n = Opener(m.frame + 1) /\ Leaves(m, f, cut))
  BY DEF Follows
<1>5. CASE Continues(m, n, f) /\ m.frame = 0
  <2>1. n.frame = 0 /\ m.frame = 0 /\ m.place # 0
    BY <1>5 DEF Continues
  <2>2. n.place = 0
    BY <1>1, <2>1 DEF Stands
  <2> QED
    BY <2>1, <2>2 DEF m, n, f
<1>6. CASE Continues(m, n, f) /\ m.frame > 0
  <2>1. ~Inside(n, f)
    BY <1>1, <1>2, <1>3, <1>6 DEF Stands, Replacement, Special, C0, DB, DC, DD, Mark
  <2>2. n.half = 1 /\ n.place = m.place + 1 /\ Complete(m, f)
    BY <1>1, <1>3, <1>6, <2>1 DEF Continues, Fits
  <2>3. n.place = Len(f) + 1
    BY <1>1, <1>2, <1>3, <1>6, <2>1, <2>2 DEF Fits, Inside, Mark
  <2> QED
    BY <1>3, <1>6, <2>2, <2>3 DEF Closes, m, n, f
<1>7. m.frame \in Nat
  BY <1>1 DEF Mark
<1> QED
  BY <1>1, <1>4, <1>5, <1>6, <1>7 DEF m, n, f

\* Any other byte belongs to the same frame, or to the noise.
LEMMA AtOther ==
  ASSUME SlipType, NEW trace, NEW cut, Marked(trace, cut), NEW ch, PeripheralRead(ch), ch # C0
  PROVE  LET m == trace[1]
             n == trace[2]
             f == sent[trace[1].frame]
         IN  /\ n.frame = m.frame
             /\ m.frame = 0 => m.place # 0 /\ n.place # 0
             /\ m.frame > 0 =>
                  /\ Inside(n, f)
                  /\ ch = IF Special(f[n.place]) THEN Replacement(f[n.place])[n.half] ELSE f[n.place]
                  /\ \/ n.place = m.place /\ m.half = 1 /\ n.half = 2
                     \/ n.place = m.place + 1 /\ n.half = 1 /\ Complete(m, f)
<1> DEFINE m == trace[1]
           n == trace[2]
           f == sent[trace[1].frame]
           g == sent[trace[2].frame]
<1>1. /\ m \in Mark /\ n \in Mark /\ m.frame \in 0 .. Len(sent)
      /\ Fits(m, f) /\ Fits(n, g) /\ Stands(ch, n, g) /\ Follows(m, n, f, cut)
  BY NextMark
<1>2. m.frame > 0 => f \in Seq(Octet) /\ Len(f) \in Nat \ {0}
  BY <1>1, FrameOf
<1>3. Continues(m, n, f) => n.frame = m.frame /\ g = f
  BY DEF Continues
<1> HIDE DEF m, n, f, g
<1>4. Continues(m, n, f)
  <2>1. ASSUME n = Opener(m.frame + 1) PROVE FALSE
    <3>1. n.frame > 0 /\ n.place = 0
      BY <1>1, <2>1 DEF Opener, Mark
    <3> QED
      BY <1>1, <3>1 DEF Stands, Inside
  <2> QED
    BY <1>1, <2>1 DEF Follows
<1>5. m.frame \in Nat
  BY <1>1 DEF Mark
<1>6. m.frame = 0 => m.place # 0 /\ n.place # 0
  BY <1>1, <1>3, <1>4 DEF Continues, Stands
<1>7. ASSUME m.frame > 0
      PROVE  /\ Inside(n, f)
             /\ ch = IF Special(f[n.place]) THEN Replacement(f[n.place])[n.half] ELSE f[n.place]
             /\ \/ n.place = m.place /\ m.half = 1 /\ n.half = 2
                \/ n.place = m.place + 1 /\ n.half = 1 /\ Complete(m, f)
  BY <1>1, <1>3, <1>4, <1>7 DEF Stands, Continues
<1> QED
  BY <1>3, <1>4, <1>6, <1>7 DEF m, n, f

LEMMA Passing ==
  ASSUME SlipType, NEW m \in Mark, NEW n \in Mark, NEW at, Returned(m, at),
         delivered' = delivered, sent' = sent, cuts' = cuts,
         n.frame \in {m.frame, m.frame + 1},
         n.frame = m.frame /\ m.frame > 0 /\ (InBody' \/ n.place = 0) => InBody \/ m.place = 0
  PROVE  Returned(n, at)'
<1>1. Len(delivered) \in Nat /\ m.frame \in Nat /\ n.frame \in Nat
  BY DEF SlipType, Mark
<1>2. ASSUME NEW i \in 1 .. Len(delivered)
      PROVE  at[i] \in Int /\ at[i] <= n.frame /\ (InBody' \/ n.place = 0 => at[i] < n.frame)
  <2>1. at[i] \in 1 .. Len(sent) /\ at[i] <= m.frame /\ (InBody \/ m.place = 0 => at[i] < m.frame)
    BY DEF Returned
  <2> QED
    BY <1>1, <2>1
<1> QED
  BY <1>2 DEF Returned, Received

LEMMA Accounts ==
  ASSUME SlipType, NEW m \in Mark, NEW n \in Mark, NEW cut, Lost(m, cut),
         sent' = sent, cuts' = cuts, aborts' = aborts, Len(delivered') \in Nat,
         \/ /\ n.frame \in {m.frame, m.frame + 1}
            /\ Settled(n)' - Len(delivered') <= Settled(m) - Len(delivered)
         \/ /\ n.frame = m.frame + 1 /\ m.frame \in cut
            /\ Settled(n)' - Len(delivered') <= Settled(m) - Len(delivered) + 2
  PROVE  Lost(n, cut)'
<1>1. Len(delivered) \in Nat /\ m.frame \in Nat /\ n.frame \in Nat /\ Len(sent) \in Nat /\ aborts \in Nat
  BY DEF SlipType, Mark
<1>2. cut \in SUBSET (1 .. Len(sent))
  BY DEF Lost
<1> DEFINE p == CutBefore(cut, m.frame)
           q == CutBefore(cut, n.frame)
           s == Settled(m)
           t == Settled(n)'
<1>3. /\ p \in Nat /\ CutBefore(cut, m.frame + 1) \in Nat /\ p <= CutBefore(cut, m.frame + 1)
      /\ m.frame \in cut => CutBefore(cut, m.frame + 1) = p + 1
  <2> DEFINE N == Len(sent)
             k == m.frame
  <2>1. N \in Nat /\ cut \in SUBSET (1 .. N) /\ k \in Nat
    BY <1>1, <1>2
  <2> HIDE DEF N, k
  <2>2. /\ CutBefore(cut, k) \in Nat /\ CutBefore(cut, k) <= CutBefore(cut, k + 1)
        /\ k \in cut => CutBefore(cut, k + 1) = CutBefore(cut, k) + 1
    BY <2>1, CutsCounted
  <2>3. CutBefore(cut, k + 1) \in Nat
    <3>1. k + 1 \in Nat
      BY <2>1
    <3> DEFINE l == k + 1
    <3> HIDE DEF l
    <3>2. CutBefore(cut, l) \in Nat
      BY <2>1, <3>1, CutsCounted DEF l
    <3> QED
      BY <3>2 DEF l
  <2> QED
    BY <2>2, <2>3 DEF k
<1>4. s \in Int /\ t \in Int
  <2>1. m.frame - 1 \in Int /\ n.frame - 1 \in Int
    BY <1>1
  <2> QED
    BY <1>1, <2>1 DEF Settled
<1>5. s <= Len(delivered) + aborts + 2 * p
  BY DEF Lost
<1> HIDE DEF s, t, p
<1>6. t <= Len(delivered') + aborts + 2 * q
  <2>1. CASE n.frame = m.frame /\ t - Len(delivered') <= s - Len(delivered)
    <3>1. q = p
      BY <2>1 DEF p
    <3> HIDE DEF q
    <3> QED
      BY <1>1, <1>3, <1>4, <1>5, <2>1, <3>1
  <2>2. CASE n.frame = m.frame + 1 /\ t - Len(delivered') <= s - Len(delivered)
    <3>1. q \in Nat /\ p <= q
      BY <1>3, <2>2
    <3> HIDE DEF q
    <3> QED
      BY <1>1, <1>3, <1>4, <1>5, <2>2, <3>1
  <2>3. CASE n.frame = m.frame + 1 /\ m.frame \in cut /\ t - Len(delivered') <= s - Len(delivered) + 2
    <3>1. q = p + 1
      BY <1>3, <2>3
    <3> HIDE DEF q
    <3> QED
      BY <1>1, <1>3, <1>4, <1>5, <2>3, <3>1
  <2> QED
    BY <2>1, <2>2, <2>3 DEF s, t
<1>7. cut \subseteq 1 .. Len(sent') /\ Cardinality(cut) = cuts'
  BY DEF Lost
<1> QED
  BY <1>6, <1>7 DEF Lost, t, CutBefore

\* What NextMark says, with the frame.
LEMMA Setting ==
  ASSUME SlipType, NEW trace, NEW cut, NEW at, Tracked(trace, cut, at), NEW ch, PeripheralRead(ch)
  PROVE  LET m == trace[1]
             n == trace[2]
             f == sent[trace[1].frame]
         IN  /\ m \in Mark /\ n \in Mark /\ m.frame \in 0 .. Len(sent) /\ m.place \in Nat
             /\ m.frame > 0 => f \in Frames /\ f \in Seq(Octet) /\ Len(f) \in Nat \ {0} /\ ~Special(f[1])
             /\ Fits(m, f) /\ Reading(m, f) /\ Returned(m, at) /\ Lost(m, cut)
             /\ sent' = sent /\ aborts' = aborts /\ cuts' = cuts
             /\ Len(delivered) \in Nat
<1>1. Marked(trace, cut) /\ Heard(trace[1], cut, at)
  BY DEF Tracked
<1>2. /\ trace[1] \in Mark /\ trace[2] \in Mark /\ trace[1].frame \in 0 .. Len(sent)
      /\ Fits(trace[1], sent[trace[1].frame])
  BY <1>1, NextMark
<1>3. trace[1].frame > 0 => /\ sent[trace[1].frame] \in Frames /\ sent[trace[1].frame] \in Seq(Octet)
                            /\ Len(sent[trace[1].frame]) \in Nat \ {0} /\ ~Special(sent[trace[1].frame][1])
  BY <1>2, FrameOf
<1>4. trace[1].place \in Nat
  BY <1>2 DEF Mark
<1>5. sent' = sent /\ aborts' = aborts /\ cuts' = cuts /\ Len(delivered) \in Nat
  BY DEF PeripheralRead, SlipType
<1> QED
  BY <1>1, <1>2, <1>3, <1>4, <1>5 DEF Heard

LEMMA HuntKeeps ==
  ASSUME SlipType, NEW trace, NEW cut, NEW at, Tracked(trace, cut, at), NEW ch, PeripheralRead(ch), Hunt(ch)
  PROVE  Heard(trace[2], cut, at)'
<1> DEFINE m == trace[1]
           n == trace[2]
           f == sent[trace[1].frame]
<1>1. /\ m \in Mark /\ n \in Mark /\ m.frame \in 0 .. Len(sent) /\ m.place \in Nat
      /\ m.frame > 0 => f \in Seq(Octet) /\ Len(f) \in Nat \ {0}
      /\ Reading(m, f) /\ Returned(m, at) /\ Lost(m, cut)
      /\ sent' = sent /\ aborts' = aborts /\ cuts' = cuts /\ Len(delivered) \in Nat
  BY Setting
<1>2. /\ state = "hunt" /\ state' = IF ch = C0 THEN "open" ELSE "hunt"
      /\ buff' = buff /\ delivered' = delivered /\ buff = <<>>
  BY <1>1 DEF Hunt, Reading
<1>3. Marked(trace, cut)
  BY DEF Tracked
<1>4. CASE ch = C0
  <2>1. \/ n = Opener(m.frame + 1)
        \/ n.frame = m.frame /\ m.frame > 0 /\ Closes(n, f) /\ n.place = m.place + 1
        \/ n.frame = 0 /\ m.frame = 0 /\ n.place = 0
    BY <1>3, <1>4, AtDelimiter
  <2>2. \/ n.frame = m.frame + 1 /\ n.place = 0
        \/ n.frame = m.frame /\ m.frame > 0 /\ n.place # 0 /\ Closes(n, sent'[n.frame])
        \/ n.frame = m.frame /\ m.frame = 0 /\ n.place = 0
    <3>1. f = sent[m.frame]
      OBVIOUS
    <3> HIDE DEF m, n, f
    <3> QED
      BY <1>1, <2>1, <3>1 DEF Opener
  <2> HIDE DEF m, n, f
  <2>3. Reading(n, sent[n.frame])'
    BY <1>2, <1>4, <2>2 DEF Reading, InBody
  <2>4. Returned(n, at)'
    BY <1>1, <1>2, <1>4, <2>2, Passing DEF InBody
  <2>5. Settled(n)' - Len(delivered') <= Settled(m) - Len(delivered) /\ n.frame \in {m.frame, m.frame + 1}
    BY <1>1, <1>2, <1>4, <2>2 DEF Settled, InBody
  <2>6. Lost(n, cut)'
    BY <1>1, <1>2, <2>5, Accounts
  <2> QED
    BY <2>3, <2>4, <2>6 DEF Heard, n
<1>5. CASE ch # C0
  <2>1. n.frame = m.frame /\ (m.frame = 0 => m.place # 0 /\ n.place # 0) /\ (m.frame > 0 => Inside(n, f))
    BY <1>3, <1>5, AtOther
  <2> HIDE DEF m, n, f
  <2>2. n.frame = m.frame /\ n.place # 0
    BY <1>1, <2>1 DEF Inside
  <2>3. Reading(n, sent[n.frame])'
    BY <1>2, <1>5 DEF Reading, InBody
  <2>4. Returned(n, at)'
    BY <1>1, <1>2, <1>5, <2>2, Passing DEF InBody
  <2>5. Settled(n)' - Len(delivered') <= Settled(m) - Len(delivered) /\ n.frame \in {m.frame, m.frame + 1}
    BY <1>1, <1>2, <1>5, <2>2 DEF Settled, InBody
  <2>6. Lost(n, cut)'
    BY <1>1, <1>2, <2>5, Accounts
  <2> QED
    BY <2>3, <2>4, <2>6 DEF Heard, n
<1> QED
  BY <1>4, <1>5

LEMMA Beginning ==
  ASSUME NEW f \in Seq(Octet), NEW p \in 0 .. Len(f)
  PROVE  /\ SubSeq(f, 1, p) \in Seq(Octet) /\ Len(SubSeq(f, 1, p)) = p
         /\ IsPrefix(SubSeq(f, 1, p), f)
<1> DEFINE s == SubSeq(f, 1, p)
<1>1. Len(f) \in Nat /\ p \in Nat /\ \A i \in 1 .. p : f[i] \in Octet
  OBVIOUS
<1>2. s \in Seq(Octet) /\ Len(s) = p
  BY <1>1, SubSeqProperties
<1>3. s = SubSeq(f, 1, p)
  OBVIOUS
<1> HIDE DEF s
<1>4. SubSeq(s, 1, Len(s)) = s
  BY <1>2, SubSeqFull
<1>5. SubSeq(s, 1, Len(s)) = SubSeq(f, 1, Len(s)) /\ Len(s) <= Len(f)
  BY <1>1, <1>2, <1>3, <1>4
<1> QED
  BY <1>2, <1>3, <1>5 DEF IsPrefix

\* A byte is stored behind those before it.
LEMMA StoreIs ==
  ASSUME SlipType, NEW f \in Seq(Octet), NEW p \in 1 .. Len(f), p <= MaxSize,
         buff = SubSeq(f, 1, p - 1), Store(f[p])
  PROVE  /\ buff' = SubSeq(f, 1, p) /\ delivered' = delivered
         /\ state' = IF p < MaxSize THEN "body" ELSE "drain"
         /\ p < MaxSize \/ p = MaxSize
<1>1. p - 1 \in 0 .. Len(f) /\ Len(f) \in Nat /\ p \in Nat
  OBVIOUS
<1>2. Len(buff) = p - 1 /\ buff \in Seq(Octet)
  BY <1>1, Beginning
<1>3. SubSeq(f, 1, p) = SubSeq(f, 1, p - 1) \o <<f[p]>>
  <2>1. 1 \in 1 .. Len(f) /\ p \in 1 .. Len(f)
    BY <1>1
  <2> QED
    BY <2>1, SubSeqRecursiveSecond
<1>4. Append(buff, f[p]) = buff \o <<f[p]>>
  <2>1. f[p] \in Octet
    OBVIOUS
  <2> QED
    BY <1>2, <2>1, AppendIsConcat
<1>5. Len(buff) + 1 = p
  BY <1>1, <1>2
<1>6. buff' = SubSeq(f, 1, p)
  BY <1>3, <1>4 DEF Store
<1>7. state' = IF p < MaxSize THEN "body" ELSE "drain"
  BY <1>5 DEF Store
<1>8. p < MaxSize \/ p = MaxSize
  BY <1>1, BoundsAssumption
<1> QED
  BY <1>6, <1>7, <1>8 DEF Store

\* The byte that is stored is that of the mark, unescaped.
LEMMA StoreKeeps ==
  ASSUME SlipType, NEW m \in Mark, NEW n \in Mark, NEW cut, NEW at,
         Returned(m, at), Lost(m, cut), sent' = sent, aborts' = aborts, cuts' = cuts,
         m.frame \in 1 .. Len(sent), n.frame = m.frame,
         Inside(n, sent[m.frame]), Complete(n, sent[m.frame]), n.place <= MaxSize,
         buff = SubSeq(sent[m.frame], 1, n.place - 1), Store(sent[m.frame][n.place]),
         InBody \/ (state = "open" /\ m.place = 0)
  PROVE  Heard(n, cut, at)'
<1> DEFINE f == sent[m.frame]
           p == n.place
<1>1. f \in Seq(Octet)
  BY FrameOf
<1>2. p \in 1 .. Len(f)
  BY DEF Inside
<1>3. /\ buff' = SubSeq(f, 1, p) /\ delivered' = delivered
      /\ state' = IF p < MaxSize THEN "body" ELSE "drain"
      /\ p < MaxSize \/ p = MaxSize
  <2> HIDE DEF f, p
  <2>1. p <= MaxSize /\ buff = SubSeq(f, 1, p - 1) /\ Store(f[p])
    BY DEF f, p
  <2> QED
    BY <1>1, <1>2, <2>1, StoreIs
<1>4. state' \in {"body", "drain"} /\ InBody'
  BY <1>3 DEF InBody
<1>5. Reading(n, sent[n.frame])'
  <2>1. n.frame > 0 /\ sent'[n.frame] = f /\ MaxSize \in Nat /\ p \in Int
    BY <1>2, BoundsAssumption
  <2>2. Inside(n, f) /\ Complete(n, f)
    OBVIOUS
  <2> HIDE DEF f
  <2>3. state' = "drain" => p = MaxSize
    BY <1>3
  <2>4. state' = "drain" => p >= MaxSize /\ buff' = SubSeq(f, 1, MaxSize)
    BY <1>3, <2>1, <2>3
  <2>5. state' = "body" => p < MaxSize
    BY <1>3, <2>1
  <2> QED
    BY <1>3, <1>4, <2>1, <2>2, <2>4, <2>5 DEF Reading
<1>6. Returned(n, at)'
  BY <1>3, Passing
<1>7. Lost(n, cut)'
  <2>1. Settled(n)' = Settled(m) /\ Settled(m) \in Int
    BY <1>4 DEF Settled
  <2>2. Len(delivered) \in Nat
    BY DEF SlipType
  <2>3. Settled(n)' - Len(delivered') <= Settled(m) - Len(delivered)
    BY <1>3, <2>1, <2>2
  <2> QED
    BY <1>3, <2>2, <2>3, Accounts
<1> QED
  BY <1>5, <1>6, <1>7 DEF Heard

LEMMA OpeningKeeps ==
  ASSUME SlipType, NEW trace, NEW cut, NEW at, Tracked(trace, cut, at), NEW ch, PeripheralRead(ch), Opening(ch)
  PROVE  Heard(trace[2], cut, at)'
<1> DEFINE m == trace[1]
           n == trace[2]
           f == sent[trace[1].frame]
<1>1. /\ m \in Mark /\ n \in Mark /\ m.frame \in 0 .. Len(sent) /\ m.place \in Nat
      /\ m.frame > 0 => f \in Seq(Octet) /\ Len(f) \in Nat \ {0} /\ ~Special(f[1])
      /\ Reading(m, f) /\ Returned(m, at) /\ Lost(m, cut) /\ Fits(m, f)
      /\ sent' = sent /\ aborts' = aborts /\ cuts' = cuts /\ Len(delivered) \in Nat
  BY Setting
<1>2. state = "open" /\ buff = <<>> /\ (m.place = 0 \/ Closes(m, f))
  BY <1>1 DEF Opening, Reading
<1>3. Marked(trace, cut)
  BY DEF Tracked
<1>4. f = sent[m.frame]
  OBVIOUS
<1>5. CASE ch = C0
  <2>1. \/ n = Opener(m.frame + 1) /\ Leaves(m, f, cut)
        \/ n.frame = m.frame /\ m.frame > 0 /\ Closes(n, f) /\ n.place = m.place + 1
        \/ n.frame = 0 /\ m.frame = 0 /\ m.place # 0
    BY <1>3, <1>5, AtDelimiter
  <2> HIDE DEF m, n, f
  <2>2. state' = "open" /\ buff' = buff /\ delivered' = delivered
    BY <1>5 DEF Opening
  <2>3. n.frame = m.frame + 1 /\ n.place = 0 /\ Leaves(m, f, cut)
    <3>1. ASSUME m.frame > 0, Closes(n, f), n.place = m.place + 1 PROVE FALSE
      BY <1>1, <1>2, <3>1 DEF Closes
    <3>2. ASSUME m.frame = 0, m.place # 0 PROVE FALSE
      BY <1>2, <3>2 DEF Closes
    <3> QED
      BY <1>1, <2>1, <3>1, <3>2 DEF Opener
  <2>4. Reading(n, sent[n.frame])'
    BY <1>2, <2>2, <2>3 DEF Reading, InBody
  <2>5. Returned(n, at)'
    BY <1>1, <2>2, <2>3, Passing
  <2>6. Settled(n)' = m.frame
    BY <1>1, <2>2, <2>3 DEF Settled, InBody
  <2>7. \/ Settled(m) = m.frame
        \/ Settled(m) = m.frame - 1 /\ m.frame \in cut
    <3>1. CASE m.frame > 0 /\ m.place = 0
      <4>1. ~Closes(m, f)
        BY <1>1, <3>1 DEF Closes
      <4>2. m.frame \in cut
        BY <2>3, <3>1, <4>1 DEF Leaves
      <4> QED
        BY <1>2, <3>1, <4>2 DEF Settled, InBody
    <3>2. CASE ~(m.frame > 0 /\ m.place = 0)
      BY <1>2, <3>2 DEF Settled, InBody
    <3> QED
      BY <3>1, <3>2
  <2>8. Lost(n, cut)'
    <3>1. \/ Settled(n)' - Len(delivered') <= Settled(m) - Len(delivered) /\ n.frame \in {m.frame, m.frame + 1}
          \/ n.frame = m.frame + 1 /\ m.frame \in cut /\ Settled(n)' - Len(delivered') <= Settled(m) - Len(delivered) + 2
      BY <1>1, <2>2, <2>3, <2>6, <2>7
    <3> QED
      BY <1>1, <2>2, <3>1, Accounts
  <2> QED
    BY <2>4, <2>5, <2>8 DEF Heard, n
<1>6. CASE ch # C0
  <2>1. /\ n.frame = m.frame
        /\ m.frame = 0 => m.place # 0
        /\ m.frame > 0 =>
             /\ Inside(n, f)
             /\ ch = IF Special(f[n.place]) THEN Replacement(f[n.place])[n.half] ELSE f[n.place]
             /\ \/ n.place = m.place /\ m.half = 1 /\ n.half = 2
                \/ n.place = m.place + 1 /\ n.half = 1 /\ Complete(m, f)
    BY <1>3, <1>6, AtOther
  <2> HIDE DEF m, n, f
  <2>2. m.frame > 0
    BY <1>1, <1>2, <2>1 DEF Closes
  <2>3. m.place = 0
    <3>1. ASSUME Closes(m, f) PROVE FALSE
      BY <1>1, <2>1, <2>2, <3>1 DEF Closes, Inside
    <3> QED
      BY <1>2, <3>1
  <2>4. n.place = 1 /\ Inside(n, f) /\ ch = f[1]
    BY <1>1, <2>1, <2>2, <2>3 DEF Inside
  <2>5. Complete(n, f) /\ Store(f[n.place])
    BY <1>1, <1>6, <2>2, <2>4 DEF Complete, Opening
  <2>6. buff = SubSeq(f, 1, n.place - 1)
    BY <1>2, <2>4, SubSeqEmpty
  <2>7. n.place <= MaxSize
    BY <2>4, BoundsAssumption
  <2>8. m.frame \in 1 .. Len(sent)
    BY <1>1, <2>2
  <2>9. Heard(n, cut, at)'
    BY <1>1, <1>2, <1>4, <2>1, <2>3, <2>4, <2>5, <2>6, <2>7, <2>8, StoreKeeps
  <2> QED
    BY <2>9 DEF n
<1> QED
  BY <1>5, <1>6

LEMMA DeliverReturns ==
  ASSUME SlipType, NEW m \in Mark, NEW n \in Mark, NEW at, Returned(m, at), InBody,
         m.frame \in 1 .. Len(sent), Deliver, sent' = sent, cuts' = cuts,
         IsPrefix(buff, sent[m.frame]), cuts = 0 => buff = Received(sent[m.frame]),
         n.frame \in {m.frame, m.frame + 1}, n.place = 0 => n.frame # m.frame
  PROVE  \E a : Returned(n, a)'
<1> DEFINE L == Len(delivered)
<1>0. PICK a : a = [i \in 1 .. L + 1 |-> IF i <= L THEN at[i] ELSE m.frame]
  OBVIOUS
<1>1. L \in Nat /\ delivered \in Seq(Seq(Octet)) /\ buff \in Seq(Octet) /\ m.frame \in Nat /\ n.frame \in Nat
  BY DEF SlipType, Mark
<1>2. delivered' = Append(delivered, buff) /\ state' = "idle"
  BY DEF Deliver
<1>3. /\ Len(delivered') = L + 1 /\ delivered'[L + 1] = buff
      /\ \A i \in 1 .. L : delivered'[i] = delivered[i]
  BY <1>1, <1>2, AppendProperties
<1>4. /\ at \in [1 .. L -> 1 .. Len(sent)]
      /\ \A i, j \in 1 .. L : i < j => at[i] < at[j]
      /\ \A i \in 1 .. L : /\ at[i] < m.frame
                           /\ IsPrefix(delivered[i], sent[at[i]])
                           /\ cuts = 0 => delivered[i] = Received(sent[at[i]])
  BY DEF Returned
<1>5. a \in [1 .. L + 1 -> 1 .. Len(sent)] /\ a[L + 1] = m.frame /\ \A i \in 1 .. L : a[i] = at[i]
  <2>1. \A i \in 1 .. L + 1 : (IF i <= L THEN at[i] ELSE m.frame) \in 1 .. Len(sent)
    BY <1>1, <1>4
  <2> QED
    BY <1>0, <1>1, <2>1
<1> HIDE DEF L
<1>6. \A i \in 1 .. L + 1 : i \in 1 .. L \/ i = L + 1
  BY <1>1
<1>7. \A i, j \in 1 .. L + 1 : i < j => a[i] < a[j]
  <2> SUFFICES ASSUME NEW i \in 1 .. L + 1, NEW j \in 1 .. L + 1, i < j
               PROVE  a[i] < a[j]
    OBVIOUS
  <2>1. i \in 1 .. L
    BY <1>1
  <2>2. CASE j \in 1 .. L
    BY <1>4, <1>5, <2>1, <2>2
  <2>3. CASE j = L + 1
    BY <1>4, <1>5, <2>1, <2>3
  <2> QED
    BY <1>6, <2>2, <2>3
<1>8. ASSUME NEW i \in 1 .. L + 1
      PROVE  /\ a[i] <= n.frame
             /\ n.place = 0 => a[i] < n.frame
             /\ IsPrefix(delivered'[i], sent[a[i]])
             /\ cuts = 0 => delivered'[i] = Received(sent[a[i]])
  <2>1. CASE i \in 1 .. L
    <3>1. at[i] < m.frame /\ at[i] \in Int /\ a[i] = at[i] /\ delivered'[i] = delivered[i]
      BY <1>3, <1>4, <1>5, <2>1
    <3>2. a[i] < n.frame /\ a[i] <= n.frame
      BY <1>1, <3>1
    <3> QED
      BY <1>4, <2>1, <3>1, <3>2
  <2>2. CASE i = L + 1
    <3>1. a[i] = m.frame /\ delivered'[i] = buff
      BY <1>3, <1>5, <2>2
    <3>2. m.frame <= n.frame /\ (n.place = 0 => m.frame < n.frame)
      BY <1>1
    <3> QED
      BY <3>1, <3>2
  <2> QED
    BY <1>6, <2>1, <2>2
<1>9. ~InBody'
  BY <1>2 DEF InBody
<1>10. Returned(n, a)'
  <2>1. \A i \in 1 .. L + 1 :
          /\ a[i] <= n.frame
          /\ InBody' \/ n.place = 0 => a[i] < n.frame
          /\ IsPrefix(delivered'[i], sent'[a[i]])
          /\ cuts' = 0 => delivered'[i] = Received(sent'[a[i]])
    BY <1>8, <1>9
  <2>2. Len(delivered') = L + 1 /\ sent' = sent
    BY <1>3
  <2>3. a \in [1 .. Len(delivered') -> 1 .. Len(sent')]
    BY <1>5, <2>2
  <2>4. \A i, j \in 1 .. Len(delivered') : i < j => a[i] < a[j]
    BY <1>7, <2>2
  <2>5. \A i \in 1 .. Len(delivered') :
          /\ a[i] <= n.frame
          /\ InBody' \/ n.place = 0 => a[i] < n.frame
          /\ IsPrefix(delivered'[i], sent'[a[i]])
          /\ cuts' = 0 => delivered'[i] = Received(sent'[a[i]])
    BY <2>1, <2>2
  <2> QED
    BY <2>3, <2>4, <2>5 DEF Returned, Received
<1> QED
  BY <1>10

\* A frame is returned at its delimiter, or at that of the next when it was cut off.
LEMMA DeliverKeeps ==
  ASSUME SlipType, NEW m \in Mark, NEW n \in Mark, NEW cut, NEW at,
         Returned(m, at), Lost(m, cut), InBody, m.frame \in 1 .. Len(sent), Deliver,
         sent' = sent, aborts' = aborts, cuts' = cuts,
         IsPrefix(buff, sent[m.frame]),
         \/ n.frame = m.frame /\ n.place # 0 /\ buff = Received(sent[m.frame])
         \/ n.frame = m.frame + 1 /\ m.frame \in cut
  PROVE  \E a : Heard(n, cut, a)'
<1>1. /\ Len(delivered) \in Nat /\ m.frame \in Nat /\ state' = "idle" /\ Len(delivered') = Len(delivered) + 1
      /\ Len(sent) \in Nat
  BY DEF SlipType, Mark, Deliver
<1>2. m.frame \in cut => cuts # 0
  <2>1. cut \in SUBSET (1 .. Len(sent)) /\ Cardinality(cut) = cuts
    BY DEF Lost
  <2> DEFINE N == Len(sent)
  <2>2. N \in Nat /\ cut \in SUBSET (1 .. N) /\ 0 \in Nat
    BY <1>1, <2>1
  <2> HIDE DEF N
  <2>3. cut # {} => Cardinality(cut) > 0
    BY <2>2, CutsCounted
  <2>4. cut # {} => cuts # 0
    BY <2>1, <2>3
  <2> QED
    BY <2>4, Zenon
<1>3. PICK a : Returned(n, a)'
  <2>1. cuts = 0 => buff = Received(sent[m.frame])
    BY <1>2
  <2>2. n.frame \in {m.frame, m.frame + 1} /\ (n.place = 0 => n.frame # m.frame)
    BY <1>1
  <2> QED
    BY <2>1, <2>2, DeliverReturns
<1>4. Settled(m) = m.frame - 1 /\ Settled(n)' = n.frame
  BY <1>1 DEF Settled, InBody
<1>5. Lost(n, cut)'
  <2>1. \/ n.frame \in {m.frame, m.frame + 1} /\ Settled(n)' - Len(delivered') <= Settled(m) - Len(delivered)
        \/ n.frame = m.frame + 1 /\ m.frame \in cut /\ Settled(n)' - Len(delivered') <= Settled(m) - Len(delivered) + 2
    BY <1>1, <1>4
  <2>2. Len(delivered') \in Nat
    BY <1>1
  <2> QED
    BY <2>1, <2>2, Accounts
<1>6. Reading(n, sent[n.frame])'
  BY <1>1 DEF Reading, InBody
<1> QED
  BY <1>3, <1>5, <1>6 DEF Heard

\* In a body, a delimiter is that of the frame's end, or the frame was cut off.
LEMMA BodyEnds ==
  ASSUME SlipType, NEW trace, NEW cut, NEW at, Tracked(trace, cut, at), PeripheralRead(C0), InBody
  PROVE  LET m == trace[1]
             n == trace[2]
             f == sent[trace[1].frame]
         IN  /\ m.frame \in 1 .. Len(sent) /\ Inside(m, f)
             /\ \/ n.frame = m.frame /\ n.place # 0 /\ m.place = Len(f) /\ Complete(m, f)
                \/ n.frame = m.frame + 1 /\ n.place = 0 /\ m.frame \in cut
<1> DEFINE m == trace[1]
           n == trace[2]
           f == sent[trace[1].frame]
<1>1. /\ m.frame \in 0 .. Len(sent) /\ m.place \in Nat /\ Reading(m, f)
      /\ m.frame > 0 => f \in Seq(Octet) /\ Len(f) \in Nat \ {0}
  BY Setting
<1>2. Marked(trace, cut)
  BY DEF Tracked
<1>3. \/ n = Opener(m.frame + 1) /\ Leaves(m, f, cut)
      \/ n.frame = m.frame /\ m.frame > 0 /\ Closes(n, f) /\ n.place = m.place + 1 /\ Complete(m, f)
      \/ n.frame = 0 /\ m.frame = 0 /\ m.place # 0 /\ n.place = 0
  BY <1>2, AtDelimiter
<1>4. m.frame > 0 /\ Inside(m, f)
  BY <1>1 DEF Reading
<1> HIDE DEF m, n, f
<1>5. ~Closes(m, f)
  BY <1>1, <1>4 DEF Closes, Inside
<1>6. CASE n = Opener(m.frame + 1) /\ Leaves(m, f, cut)
  <2>1. m.frame \in cut
    BY <1>4, <1>5, <1>6 DEF Leaves
  <2>2. n.frame = m.frame + 1 /\ n.place = 0
    BY <1>6 DEF Opener
  <2> QED
    BY <1>1, <1>4, <2>1, <2>2 DEF m, n, f
<1>7. CASE n.frame = m.frame /\ Closes(n, f) /\ n.place = m.place + 1 /\ Complete(m, f)
  <2>1. m.place = Len(f) /\ n.place # 0
    BY <1>1, <1>4, <1>7 DEF Closes
  <2>2. m.frame \in 1 .. Len(sent)
    BY <1>1, <1>4
  <2> QED
    BY <1>4, <1>7, <2>1, <2>2 DEF m, n, f
<1> QED
  BY <1>3, <1>4, <1>6, <1>7

LEMMA BodyKeeps ==
  ASSUME SlipType, NEW trace, NEW cut, NEW at, Tracked(trace, cut, at), NEW ch, PeripheralRead(ch), Body(ch)
  PROVE  \E a : Heard(trace[2], cut, a)'
<1> DEFINE m == trace[1]
           n == trace[2]
           f == sent[trace[1].frame]
<1>1. /\ m \in Mark /\ n \in Mark /\ m.frame \in 0 .. Len(sent) /\ m.place \in Nat
      /\ m.frame > 0 => f \in Seq(Octet) /\ Len(f) \in Nat \ {0} /\ ~Special(f[1])
      /\ Reading(m, f) /\ Returned(m, at) /\ Lost(m, cut)
      /\ sent' = sent /\ aborts' = aborts /\ cuts' = cuts /\ Len(delivered) \in Nat
  BY Setting
<1>2. Marked(trace, cut)
  BY DEF Tracked
<1>3. state = "body" /\ InBody
  BY DEF Body, InBody
<1>4. f = sent[m.frame] /\ m.frame > 0 /\ m.frame \in 1 .. Len(sent) /\ f \in Seq(Octet)
  BY <1>1, <1>3 DEF Reading
<1>5. Inside(m, f) /\ m.place < MaxSize /\ Complete(m, f) /\ buff = SubSeq(f, 1, m.place)
  BY <1>1, <1>3 DEF Reading
<1>6. CASE ch = C0
  <2>1. \/ n.frame = m.frame /\ n.place # 0 /\ m.place = Len(f)
        \/ n.frame = m.frame + 1 /\ m.frame \in cut
    BY <1>3, <1>6, BodyEnds
  <2> HIDE DEF m, n, f
  <2>2. Deliver
    BY <1>6 DEF Body, C0, DB
  <2>3. IsPrefix(buff, f)
    <3>1. m.place \in 0 .. Len(f)
      BY <1>5 DEF Inside
    <3> QED
      BY <1>4, <1>5, <3>1, Beginning
  <2>4. m.place = Len(f) => buff = Received(f)
    BY <1>5 DEF Received
  <2>5. \E a : Heard(n, cut, a)'
    BY <1>1, <1>3, <1>4, <2>1, <2>2, <2>3, <2>4, DeliverKeeps
  <2> QED
    BY <2>5 DEF n
<1>7. CASE ch # C0
  <2>1. /\ n.frame = m.frame /\ Inside(n, f)
        /\ ch = IF Special(f[n.place]) THEN Replacement(f[n.place])[n.half] ELSE f[n.place]
        /\ \/ n.place = m.place /\ m.half = 1 /\ n.half = 2
           \/ n.place = m.place + 1 /\ n.half = 1 /\ Complete(m, f)
    BY <1>2, <1>4, <1>7, AtOther
  <2>2. Fits(n, f)
    <3>1. Fits(n, sent[n.frame])
      BY <1>2, NextMark
    <3> QED
      BY <2>1, <3>1
  <2> HIDE DEF m, n, f
  <2>3. n.place = m.place + 1 /\ n.half = 1
    <3>1. ASSUME n.place = m.place, m.half = 1, n.half = 2 PROVE FALSE
      BY <1>5, <2>2, <3>1 DEF Fits, Complete
    <3> QED
      BY <2>1, <3>1
  <2>4. ~Special(DC) /\ Special(DB) /\ Replacement(C0)[1] = DB /\ Replacement(DB)[1] = DB
    BY DEF Special, Replacement, C0, DB, DC, DD
  <2>5. Special(f[n.place]) <=> ch = DB
    BY <2>1, <2>3, <2>4 DEF Special
  <2>6. n.place - 1 = m.place /\ n.place \in Nat /\ n.place <= MaxSize
    BY <1>1, <1>5, <2>3, BoundsAssumption
  <2>7. CASE ch = DB
    <3>1. state' = "escape" /\ buff' = buff /\ delivered' = delivered
      BY <2>7 DEF Body, DB, C0, Deliver, Store
    <3>2. Reading(n, sent[n.frame])'
      BY <1>1, <1>4, <1>5, <2>1, <2>3, <2>5, <2>6, <2>7, <3>1 DEF Reading, InBody
    <3>3. InBody'
      BY <3>1 DEF InBody
    <3>4. Returned(n, at)'
      BY <1>1, <1>3, <2>1, <3>1, Passing
    <3>5. Settled(n)' - Len(delivered') <= Settled(m) - Len(delivered)
      BY <1>1, <1>3, <1>4, <2>1, <3>1, <3>3 DEF Settled
    <3>6. Lost(n, cut)'
      BY <1>1, <2>1, <3>1, <3>5, Accounts
    <3> QED
      BY <3>2, <3>4, <3>6 DEF Heard, n
  <2>8. CASE ch # DB
    <3>1. Complete(n, f) /\ Store(f[n.place])
      BY <1>7, <2>1, <2>5, <2>8 DEF Complete, Body
    <3>2. Heard(n, cut, at)'
      BY <1>1, <1>3, <1>4, <1>5, <2>1, <2>6, <3>1, StoreKeeps
    <3> QED
      BY <3>2 DEF n
  <2> QED
    BY <2>7, <2>8
<1> QED
  BY <1>6, <1>7

LEMMA UnescapeKeeps ==
  ASSUME SlipType, NEW trace, NEW cut, NEW at, Tracked(trace, cut, at), NEW ch, PeripheralRead(ch), Unescape(ch)
  PROVE  Heard(trace[2], cut, at)'
<1> DEFINE m == trace[1]
           n == trace[2]
           f == sent[trace[1].frame]
<1>1. /\ m \in Mark /\ n \in Mark /\ m.frame \in 0 .. Len(sent) /\ m.place \in Nat
      /\ m.frame > 0 => f \in Seq(Octet) /\ Len(f) \in Nat \ {0} /\ ~Special(f[1])
      /\ Reading(m, f) /\ Returned(m, at) /\ Lost(m, cut)
      /\ sent' = sent /\ aborts' = aborts /\ cuts' = cuts /\ Len(delivered) \in Nat
  BY Setting
<1>2. Marked(trace, cut)
  BY DEF Tracked
<1>3. state = "escape" /\ InBody
  BY DEF Unescape, InBody
<1>4. f = sent[m.frame] /\ m.frame > 0 /\ m.frame \in 1 .. Len(sent) /\ f \in Seq(Octet)
  BY <1>1, <1>3 DEF Reading
<1>5. Inside(m, f) /\ m.place <= MaxSize /\ m.half = 1 /\ Special(f[m.place]) /\ buff = SubSeq(f, 1, m.place - 1)
  BY <1>1, <1>3 DEF Reading
<1>6. ~Complete(m, f)
  BY <1>5 DEF Complete
<1>7. CASE ch = C0
  <2>1. n.frame = m.frame + 1 /\ n.place = 0 /\ m.frame \in cut
    BY <1>3, <1>6, <1>7, BodyEnds
  <2>2. state' = "idle" /\ buff' = buff /\ delivered' = delivered
    BY <1>7 DEF Unescape, C0, DB, DC, DD, Store
  <2> HIDE DEF m, n, f
  <2>3. Reading(n, sent[n.frame])'
    BY <2>2 DEF Reading, InBody
  <2>4. Returned(n, at)'
    <3>1. n.frame # m.frame
      BY <1>1, <2>1
    <3> QED
      BY <1>1, <2>1, <2>2, <3>1, Passing
  <2>5. Settled(n)' - Len(delivered') <= Settled(m) - Len(delivered) + 2
    BY <1>1, <1>3, <1>4, <2>1, <2>2 DEF Settled, InBody
  <2>6. Lost(n, cut)'
    BY <1>1, <2>1, <2>2, <2>5, Accounts
  <2> QED
    BY <2>3, <2>4, <2>6 DEF Heard, n
<1>8. CASE ch # C0
  <2>1. /\ n.frame = m.frame /\ Inside(n, f) /\ n.place = m.place /\ n.half = 2
        /\ ch = IF Special(f[n.place]) THEN Replacement(f[n.place])[n.half] ELSE f[n.place]
    BY <1>2, <1>4, <1>6, <1>8, AtOther
  <2> HIDE DEF m, n, f
  <2>2. ch = Replacement(f[n.place])[2]
    BY <1>5, <2>1
  <2>3. Store(f[n.place])
    <3>1. CASE f[n.place] = C0
      <4>1. ch = DC
        BY <2>2, <3>1 DEF Replacement
      <4> QED
        BY <3>1, <4>1 DEF Unescape, DC, DD
    <3>2. CASE f[n.place] = DB
      <4>1. ch = DD
        BY <2>2, <3>2 DEF Replacement, C0, DB
      <4> QED
        BY <3>2, <4>1 DEF Unescape, DC, DD
    <3> QED
      BY <1>5, <2>1, <3>1, <3>2 DEF Special
  <2>4. Complete(n, f)
    BY <2>1 DEF Complete
  <2>5. Heard(n, cut, at)'
    BY <1>1, <1>3, <1>4, <1>5, <2>1, <2>3, <2>4, StoreKeeps
  <2> QED
    BY <2>5 DEF n
<1> QED
  BY <1>7, <1>8

LEMMA DrainKeeps ==
  ASSUME SlipType, NEW trace, NEW cut, NEW at, Tracked(trace, cut, at), NEW ch, PeripheralRead(ch), Drain(ch)
  PROVE  \E a : Heard(trace[2], cut, a)'
<1> DEFINE m == trace[1]
           n == trace[2]
           f == sent[trace[1].frame]
<1>1. /\ m \in Mark /\ n \in Mark /\ m.frame \in 0 .. Len(sent) /\ m.place \in Nat
      /\ m.frame > 0 => f \in Seq(Octet) /\ Len(f) \in Nat \ {0} /\ ~Special(f[1])
      /\ Reading(m, f) /\ Returned(m, at) /\ Lost(m, cut)
      /\ sent' = sent /\ aborts' = aborts /\ cuts' = cuts /\ Len(delivered) \in Nat
  BY Setting
<1>2. Marked(trace, cut)
  BY DEF Tracked
<1>3. state = "drain" /\ InBody
  BY DEF Drain, InBody
<1>4. f = sent[m.frame] /\ m.frame > 0 /\ m.frame \in 1 .. Len(sent) /\ f \in Seq(Octet) /\ Len(f) \in Nat
  BY <1>1, <1>3 DEF Reading
<1>5. Inside(m, f) /\ m.place >= MaxSize /\ buff = SubSeq(f, 1, MaxSize)
  BY <1>1, <1>3 DEF Reading
<1>6. CASE ch = C0
  <2>1. \/ n.frame = m.frame /\ n.place # 0
        \/ n.frame = m.frame + 1 /\ m.frame \in cut
    BY <1>3, <1>6, BodyEnds
  <2> HIDE DEF m, n, f
  <2>2. Deliver
    BY <1>6 DEF Drain
  <2>3. MaxSize \in 0 .. Len(f)
    BY <1>1, <1>4, <1>5, BoundsAssumption DEF Inside
  <2>4. IsPrefix(buff, f)
    BY <1>4, <1>5, <2>3, Beginning
  <2>5. buff = Received(f)
    <3>1. (IF Len(f) < MaxSize THEN Len(f) ELSE MaxSize) = MaxSize
      BY <1>4, <2>3
    <3> QED
      BY <1>5, <3>1 DEF Received
  <2>6. \E a : Heard(n, cut, a)'
    BY <1>1, <1>3, <1>4, <2>1, <2>2, <2>4, <2>5, DeliverKeeps
  <2> QED
    BY <2>6 DEF n
<1>7. CASE ch # C0
  <2>1. /\ n.frame = m.frame /\ Inside(n, f)
        /\ n.place = m.place \/ n.place = m.place + 1
    BY <1>2, <1>4, <1>7, AtOther
  <2> HIDE DEF m, n, f
  <2>2. state' = "drain" /\ buff' = buff /\ delivered' = delivered
    BY <1>3, <1>7 DEF Drain
  <2>3. n.place >= MaxSize
    BY <1>1, <1>5, <2>1, BoundsAssumption
  <2>4. Reading(n, sent[n.frame])'
    BY <1>1, <1>4, <1>5, <2>1, <2>2, <2>3 DEF Reading, InBody
  <2>5. InBody'
    BY <2>2 DEF InBody
  <2>6. Returned(n, at)'
    BY <1>1, <1>3, <2>1, <2>2, Passing
  <2>7. Settled(n)' - Len(delivered') <= Settled(m) - Len(delivered)
    BY <1>1, <1>3, <1>4, <2>1, <2>2, <2>5 DEF Settled
  <2>8. Lost(n, cut)'
    BY <1>1, <2>1, <2>2, <2>7, Accounts
  <2> QED
    BY <2>4, <2>6, <2>8 DEF Heard, n
<1> QED
  BY <1>6, <1>7

LEMMA ReceiveKeeps ==
  ASSUME SlipType, NEW trace, NEW cut, NEW at, Tracked(trace, cut, at), Receive
  PROVE  \E t, c, a : Tracked(t, c, a)'
<1>1. PICK ch : PeripheralRead(ch) /\ (Hunt(ch) \/ Opening(ch) \/ Body(ch) \/ Unescape(ch) \/ Drain(ch))
  BY DEF Receive
<1>2. \E a : Heard(trace[2], cut, a)'
  BY <1>1, HuntKeeps, OpeningKeeps, BodyKeeps, UnescapeKeeps, DrainKeeps
<1>3. Marked(trace, cut)
  BY DEF Tracked
<1>4. Marked(Tail(trace), cut)' /\ Tail(trace)[1] = trace[2]
  BY <1>1, <1>3, TailMarked, NextMark
<1>5. PICK a : Heard(trace[2], cut, a)'
  BY <1>2
<1>6. PICK t : t = Tail(trace)
  OBVIOUS
<1>7. Tracked(t, cut, a)'
  BY <1>4, <1>5, <1>6 DEF Tracked
<1> QED
  BY <1>7

LEMMA CallKeeps ==
  ASSUME SlipType, NEW trace, NEW cut, NEW at, Tracked(trace, cut, at), Call \/ Abort
  PROVE  Tracked(trace, cut, at)'
<1> DEFINE m == trace[1]
           f == sent[trace[1].frame]
<1>1. /\ line' = line /\ sent' = sent /\ delivered' = delivered /\ cuts' = cuts
      /\ ~InBody'
      /\ state' = "idle" \/ (state' = "hunt" /\ buff' = <<>>)
  BY DEF Call, Abort, InBody
<1>2. Marked(trace, cut) /\ Reading(m, f) /\ Returned(m, at) /\ Lost(m, cut)
  BY DEF Tracked, Heard
<1>3. Marked(trace, cut)'
  BY <1>1, <1>2 DEF Marked
<1>4. m.frame \in Nat /\ Len(delivered) \in Nat /\ aborts \in Nat /\ CutBefore(cut, m.frame) \in Nat
  <2>1. trace \in Seq(Mark) /\ Len(trace) = Len(line) + 1
    BY <1>2 DEF Marked
  <2>2. Len(line) \in Nat /\ Len(delivered) \in Nat /\ aborts \in Nat /\ Len(sent) \in Nat
    BY DEF SlipType
  <2>3. 1 \in 1 .. Len(trace)
    BY <2>1, <2>2
  <2>4. m \in Mark
    BY <2>1, <2>3
  <2>5. m.frame \in Nat
    BY <2>4 DEF Mark
  <2>6. cut \in SUBSET (1 .. Len(sent))
    BY <1>2 DEF Lost
  <2> HIDE DEF m
  <2>7. CutBefore(cut, m.frame) \in Nat
    BY <2>2, <2>5, <2>6, CutsCounted
  <2> QED
    BY <2>2, <2>5, <2>7
<1> HIDE DEF m
<1>5. Reading(m, sent[m.frame])'
  BY <1>1 DEF Reading, InBody
<1>6. Returned(m, at)'
  <2>1. \A i \in 1 .. Len(delivered) :
          /\ at[i] <= m.frame
          /\ m.place = 0 => at[i] < m.frame
          /\ IsPrefix(delivered[i], sent[at[i]])
          /\ cuts = 0 => delivered[i] = Received(sent[at[i]])
    BY <1>2 DEF Returned
  <2>2. /\ at \in [1 .. Len(delivered) -> 1 .. Len(sent)]
        /\ \A i, j \in 1 .. Len(delivered) : i < j => at[i] < at[j]
    BY <1>2 DEF Returned
  <2> QED
    BY <1>1, <2>1, <2>2 DEF Returned, Received
<1>7. Settled(m)' + aborts <= Settled(m) + aborts'
  <2>1. CASE Call
    BY <1>1, <1>4, <2>1 DEF Call, Settled, InBody
  <2>2. CASE Abort
    <3>1. aborts' = aborts + 1 /\ Settled(m)' = m.frame
      BY <1>1, <2>2 DEF Abort, Settled
    <3>2. m.frame <= Settled(m) + 1 /\ Settled(m) \in Int
      BY <1>4 DEF Settled
    <3> QED
      BY <1>4, <3>1, <3>2
  <2> QED
    BY <2>1, <2>2
<1>8. Lost(m, cut)'
  <2>1. cut \subseteq 1 .. Len(sent) /\ Cardinality(cut) = cuts
    BY <1>2 DEF Lost
  <2>2. Settled(m) <= Len(delivered) + aborts + 2 * CutBefore(cut, m.frame)
    BY <1>2 DEF Lost
  <2>3. Settled(m) \in Int /\ Settled(m)' \in Int /\ aborts' \in Nat
    BY <1>4 DEF Settled, Call, Abort
  <2>4. Settled(m)' <= Len(delivered) + aborts' + 2 * CutBefore(cut, m.frame)
    BY <1>4, <1>7, <2>2, <2>3
  <2> QED
    BY <1>1, <2>1, <2>4 DEF Lost, CutBefore
<1> QED
  BY <1>3, <1>5, <1>6, <1>8 DEF Tracked, Heard, m

-----------------------------------------------------------------------------
(* The target sends a frame, or a part of one. *)

LEMMA CodedPart ==
  ASSUME NEW f, NEW k, NEW e, NEW ms, Coded(e, ms, f, k), NEW n \in 1 .. Len(e)
  PROVE  Coded(SubSeq(e, 1, n), SubSeq(ms, 1, n), f, k)
<1> DEFINE d == SubSeq(e, 1, n)
           ns == SubSeq(ms, 1, n)
<1>1. e \in Seq(Octet) /\ ms \in Seq(Mark) /\ Len(ms) = Len(e) /\ Len(e) \in Nat
  BY DEF Coded
<1>2. d \in Seq(Octet) /\ Len(d) = n /\ \A i \in 1 .. n : d[i] = e[i]
  BY <1>1
<1>3. ns \in Seq(Mark) /\ Len(ns) = n /\ \A i \in 1 .. n : ns[i] = ms[i]
  BY <1>1
<1> HIDE DEF d, ns
<1>4. \A i \in 1 .. n : i \in 1 .. Len(e) /\ (i # 1 => i - 1 \in 1 .. n /\ i \in 2 .. Len(e))
  BY <1>1
<1>5. d # <<>> /\ 1 \in 1 .. n /\ ns[1] = Opener(k)
  BY <1>2, <1>3 DEF Coded
<1>6. \A i \in 1 .. Len(d) : ns[i].frame = k /\ Fits(ns[i], f) /\ Stands(d[i], ns[i], f)
  BY <1>2, <1>3, <1>4 DEF Coded
<1>7. \A i \in 2 .. Len(d) : Continues(ns[i - 1], ns[i], f)
  <2> TAKE i \in 2 .. Len(d)
  <2>1. i \in 1 .. n /\ i # 1
    BY <1>2
  <2>2. ns[i] = ms[i] /\ ns[i - 1] = ms[i - 1] /\ i \in 2 .. Len(e)
    BY <1>3, <1>4, <2>1
  <2> QED
    BY <2>2 DEF Coded
<1> QED
  BY <1>2, <1>3, <1>5, <1>6, <1>7 DEF Coded, d, ns

\* What is said of a mark of the noise does not depend on the frame.
LEMMA SameFrame ==
  ASSUME NEW m, NEW f, NEW g, m.frame \in Nat, m.frame > 0 => f = g
  PROVE  /\ Fits(m, f) => Fits(m, g)
         /\ \A b : Stands(b, m, f) => Stands(b, m, g)
         /\ \A n, x, y : x \subseteq y /\ Follows(m, n, f, x) => Follows(m, n, g, y)
<1>1. CASE m.frame > 0
  <2>1. \A x, y : x \subseteq y /\ Leaves(m, f, x) => Leaves(m, g, y)
    BY <1>1 DEF Leaves
  <2> QED
    BY <1>1, <2>1 DEF Follows
<1>2. CASE m.frame = 0
  <2>1. Fits(m, f) => Fits(m, g)
    BY <1>2 DEF Fits
  <2>2. \A b : Stands(b, m, f) => Stands(b, m, g)
    BY <1>2 DEF Stands
  <2>3. \A n : Continues(m, n, f) => Continues(m, n, g)
    BY <1>2 DEF Continues
  <2>4. \A y : Leaves(m, g, y)
    BY <1>2 DEF Leaves
  <2> QED
    BY <2>1, <2>2, <2>3, <2>4 DEF Follows
<1> QED
  BY <1>1, <1>2

LEMMA Spliced ==
  ASSUME NEW S, NEW s \in Seq(S), NEW t \in Seq(S)
  PROVE  /\ s \o t \in Seq(S) /\ Len(s \o t) = Len(s) + Len(t)
         /\ \A i \in 1 .. Len(s) : (s \o t)[i] = s[i]
         /\ \A i \in Len(s) + 1 .. Len(s) + Len(t) : (s \o t)[i] = t[i - Len(s)]
<1>1. Len(s) \in Nat /\ Len(t) \in Nat
  OBVIOUS
<1>2. /\ s \o t \in Seq(S) /\ Len(s \o t) = Len(s) + Len(t)
      /\ \A i \in 1 .. Len(s) + Len(t) : (s \o t)[i] = IF i <= Len(s) THEN s[i] ELSE t[i - Len(s)]
  BY ConcatProperties
<1> QED
  BY <1>1, <1>2

LEMMA LineGrows ==
  ASSUME SlipType, NEW trace, NEW cut, Marked(trace, cut), NEW f \in Frames, NEW e, NEW ms,
         Coded(e, ms, f, Len(sent) + 1), NEW c, cut \subseteq c, Leaves(ms[Len(e)], f, c),
         line' = line \o e, sent' = Append(sent, f)
  PROVE  Marked(trace \o ms, c)'
<1> DEFINE k == Len(sent) + 1
           t == trace \o ms
           l == line \o e
<1>1. line \in Seq(Octet) /\ Len(line) \in Nat /\ sent \in Seq(Frames) /\ Len(sent) \in Nat
  BY DEF SlipType
<1>2. trace \in Seq(Mark) /\ Len(trace) = Len(line) + 1
  BY DEF Marked
<1>3. e \in Seq(Octet) /\ ms \in Seq(Mark) /\ Len(ms) = Len(e) /\ Len(e) \in Nat \ {0}
  BY DEF Coded
<1>4. /\ t \in Seq(Mark) /\ Len(t) = Len(trace) + Len(e)
      /\ \A i \in 1 .. Len(trace) : t[i] = trace[i]
      /\ \A i \in Len(trace) + 1 .. Len(trace) + Len(e) : t[i] = ms[i - Len(trace)]
  <2>1. ms \in Seq(Mark) /\ Len(ms) = Len(e)
    BY <1>3
  <2>2. /\ t \in Seq(Mark) /\ Len(t) = Len(trace) + Len(ms)
        /\ \A i \in 1 .. Len(trace) : t[i] = trace[i]
        /\ \A i \in Len(trace) + 1 .. Len(trace) + Len(ms) : t[i] = ms[i - Len(trace)]
    <3>1. trace \in Seq(Mark) /\ ms \in Seq(Mark)
      BY <1>2, <2>1
    <3> QED
      BY <3>1, Spliced
  <2> HIDE DEF t
  <2> QED
    BY <2>1, <2>2
<1>5. /\ Len(l) = Len(line) + Len(e)
      /\ \A i \in 1 .. Len(line) : l[i] = line[i]
      /\ \A i \in Len(line) + 1 .. Len(line) + Len(e) : l[i] = e[i - Len(line)]
  <2>1. e \in Seq(Octet)
    BY <1>3
  <2> QED
    BY <1>1, <2>1, Spliced
<1>6. /\ Len(sent') = k /\ sent'[k] = f
      /\ \A j \in 1 .. Len(sent) : sent'[j] = sent[j]
  BY <1>1, AppendProperties
<1>7. \A i \in 1 .. Len(trace) : trace[i].frame \in Nat /\ trace[i].frame <= Len(sent)
  <2>1. \A i \in 1 .. Len(trace) : trace[i] \in Mark
    BY <1>2
  <2>2. \A i \in 1 .. Len(trace) : trace[i].frame <= Len(sent)
    BY DEF Marked
  <2> QED
    BY <2>1, <2>2 DEF Mark
<1>8. \A i \in 1 .. Len(e) :
        /\ ms[i].frame = k /\ Fits(ms[i], f) /\ Stands(e[i], ms[i], f)
        /\ i # 1 => Continues(ms[i - 1], ms[i], f)
  <2>1. \A i \in 1 .. Len(e) : i # 1 => i \in 2 .. Len(e)
    BY <1>3
  <2> QED
    BY <2>1 DEF Coded
<1>9. ms[1] = Opener(k)
  BY DEF Coded
<1> HIDE DEF t, l, k
<1>10. k = Len(sent) + 1 /\ k \in Nat
  BY <1>1 DEF k
\* The marks so far.
<1>11. \A i \in 1 .. Len(trace) :
         /\ Fits(t[i], sent'[t[i].frame]) /\ t[i].frame <= k
         /\ \A x : \/ ~Follows(trace[i], x, sent[trace[i].frame], cut)
                   \/ Follows(t[i], x, sent'[t[i].frame], c)
         /\ \A b : Stands(b, trace[i], sent[trace[i].frame]) => Stands(b, t[i], sent'[t[i].frame])
  <2> TAKE i \in 1 .. Len(trace)
  <2> DEFINE m == trace[i]
  <2>1. t[i] = m /\ m.frame \in Nat /\ m.frame <= Len(sent)
    BY <1>4, <1>7
  <2>2. Fits(m, sent[m.frame])
    BY DEF Marked
  <2>3. m.frame > 0 => sent[m.frame] = sent'[m.frame]
    BY <1>1, <1>6, <2>1
  <2> HIDE DEF m
  <2> DEFINE g == sent[m.frame]
             h == sent'[m.frame]
  <2>4. m.frame > 0 => g = h
    BY <2>3
  <2>5. Fits(m, g)
    BY <2>2
  <2> HIDE DEF g, h
  <2>6. /\ Fits(m, h)
        /\ \A x : Follows(m, x, g, cut) => Follows(m, x, h, c)
        /\ \A b : Stands(b, m, g) => Stands(b, m, h)
    BY <2>1, <2>4, <2>5, SameFrame
  <2>7. m.frame <= k
    BY <1>1, <1>10, <2>1
  <2> QED
    BY <2>1, <2>6, <2>7 DEF m, g, h
<1>12. \A i \in 1 .. Len(t) : t[i].frame <= Len(sent') /\ Fits(t[i], sent'[t[i].frame])
  <2> TAKE i \in 1 .. Len(t)
  <2>1. CASE i \in 1 .. Len(trace)
    BY <1>6, <1>11, <2>1
  <2>2. CASE i \notin 1 .. Len(trace)
    <3>1. i - Len(trace) \in 1 .. Len(e) /\ i \in Len(trace) + 1 .. Len(trace) + Len(e)
      BY <1>1, <1>2, <1>3, <1>4, <2>2
    <3>2. t[i].frame = k /\ Fits(t[i], f)
      BY <1>4, <1>8, <3>1
    <3> QED
      BY <1>6, <1>10, <3>2
  <2> QED
    BY <2>1, <2>2
<1>13. ASSUME NEW i \in 1 .. Len(l)
       PROVE  /\ Stands(l[i], t[i + 1], sent'[t[i + 1].frame])
              /\ Follows(t[i], t[i + 1], sent'[t[i].frame], c)
  <2>1. CASE i \in 1 .. Len(line)
    <3>1. i \in 1 .. Len(trace) /\ i + 1 \in 1 .. Len(trace)
      BY <1>1, <1>2, <2>1
    <3>2. /\ Stands(line[i], trace[i + 1], sent[trace[i + 1].frame])
          /\ Follows(trace[i], trace[i + 1], sent[trace[i].frame], cut)
      BY <2>1 DEF Marked
    <3>3. l[i] = line[i] /\ t[i + 1] = trace[i + 1]
      BY <1>4, <1>5, <2>1, <3>1
    <3>4. Stands(line[i], t[i + 1], sent'[t[i + 1].frame])
      BY <1>11, <3>1, <3>2
    <3>5. Follows(t[i], trace[i + 1], sent'[t[i].frame], c)
      BY <1>11, <3>1, <3>2
    <3> QED
      BY <3>3, <3>4, <3>5
  <2>2. CASE i = Len(line) + 1
    <3>1. /\ l[i] = e[1] /\ t[i] = trace[Len(trace)] /\ t[i + 1] = ms[1] /\ i = Len(trace)
          /\ 1 \in 1 .. Len(e) /\ Len(trace) \in 1 .. Len(trace)
      <4>1. i \in Len(line) + 1 .. Len(line) + Len(e) /\ i - Len(line) = 1
        BY <1>1, <1>3, <2>2
      <4>2. i + 1 \in Len(trace) + 1 .. Len(trace) + Len(e) /\ (i + 1) - Len(trace) = 1
        BY <1>1, <1>2, <1>3, <2>2
      <4>3. i \in 1 .. Len(trace) /\ i = Len(trace)
        BY <1>1, <1>2, <2>2
      <4>4. l[i] = e[1]
        BY <1>5, <4>1
      <4>5. t[i + 1] = ms[1]
        BY <1>3, <1>4, <4>2
      <4>6. t[i] = trace[i]
        BY <1>4, <4>3
      <4> QED
        BY <1>3, <4>3, <4>4, <4>5, <4>6
    <3>2. Stands(l[i], t[i + 1], sent'[t[i + 1].frame])
      BY <1>6, <1>8, <3>1
    <3> DEFINE m == trace[Len(trace)]
    <3>3. m.frame = Len(sent) /\ Leaves(m, sent[m.frame], cut)
      BY DEF Marked
    <3>4. ms[1] = Opener(m.frame + 1)
      BY <1>9, <1>10, <3>3
    <3>5. Follows(m, ms[1], sent[m.frame], cut)
      BY <3>3, <3>4 DEF Follows
    <3>6. Follows(t[i], ms[1], sent'[t[i].frame], c)
      BY <1>11, <3>1, <3>5
    <3> QED
      BY <3>1, <3>2, <3>6
  <2>3. CASE i \notin 1 .. Len(line) + 1
    <3> DEFINE j == i - Len(line)
    <3>1. i \in Len(line) + 1 .. Len(line) + Len(e) /\ j \in 1 .. Len(e) /\ j # 1 /\ j - 1 \in 1 .. Len(e)
      BY <1>1, <1>3, <1>5, <2>3
    <3>2. /\ i + 1 \in Len(trace) + 1 .. Len(trace) + Len(e) /\ (i + 1) - Len(trace) = j
          /\ i \in Len(trace) + 1 .. Len(trace) + Len(e) /\ i - Len(trace) = j - 1
      BY <1>1, <1>2, <1>3, <1>5, <2>3
    <3>3. l[i] = e[j] /\ t[i + 1] = ms[j] /\ t[i] = ms[j - 1]
      BY <1>4, <1>5, <3>1, <3>2
    <3> HIDE DEF j
    <3>4. /\ ms[j].frame = k /\ ms[j - 1].frame = k
          /\ Stands(e[j], ms[j], f) /\ Continues(ms[j - 1], ms[j], f)
      BY <1>8, <3>1
    <3>5. Follows(ms[j - 1], ms[j], f, c)
      BY <3>4 DEF Follows
    <3> QED
      BY <1>6, <3>3, <3>4, <3>5
  <2>4. i \in 1 .. Len(line) \/ i = Len(line) + 1 \/ i \notin 1 .. Len(line) + 1
    BY <1>1
  <2> QED
    BY <2>1, <2>2, <2>3, <2>4, Zenon
<1>14. t[Len(t)] = ms[Len(e)] /\ ms[Len(e)].frame = k
  <2>1. Len(t) \in Len(trace) + 1 .. Len(trace) + Len(e) /\ Len(t) - Len(trace) = Len(e) /\ Len(e) \in 1 .. Len(e)
    BY <1>1, <1>2, <1>3, <1>4
  <2> QED
    BY <1>4, <1>8, <2>1
<1>15. t[Len(t)].frame = Len(sent') /\ Leaves(t[Len(t)], sent'[t[Len(t)].frame], c)
  BY <1>6, <1>14
<1>16. Len(t) = Len(l) + 1
  BY <1>1, <1>2, <1>3, <1>4, <1>5
<1>17. line' = l
  BY DEF l
<1>18. Marked(t, c)'
  BY <1>4, <1>12, <1>13, <1>15, <1>16, <1>17 DEF Marked
<1> QED
  BY <1>18 DEF t

\* What has been heard is not changed by what is sent.
LEMMA SendHears ==
  ASSUME SlipType, NEW m \in Mark, m.frame <= Len(sent), NEW cut, NEW at, Heard(m, cut, at), NEW f \in Frames,
         NEW c, sent' = Append(sent, f), UNCHANGED <<state, buff, delivered, aborts>>,
         \/ c = cut /\ cuts' = cuts
         \/ c = cut \cup {Len(sent) + 1} /\ cuts' = cuts + 1
  PROVE  Heard(m, c, at)'
<1> DEFINE k == Len(sent) + 1
           L == Len(delivered)
<1>1. /\ sent \in Seq(Frames) /\ Len(sent) \in Nat /\ L \in Nat /\ cuts \in Nat /\ m.frame \in Nat /\ aborts \in Nat
      /\ k \in Nat /\ k = Len(sent) + 1
  BY DEF SlipType, Mark
<1>2. /\ Len(sent') = k
      /\ \A j \in 1 .. Len(sent) : sent'[j] = sent[j]
  BY <1>1, AppendProperties
<1>3. Reading(m, sent[m.frame]) /\ Returned(m, at) /\ Lost(m, cut)
  BY DEF Heard
<1>4. state' = state /\ buff' = buff /\ delivered' = delivered /\ aborts' = aborts /\ InBody' = InBody
  BY DEF InBody
<1> HIDE DEF k
<1>5. m.frame > 0 => sent[m.frame] = sent'[m.frame]
  BY <1>1, <1>2
<1>6. Reading(m, sent[m.frame])'
  <2>1. CASE m.frame > 0
    BY <1>3, <1>4, <1>5, <2>1 DEF Reading
  <2>2. CASE m.frame = 0
    <3>1. ~InBody /\ state \notin {"body", "escape", "drain"}
      BY <1>3, <2>2 DEF Reading, InBody
    <3>2. state = "open" => m.place = 0
      BY <1>3, <2>2 DEF Reading, Closes
    <3>3. state \in {"hunt", "open"} => buff = <<>>
      BY <1>3 DEF Reading
    <3> QED
      BY <1>4, <3>1, <3>2, <3>3 DEF Reading
  <2>3. m.frame > 0 \/ m.frame = 0
    BY <1>1
  <2> QED
    BY <2>1, <2>2, <2>3, Zenon
<1>7. Returned(m, at)'
  <2>1. /\ at \in [1 .. L -> 1 .. Len(sent)]
        /\ \A i, j \in 1 .. L : i < j => at[i] < at[j]
        /\ \A i \in 1 .. L : /\ at[i] <= m.frame
                             /\ InBody \/ m.place = 0 => at[i] < m.frame
                             /\ IsPrefix(delivered[i], sent[at[i]])
                             /\ cuts = 0 => delivered[i] = Received(sent[at[i]])
    BY <1>3 DEF Returned
  <2> HIDE DEF L
  <2>2. at \in [1 .. L -> 1 .. Len(sent')] /\ \A i \in 1 .. L : sent'[at[i]] = sent[at[i]]
    <3>1. \A j \in 1 .. Len(sent) : j \in 1 .. Len(sent')
      BY <1>1, <1>2
    <3>2. \A i \in 1 .. L : at[i] \in 1 .. Len(sent)
      BY <2>1
    <3> QED
      BY <1>2, <2>1, <3>1, <3>2
  <2>3. cuts' = 0 => cuts = 0
    BY <1>1
  <2>4. \A i \in 1 .. L : /\ at[i] <= m.frame
                          /\ InBody' \/ m.place = 0 => at[i] < m.frame
                          /\ IsPrefix(delivered'[i], sent'[at[i]])
                          /\ cuts' = 0 => delivered'[i] = Received(sent'[at[i]])
    BY <1>4, <2>1, <2>2, <2>3
  <2>5. L = Len(delivered')
    BY <1>4 DEF L
  <2> QED
    BY <2>1, <2>2, <2>4, <2>5 DEF Returned, Received
<1>8. cut \in SUBSET (1 .. Len(sent)) /\ Cardinality(cut) = cuts
  BY <1>3 DEF Lost
<1>9. c \subseteq 1 .. Len(sent') /\ Cardinality(c) = cuts' /\ CutBefore(c, m.frame) = CutBefore(cut, m.frame)
  <2>1. CASE c = cut /\ cuts' = cuts
    <3>1. \A j \in 1 .. Len(sent) : j \in 1 .. Len(sent')
      BY <1>1, <1>2
    <3> QED
      BY <1>8, <2>1, <3>1
  <2>2. CASE c = cut \cup {k} /\ cuts' = cuts + 1
    <3>1. IsFiniteSet(cut)
      <4>1. IsFiniteSet(1 .. Len(sent))
        BY <1>1, FS_Interval
      <4> QED
        BY <1>8, <4>1, FS_Subset
    <3>2. k \notin cut
      BY <1>1, <1>8
    <3>3. Cardinality(c) = Cardinality(cut) + 1
      BY <2>2, <3>1, <3>2, FS_AddElement
    <3>4. \A x \in c : x < m.frame <=> x \in cut /\ x < m.frame
      BY <1>1, <1>8, <2>2
    <3>5. {x \in c : x < m.frame} = {x \in cut : x < m.frame}
      BY <2>2, <3>4, Zenon
    <3>6. c \subseteq 1 .. Len(sent')
      <4>1. \A x \in 1 .. Len(sent) : x \in 1 .. k
        BY <1>1
      <4>2. k \in 1 .. k
        BY <1>1
      <4> QED
        BY <1>2, <1>8, <2>2, <4>1, <4>2
    <3> QED
      BY <1>8, <2>2, <3>3, <3>5, <3>6 DEF CutBefore
  <2> QED
    BY <2>1, <2>2 DEF k
<1>10. Lost(m, c)'
  <2>1. Settled(m)' = Settled(m)
    BY <1>4 DEF Settled
  <2>2. Settled(m) <= Len(delivered) + aborts + 2 * CutBefore(cut, m.frame)
    BY <1>3 DEF Lost
  <2>3. CutBefore(c, m.frame)' = CutBefore(c, m.frame)
    BY DEF CutBefore
  <2> QED
    BY <1>4, <1>9, <2>1, <2>2, <2>3 DEF Lost
<1> QED
  BY <1>6, <1>7, <1>10 DEF Heard

LEMMA SendKeeps ==
  ASSUME SlipType, NEW trace, NEW cut, NEW at, Tracked(trace, cut, at), NEW f \in Frames, SendFrame(f) \/ SendCut(f)
  PROVE  \E t, c, a : Tracked(t, c, a)'
<1> DEFINE k == Len(sent) + 1
           N == Len(OnLine(f))
<1>1. Len(sent) \in Nat /\ k \in Nat \ {0}
  BY DEF SlipType
<1>2. f \in Seq(Octet) /\ f # <<>> /\ ~Special(f[1])
  BY FramesAssumption DEF Special
<1>3. PICK ms : Coded(OnLine(f), ms, f, k) /\ ms[N] = [frame |-> k, place |-> Len(f) + 1, half |-> 1]
  <2> HIDE DEF k
  <2> QED
    BY <1>1, <1>2, FrameCoded
<1>4. Marked(trace, cut) /\ Heard(trace[1], cut, at)
  BY DEF Tracked
<1>5. trace \in Seq(Mark) /\ Len(trace) \in Nat \ {0} /\ trace[1] \in Mark /\ trace[1].frame <= Len(sent)
  <2>1. trace \in Seq(Mark) /\ Len(trace) = Len(line) + 1
    BY <1>4 DEF Marked
  <2>2. 1 \in 1 .. Len(trace) /\ Len(trace) \in Nat \ {0}
    BY <2>1 DEF SlipType
  <2>3. trace[1].frame <= Len(sent)
    BY <1>4, <2>2 DEF Marked
  <2> QED
    BY <2>1, <2>2, <2>3
<1>6. ASSUME NEW e, NEW ns, Coded(e, ns, f, k), NEW c, line' = line \o e, sent' = Append(sent, f),
             UNCHANGED <<state, buff, delivered, aborts>>, Leaves(ns[Len(e)], f, c),
             \/ c = cut /\ cuts' = cuts
             \/ c = cut \cup {k} /\ cuts' = cuts + 1
      PROVE  \E t, x, a : Tracked(t, x, a)'
  <2>1. cut \subseteq c
    BY <1>6
  <2>2. Marked(trace \o ns, c)'
    BY <1>4, <1>6, <2>1, LineGrows
  <2>3. Heard(trace[1], c, at)'
    BY <1>4, <1>5, <1>6, SendHears
  <2>4. ns \in Seq(Mark)
    BY <1>6 DEF Coded
  <2>5. PICK t : t = trace \o ns
    OBVIOUS
  <2>6. t[1] = trace[1]
    <3>1. \A i \in 1 .. Len(trace) : (trace \o ns)[i] = trace[i]
      BY <1>5, <2>4, Spliced
    <3> QED
      BY <1>5, <2>5, <3>1
  <2>7. Tracked(t, c, at)'
    BY <2>2, <2>3, <2>5, <2>6 DEF Tracked
  <2> QED
    BY <2>7
<1>7. CASE SendFrame(f)
  <2>1. /\ line' = line \o OnLine(f) /\ sent' = Append(sent, f)
        /\ UNCHANGED <<state, buff, delivered, aborts>> /\ cuts' = cuts
    BY <1>7 DEF SendFrame
  <2>2. Leaves(ms[N], f, cut)
    BY <1>1, <1>3 DEF Leaves, Closes
  <2> QED
    BY <1>3, <1>6, <2>1, <2>2
<1>8. CASE SendCut(f)
  <2>1. PICK n \in 1 .. N - 1 : line' = line \o SubSeq(OnLine(f), 1, n)
    BY <1>8 DEF SendCut
  <2>2. sent' = Append(sent, f) /\ UNCHANGED <<state, buff, delivered, aborts>> /\ cuts' = cuts + 1
    BY <1>8 DEF SendCut
  <2> DEFINE e == SubSeq(OnLine(f), 1, n)
             ns == SubSeq(ms, 1, n)
             c == cut \cup {k}
  <2>3. N \in Nat /\ n \in 1 .. N
    <3>1. N \in Nat
      BY <1>3 DEF Coded
    <3> QED
      BY <3>1
  <2>4. Coded(e, ns, f, k)
    <3> HIDE DEF k
    <3> QED
      BY <1>3, <2>3, CodedPart
  <2> HIDE DEF e, ns
  <2>5. Leaves(ns[Len(e)], f, c)
    <3>1. Len(e) \in 1 .. Len(e)
      BY <2>4 DEF Coded
    <3>2. ns[Len(e)].frame = k
      BY <2>4, <3>1 DEF Coded
    <3> QED
      BY <3>2 DEF Leaves
  <2>6. line' = line \o e
    BY <2>1 DEF e
  <2>7. PICK b : b = c
    OBVIOUS
  <2>8. PICK d : d = e
    OBVIOUS
  <2> QED
    BY <1>6, <2>2, <2>4, <2>5, <2>6, <2>7, <2>8
<1> QED
  BY <1>7, <1>8

-----------------------------------------------------------------------------
(* The invariant *)

\* The noise is frame 0.
LEMMA NoiseMarked ==
  ASSUME SlipInit
  PROVE  SlipInv
<1> DEFINE N == Len(line)
           place(i) == IF i > 1 /\ line[i - 1] = C0 THEN 0 ELSE 1
<1>1. /\ line \in Seq(Octet) /\ N \in Nat
      /\ \A i \in 1 .. N : line[i] = C0 => i = N
  BY NoiseAssumption DEF SlipInit
<1>2. state = "idle" /\ buff = <<>> /\ sent = <<>> /\ delivered = <<>> /\ aborts = 0 /\ cuts = 0
  BY DEF SlipInit
<1>3. Len(sent) = 0 /\ Len(delivered) = 0 /\ ~InBody
  BY <1>2 DEF InBody
<1>4. SlipType
  BY <1>1, <1>2 DEF SlipType
<1>5. PICK t : t = [i \in 1 .. N + 1 |-> [frame |-> 0, place |-> place(i), half |-> 1]]
  OBVIOUS
<1>6. /\ t \in Seq(Mark) /\ Len(t) = N + 1
      /\ \A i \in 1 .. N + 1 : t[i].frame = 0 /\ t[i].place = place(i) /\ t[i].half = 1
  BY <1>1, <1>5 DEF Mark
<1>7. \A i \in 1 .. N + 1 : t[i].frame <= Len(sent) /\ Fits(t[i], sent[t[i].frame])
  BY <1>3, <1>6 DEF Fits
<1>8. ASSUME NEW i \in 1 .. N
      PROVE  /\ Stands(line[i], t[i + 1], sent[t[i + 1].frame])
             /\ Follows(t[i], t[i + 1], sent[t[i].frame], {})
  <2>1. i \in 1 .. N + 1 /\ i + 1 \in 1 .. N + 1 /\ i + 1 > 1 /\ (i + 1) - 1 = i
    BY <1>1
  <2>2. place(i + 1) = 0 <=> line[i] = C0
    BY <2>1
  <2>3. Stands(line[i], t[i + 1], sent[t[i + 1].frame])
    BY <1>6, <2>1, <2>2 DEF Stands
  <2>4. place(i) # 0
    <3>1. i > 1 => i - 1 \in 1 .. N /\ i - 1 # N
      BY <1>1
    <3> QED
      BY <1>1, <3>1
  <2>5. t[i].frame = 0 /\ t[i + 1].frame = 0 /\ t[i].place # 0
    BY <1>6, <2>1, <2>4
  <2>6. Follows(t[i], t[i + 1], sent[t[i].frame], {})
    BY <2>5 DEF Follows, Continues
  <2> QED
    BY <2>3, <2>6
<1>9. Marked(t, {})
  <2>1. N + 1 \in 1 .. N + 1
    BY <1>1
  <2>2. t[N + 1].frame = Len(sent) /\ Leaves(t[N + 1], sent[t[N + 1].frame], {})
    BY <1>3, <1>6, <2>1 DEF Leaves
  <2> QED
    BY <1>6, <1>7, <1>8, <2>2 DEF Marked
<1> DEFINE m == t[1]
<1>10. m.frame = 0 /\ m.place = 1
  BY <1>1, <1>6
<1> HIDE DEF m
<1>11. Reading(m, sent[m.frame])
  BY <1>2 DEF Reading, InBody
<1>12. PICK a : a = [i \in 1 .. 0 |-> 0]
  OBVIOUS
<1>13. Returned(m, a)
  <2>1. a \in [1 .. 0 -> 1 .. 0]
    BY <1>12
  <2> QED
    BY <1>3, <2>1 DEF Returned
<1>14. Lost(m, {})
  <2>1. CutBefore({}, 0) \in Nat
    <3>1. 0 \in Nat /\ {} \in SUBSET (1 .. 0)
      OBVIOUS
    <3> QED
      BY <3>1, CutsCounted
  <2>2. Cardinality({}) = 0
    BY FS_EmptySet
  <2>3. Settled(m) = 0
    BY <1>10 DEF Settled
  <2> QED
    BY <1>2, <1>3, <1>10, <2>1, <2>2, <2>3 DEF Lost
<1>15. Tracked(t, {}, a)
  BY <1>9, <1>11, <1>13, <1>14 DEF Tracked, Heard, m
<1> QED
  BY <1>4, <1>15 DEF SlipInv

LEMMA SlipTypeKept ==
  ASSUME SlipType, SlipNext
  PROVE  SlipType'
<1>1. ASSUME NEW f \in Frames, SendFrame(f) \/ SendCut(f) PROVE SlipType'
  <2>1. OnLine(f) \in Seq(Octet)
    <3>1. f \in Seq(Octet) /\ f # <<>> /\ ~Special(f[1]) /\ 1 \in Nat \ {0}
      BY FramesAssumption DEF Special
    <3>2. \E ms : Coded(OnLine(f), ms, f, 1)
      BY <3>1, FrameCoded
    <3> QED
      BY <3>2 DEF Coded
  <2> DEFINE e == OnLine(f)
  <2>2. sent' \in Seq(Frames)
    <3>1. sent' = Append(sent, f)
      BY <1>1 DEF SendFrame, SendCut
    <3>2. sent \in Seq(Frames)
      BY DEF SlipType
    <3> QED
      BY <3>1, <3>2, AppendProperties
  <2>3. line' \in Seq(Octet)
    <3>1. e \in Seq(Octet) /\ line \in Seq(Octet)
      BY <2>1 DEF SlipType
    <3>2. line' = line \o e \/ \E n \in 1 .. Len(e) - 1 : line' = line \o SubSeq(e, 1, n)
      BY <1>1 DEF SendFrame, SendCut
    <3> HIDE DEF e
    <3>3. \A n \in 1 .. Len(e) - 1 : SubSeq(e, 1, n) \in Seq(Octet)
      BY <3>1
    <3> QED
      BY <3>1, <3>2, <3>3, Joined
  <2> QED
    BY <1>1, <2>2, <2>3 DEF SendFrame, SendCut, SlipType
<1>2. CASE Call \/ Abort
  <2>1. <<>> \in Seq(Octet)
    BY Octets
  <2>2. state' \in {"idle", "hunt"}
    BY <1>2 DEF Call, Abort
  <2>3. aborts' \in Nat
    BY <1>2 DEF Call, Abort, SlipType
  <2>4. buff' = <<>> \/ buff' = buff
    BY <1>2 DEF Call, Abort
  <2>5. buff' \in Seq(Octet)
    BY <2>1, <2>4 DEF SlipType
  <2> QED
    BY <1>2, <2>2, <2>3, <2>5 DEF Call, Abort, SlipType
<1>3. CASE Receive
  <2>1. PICK ch : PeripheralRead(ch) /\ (Hunt(ch) \/ Opening(ch) \/ Body(ch) \/ Unescape(ch) \/ Drain(ch))
    BY <1>3 DEF Receive
  <2>2. /\ line' \in Seq(Octet) /\ ch \in Octet /\ sent' = sent /\ aborts' = aborts /\ cuts' = cuts
    BY <2>1 DEF PeripheralRead, SlipType
  <2>3. C0 \in Octet /\ DB \in Octet
    BY DEF C0, DB, Octet
  <2>4. ASSUME NEW b \in Octet, Store(b) PROVE SlipType'
    BY <2>2, <2>4 DEF Store, SlipType
  <2>5. ASSUME Deliver PROVE SlipType'
    BY <2>2, <2>5 DEF Deliver, SlipType
  <2>6. ASSUME state' \in {"idle", "hunt", "open", "escape", "drain"}, UNCHANGED <<buff, delivered>> PROVE SlipType'
    BY <2>2, <2>6 DEF SlipType
  <2>7. CASE Hunt(ch)
    BY <2>6, <2>7 DEF Hunt
  <2>8. CASE Opening(ch)
    BY <2>2, <2>4, <2>6, <2>8 DEF Opening
  <2>9. CASE Body(ch)
    BY <2>2, <2>4, <2>5, <2>6, <2>9 DEF Body
  <2>10. CASE Unescape(ch)
    BY <2>3, <2>4, <2>6, <2>10 DEF Unescape
  <2>11. CASE Drain(ch)
    BY <2>5, <2>6, <2>11 DEF Drain
  <2> QED
    BY <2>1, <2>7, <2>8, <2>9, <2>10, <2>11
<1> QED
  BY <1>1, <1>2, <1>3 DEF SlipNext

LEMMA SlipStep ==
  ASSUME SlipInv, [SlipNext]_slipVars
  PROVE  SlipInv'
<1>1. CASE SlipNext
  <2>1. SlipType /\ SlipType'
    BY <1>1, SlipTypeKept DEF SlipInv
  <2>2. PICK trace, cut, at : Tracked(trace, cut, at)
    BY DEF SlipInv
  <2>3. \E t, c, a : Tracked(t, c, a)'
    <3>1. CASE \E f \in Frames : SendFrame(f) \/ SendCut(f)
      BY <2>1, <2>2, <3>1, SendKeeps
    <3>2. CASE Call \/ Abort
      BY <2>1, <2>2, <3>2, CallKeeps
    <3>3. CASE Receive
      BY <2>1, <2>2, <3>3, ReceiveKeeps
    <3> QED
      BY <1>1, <3>1, <3>2, <3>3 DEF SlipNext
  <2> QED
    BY <2>1, <2>3 DEF SlipInv
<1>2. CASE UNCHANGED slipVars
  <2>1. PICK trace, cut, at : Tracked(trace, cut, at)
    BY DEF SlipInv
  <2>2. /\ line' = line /\ state' = state /\ buff' = buff /\ sent' = sent /\ delivered' = delivered
        /\ aborts' = aborts /\ cuts' = cuts /\ InBody' = InBody
    BY <1>2 DEF slipVars, InBody
  <2> DEFINE m == trace[1]
  <2>3. Marked(trace, cut)'
    BY <2>1, <2>2 DEF Tracked, Marked
  <2>4. Reading(m, sent[m.frame])'
    BY <2>1, <2>2 DEF Tracked, Heard, Reading
  <2>5. Returned(m, at)'
    BY <2>1, <2>2 DEF Tracked, Heard, Returned, Received
  <2>6. Settled(m)' = Settled(m) /\ CutBefore(cut, m.frame)' = CutBefore(cut, m.frame)
    BY <2>2 DEF Settled, CutBefore
  <2>7. Lost(m, cut)'
    BY <2>1, <2>2, <2>6 DEF Tracked, Heard, Lost
  <2>8. SlipType'
    BY <2>2 DEF SlipInv, SlipType
  <2> QED
    BY <2>3, <2>4, <2>5, <2>7, <2>8 DEF Tracked, Heard, SlipInv
<1> QED
  BY <1>1, <1>2

LEMMA SlipAlways == SlipSpec => []SlipInv
<1>1. SlipInit => SlipInv
  BY NoiseMarked
<1>2. SlipInv /\ [SlipNext]_slipVars => SlipInv'
  BY SlipStep
<1> QED
  BY <1>1, <1>2, PTL DEF SlipSpec

\* Whatever the frames, the sizes and the bounds, a call returns a frame that
\* was sent, in the order they were sent, and the whole of what fits the buffer
\* when none was cut off.
THEOREM FramesAreGenuine == SlipSpec => []Genuine
<1>1. SlipInv => Genuine
  <2> SUFFICES ASSUME SlipInv PROVE Genuine
    OBVIOUS
  <2>1. PICK trace, cut, at : Tracked(trace, cut, at)
    BY DEF SlipInv
  <2> DEFINE m == trace[1]
  <2>2. Returned(m, at)
    BY <2>1 DEF Tracked, Heard
  <2> QED
    BY <2>2 DEF Returned, Genuine
<1> QED
  BY <1>1, SlipAlways, PTL

\* Whatever was given up or cut off, no more frames are lost than the one of
\* each call given up, two for each frame cut off and the one being read.
THEOREM LossStaysBounded == SlipSpec => []LossIsBounded
<1>1. SlipInv => LossIsBounded
  <2> SUFFICES ASSUME SlipInv, line = <<>>
               PROVE  Len(sent) - Len(delivered) <= aborts + 2 * cuts + (IF InBody THEN 1 ELSE 0)
    BY DEF LossIsBounded, InBody
  <2>1. PICK trace, cut, at : Tracked(trace, cut, at)
    BY DEF SlipInv
  <2> DEFINE m == trace[1]
             f == sent[trace[1].frame]
             b == CutBefore(cut, m.frame)
  <2>2. Marked(trace, cut) /\ Lost(m, cut)
    BY <2>1 DEF Tracked, Heard
  <2>3. Len(trace) = 1
    BY <2>2 DEF Marked
  <2>4. m.frame = Len(sent) /\ Leaves(m, f, cut)
    BY <2>2, <2>3 DEF Marked
  <2>5. /\ Len(sent) \in Nat /\ Len(delivered) \in Nat /\ aborts \in Nat /\ cuts \in Nat
        /\ \A k \in 1 .. Len(sent) : sent[k] \in Seq(Octet)
    BY FramesAssumption DEF SlipInv, SlipType
  <2>6. Settled(m) <= Len(delivered) + aborts + 2 * b /\ cut \in SUBSET (1 .. Len(sent)) /\ Cardinality(cut) = cuts
    BY <2>2 DEF Lost
  <2> HIDE DEF m, f
  <2>7. b \in Nat /\ b <= cuts /\ (m.frame \in cut => b + 1 <= cuts)
    <3>1. m.frame \in Nat
      BY <2>4, <2>5
    <3> QED
      BY <2>5, <2>6, <3>1, CutsCounted
  <2> HIDE DEF b
  <2>8. CASE Settled(m) = m.frame
    BY <2>4, <2>5, <2>6, <2>7, <2>8
  <2>9. CASE InBody
    BY <2>4, <2>5, <2>6, <2>7, <2>9 DEF Settled
  <2>10. CASE Settled(m) # m.frame /\ ~InBody
    <3>1. m.frame > 0 /\ m.place = 0 /\ Settled(m) = m.frame - 1
      BY <2>10 DEF Settled
    <3>2. ~Closes(m, f)
      <4>1. f \in Seq(Octet)
        BY <2>4, <2>5, <3>1 DEF f, m
      <4> QED
        BY <3>1, <4>1 DEF Closes
    <3>3. m.frame \in cut
      BY <2>4, <3>1, <3>2 DEF Leaves
    <3> QED
      BY <2>4, <2>5, <2>6, <2>7, <3>1, <3>3
  <2> QED
    BY <2>8, <2>9, <2>10
<1> QED
  BY <1>1, SlipAlways, PTL
=============================================================================
