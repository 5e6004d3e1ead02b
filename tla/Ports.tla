-------------------------------- MODULE Ports --------------------------------
(***************************************************************************)
(* What the ports do to the board beside moving bytes: the sequences that  *)
(* put the target into its boot loader or reset it, what initialising a    *)
(* port can come to, and what changing its rate can come to.  The module   *)
(* gives these as data, Programs carries them out.                         *)
(*                                                                         *)
(* A sequence is a sequence of operations <<name, argument>>.  A port is a *)
(* record: is the interface open, at which rate, does the pin library      *)
(* work, will deinit close the interface, and is the rate another one than *)
(* the last change of it was said to have set.                             *)
(***************************************************************************)
EXTENDS Naturals, Sequences

Pin(pin, level) == <<"pin", [pin |-> pin, level |-> level]>>
Hold  == <<"hold", 0>>      \* loader_port_delay_ms of one of the hold times

Closed == [open |-> FALSE, rate |-> 0, pins |-> FALSE, owned |-> FALSE, misled |-> FALSE]

Outcome(ok, port) == [ok |-> ok, port |-> port]

\* A change of the rate that reports no error.
AtRate(port, got, asked) == [port EXCEPT !.rate = got, !.misled = got # asked]

-----------------------------------------------------------------------------
(* Reset and boot pins *)

\* The level of a pin that is to be asserted or released.
Level(inverted, asserted) == IF inverted = asserted THEN 1 ELSE 0

\* loader_port_reset_target of the ports with a reset pin.
PortResetTarget(inverted) ==
  <<Pin("reset", Level(inverted, TRUE)), Hold, Pin("reset", Level(inverted, FALSE))>>

\* loader_port_enter_bootloader of the same ports.
Mut_NotReleased(inverted) ==
  <<Pin("boot", Level(inverted, TRUE))>>
    \o PortResetTarget(inverted) \o <<Hold, Pin("boot", Level(FALSE, FALSE))>>
PortEnterBootloader(inverted) ==
  <<Pin("boot", Level(inverted, TRUE))>>
    \o PortResetTarget(inverted) \o <<Hold, Pin("boot", Level(inverted, FALSE))>>

\* The SPI port takes the bus down, as a strapping pin may be one of its
\* lines, straps the target with four pins and lets go of them.
SpiResetTarget == <<Pin("reset", 0), Hold, Pin("reset", 1)>>
SpiEnterBootloader ==
  <<<<"bus_down", 0>>, Pin("strap0", 1), Pin("strap1", 0), Pin("strap2", 0), Pin("strap3", 0)>>
    \o SpiResetTarget
    \o <<Hold, Pin("strap3", 1), Pin("strap0", 0), <<"float_straps", 0>>, <<"bus_up", 0>>>>

-----------------------------------------------------------------------------
(* Initialisation *)

\* Which rate it is does not mislead anyone: the boot loader finds it.
Opened(rate) == [open |-> TRUE, rate |-> rate, pins |-> TRUE, owned |-> TRUE, misled |-> FALSE]

\* Nothing is installed unless every step before the pins succeeds.
Esp32Init(rate) == {Outcome(FALSE, Closed), Outcome(TRUE, Opened(rate))}

\* The tolerance compares the error with its sign, and so only a UART that is
\* too slow is an error; the instance and the pins are not remembered then,
\* though the UART runs.  A fiftieth stands for more than a UART can follow.
TooFast(rate) == rate + rate \div 50
TooSlow(rate) == rate - rate \div 50

PiPicoInit(rate) == {Outcome(FALSE, Closed)} \cup {Outcome(TRUE, Opened(r)) : r \in {rate, TooFast(rate)}}

\* The rates termios has; any other leaves the rate of the device as it is,
\* and so does the error value, which as an unsigned number is not below 0.
TermiosRates ==
  {50, 75, 110, 134, 150, 200, 300, 600, 1200, 1800, 2400, 4800, 9600, 19200, 38400, 57600,
   115200, 230400, 460800, 500000, 576000, 921600, 1000000, 1152000, 1500000, 2000000,
   2500000, 3000000, 3500000, 4000000}

ConvertBaudrate(rate, old) == IF rate \in TermiosRates THEN rate ELSE old

\* The rate a terminal has before anyone sets it.
DeviceRate == 9600

\* Nobody notices when the terminal refuses the rate.
SerialOpen(rate) ==
  {Closed} \cup {[Opened(r) EXCEPT !.pins = FALSE] : r \in {ConvertBaudrate(rate, DeviceRate), DeviceRate}}

\* An error of the pin library leaves the device open.
RaspberryInit(rate) ==
  UNION {IF ~p.open THEN {Outcome(FALSE, p)}
         ELSE {Outcome(FALSE, p), Outcome(TRUE, [p EXCEPT !.pins = TRUE])} : p \in SerialOpen(rate)}

\* configure_tty; the device tree has given the UART its rate.
ZephyrInit(rate) == {Outcome(FALSE, Closed), Outcome(TRUE, Opened(rate))}

\* Cannot fail: the application has set up the UART and the pins.
Stm32Init(rate) == {Outcome(TRUE, Opened(rate))}

\* The bus comes first, and stays up when the device cannot be added.
SpiInit == {Outcome(FALSE, Closed), Outcome(FALSE, [Closed EXCEPT !.owned = TRUE]),
            Outcome(TRUE, Opened(0))}

-----------------------------------------------------------------------------
(* loader_port_change_transmission_rate *)

Esp32Rate(port, rate) == {Outcome(FALSE, port), Outcome(TRUE, AtRate(port, rate, rate))}

\* The field is written before HAL_UART_Init, which stops the UART first.
Stm32Rate(port, rate) ==
  {Outcome(FALSE, [port EXCEPT !.rate = rate, !.open = FALSE]),
   Outcome(TRUE, AtRate(port, rate, rate))}

\* The hardware keeps a rate the tolerance rejects.
PiPicoRate(port, rate) ==
  {Outcome(FALSE, [port EXCEPT !.rate = TooSlow(rate)]),
   Outcome(TRUE, AtRate(port, rate, rate)), Outcome(TRUE, AtRate(port, TooFast(rate), rate))}

\* No error is noticed: a rate that is unknown, or that the terminal does not
\* take, is a success that changes nothing.
RaspberryRate(port, rate) ==
  {Outcome(TRUE, AtRate(port, r, rate)) : r \in {ConvertBaudrate(rate, port.rate), port.rate}}

\* The UART is reconfigured before the terminal, which may still fail.
ZephyrRate(port, rate) ==
  {Outcome(FALSE, port), Outcome(FALSE, [port EXCEPT !.rate = rate]),
   Outcome(TRUE, AtRate(port, rate, rate))}
=============================================================================
