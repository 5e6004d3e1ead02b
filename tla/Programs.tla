------------------------------- MODULE Programs -------------------------------
(***************************************************************************)
(* The example programs of the repository, from power-up to the log of the *)
(* target they show: the calls of each main in order, what connect_to_     *)
(* target, connect_to_target_with_stub and the other functions of          *)
(* example_common.c make of them, the pins and the rate of the port, and   *)
(* the target at the other end of the wires.                               *)
(*                                                                         *)
(* A program is the sequence of the operations it has still to do; a call  *)
(* puts the operations it consists of in its place.  The exchanges of a    *)
(* library call are one step here, with the outcomes the other modules     *)
(* give the call.                                                          *)
(***************************************************************************)
EXTENDS Ports, Targets

CONSTANTS
  Mains,   \* the programs, see MainNames
  Rates    \* rates the user may give to the lx16 program

MainNames ==
  {"esp32_example", "esp32_stub_example", "esp32_load_ram_example", "esp32_spi_load_ram_example",
   "esp32_get_target_info_example", "raspberry_example", "pi_pico_example", "zephyr_example",
   "stm32_example", "lx16"}

ASSUME MainsAssumption == Mains \subseteq MainNames
ASSUME RatesAssumption == Rates \subseteq Nat \ {0}

\* The rate at which the boot message and the application print.
ConsoleRate == 115200

VARIABLES
  main,     \* the program, with the options it was given; fixed
  chip,     \* the chip attached; fixed
  inverted, \* the wiring inverts the pins, and so SERIAL_FLASHER_*_INVERT; fixed
  todo,     \* what the program has still to do
  port,     \* the port, see Ports
  pins,     \* levels at the host's end, or Floating
  sysfs,    \* the files the pin library of the lx16 writes
  target,   \* what runs on the target and at which rate it talks
  flash,    \* the image at each address of its flash that is written
  mishaps   \* history: "left" when the program gave up with the pins as they
            \* were, "ignored" when the pin library failed and nobody noticed

programVars == <<main, chip, inverted, todo, port, pins, sysfs, target, flash, mishaps>>
fixed == <<main, chip, inverted>>

Straps == {"strap0", "strap1", "strap2", "strap3"}

Loader == {"rom", "stub"}

\* A pin that is an input; its pull-up releases the line.
Floating == 2

-----------------------------------------------------------------------------
(* The programs *)

Op(name, arg) == <<name, arg>>
Call(name) == <<name, 0>>

\* get_example_binaries: where the three images of a chip go.
BootloaderAddress(c) == IF c \in {"ESP8266_CHIP", "ESP32_CHIP", "ESP32S2_CHIP"} THEN \h1000 ELSE 0
PartitionAddress   == \h8000
ApplicationAddress == \h10000
OtaDataAddress     == \hd000

Addresses == {0, \h1000, PartitionAddress, OtaDataAddress, ApplicationAddress}

\* Flashing the three images ignores what each flash_binary returns.
FlashImages ==
  <<Op("flash", BootloaderAddress(chip)), Op("flash", PartitionAddress),
    Op("flash", ApplicationAddress)>>

\* slave_monitor sets the rate of the UART back before it reads.
Mut_SlaveMonitor == <<Call("delay"), Call("monitor")>>
SlaveMonitor == <<Call("delay"), Op("host_rate", 115200), Call("monitor")>>

Esp32Example ==
  <<Op("init", 115200), Op("connect", 230400)>> \o FlashImages \o <<Call("reset")>> \o SlaveMonitor

Esp32StubExample ==
  <<Op("init", 115200), Op("connect_with_stub", 230400)>> \o FlashImages \o <<Call("reset")>> \o SlaveMonitor

\* The rate is the one in use, so that the monitor does not set it.
Esp32LoadRamExample ==
  <<Op("init", 115200), Op("connect", 115200), Call("ram_binary"), Call("load_ram"), Call("monitor")>>

\* The log comes over a UART of its own.
Esp32SpiLoadRamExample ==
  <<Op("init", 0), Op("connect", 0), Call("ram_binary"), Call("load_ram"), Op("open_uart", 115200),
    Call("monitor")>>

Esp32GetTargetInfo ==
  <<Op("init", 115200), Op("connect", 230400), Call("query"), Call("query"), Call("query")>>

RaspberryExample ==
  <<Op("init", 115200), Op("connect", 460800)>> \o FlashImages
    \o <<Call("reset"), Call("deinit"), Op("open_uart", 115200), Call("delay"), Call("monitor")>>

PiPicoExample ==
  <<Op("init", 115200), Op("connect", 230400)>> \o FlashImages
    \o <<Call("reset"), Call("deinit"), Call("delay"), Op("open_uart", 115200), Call("monitor")>>

\* Its devices must be ready before it drives the pins itself.  The only
\* program that resets the target after a failed connect too.
ZephyrExample ==
  <<Call("devices"), Op("board_pins", [boot |-> 1, reset |-> 0])>>
    \o (<<Op("init", 115200), Op("connect", 230400)>> \o FlashImages \o <<Call("reset")>>)

\* MX_GPIO_Init and the two MX_USART_UART_Init come before the port.
Stm32Example ==
  <<Op("board_pins", [boot |-> 0, reset |-> 0]), Call("board_uart")>>
    \o (<<Op("init", 115200), Op("connect", 230400)>> \o FlashImages
          \o <<Call("reset"), Op("open_uart", 115200), Call("delay"), Call("monitor")>>)

\* -w flashes the example images, else four files go to an ESP32-C6.
Lx16Images(hello) ==
  IF hello THEN FlashImages
  ELSE <<Call("only_c6"),
         Call("file"), Op("flash", 0), Call("file"), Op("flash", PartitionAddress),
         Call("file"), Op("flash", OtaDataAddress), Call("file"), Op("flash", ApplicationAddress)>>

\* -p0 to -p2 only switch the power.  The log is read at the rate of the option -b.
Lx16(power, hello, rate) ==
  <<Op("init", rate)>> \o
  CASE power = "0" -> <<Pin("reset", 0), Pin("boot", 1)>>
    [] power = "1" -> <<Call("reset")>>
    [] power = "2" -> <<Call("enter_bootloader")>>
    [] power = "none" ->
         <<Op("connect", 115200)>> \o Lx16Images(hello)
           \o <<Call("reset"), Call("deinit"), Op("open_uart", rate), Call("monitor")>>

Lx16Options == [name : {"lx16"}, power : {"none", "0", "1", "2"}, hello : BOOLEAN, rate : Rates]

MainOptions ==
  {[name |-> m, power |-> "none", hello |-> TRUE, rate |-> 115200] : m \in Mains \ {"lx16"}}
    \cup {o \in Lx16Options : o.name \in Mains}

Steps(m) ==
  CASE m.name = "esp32_example" -> Esp32Example
    [] m.name = "esp32_stub_example" -> Esp32StubExample
    [] m.name = "esp32_load_ram_example" -> Esp32LoadRamExample
    [] m.name = "esp32_spi_load_ram_example" -> Esp32SpiLoadRamExample
    [] m.name = "esp32_get_target_info_example" -> Esp32GetTargetInfo
    [] m.name = "raspberry_example" -> RaspberryExample
    [] m.name = "pi_pico_example" -> PiPicoExample
    [] m.name = "zephyr_example" -> ZephyrExample
    [] m.name = "stm32_example" -> Stm32Example
    [] m.name = "lx16" -> Lx16(m.power, m.hello, m.rate)

\* The ports that are built with each program.
Spi  == main.name = "esp32_spi_load_ram_example"
Lx   == main.name = "lx16"
Pico == main.name = "pi_pico_example"
SerialDevice == main.name \in {"raspberry_example", "lx16"}
Esp32Ports ==
  {"esp32_example", "esp32_stub_example", "esp32_load_ram_example", "esp32_get_target_info_example"}

\* Does the program give up when its port cannot be initialised?
Checked == main.name \notin {"raspberry_example", "pi_pico_example", "lx16"}

Inits(rate) ==
  CASE main.name \in Esp32Ports -> Esp32Init(rate)
    [] SerialDevice -> RaspberryInit(rate)
    [] Pico -> PiPicoInit(rate)
    [] main.name = "zephyr_example" -> ZephyrInit(rate)
    [] main.name = "stm32_example" -> Stm32Init(rate)
    [] Spi -> SpiInit

RateChanges(rate) ==
  CASE main.name \in Esp32Ports -> Esp32Rate(port, rate)
    [] SerialDevice -> RaspberryRate(port, rate)
    [] Pico -> PiPicoRate(port, rate)
    [] main.name = "zephyr_example" -> ZephyrRate(port, rate)
    [] main.name = "stm32_example" -> Stm32Rate(port, rate)

\* What is left to do when connect_to_target fails.
AfterFailure == IF main.name = "zephyr_example" THEN <<Call("reset")>> ELSE <<>>

ProgramInit ==
  /\ main \in MainOptions
  /\ chip \in {ChipNames[i] : i \in 1 .. Len(ChipNames)} \ {"ESP32_RESERVED0_CHIP"}
  /\ inverted \in BOOLEAN
  /\ inverted => ~Spi /\ ~Lx
  /\ todo = Steps(main)
  /\ port = Closed
  /\ pins = [p \in {"reset", "boot"} \cup Straps |-> Floating]
  /\ sysfs = [bound |-> 1, power |-> 1, flashing |-> 0]
  /\ target = [runs |-> "old", rate |-> ConsoleRate]
  /\ flash = [a \in Addresses |-> "old"]
  /\ mishaps = {}

-----------------------------------------------------------------------------
(* The target (external) *)

\* Is a line of the target low, the pins being at the levels p?
Low(p, pin) == IF inverted THEN p[pin] = 1 ELSE p[pin] = 0

\* The ROM is entered when the lines say so as the target comes out of reset.
Strapped ==
  IF Spi THEN [s \in Straps |-> pins[s]] = [s \in Straps |-> IF s = "strap0" THEN 1 ELSE 0]
         ELSE Low(pins, "boot")

\* What the ROM finds where it looks for it.
Application ==
  LET images == {flash[a] : a \in {BootloaderAddress(chip), PartitionAddress, ApplicationAddress}}
  IN  CASE images = {"new"} -> "new"
        [] images = {"old"} -> "old"
        [] OTHER -> "broken"

\* The reset line holds the target or lets it start.
Driven(p) ==
  target' = CASE Low(p, "reset") -> [target EXCEPT !.runs = "held"]
              [] ~Low(p, "reset") /\ target.runs = "held" -> [target EXCEPT !.runs = "starting"]
              [] OTHER -> target

\* The ROM finds the rate of the host while it is being synchronised.
TargetStarts ==
  /\ target.runs = "starting"
  /\ target' = IF Strapped THEN [runs |-> "rom", rate |-> 0]
                           ELSE [runs |-> Application, rate |-> ConsoleRate]
  /\ UNCHANGED <<fixed, todo, port, pins, sysfs, flash, mishaps>>

\* The two ends understand each other.
Heard == port.open /\ target.runs \in Loader /\ target.rate = port.rate

-----------------------------------------------------------------------------
(* The operations *)

Due(name) == todo # <<>> /\ Head(todo)[1] = name
Arg  == Head(todo)[2]
Goes == todo' = Tail(todo)
Fails == todo' = AfterFailure
Expands(ops) == todo' = ops \o Tail(todo)

\* The program ends here, or stands still: with the pins as they are.
GivesUp ==
  /\ todo' = <<>>
  /\ mishaps' = mishaps \cup IF pins["reset"] = Floating THEN {} ELSE {"left"}

\* What the programs for Zephyr and STM32 do before they initialise the port:
\* the pins become outputs at a level of the program's, and the initialisation
\* of a UART may end in Error_Handler, a loop that does nothing.
BoardPins ==
  /\ Due("board_pins")
  /\ pins' = [pins EXCEPT !["reset"] = Arg.reset, !["boot"] = Arg.boot]
  /\ Driven(pins')
  /\ Goes
  /\ UNCHANGED <<fixed, port, sysfs, flash, mishaps>>

BoardUart ==
  /\ Due("board_uart")
  /\ \/ Goes /\ UNCHANGED mishaps
     \/ GivesUp
  /\ UNCHANGED <<fixed, port, pins, sysfs, target, flash>>

\* The pins become outputs: at a level of the ports' choice, or at the one
\* their register happens to hold.
PinsDriven ==
  CASE main.name \in Esp32Ports \cup {"pi_pico_example", "raspberry_example"} ->
         {[pins EXCEPT !["reset"] = r, !["boot"] = b] : r \in {0, 1}, b \in {0, 1}}
    [] Spi -> {[pins EXCEPT !["reset"] = 1]}
    [] OTHER -> {pins}

InitPort ==
  /\ Due("init")
  /\ \E o \in Inits(Arg) :
       /\ port' = o.port
       /\ \/ o.ok /\ Goes /\ UNCHANGED mishaps /\ \E p \in PinsDriven : pins' = p /\ Driven(p)
          \/ /\ ~o.ok
             /\ \/ Checked /\ GivesUp
                \/ ~Checked /\ Goes /\ UNCHANGED mishaps
             /\ UNCHANGED <<pins, target>>
  /\ UNCHANGED <<fixed, sysfs, flash>>

WritePin ==
  /\ Due("pin") /\ ~Lx
  /\ Goes
  /\ \/ /\ port.pins \/ main.name = "stm32_example"
        /\ pins' = [pins EXCEPT ![Arg.pin] = Arg.level]
        /\ Driven(pins')
     \/ ~port.pins /\ main.name # "stm32_example" /\ UNCHANGED <<pins, target>>
  /\ UNCHANGED <<fixed, port, sysfs, flash, mishaps>>

\* gpioRead of the boot pin: the file holds the opposite of the level.  A file
\* that cannot be opened reads as an error, which counts as a level other than
\* 0; one without a number in it reads as 0.
Reading(level, noticed) == [level |-> level, noticed |-> noticed]
Mut_GpioRead == {Reading(sysfs.flashing, TRUE), Reading(1, FALSE), Reading(0, FALSE)}
GpioRead == {Reading(1 - sysfs.flashing, TRUE), Reading(1, FALSE), Reading(0, FALSE)}

File(file, value) == <<"write_file", [file |-> file, value |-> value]>>

\* gpioWrite of the library of the lx16.  Power is switched by unbinding and
\* binding the driver of the wireless module, by hand while it is flashed.
GpioWrite ==
  /\ Due("pin") /\ Lx
  /\ \/ /\ Arg.pin = "boot"
        /\ Expands(<<File("flashing", IF Arg.level = 0 THEN 1 ELSE 0)>>)
        /\ UNCHANGED mishaps
     \/ /\ Arg.pin = "reset" /\ Arg.level = 0
        /\ Expands(<<File("bound", 0), File("power", 0)>>)
        /\ UNCHANGED mishaps
     \/ /\ Arg.pin = "reset" /\ Arg.level = 1
        /\ \E r \in GpioRead :
             /\ Expands(IF r.level = 1 THEN <<File("bound", 1)>> ELSE <<File("power", 1)>>)
             /\ mishaps' = mishaps \cup IF r.noticed THEN {} ELSE {"ignored"}
  /\ UNCHANGED <<fixed, port, pins, sysfs, target, flash>>

\* What the kernel makes of a file that is written (external).  Binding the
\* driver switches the power on, unbinding it may switch it off.
Written(file, value) ==
  CASE file = "bound" /\ value = 0 -> {[sysfs EXCEPT !.bound = 0, !.power = p] : p \in {sysfs.power, 0}}
    [] file = "bound" /\ value = 1 -> {IF sysfs.bound = 1 THEN sysfs ELSE [sysfs EXCEPT !.bound = 1, !.power = 1]}
    [] file # "bound" -> {[sysfs EXCEPT ![file] = value]}

\* One file of gpioWrite: opened and written, opened and not written, which
\* nobody looks at, or not opened, which ends the program.
WriteFile ==
  /\ Due("write_file")
  /\ \/ sysfs' \in Written(Arg.file, Arg.value) /\ Goes /\ UNCHANGED mishaps
     \/ UNCHANGED sysfs /\ Goes /\ mishaps' = mishaps \cup {"ignored"}
     \/ UNCHANGED sysfs /\ GivesUp
  /\ pins' = [pins EXCEPT !["reset"] = sysfs'.power, !["boot"] = 1 - sysfs'.flashing]
  /\ Driven(pins')
  /\ UNCHANGED <<fixed, port, flash>>

\* The hold times and delays are long enough for the target to start.
Wait ==
  /\ Due("hold") \/ Due("delay")
  /\ target.runs # "starting"
  /\ Goes
  /\ UNCHANGED <<fixed, port, pins, sysfs, target, flash, mishaps>>

\* Around the reset of the SPI port: the bus and its device go and come back.
SpiBus ==
  /\ Due("bus_down") \/ Due("bus_up")
  /\ port' = [port EXCEPT !.open = Due("bus_up")]
  /\ Goes
  /\ UNCHANGED <<fixed, pins, sysfs, target, flash, mishaps>>

FloatStraps ==
  /\ Due("float_straps")
  /\ pins' = [p \in DOMAIN pins |-> IF p \in Straps THEN Floating ELSE pins[p]]
  /\ Goes
  /\ UNCHANGED <<fixed, port, sysfs, target, flash, mishaps>>

Reset ==
  /\ Due("reset")
  /\ Expands(IF Spi THEN SpiResetTarget ELSE PortResetTarget(inverted))
  /\ UNCHANGED <<fixed, port, pins, sysfs, target, flash, mishaps>>

EnterTarget ==
  /\ Due("enter_bootloader")
  /\ Expands(IF Spi THEN SpiEnterBootloader ELSE PortEnterBootloader(inverted))
  /\ UNCHANGED <<fixed, port, pins, sysfs, target, flash, mishaps>>

\* connect_to_target: no rate, or the rate of an ESP8266, changes nothing.
Mut_ConnectToTarget ==
  /\ Due("connect")
  /\ Expands(<<Call("enter_bootloader"), Call("synchronise")>>
       \o (IF Arg # 0 /\ chip # "ESP8266_CHIP"
           THEN <<Op("port_rate", Arg), Op("target_rate", Arg)>> ELSE <<>>))
  /\ UNCHANGED <<fixed, port, pins, sysfs, target, flash, mishaps>>
ConnectToTarget ==
  /\ Due("connect")
  /\ Expands(<<Call("enter_bootloader"), Call("synchronise")>>
       \o (IF Arg # 0 /\ chip # "ESP8266_CHIP"
           THEN <<Op("target_rate", Arg), Op("port_rate", Arg)>> ELSE <<>>))
  /\ UNCHANGED <<fixed, port, pins, sysfs, target, flash, mishaps>>

ConnectToTargetWithStub ==
  /\ Due("connect_with_stub")
  /\ Expands(<<Call("enter_bootloader"), Call("synchronise"), Call("run_stub"),
               Op("target_rate", Arg), Op("port_rate", Arg)>>)
  /\ UNCHANGED <<fixed, port, pins, sysfs, target, flash, mishaps>>

\* esp_loader_connect behind the reset; any of its exchanges may fail.
Synchronise ==
  /\ Due("synchronise")
  /\ \/ /\ port.open /\ target.runs = "rom"
        /\ target' = [target EXCEPT !.rate = port.rate]
        /\ Goes \/ Fails
     \/ ~(port.open /\ target.runs = "rom") /\ Fails /\ UNCHANGED target
  /\ UNCHANGED <<fixed, port, pins, sysfs, flash, mishaps>>

\* loader_run_stub (RamDownload); the ESP8266 has none.
LoaderRunStub ==
  /\ Due("run_stub")
  /\ \/ Heard /\ chip # "ESP8266_CHIP" /\ target' = [target EXCEPT !.runs = "stub"] /\ (Goes \/ Fails)
     \/ Fails /\ UNCHANGED target
  /\ UNCHANGED <<fixed, port, pins, sysfs, flash, mishaps>>

\* esp_loader_change_transmission_rate and _stub: the target answers and then
\* changes its rate, though the answer may be lost.
TargetRate ==
  /\ Due("target_rate")
  /\ \/ Heard /\ target' = [target EXCEPT !.rate = Arg] /\ (Goes \/ Fails)
     \/ Fails /\ UNCHANGED target
  /\ UNCHANGED <<fixed, port, pins, sysfs, flash, mishaps>>

PortRate ==
  /\ Due("port_rate")
  /\ \E o \in RateChanges(Arg) :
       /\ port' = o.port
       /\ IF o.ok THEN Goes ELSE Fails
  /\ UNCHANGED <<fixed, pins, sysfs, target, flash, mishaps>>

\* get_example_ram_app_binary aborts for a chip without an application, the
\* lx16 program asks for its chip and its files, that for Zephyr for its devices.
HasRamApp(c) == c \notin {"ESP8266_CHIP", "ESP32S2_CHIP", "ESP32_RESERVED0_CHIP"}

FindNeeds ==
  /\ \/ Due("ram_binary") /\ IF HasRamApp(chip) THEN Goes ELSE todo' = <<>>
     \/ Due("only_c6") /\ IF chip = "ESP32C6_CHIP" THEN Goes ELSE todo' = <<>>
     \/ (Due("file") \/ Due("devices")) /\ (Goes \/ todo' = <<>>)
  /\ UNCHANGED <<fixed, port, pins, sysfs, target, flash, mishaps>>

\* flash_binary (FlashSession): done, begun, or not begun; all go on.
FlashBinary ==
  /\ Due("flash")
  /\ \E state \in IF Heard THEN {"new", "broken", flash[Arg]} ELSE {flash[Arg]} :
       flash' = [flash EXCEPT ![Arg] = state]
  /\ Goes
  /\ UNCHANGED <<fixed, port, pins, sysfs, target, mishaps>>

\* load_ram_binary (RamDownload): the application runs, or the program ends
\* with whatever the target has been told.
LoadRam ==
  /\ Due("load_ram")
  /\ \/ Heard /\ target' = [runs |-> "ram", rate |-> ConsoleRate] /\ (Goes \/ todo' = <<>>)
     \/ todo' = <<>> /\ UNCHANGED target
  /\ UNCHANGED <<fixed, port, pins, sysfs, flash, mishaps>>

\* The queries of the information example (ChipQueries) fail without effect.
Query ==
  /\ Due("query")
  /\ Goes
  /\ UNCHANGED <<fixed, port, pins, sysfs, target, flash, mishaps>>

\* The port is given back; the Pico gives back its pins with it.
Deinit ==
  /\ Due("deinit")
  /\ port' = IF port.owned THEN Closed ELSE [port EXCEPT !.pins = FALSE]
  /\ pins' = IF Pico THEN [pins EXCEPT !["reset"] = Floating, !["boot"] = Floating] ELSE pins
  /\ Driven(pins')
  /\ Goes
  /\ UNCHANGED <<fixed, sysfs, flash, mishaps>>

\* slave_monitor does not look at what uart_set_baudrate returns.
HostRate ==
  /\ Due("host_rate")
  /\ \E got \in {Arg, port.rate} : port' = AtRate(port, got, Arg)
  /\ Goes
  /\ UNCHANGED <<fixed, pins, sysfs, target, flash, mishaps>>

\* The UART is opened again for the log.  serOpen and uart_init may keep
\* another rate; where serOpen fails the program reads from nothing; and the
\* ESP32, the STM32 and, when the pin library fails, the Raspberry go no further.
OpenUart ==
  /\ Due("open_uart")
  /\ \/ /\ \E got \in {Arg} \cup IF Pico \/ SerialDevice THEN {DeviceRate} ELSE {} :
             port' = AtRate([port EXCEPT !.open = TRUE], got, Arg)
        /\ Goes
     \/ SerialDevice /\ port' = [port EXCEPT !.open = FALSE] /\ Goes
     \/ ~Lx /\ ~Pico /\ port' = [port EXCEPT !.open = FALSE] /\ todo' = <<>>
  /\ UNCHANGED <<fixed, pins, sysfs, target, flash, mishaps>>

\* A program that is over, or reads the log for ever.
Over == (todo = <<>> \/ Due("monitor")) /\ target.runs # "starting" /\ UNCHANGED programVars

ProgramNext ==
  \/ TargetStarts \/ Over
  \/ BoardPins \/ BoardUart \/ InitPort \/ WritePin \/ GpioWrite \/ WriteFile
  \/ Wait \/ SpiBus \/ FloatStraps \/ Reset \/ EnterTarget
  \/ ConnectToTarget \/ ConnectToTargetWithStub \/ Synchronise \/ LoaderRunStub
  \/ TargetRate \/ PortRate
  \/ FindNeeds \/ FlashBinary \/ LoadRam \/ Query \/ Deinit \/ HostRate \/ OpenUart

ProgramSpec == ProgramInit /\ [][ProgramNext]_programVars

-----------------------------------------------------------------------------
(* Properties *)

Monitoring == Due("monitor")
Ended == todo = <<>>

\* After a successful connect every command of every program goes through an
\* open port to a loader that runs, and at the rate the target listens at,
\* though either end of the change of the rate may fail with or without
\* effect.  Only the rate is wrong, and only behind a port that reported a
\* change it had not made.
Exchanges == {"run_stub", "target_rate", "flash", "load_ram", "query"}
ExchangesHeard ==
  todo # <<>> /\ Head(todo)[1] \in Exchanges =>
    port.open /\ target.runs \in Loader /\ (target.rate = port.rate \/ port.misled)

\* A program that could open its UART for the log reads it at the rate it is
\* printed at, and it is the log of the RAM application or of what the flash
\* holds after all flash_binary calls.  The lx16 program keeps to this only at
\* the rate of the console, and as far as the files of its pin library work;
\* a rate that was refused without a word is not the one that was asked for.
LogIsReadable ==
  Monitoring /\ port.open /\ ~port.misled /\ main.rate = ConsoleRate /\ "ignored" \notin mishaps =>
    port.rate = ConsoleRate /\ target.runs \in {"starting", "ram", Application}

\* However a program ends, a later power cycle starts the application: the
\* boot line is released and the target is not held in reset.  Not so when its
\* user has switched it off, when the program gave up after it had driven the
\* pins, and when the pin library failed without a word.
BoardIsLeftUsable ==
  Ended /\ main.power # "0" /\ mishaps = {} => ~Low(pins, "boot") /\ target.runs # "held"

\* The driver of the wireless module is bound while its new application runs
\* and never while the target is in its boot loader, also when the program
\* ends between two files; unless one of them could not be read or written
\* and nobody noticed.
DriverStaysAway ==
  Lx /\ "ignored" \notin mishaps =>
    /\ target.runs \in Loader => sysfs.bound = 0
    /\ target.runs \in {"new", "broken"} => sysfs.bound = 1
=============================================================================
