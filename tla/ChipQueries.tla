----------------------------- MODULE ChipQueries -----------------------------
(***************************************************************************)
(* What the library finds out about a target by reading its registers: its *)
(* name (loader_detect_chip), its security information, the pins of its    *)
(* flash (loader_read_spi_config), its MAC address (loader_read_mac) and,  *)
(* by SpiFlashCommand, the size of its flash.  Each is one exchange or     *)
(* several, any of which may time out; the conversions are those of        *)
(* Targets.  The operations take turns on the same registers.              *)
(*                                                                         *)
(* The target is one of the table's chips with one of its magic values, a  *)
(* MAC address, and pins for the flash in its efuses or none.              *)
(***************************************************************************)
EXTENDS SpiFlashCommand

CONSTANTS
  PinSets,   \* what may be burnt: the numbers of the five pins of the flash
  InfoChips  \* targets that know GET_SECURITY_INFO

\* A configuration has six bits for each pin.
PinType == [clk : 0 .. 63, q : 0 .. 63, d : 0 .. 63, cs : 0 .. 63, hd : 0 .. 63]
ASSUME PinsAssumption == PinSets \subseteq PinType

VARIABLES
  die,     \* the target: its magic value, its efuses
  query,   \* the operation under way and the words it has read
  target,  \* s_target
  told     \* what the last query returned to its caller

queryVars == <<die, query, target, told>>
flashVars == <<pc, saved, trials, data, result, calls, chip, reg, busy, id, unbroken>>

NoQuery == [op |-> "none", words |-> <<>>]
Told(op, outcome, value) == [op |-> op, outcome |-> outcome, value |-> value]

Blank == [clk |-> 0, q |-> 0, d |-> 0, cs |-> 0, hd |-> 0]
Mac   == <<1, 2, 3, 4, 5, 6>>

\* The five bits of an ESP32 leave out GPIO 30 and 31 (adjust_pin_number).
Burnable == IF chip = "ESP32_CHIP" THEN 0 .. 29 \cup {32, 33} ELSE 0 .. 63

QueryInit ==
  /\ Init
  /\ die \in [magic : {i \in 1 .. 4 : \E c \in Chips : EspTarget[c].magics[i] # Zero},
              pins : PinSets \cup {Blank}]
  /\ EspTarget[chip].magics[die.magic] # Zero
  /\ \A pin \in DOMAIN die.pins : die.pins[pin] \in Burnable
  /\ query = NoQuery
  /\ target = UnknownChip
  /\ told = Told("none", "none", 0)

-----------------------------------------------------------------------------
(* The target (external): how its efuses hold the pins and the MAC. *)

\* The number an ESP32 has for a pin in five bits.
EfuseNumber(n) == IF n >= 32 THEN n - 2 ELSE n

Word(n) ==
  LET p == die.pins
      packed == Packed(p.clk, p.q, p.d, p.cs, p.hd)
  IN  CASE n = "word5"  -> EfuseNumber(p.clk) + EfuseNumber(p.q) * 2 ^ 5
                     + EfuseNumber(p.d) * 2 ^ 10 + EfuseNumber(p.cs) * 2 ^ 15
        [] n = "word3"  -> EfuseNumber(p.hd)
        [] n = "word18" -> packed % 2 ^ 16
        [] n = "word19" -> packed \div 2 ^ 16
        [] n = "mac"  -> <<Mac[3], Mac[4], Mac[5], Mac[6]>>
        [] n = "mac4" -> <<99, 99, Mac[1], Mac[2]>>

Security ==
  [flags |-> {0, 8}, key_purposes |-> [k \in 1 .. 7 |-> IF k = 1 THEN {0, 1, 2} ELSE {}],
   chip_id |-> EspTarget[chip].id, eco_version |-> 1]
SecuritySize == IF chip = "ESP32S2_CHIP" THEN FullInfo - 8 ELSE FullInfo

-----------------------------------------------------------------------------
(* The queries. *)

\* The words an operation reads, in the order of the code.
Reads(op) ==
  CASE op = "mac" -> <<"mac", "mac4">>
    [] op = "pins" /\ EspTarget[target].read_spi_config = "esp32"   -> <<"word5", "word3">>
    [] op = "pins" /\ EspTarget[target].read_spi_config = "esp32xx" -> <<"word18", "word19">>
    [] OTHER -> <<>>

\* Its result, from these words.
Converted(op, words) ==
  CASE op = "mac" -> MacAddress(words[1], words[2])
    [] op = "pins" /\ EspTarget[target].read_spi_config = "esp32"   ->
         SpiConfigEsp32(words[1], words[2])
    [] op = "pins" /\ EspTarget[target].read_spi_config = "esp32xx" ->
         SpiConfigEsp32xx(words[1], words[2])
    [] OTHER -> 0

\* No client asks again once it has read the flash size, short of a new
\* session; this bounds the orders considered.
Free == pc = "idle" /\ query = NoQuery /\ calls = 0

Ends(outcome, value) ==
  /\ query' = NoQuery
  /\ told' = Told(query.op, outcome, value)

\* loader_detect_chip begins with esp_loader_get_security_info.
Detect ==
  /\ Free
  /\ query' = [op |-> "detect", words |-> <<>>]
  /\ UNCHANGED <<die, target, told, flashVars>>

\* read_mac refuses an ESP8266; connect does not read the pins of one.
Ask(op) ==
  /\ Free
  /\ target \notin {UnknownChip, "INVALID_TARGET"}
  /\ IF target = "ESP8266_CHIP"
     THEN told' = Told(op, "UNSUPPORTED_CHIP", 0) /\ UNCHANGED query
     ELSE query' = [op |-> op, words |-> <<>>] /\ UNCHANGED told
  /\ UNCHANGED <<die, target, flashVars>>

\* The answer to GET_SECURITY_INFO; an error of any kind leads to the magic
\* value instead.
InfoAnswered ==
  /\ query.op = "detect"
  /\ IF chip \in InfoChips /\ SecuritySize \in InfoSizes
     THEN LET info == SecurityInfo(Security, SecuritySize)
          IN  Ends("SUCCESS", info) /\ target' = info.target_chip
     ELSE query' = [op |-> "magic", words |-> <<>>] /\ UNCHANGED <<told, target>>
  /\ UNCHANGED <<die, flashVars>>

MagicRead ==
  /\ query.op = "magic"
  /\ LET found == TargetFromMagic(EspTarget[chip].magics[die.magic])
     IN  IF found \in DOMAIN EspTarget
         THEN Ends("SUCCESS", 0) /\ target' = found
         ELSE Ends("INVALID_TARGET", 0) /\ UNCHANGED target
  /\ UNCHANGED <<die, flashVars>>

WordRead ==
  /\ query.op \in {"mac", "pins"}
  /\ Len(query.words) < Len(Reads(query.op))
  /\ query' = [query EXCEPT !.words = Append(@, Word(Reads(query.op)[Len(@) + 1]))]
  /\ UNCHANGED <<die, target, told, flashVars>>

Convert ==
  /\ query.op \in {"mac", "pins"}
  /\ Len(query.words) = Len(Reads(query.op))
  /\ Ends("SUCCESS", Converted(query.op, query.words))
  /\ UNCHANGED <<die, target, flashVars>>

\* A timeout ends the query, but that of GET_SECURITY_INFO only leads on.
ReadFails ==
  /\ \/ query.op = "detect" /\ query' = [op |-> "magic", words |-> <<>>] /\ UNCHANGED told
     \/ query.op = "magic" /\ Ends("TIMEOUT", 0)
     \/ /\ query.op \in {"mac", "pins"}
        /\ Len(query.words) < Len(Reads(query.op))
        /\ Ends("TIMEOUT", 0)
  /\ UNCHANGED <<die, target, flashVars>>

-----------------------------------------------------------------------------
QueryHost == InfoAnswered \/ MagicRead \/ WordRead \/ Convert

\* The flash size is detected for a known target only.
QueryNext ==
  \/ Detect \/ Ask("mac") \/ Ask("pins")
  \/ QueryHost \/ ReadFails
  \/ /\ query = NoQuery /\ target \in SupportedChips
     /\ DetectSize
     /\ told' = Told("none", "none", 0)
     /\ UNCHANGED <<die, query, target>>
  \/ (Host \/ ExchangeFails \/ ChipDone) /\ UNCHANGED queryVars

QuerySpec ==
  /\ QueryInit
  /\ [][QueryNext]_<<flashVars, queryVars>>
  /\ WF_<<flashVars, queryVars>>(Host /\ UNCHANGED queryVars)

-----------------------------------------------------------------------------
(* Properties *)

\* What is converted from two efuse words is what the chip has there.  The
\* configuration SPI_ATTACH is given names the chip's pins, or it is 0, the
\* default pins: when none are burnt, when the chip has no choice, or, on an
\* ESP32, when the pins it compares are not distinct.  The MAC address has
\* its six bytes in order.
EfusesAreUnderstood ==
  LET p == die.pins
      distinct == p.clk \notin {p.cs, p.d, p.q} /\ p.q \notin {p.cs, p.d}
      config == Packed(p.clk, p.q, p.d, p.cs, p.hd)
  IN  told.outcome = "SUCCESS" =>
        CASE told.op = "mac" -> told.value = Mac
          [] told.op = "pins" -> told.value =
               (CASE chip \in {"ESP32H2_CHIP", "ESP32C6_CHIP"} -> 0
                  [] chip = "ESP32_CHIP" -> IF distinct THEN config ELSE 0
                  [] OTHER -> config)
          [] OTHER -> TRUE
=============================================================================
