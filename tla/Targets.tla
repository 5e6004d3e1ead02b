------------------------------- MODULE Targets -------------------------------
(***************************************************************************)
(* What esp_targets.c knows of the chips: the table esp_target with its    *)
(* rows in the order they are searched, the searches, and the conversions  *)
(* of efuse words into SPI pins and a MAC address.  Pure operators.        *)
(*                                                                         *)
(* A 32-bit word that may exceed TLC's integers is a pair of halves; the   *)
(* words of the pin efuses are given by the bits the code looks at.        *)
(***************************************************************************)
EXTENDS Naturals, Sequences, FiniteSets

\* target_chip_t; ESP_UNKNOWN_CHIP is also the number of rows.
ChipNames ==
  <<"ESP8266_CHIP", "ESP32_CHIP", "ESP32S2_CHIP", "ESP32C3_CHIP", "ESP32S3_CHIP",
    "ESP32C2_CHIP", "ESP32_RESERVED0_CHIP", "ESP32H2_CHIP", "ESP32C6_CHIP">>
UnknownChip == "ESP_UNKNOWN_CHIP"

Zero == <<0, 0>>
ChipIdNone == 255

\* One row.  Four of the magic values are compared, the unused ones are 0.
Row(spi, usr, w0, efuse, magics, config, mac, encryption, id) ==
  [spi |-> spi, usr |-> usr, w0 |-> w0, efuse |-> efuse,
   magics |-> magics \o [i \in 1 .. 4 - Len(magics) |-> Zero],
   read_spi_config |-> config, mac |-> mac, encryption |-> encryption, id |-> id]

EspTarget ==
  [ESP8266_CHIP |-> Row(\h60000200, \h1c, \h40, 0, <<<<\hfff0, \hc101>>>>,
                        "none", 0, FALSE, ChipIdNone),
   ESP32_CHIP   |-> Row(\h3ff42000, \h1c, \h80, \h3ff5A000, <<<<\h00f0, \h1d83>>>>,
                        "esp32", \h04, FALSE, 0),
   ESP32S2_CHIP |-> Row(\h3f402000, \h18, \h58, \h3f41A000, <<<<\h0000, \h07c6>>>>,
                        "esp32xx", \h44, TRUE, 2),
   ESP32C3_CHIP |-> Row(\h60002000, \h18, \h58, \h60008800,
                        <<<<\h6921, \h506f>>, <<\h1b31, \h506f>>,
                          <<\h4881, \h606F>>, <<\h4361, \h606F>>>>,
                        "esp32xx", \h44, TRUE, 5),
   ESP32S3_CHIP |-> Row(\h60002000, \h18, \h58, \h60007000, <<<<\h0000, \h0009>>>>,
                        "esp32xx", \h44, TRUE, 9),
   ESP32C2_CHIP |-> Row(\h60002000, \h18, \h58, \h60008800,
                        <<<<\h6f51, \h306f>>, <<\h7c41, \ha06f>>>>,
                        "esp32xx", \h40, TRUE, 12),
   ESP32_RESERVED0_CHIP |-> Row(0, 0, 0, 0, <<>>, "none", 0, FALSE, ChipIdNone),
   ESP32H2_CHIP |-> Row(\h60003000, \h18, \h58, \h600B0800, <<<<\hd7b7, \h3e80>>>>,
                        "unsupported", \h44, TRUE, 16),
   ESP32C6_CHIP |-> Row(\h60003000, \h18, \h58, \h600B0800, <<<<\h2CE0, \h806F>>>>,
                        "unsupported", \h44, TRUE, 13)]

SupportedChips == DOMAIN EspTarget \ {"ESP32_RESERVED0_CHIP"}

\* target_registers_t: the registers lie behind each other, but the ESP8266
\* has no registers for the lengths of the data.
Registers(chip) ==
  LET row == EspTarget[chip]
      dlen(offset) == IF chip = "ESP8266_CHIP" THEN 0 ELSE row.spi + row.usr + offset
  IN  [cmd |-> row.spi, usr |-> row.spi + row.usr, usr1 |-> row.spi + row.usr + 4,
       usr2 |-> row.spi + row.usr + 8, w0 |-> row.spi + row.w0,
       mosi_dlen |-> dlen(12), miso_dlen |-> dlen(16)]

-----------------------------------------------------------------------------
(* The searches: the first row that fits. *)

FirstChip(fitting, otherwise) ==
  IF fitting = {} THEN otherwise
  ELSE ChipNames[CHOOSE i \in fitting : \A j \in fitting : i <= j]

TargetFromChipId(id) ==
  FirstChip({i \in 1 .. Len(ChipNames) : EspTarget[ChipNames[i]].id = id}, UnknownChip)

\* loader_detect_chip; no row means ESP_LOADER_ERROR_INVALID_TARGET.
TargetFromMagic(value) ==
  FirstChip({i \in 1 .. Len(ChipNames) : value \in {EspTarget[ChipNames[i]].magics[k] : k \in 1 .. 4}},
            "INVALID_TARGET")

-----------------------------------------------------------------------------
(* Conversions. *)

Bits(value, shift, width) == (value \div 2 ^ shift) % 2 ^ width

\* GPIO 32 and 33 are numbered 30 and 31 in the efuses of the ESP32.
AdjustPinNumber(n) == IF n >= 30 THEN n + 2 ELSE n

\* What SPI_ATTACH is told: five pins of six bits.
Packed(clk, q, d, cs, hd) == hd * 2 ^ 24 + cs * 2 ^ 18 + d * 2 ^ 12 + q * 2 ^ 6 + clk

\* word5 is cut to its low 20 bits, word3 to the pin HD.  The comparison of d
\* with cs, and those with hd, are not made.
Mut_NotAdjusted(word5, hd) ==
  Packed(Bits(word5, 0, 5), Bits(word5, 5, 5), Bits(word5, 10, 5), Bits(word5, 15, 5), hd)
SpiConfigEsp32(word5, hd) ==
  LET pin(shift) == AdjustPinNumber(Bits(word5, shift, 5))
      clk == pin(0)  q == pin(5)  d == pin(10)  cs == pin(15)
  IN  CASE word5 = 0 \/ word5 = 2 ^ 20 - 1 -> 0
        [] clk \in {cs, d, q} \/ q \in {cs, d} -> 0
        [] OTHER -> Packed(clk, q, d, cs, AdjustPinNumber(hd))

\* The upper half of word 18 and the lower 14 bits of word 19.  30 bits are
\* never the 32 ones the code compares them with.
SpiConfigEsp32xx(high18, low19) == high18 + (low19 % 2 ^ 14) * 2 ^ 16

\* A MAC, high byte first; the words are sequences of four bytes.
MacAddress(part1, part2) == <<part2[3], part2[4]>> \o part1

-----------------------------------------------------------------------------
(* get_security_info_response_data_t: flags is the set of its set bits, a   *)
(* byte of key_purposes likewise.                                           *)

FullInfo == 20

SecurityInfo(resp, size) ==
  [target_chip |-> IF size = FullInfo THEN TargetFromChipId(resp.chip_id) ELSE "ESP32S2_CHIP",
   eco_version |-> IF size = FullInfo THEN resp.eco_version ELSE 0,
   secure_boot_enabled |-> 0 \in resp.flags,
   secure_boot_aggressive_revoke_enabled |-> 1 \in resp.flags,
   secure_download_mode_enabled |-> 2 \in resp.flags,
   secure_boot_revoked_keys |-> [k \in 0..2 |-> 3 + k \in resp.flags],
   jtag_software_disabled |-> 6 \in resp.flags,
   jtag_hardware_disabled |-> 7 \in resp.flags,
   usb_disabled |-> 8 \in resp.flags,
   flash_encryption_enabled |->
     Cardinality({s \in (1..7) \X (0..7) : s[2] \in resp.key_purposes[s[1]]}) % 2 = 1,
   dcache_in_uart_download_disabled |-> 9 \in resp.flags,
   icache_in_uart_download_disabled |-> 10 \in resp.flags]

\* Any other size is ESP_LOADER_ERROR_INVALID_RESPONSE.
InfoSizes == {FullInfo, FullInfo - 8}
=============================================================================
