----------------------------- MODULE StubImages -----------------------------
(***************************************************************************)
(* The software loaders of esp_stubs.c: where the two segments of each go  *)
(* and where it is entered.  An image is a sequence of segments, sizes are *)
(* in bytes, the code itself is left out.                                  *)
(***************************************************************************)
EXTENDS Naturals, Sequences

Segment(addr, size) == [addr |-> addr, size |-> size]

\* A row without a loader is {}: both segments and the entry point are zero.
Placeholder == [entry |-> 0, segments |-> <<Segment(0, 0), Segment(0, 0)>>]

Loader(entry, addr1, size1, addr2, size2) ==
  [entry |-> entry, segments |-> <<Segment(addr1, size1), Segment(addr2, size2)>>]

EspStub ==
  [ESP8266_CHIP |-> Placeholder,
   ESP32_CHIP   |-> Loader(1074274996, 1074266112, 12884, 1073414144, 468),
   ESP32S2_CHIP |-> Loader(1073913140, 1073905664, 11416, 1073464320, 520),
   ESP32C3_CHIP |-> Loader(1077411840, 1077411840, 11176, 1070137376, 244),
   ESP32S3_CHIP |-> Loader(1077391268, 1077379072, 13864, 1070137376, 3952),
   ESP32C2_CHIP |-> Loader(1077411840, 1077411840, 10072, 1070268448, 404),
   ESP32_RESERVED0_CHIP |-> Placeholder,
   ESP32H2_CHIP |-> Loader(1082130432, 1082130432, 10728, 1082141160, 384),
   ESP32C6_CHIP |-> Loader(1082130432, 1082130432, 16420, 1082146852, 384)]

HasStub(chip) == EspStub[chip] # Placeholder
=============================================================================
