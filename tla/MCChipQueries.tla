---------------------------- MODULE MCChipQueries ----------------------------
(* The pins of ChipQueries for TLC. *)
EXTENDS ChipQueries

Pins(clk, q, d, cs, hd) == [clk |-> clk, q |-> q, d |-> d, cs |-> cs, hd |-> hd]

\* Distinct pins, two of them numbered differently in the efuses of an ESP32,
\* a set that uses a pin twice, and one an ESP32 cannot have.
BurntPins == {Pins(6, 33, 32, 11, 9), Pins(6, 7, 7, 11, 9), Pins(30, 31, 32, 29, 63)}
=============================================================================
