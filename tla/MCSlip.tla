------------------------------- MODULE MCSlip -------------------------------
(* Slip on frames of a few bytes, of those the encoding tells apart. *)
EXTENDS Slip

\* Every frame of up to three bytes that holds special ones only behind its
\* first byte, and two that hold what special ones are replaced by.
ShortFrames ==
  UNION {{<<1>> \o tail : tail \in [1 .. n -> {1, C0, DB}]} : n \in 0 .. 2}
    \cup {<<DC, DB, DC>>, <<DD, C0, DD>>}

BootNoise == {<<>>, <<1>>, <<1, C0>>, <<C0>>, <<DB, C0>>}
=============================================================================
