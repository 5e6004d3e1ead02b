---------------------------- MODULE FlashPromise ----------------------------
(***************************************************************************)
(* What the flash interface promises its client, without commands, line or *)
(* target: between flash_start and a successful flash_verify the region of *)
(* the image may hold anything, cells outside it are left alone, and from  *)
(* a successful verification until the client's next call the region holds *)
(* the blocks that were acknowledged.                                      *)
(***************************************************************************)
EXTENDS Naturals, Sequences

CONSTANTS Blocks, Erased, FlashLen

VARIABLES
  flash,    \* contents of the chip
  region,   \* offset and size of the image, in blocks
  image,    \* the blocks acknowledged so far
  verified  \* flash_verify has just returned SUCCESS

vars == <<flash, region, image, verified>>

Cell  == Blocks \cup {Erased}
Cells == 0 .. FlashLen - 1

Covered(r) == {(r.base + i - 1) % FlashLen : i \in 1 .. r.size}

Holds(f, r, im) == im = [i \in 1 .. r.size |-> f[(r.base + i - 1) % FlashLen]]

Init ==
  /\ flash \in [Cells -> Cell]
  /\ region = [base |-> 0, size |-> 0]
  /\ image = <<>>
  /\ verified = FALSE

Open ==
  /\ region' \in [base : Nat, size : Nat]
  /\ image' = <<>>
  /\ verified' = FALSE
  /\ UNCHANGED flash

Program ==
  /\ ~verified
  /\ flash' \in [Cells -> Cell]
  /\ \A c \in Cells \ Covered(region) : flash'[c] = flash[c]
  /\ UNCHANGED <<region, image, verified>>

Acknowledge ==
  /\ ~verified
  /\ Len(image) < region.size
  /\ \E b \in Cell : image' = Append(image, b)
  /\ UNCHANGED <<flash, region, verified>>

Verify ==
  /\ Holds(flash, region, image)
  /\ verified' = TRUE
  /\ UNCHANGED <<flash, region, image>>

NextCall ==
  /\ verified' = FALSE
  /\ UNCHANGED <<flash, region, image>>

Next == Open \/ Program \/ Acknowledge \/ Verify \/ NextCall

Spec == Init /\ [][Next]_vars
=============================================================================
