------------------------- MODULE ChipQueriesProofs --------------------------
(***************************************************************************)
(* The flash command of SpiFlashCommand, as the queries of ChipQueries     *)
(* interleave with it: the size it reports is real, and the registers are  *)
(* put back.  The queries: what they make of the efuses is what is burnt.  *)
(***************************************************************************)
EXTENDS ChipQueries, SequenceTheorems, TLAPS

-----------------------------------------------------------------------------
(* The registers of a chip *)

\* Where the rows of the table put the registers.
LEMMA RowLayout ==
  ASSUME NEW c \in SupportedChips
  PROVE  /\ EspTarget[c].spi \in Nat /\ EspTarget[c].spi > 0
         /\ EspTarget[c].usr \in Nat /\ EspTarget[c].usr > 0
         /\ EspTarget[c].w0 \in Nat /\ EspTarget[c].w0 > EspTarget[c].usr + 16
  BY SMTT(30) DEF SupportedChips, EspTarget, Row

LEMMA RegistersDiffer ==
  ASSUME chip \in SupportedChips,
         NEW w \in {"w0", LengthRegister, "usr", "usr2"}, NEW r \in DOMAIN Address, r # w
  PROVE  Address[r] # Address[w]
  BY RowLayout DEF Address, Registers, LengthRegister

-----------------------------------------------------------------------------
(* What every step leaves alone *)

Exchanges ==
  {"save_usr", "save_usr2", "set_dlen", "set_usr", "set_usr2", "clear", "start", "poll", "check",
   "read_w0", "restore_usr", "restore_usr2", "lookup"}

\* The chip does not change, and each of its registers has a value.
ShapeOK ==
  /\ chip \in SupportedChips
  /\ pc \in Exchanges \cup {"idle"}
  /\ DOMAIN reg = {Address[r] : r \in DOMAIN Address}
  /\ DOMAIN saved = {"usr", "usr2"}

Step == DetectSize \/ Host \/ ExchangeFails \/ ChipDone

\* A step of the queries is one of the flash command, or leaves it alone.
LEMMA QueryStep ==
  ASSUME [QueryNext]_<<flashVars, queryVars>>
  PROVE  Step \/ UNCHANGED flashVars
  BY DEF QueryNext, Step, flashVars, Detect, Ask, QueryHost, InfoAnswered, MagicRead, WordRead, Convert,
     ReadFails

\* Where the flash command goes from one of its writes, and what it has done
\* to the registers.
LEMMA PrepareWrites ==
  ASSUME ShapeOK, pc \in DOMAIN Prepare
  PROVE  /\ pc \in {"set_dlen", "set_usr", "set_usr2", "clear"}
         /\ Prepare[pc].register =
              (CASE pc = "set_dlen" -> LengthRegister [] pc = "set_usr" -> "usr"
                 [] pc = "set_usr2" -> "usr2" [] pc = "clear" -> "w0")
         /\ Prepare[pc].next =
              (CASE pc = "set_dlen" -> "set_usr" [] pc = "set_usr" -> "set_usr2"
                 [] pc = "set_usr2" -> "clear" [] pc = "clear" -> "start")
         /\ pc = "clear" => Prepare[pc].value = Cleared
  BY DEF Prepare

LEMMA RestoreWrites ==
  ASSUME ShapeOK, pc \in DOMAIN Restore
  PROVE  /\ pc \in {"restore_usr", "restore_usr2"}
         /\ Restore[pc].register = (IF pc = "restore_usr" THEN "usr" ELSE "usr2")
         /\ Restore[pc].value = (IF pc = "restore_usr" THEN saved.usr ELSE saved.usr2)
         /\ Restore[pc].next = (IF pc = "restore_usr" THEN "restore_usr2" ELSE "lookup")
  BY DEF Restore

\* A register write changes that register and no other.
LEMMA Writes ==
  ASSUME ShapeOK, NEW w, w.register \in {"w0", LengthRegister, "usr", "usr2"}
  PROVE  /\ DOMAIN Written(w) = DOMAIN reg
         /\ Written(w)[Address[w.register]] = w.value
         /\ \A r \in DOMAIN Address : r # w.register => Written(w)[Address[r]] = reg[Address[r]]
  <1>1. w.register \in DOMAIN Address
    BY DEF Address, Registers, LengthRegister
  <1>2. \A r \in DOMAIN Address : r # w.register => Address[r] # Address[w.register]
    BY RegistersDiffer DEF ShapeOK
  <1> QED
    BY <1>1, <1>2 DEF Written, ShapeOK

LEMMA ShapeStep ==
  ASSUME ShapeOK, [QueryNext]_<<flashVars, queryVars>>
  PROVE  ShapeOK'
  <1>1. CASE Step
    <2>1. chip' = chip /\ DOMAIN reg' = DOMAIN reg
      BY <1>1, PrepareWrites, RestoreWrites DEF Step, Host, DetectSize, Save, Write, Start, Poll, PollsUsedUp, Check, ReadData, Lookup,
         ExchangeFails, ChipDone, Return, Written
    <2>2. pc' \in Exchanges \cup {"idle"}
      BY <1>1, PrepareWrites, RestoreWrites DEF ShapeOK, Exchanges, Step, Host, DetectSize, Save, Write, Start, Poll, PollsUsedUp, Check,
         ReadData, Lookup, ExchangeFails, ChipDone, Return
    <2>3. DOMAIN saved' = DOMAIN saved
      BY <1>1 DEF ShapeOK, Step, Host, DetectSize, Save, Write, Start, Poll, PollsUsedUp, Check,
         ReadData, Lookup, ExchangeFails, ChipDone, Return
    <2> QED
      BY <2>1, <2>2, <2>3 DEF ShapeOK, Address
  <1>2. CASE UNCHANGED flashVars
    BY <1>2 DEF flashVars, ShapeOK, Address
  <1> QED
    BY <1>1, <1>2, QueryStep

-----------------------------------------------------------------------------
(* A reported size is that of the attached chip. *)

\* The outcomes of a call that are not sizes.
Outcomes == {"none", "PENDING", "TIMEOUT", "UNSUPPORTED_CHIP"}

RealInv ==
  /\ pc \in {"start", "poll", "check", "read_w0"} => reg[Address.w0] \in {Cleared, id}
  /\ pc \in {"restore_usr", "restore_usr2", "lookup"} => data \in {Cleared, id}
  /\ DetectedIsReal

LEMMA RealStep ==
  ASSUME Ids \cap Outcomes = {}, ShapeOK, RealInv, [QueryNext]_<<flashVars, queryVars>>
  PROVE  RealInv'
  <1>1. CASE DetectSize
    BY <1>1 DEF DetectSize, RealInv, DetectedIsReal, Outcomes
  <1>2. CASE Save
    BY <1>2 DEF Save, RealInv, DetectedIsReal
  <1>3. CASE Write
    <2>1. CASE pc \in DOMAIN Prepare /\ reg' = Written(Prepare[pc]) /\ pc' = Prepare[pc].next
      <3>1. pc = "clear" => reg'[Address.w0] = Cleared
        BY <2>1, PrepareWrites, Writes
      <3> QED
        BY <1>3, <2>1, <3>1, PrepareWrites DEF Write, RealInv, DetectedIsReal, Address
    <2>2. CASE pc \in DOMAIN Restore /\ reg' = Written(Restore[pc]) /\ pc' = Restore[pc].next
      BY <1>3, <2>2, RestoreWrites DEF Write, RealInv, DetectedIsReal
    <2> QED
      BY <1>3, <2>1, <2>2 DEF Write
  <1>4. CASE Start \/ Poll \/ PollsUsedUp
    BY <1>4 DEF Start, Poll, PollsUsedUp, RealInv, DetectedIsReal, Address
  <1>5. CASE Check
    BY <1>5 DEF Check, Return, RealInv, DetectedIsReal, Outcomes, Address
  <1>6. CASE ReadData
    BY <1>6 DEF ReadData, RealInv, DetectedIsReal
  <1>7. CASE Lookup
    BY <1>7, IdsAssumption DEF Lookup, Return, RealInv, DetectedIsReal, Outcomes
  <1>8. CASE ExchangeFails
    BY <1>8 DEF ExchangeFails, Return, RealInv, DetectedIsReal, Outcomes
  <1>9. CASE ChipDone
    <2>1. reg'[Address.w0] = id
      BY <1>9 DEF ChipDone, ShapeOK, Address, Registers
    <2> QED
      BY <1>9, <2>1 DEF ChipDone, RealInv, DetectedIsReal, Address
  <1>10. CASE UNCHANGED flashVars
    BY <1>10 DEF flashVars, RealInv, DetectedIsReal, Address
  <1> QED
    BY <1>1, <1>2, <1>3, <1>4, <1>5, <1>6, <1>7, <1>8, <1>9, <1>10, QueryStep DEF Step, Host

LEMMA ShapeInit == QueryInit => ShapeOK
  BY ChipsAssumption DEF QueryInit, Init, ShapeOK

\* Whatever the data register held before, however slow the chip is and
\* wherever calls fail, esp_loader_flash_detect_size reports a size only when it
\* is that of the attached chip: the data register is cleared before the
\* command, and only the chip writes it after that.
THEOREM OnlyRealSizes ==
  ASSUME Ids \cap Outcomes = {}
  PROVE  QuerySpec => []DetectedIsReal
  <1>1. QueryInit => RealInv
    BY DEF QueryInit, Init, RealInv, DetectedIsReal, Outcomes
  <1>2. ShapeOK /\ RealInv /\ [QueryNext]_<<flashVars, queryVars>> => RealInv'
    BY RealStep
  <1>3. ShapeOK /\ [QueryNext]_<<flashVars, queryVars>> => ShapeOK'
    BY ShapeStep
  <1>4. RealInv => DetectedIsReal
    BY DEF RealInv
  <1> QED
    BY <1>1, <1>2, <1>3, <1>4, ShapeInit, PTL DEF QuerySpec

-----------------------------------------------------------------------------
(* The registers are put back. *)

\* Registers that no command changes.
Untouched == DOMAIN Address \ {"w0", LengthRegister, "usr", "usr2"}

ConfigInv ==
  /\ \A r \in Untouched : reg[Address[r]] = "boot"
  /\ pc \in {"idle", "save_usr", "save_usr2", "set_dlen", "set_usr", "restore_usr2", "lookup"} =>
       reg[Address.usr] = "boot"
  /\ pc \in {"idle", "save_usr", "save_usr2", "set_dlen", "set_usr", "set_usr2", "lookup"} =>
       reg[Address.usr2] = "boot"
  /\ pc \notin {"idle", "save_usr"} => saved.usr = "boot"
  /\ pc \notin {"idle", "save_usr", "save_usr2"} => saved.usr2 = "boot"

\* A call has not returned TIMEOUT, so that no exchange has failed in this step.
LEMMA ConfigStep ==
  ASSUME ShapeOK, ConfigInv, [QueryNext]_<<flashVars, queryVars>>, unbroken'
  PROVE  ConfigInv'
  <1>a. Untouched \subseteq DOMAIN Address /\ {"w0", LengthRegister, "usr", "usr2"} \subseteq DOMAIN Address
    BY DEF Untouched, Address, Registers, LengthRegister
  <1>b. LengthRegister \notin {"w0", "usr", "usr2"}
    BY DEF LengthRegister
  <1>1. CASE DetectSize
    BY <1>1 DEF DetectSize, ConfigInv, Untouched, Address, LengthRegister
  <1>2. CASE Save
    BY <1>2 DEF Save, ConfigInv, Untouched, Address, LengthRegister, ShapeOK
  <1>3. CASE Write
    <2>a. UNCHANGED <<saved, chip>>
      BY <1>3 DEF Write
    <2>b. Address' = Address /\ Untouched' = Untouched
      BY <2>a DEF Address, Untouched, LengthRegister
    <2>1. CASE pc \in DOMAIN Prepare /\ reg' = Written(Prepare[pc]) /\ pc' = Prepare[pc].next
      <3> DEFINE w == Prepare[pc]
      <3>1. w.register \in {"w0", LengthRegister, "usr", "usr2"}
        BY <2>1, PrepareWrites
      <3>2. \A r \in DOMAIN Address : r # w.register => reg'[Address[r]] = reg[Address[r]]
        BY <2>1, <3>1, Writes
      <3>3. \A r \in Untouched : reg'[Address[r]] = reg[Address[r]]
        BY <1>a, <3>1, <3>2 DEF Untouched
      <3>4. pc' = "set_usr" => reg'[Address.usr] = reg[Address.usr] /\ reg'[Address.usr2] = reg[Address.usr2]
        BY <1>a, <1>b, <2>1, <3>2, PrepareWrites
      <3>5. pc' = "set_usr2" => reg'[Address.usr2] = reg[Address.usr2]
        BY <1>a, <2>1, <3>2, PrepareWrites
      <3> QED
        BY <2>a, <2>b, <2>1, <3>3, <3>4, <3>5, PrepareWrites DEF ConfigInv
    <2>2. CASE pc \in DOMAIN Restore /\ reg' = Written(Restore[pc]) /\ pc' = Restore[pc].next
      <3> DEFINE w == Restore[pc]
      <3>1. w.register \in {"usr", "usr2"} /\ w.value = "boot"
        BY <2>2, RestoreWrites DEF ConfigInv
      <3>2. /\ reg'[Address[w.register]] = "boot"
            /\ \A r \in DOMAIN Address : r # w.register => reg'[Address[r]] = reg[Address[r]]
        BY <2>2, <3>1, Writes
      <3>3. \A r \in Untouched : reg'[Address[r]] = reg[Address[r]]
        BY <1>a, <3>1, <3>2 DEF Untouched
      <3>4. CASE pc = "restore_usr"
        BY <2>a, <2>b, <2>2, <3>2, <3>3, <3>4, RestoreWrites DEF ConfigInv
      <3>5. CASE pc = "restore_usr2"
        <4>1. reg'[Address.usr2] = "boot" /\ reg'[Address.usr] = reg[Address.usr]
          BY <1>a, <2>2, <3>2, <3>5, RestoreWrites
        <4> QED
          BY <2>a, <2>b, <2>2, <3>3, <3>5, <4>1, RestoreWrites DEF ConfigInv
      <3> QED
        BY <2>2, <3>4, <3>5, RestoreWrites
    <2> QED
      BY <1>3, <2>1, <2>2 DEF Write
  <1>4. CASE Start \/ Poll \/ PollsUsedUp \/ Check \/ ReadData \/ Lookup
    BY <1>4 DEF Start, Poll, PollsUsedUp, Check, ReadData, Lookup, Return, ConfigInv, Untouched, Address,
       LengthRegister
  <1>5. CASE ExchangeFails
    BY <1>5 DEF ExchangeFails
  <1>6. CASE ChipDone
    <2>1. UNCHANGED <<pc, saved, chip>>
      BY <1>6 DEF ChipDone
    <2>2. \A r \in DOMAIN Address : r # "w0" => reg'[Address[r]] = reg[Address[r]]
      <3>1. \A r \in DOMAIN Address : r # "w0" => Address[r] # Address.w0
        BY RegistersDiffer DEF ShapeOK
      <3>2. \A r \in DOMAIN Address : Address[r] \in DOMAIN reg
        BY DEF ShapeOK
      <3> QED
        BY <1>6, <3>1, <3>2 DEF ChipDone
    <2>3. Address' = Address /\ Untouched' = Untouched
      BY <2>1 DEF Address, Untouched, LengthRegister
    <2>4. \A r \in Untouched \cup {"usr", "usr2"} : reg'[Address[r]] = reg[Address[r]]
      BY <1>a, <2>2 DEF Untouched
    <2> QED
      BY <2>1, <2>3, <2>4 DEF ConfigInv
  <1>7. CASE UNCHANGED flashVars
    BY <1>7 DEF flashVars, ConfigInv, Untouched, Address, LengthRegister
  <1> QED
    BY <1>1, <1>2, <1>3, <1>4, <1>5, <1>6, <1>7, QueryStep DEF Step, Host

\* As long as no call of esp_loader_flash_detect_size has returned TIMEOUT, the
\* SPI registers of any chip of the table hold after it what they held before,
\* but for the data register and the one for the length.
THEOREM RegistersPutBack == QuerySpec => []ConfigRestored
  <1> DEFINE Inv == unbroken => ConfigInv
  <1>1. QueryInit => Inv
    <2> SUFFICES ASSUME QueryInit PROVE ConfigInv
      OBVIOUS
    <2>1. pc = "idle" /\ chip \in SupportedChips
      BY ChipsAssumption DEF QueryInit, Init
    <2>2. \A r \in DOMAIN Address : r # "w0" => Address[r] # Address.w0
      BY <2>1, RegistersDiffer
    <2>3. \A r \in DOMAIN Address : r # "w0" => reg[Address[r]] = "boot"
      BY <2>2 DEF QueryInit, Init
    <2>4. {"usr", "usr2"} \subseteq DOMAIN Address
      BY DEF Address, Registers
    <2> QED
      BY <2>1, <2>3, <2>4 DEF ConfigInv, Untouched
  <1>2. ShapeOK /\ Inv /\ [QueryNext]_<<flashVars, queryVars>> => Inv'
    <2> SUFFICES ASSUME ShapeOK, Inv, [QueryNext]_<<flashVars, queryVars>>, unbroken' PROVE ConfigInv'
      OBVIOUS
    <2>1. unbroken
      BY QueryStep DEF Step, Host, DetectSize, Save, Write, Start, Poll, PollsUsedUp, Check, ReadData, Lookup,
         ExchangeFails, ChipDone, flashVars
    <2> QED
      BY <2>1, ConfigStep
  <1>3. ShapeOK /\ [QueryNext]_<<flashVars, queryVars>> => ShapeOK'
    BY ShapeStep
  <1>4. Inv => ConfigRestored
    BY DEF ConfigInv, ConfigRestored, Untouched
  <1> QED
    BY <1>1, <1>2, <1>3, <1>4, ShapeInit, PTL DEF QuerySpec

-----------------------------------------------------------------------------
(* The searches, and the conversions of efuse words *)

\* The names of the table.
LEMMA TableNames ==
  /\ Len(ChipNames) = 9
  /\ DOMAIN EspTarget = {ChipNames[i] : i \in 1 .. 9}
  /\ \A i \in 1 .. 9 : ChipNames[i] \in SupportedChips <=> i # 7
  /\ \A i, j \in 1 .. 9 : ChipNames[i] = ChipNames[j] => i = j
  <1> DEFINE names == {"ESP8266_CHIP", "ESP32_CHIP", "ESP32S2_CHIP", "ESP32C3_CHIP", "ESP32S3_CHIP",
                       "ESP32C2_CHIP", "ESP32_RESERVED0_CHIP", "ESP32H2_CHIP", "ESP32C6_CHIP"}
  <1>1. DOMAIN EspTarget = names
    BY SMTT(30) DEF EspTarget
  <1>2. Len(ChipNames) = 9 /\ names = {ChipNames[i] : i \in 1 .. 9}
    BY SMT DEF ChipNames
  <1>3. \A i, j \in 1 .. 9 : ChipNames[i] = ChipNames[j] => i = j
    BY SMT DEF ChipNames
  <1>4. ChipNames[7] = "ESP32_RESERVED0_CHIP"
    BY SMT DEF ChipNames
  <1> QED
    BY <1>1, <1>2, <1>3, <1>4 DEF SupportedChips

\* No two rows share a magic value, nor do two supported chips an id.
LEMMA MagicsDiffer ==
  ASSUME NEW c \in DOMAIN EspTarget, NEW d \in DOMAIN EspTarget, NEW k \in 1 .. 4, NEW n \in 1 .. 4,
         EspTarget[c].magics[k] = EspTarget[d].magics[n], EspTarget[c].magics[k] # Zero
  PROVE  c = d
  <1> DEFINE Magic(chp, i) == EspTarget[chp].magics[i]
  <1>1. /\ Magic("ESP8266_CHIP", 1) = <<\hfff0, \hc101>> /\ Magic("ESP8266_CHIP", 2) = Zero
       /\ Magic("ESP8266_CHIP", 3) = Zero /\ Magic("ESP8266_CHIP", 4) = Zero
    BY SMTT(30) DEF EspTarget, Row
  <1>2. /\ Magic("ESP32_CHIP", 1) = <<\h00f0, \h1d83>> /\ Magic("ESP32_CHIP", 2) = Zero
       /\ Magic("ESP32_CHIP", 3) = Zero /\ Magic("ESP32_CHIP", 4) = Zero
    BY SMTT(30) DEF EspTarget, Row
  <1>3. /\ Magic("ESP32S2_CHIP", 1) = <<\h0000, \h07c6>> /\ Magic("ESP32S2_CHIP", 2) = Zero
       /\ Magic("ESP32S2_CHIP", 3) = Zero /\ Magic("ESP32S2_CHIP", 4) = Zero
    BY SMTT(30) DEF EspTarget, Row
  <1>4. /\ Magic("ESP32C3_CHIP", 1) = <<\h6921, \h506f>> /\ Magic("ESP32C3_CHIP", 2) = <<\h1b31, \h506f>>
       /\ Magic("ESP32C3_CHIP", 3) = <<\h4881, \h606F>> /\ Magic("ESP32C3_CHIP", 4) = <<\h4361, \h606F>>
    BY SMTT(30) DEF EspTarget, Row
  <1>5. /\ Magic("ESP32S3_CHIP", 1) = <<\h0000, \h0009>> /\ Magic("ESP32S3_CHIP", 2) = Zero
       /\ Magic("ESP32S3_CHIP", 3) = Zero /\ Magic("ESP32S3_CHIP", 4) = Zero
    BY SMTT(30) DEF EspTarget, Row
  <1>6. /\ Magic("ESP32C2_CHIP", 1) = <<\h6f51, \h306f>> /\ Magic("ESP32C2_CHIP", 2) = <<\h7c41, \ha06f>>
       /\ Magic("ESP32C2_CHIP", 3) = Zero /\ Magic("ESP32C2_CHIP", 4) = Zero
    BY SMTT(30) DEF EspTarget, Row
  <1>7. /\ Magic("ESP32_RESERVED0_CHIP", 1) = Zero /\ Magic("ESP32_RESERVED0_CHIP", 2) = Zero
       /\ Magic("ESP32_RESERVED0_CHIP", 3) = Zero /\ Magic("ESP32_RESERVED0_CHIP", 4) = Zero
    BY SMTT(30) DEF EspTarget, Row
  <1>8. /\ Magic("ESP32H2_CHIP", 1) = <<\hd7b7, \h3e80>> /\ Magic("ESP32H2_CHIP", 2) = Zero
       /\ Magic("ESP32H2_CHIP", 3) = Zero /\ Magic("ESP32H2_CHIP", 4) = Zero
    BY SMTT(30) DEF EspTarget, Row
  <1>9. /\ Magic("ESP32C6_CHIP", 1) = <<\h2CE0, \h806F>> /\ Magic("ESP32C6_CHIP", 2) = Zero
       /\ Magic("ESP32C6_CHIP", 3) = Zero /\ Magic("ESP32C6_CHIP", 4) = Zero
    BY SMTT(30) DEF EspTarget, Row
  <1>10. c \in {ChipNames[i] : i \in 1 .. 9} /\ d \in {ChipNames[i] : i \in 1 .. 9}
    BY TableNames
  <1>11. Magic(c, k) = Magic(d, n) /\ Magic(c, k) # Zero
    OBVIOUS
  <1> HIDE DEF Magic
  <1> QED
    BY <1>1, <1>2, <1>3, <1>4, <1>5, <1>6, <1>7, <1>8, <1>9, <1>10, <1>11, SMTT(60) DEF ChipNames, Zero

\* So the searches find the row they were given a value of.
LEMMA MagicFindsChip ==
  ASSUME NEW c \in DOMAIN EspTarget, NEW k \in 1 .. 4, EspTarget[c].magics[k] # Zero
  PROVE  TargetFromMagic(EspTarget[c].magics[k]) = c
  <1> DEFINE Fits(i) == EspTarget[c].magics[k] \in {EspTarget[ChipNames[i]].magics[n] : n \in 1 .. 4}
             fits == {i \in 1 .. Len(ChipNames) : Fits(i)}
  <1>1. PICK j \in 1 .. 9 : ChipNames[j] = c
    BY TableNames
  <1>2. \A i \in 1 .. 9 : Fits(i) => i = j
    BY <1>1, TableNames, MagicsDiffer
  <1>3. Fits(j)
    BY <1>1
  <1>4. fits = {j}
    <2> HIDE DEF Fits
    <2> QED
      BY <1>2, <1>3, TableNames
  <1>5. (CHOOSE i \in fits : \A n \in fits : i <= n) = j
    BY <1>4
  <1> QED
    BY <1>1, <1>4, <1>5 DEF TargetFromMagic, FirstChip

LEMMA IdFindsChip ==
  ASSUME NEW c \in SupportedChips
  PROVE  TargetFromChipId(EspTarget[c].id) = c
  <1> DEFINE Fits(i) == EspTarget[ChipNames[i]].id = EspTarget[c].id
             fits == {i \in 1 .. Len(ChipNames) : Fits(i)}
  <1>1. PICK j \in 1 .. 9 : ChipNames[j] = c
    BY TableNames DEF SupportedChips
  <1>2. \A i \in 1 .. 9 : EspTarget[ChipNames[i]].id = <<255, 0, 2, 5, 9, 12, 255, 16, 13>>[i]
    BY SMTT(30) DEF EspTarget, Row, ChipIdNone, ChipNames
  <1>3. \A i \in 1 .. 9 : Fits(i) => j <= i
    BY <1>1, <1>2, TableNames
  <1>4. Fits(j)
    BY <1>1
  <1>5. j \in fits /\ \A i \in fits : j <= i
    <2> HIDE DEF Fits
    <2> QED
      BY <1>3, <1>4, TableNames
  <1>6. (CHOOSE i \in fits : \A n \in fits : i <= n) = j
    <2>1. \A i \in fits : (\A n \in fits : i <= n) => i = j
      <3> HIDE DEF Fits
      <3> QED BY <1>5, TableNames
    <2> HIDE DEF fits
    <2> QED
      BY <1>5, <2>1
  <1> QED
    BY <1>1, <1>5, <1>6 DEF TargetFromChipId, FirstChip

\* Four numbers of five bits, side by side, are read back one by one.
FourPins(f) == f[1] + f[2] * 2 ^ 5 + f[3] * 2 ^ 10 + f[4] * 2 ^ 15

LEMMA FiveBits ==
  ASSUME NEW f \in [1 .. 4 -> 0 .. 31]
  PROVE  /\ Bits(FourPins(f), 0, 5) = f[1] /\ Bits(FourPins(f), 5, 5) = f[2]
         /\ Bits(FourPins(f), 10, 5) = f[3] /\ Bits(FourPins(f), 15, 5) = f[4]
         /\ FourPins(f) = 0 \/ FourPins(f) = 2 ^ 20 - 1 => f[1] = f[2]
  <1>1. f[1] \in 0 .. 31 /\ f[2] \in 0 .. 31 /\ f[3] \in 0 .. 31 /\ f[4] \in 0 .. 31
    OBVIOUS
  <1>2. PICK a \in 0 .. 31, b \in 0 .. 31, c \in 0 .. 31, d \in 0 .. 31 :
          f[1] = a /\ f[2] = b /\ f[3] = c /\ f[4] = d
    BY <1>1, Zenon
  <1> DEFINE word == a + b * 2 ^ 5 + c * 2 ^ 10 + d * 2 ^ 15
  <1>3. FourPins(f) = word
    BY <1>2 DEF FourPins
  <1>4. /\ Bits(word, 0, 5) = a /\ Bits(word, 5, 5) = b
        /\ Bits(word, 10, 5) = c /\ Bits(word, 15, 5) = d
        /\ word = 0 \/ word = 2 ^ 20 - 1 => a = b
    BY DEF Bits
  <1> QED
    BY <1>2, <1>3, <1>4

\* Adjusting undoes the numbering of the efuses.
LEMMA Adjusted ==
  ASSUME NEW n \in 0 .. 29 \cup {32, 33}
  PROVE  EfuseNumber(n) \in 0 .. 31 /\ AdjustPinNumber(EfuseNumber(n)) = n
  BY DEF EfuseNumber, AdjustPinNumber

\* Five numbers of six bits are cut into two words and put together again.
LEMMA SixBits ==
  ASSUME NEW p \in PinType
  PROVE  LET packed == Packed(p.clk, p.q, p.d, p.cs, p.hd)
         IN  SpiConfigEsp32xx(packed % 2 ^ 16, packed \div 2 ^ 16) = packed
  <1>1. 2 ^ 6 = 64 /\ 2 ^ 12 = 4096 /\ 2 ^ 14 = 16384 /\ 2 ^ 16 = 65536 /\ 2 ^ 18 = 262144
        /\ 2 ^ 24 = 16777216
    OBVIOUS
  <1>2. PICK clk \in 0 .. 63, q \in 0 .. 63, d \in 0 .. 63, cs \in 0 .. 63, hd \in 0 .. 63 :
          p.clk = clk /\ p.q = q /\ p.d = d /\ p.cs = cs /\ p.hd = hd
    BY DEF PinType
  <1> DEFINE n == hd * 16777216 + cs * 262144 + d * 4096 + q * 64 + clk
  <1>4. Packed(p.clk, p.q, p.d, p.cs, p.hd) = n
    BY <1>1, <1>2 DEF Packed
  <1>5. (n % 65536) + ((n \div 65536) % 16384) * 65536 = n
    OBVIOUS
  <1> QED
    BY <1>1, <1>4, <1>5 DEF SpiConfigEsp32xx

-----------------------------------------------------------------------------
(* The efuses are understood. *)

\* Which rows read which words.
LEMMA ConfigKinds ==
  ASSUME NEW c \in SupportedChips, c # "ESP8266_CHIP"
  PROVE  EspTarget[c].read_spi_config =
           (CASE c = "ESP32_CHIP" -> "esp32"
              [] c \in {"ESP32H2_CHIP", "ESP32C6_CHIP"} -> "unsupported"
              [] OTHER -> "esp32xx")
  BY SMTT(30) DEF SupportedChips, EspTarget, Row

\* What is burnt, and what the queries have made of it so far: a target that
\* is known is the attached one, and the words read are its words.
DieOK ==
  /\ die.magic \in 1 .. 4 /\ EspTarget[chip].magics[die.magic] # Zero
  /\ die.pins \in PinType
  /\ \A pin \in {"clk", "q", "d", "cs", "hd"} : die.pins[pin] \in Burnable

WordsRead(op) ==
  LET r == Reads(op)
  IN  \/ query.words = <<>>
      \/ Len(r) = 2 /\ query.words = <<Word(r[1])>>
      \/ Len(r) = 2 /\ query.words = <<Word(r[1]), Word(r[2])>>

QueriesOK ==
  /\ target \in {UnknownChip, chip}
  /\ query.op \in {"mac", "pins"} => target = chip /\ chip # "ESP8266_CHIP" /\ WordsRead(query.op)

Understood == DieOK /\ QueriesOK /\ EfusesAreUnderstood

Expected ==
  LET p == die.pins
      distinct == p.clk \notin {p.cs, p.d, p.q} /\ p.q \notin {p.cs, p.d}
      config == Packed(p.clk, p.q, p.d, p.cs, p.hd)
  IN  CASE chip \in {"ESP32H2_CHIP", "ESP32C6_CHIP"} -> 0
        [] chip = "ESP32_CHIP" -> IF distinct THEN config ELSE 0
        [] OTHER -> config

\* Five bits for each of four pins, and a word for the fifth.
LEMMA Esp32Pins ==
  ASSUME DieOK, chip = "ESP32_CHIP"
  PROVE  SpiConfigEsp32(Word("word5"), Word("word3")) = Expected
  <1> DEFINE p == die.pins
             f == [i \in 1 .. 4 |-> EfuseNumber(CASE i = 1 -> p.clk [] i = 2 -> p.q [] i = 3 -> p.d [] i = 4 -> p.cs)]
             word == FourPins(f)
  <1>1. \A pin \in {"clk", "q", "d", "cs", "hd"} :
          EfuseNumber(p[pin]) \in 0 .. 31 /\ AdjustPinNumber(EfuseNumber(p[pin])) = p[pin]
    BY Adjusted DEF DieOK, Burnable
  <1>2. /\ f[1] = EfuseNumber(p.clk) /\ f[2] = EfuseNumber(p.q)
        /\ f[3] = EfuseNumber(p.d) /\ f[4] = EfuseNumber(p.cs)
    OBVIOUS
  <1>3. f \in [1 .. 4 -> 0 .. 31]
    <2>1. f = [i \in 1 .. 4 |-> f[i]] /\ \A i \in 1 .. 4 : i = 1 \/ i = 2 \/ i = 3 \/ i = 4
      OBVIOUS
    <2>2. \A i \in 1 .. 4 : f[i] \in 0 .. 31
      <3> HIDE DEF f
      <3> QED
        BY <1>1, <1>2, <2>1
    <2> QED
      BY <2>1, <2>2
  <1> HIDE DEF f
  <1>4. Word("word5") = word /\ Word("word3") = EfuseNumber(p.hd)
    BY <1>2 DEF Word, FourPins
  <1>5. /\ Bits(word, 0, 5) = f[1] /\ Bits(word, 5, 5) = f[2]
        /\ Bits(word, 10, 5) = f[3] /\ Bits(word, 15, 5) = f[4]
        /\ word = 0 \/ word = 2 ^ 20 - 1 => f[1] = f[2]
    BY <1>3, FiveBits
  <1> HIDE DEF word
  <1>6. /\ AdjustPinNumber(f[1]) = p.clk /\ AdjustPinNumber(f[2]) = p.q
        /\ AdjustPinNumber(f[3]) = p.d /\ AdjustPinNumber(f[4]) = p.cs
        /\ AdjustPinNumber(EfuseNumber(p.hd)) = p.hd
    BY <1>1, <1>2
  <1>7. word = 0 \/ word = 2 ^ 20 - 1 => p.clk = p.q
    BY <1>5, <1>6
  <1> QED
    BY <1>4, <1>5, <1>6, <1>7 DEF SpiConfigEsp32, Expected

\* The two parts of the MAC address.
LEMMA Joined == <<1, 2>> \o <<3, 4, 5, 6>> = <<1, 2, 3, 4, 5, 6>>
  <1> DEFINE s == <<1, 2>> \o <<3, 4, 5, 6>>
             t == <<1, 2, 3, 4, 5, 6>>
  <1>1. s \in Seq(Nat) /\ t \in Seq(Nat) /\ Len(s) = 6 /\ Len(t) = 6
    BY SMT
  <1>2. \A i \in 1 .. 6 : s[i] = t[i]
    BY SMT
  <1> HIDE DEF s, t
  <1>3. s = t
    BY <1>1, <1>2, SeqEqual
  <1> QED
    BY <1>3 DEF s, t

\* All the words of a query have been read: its result is what is burnt.
LEMMA ConvertedRight ==
  ASSUME ShapeOK, DieOK, QueriesOK, query.op \in {"mac", "pins"}, Len(query.words) = Len(Reads(query.op))
  PROVE  Converted(query.op, query.words) = IF query.op = "mac" THEN Mac ELSE Expected
  <1>1. target = chip /\ chip \in SupportedChips /\ chip # "ESP8266_CHIP" /\ WordsRead(query.op)
    BY DEF QueriesOK, ShapeOK
  <1>2. CASE query.op = "mac"
    <2>1. Reads("mac") = <<"mac", "mac4">>
      BY DEF Reads
    <2>2. query.words = <<Word("mac"), Word("mac4")>>
      BY <1>1, <1>2, <2>1 DEF WordsRead
    <2>3. Word("mac") = <<3, 4, 5, 6>> /\ Word("mac4") = <<99, 99, 1, 2>>
      BY SMT DEF Word, Mac
    <2>4. Converted("mac", query.words) = MacAddress(<<3, 4, 5, 6>>, <<99, 99, 1, 2>>)
      BY <2>2, <2>3 DEF Converted
    <2>5. MacAddress(<<3, 4, 5, 6>>, <<99, 99, 1, 2>>) = Mac
      BY Joined DEF MacAddress, Mac
    <2> QED
      BY <1>2, <2>4, <2>5
  <1>3. CASE query.op = "pins" /\ chip = "ESP32_CHIP"
    <2>1. EspTarget[target].read_spi_config = "esp32"
      BY <1>1, <1>3, ConfigKinds
    <2>2. Reads("pins") = <<"word5", "word3">>
      BY <2>1 DEF Reads
    <2>3. query.words = <<Word("word5"), Word("word3")>>
      BY <1>1, <1>3, <2>2 DEF WordsRead
    <2> QED
      BY <1>3, <2>1, <2>3, Esp32Pins DEF Converted
  <1>4. CASE query.op = "pins" /\ chip \in {"ESP32H2_CHIP", "ESP32C6_CHIP"}
    <2>1. EspTarget[target].read_spi_config = "unsupported"
      BY <1>1, <1>4, ConfigKinds
    <2> QED
      BY <1>4, <2>1 DEF Converted, Expected
  <1>5. CASE query.op = "pins" /\ chip \notin {"ESP32_CHIP", "ESP32H2_CHIP", "ESP32C6_CHIP"}
    <2>1. EspTarget[target].read_spi_config = "esp32xx"
      BY <1>1, <1>5, ConfigKinds
    <2>2. Reads("pins") = <<"word18", "word19">>
      BY <2>1 DEF Reads
    <2>3. query.words = <<Word("word18"), Word("word19")>>
      BY <1>1, <1>5, <2>2 DEF WordsRead
    <2>4. Converted("pins", query.words) = SpiConfigEsp32xx(Word("word18"), Word("word19"))
      BY <2>1, <2>3 DEF Converted
    <2>5. Expected = Packed(die.pins.clk, die.pins.q, die.pins.d, die.pins.cs, die.pins.hd)
      BY <1>5 DEF Expected
    <2> QED
      BY <1>5, <2>4, <2>5, SixBits DEF Word, DieOK
  <1> QED
    BY <1>2, <1>3, <1>4, <1>5

\* A word is added to the one before it.
LEMMA Pairs == \A a, b : Append(<<a>>, b) = <<a, b>>
  <1> SUFFICES ASSUME NEW a, NEW b PROVE Append(<<a>>, b) = <<a, b>>
    OBVIOUS
  <1>1. <<a>> \in Seq({a, b}) /\ <<a, b>> \in Seq({a, b}) /\ Len(<<a>>) = 1
    OBVIOUS
  <1>2. Append(<<a>>, b) \in Seq({a, b}) /\ Len(Append(<<a>>, b)) = 2 /\ Len(<<a, b>>) = 2
    BY <1>1
  <1>3. Append(<<a>>, b)[1] = a /\ Append(<<a>>, b)[2] = b
    BY <1>1
  <1>4. \A i \in 1 .. Len(<<a, b>>) : Append(<<a>>, b)[i] = <<a, b>>[i]
    BY <1>2, <1>3
  <1> DEFINE s == Append(<<a>>, b)
             t == <<a, b>>
  <1>5. s \in Seq({a,b}) /\ t \in Seq({a,b}) /\ Len(s) = Len(t) /\ \A i \in 1 .. Len(s) : s[i] = t[i]
    BY <1>1, <1>2, <1>4
  <1> HIDE DEF s, t
  <1>6. s = t
    BY <1>5, SeqEqual, Zenon
  <1> QED
    BY <1>6 DEF s, t

LEMMA UnderstoodStep ==
  ASSUME ShapeOK, Understood, [QueryNext]_<<flashVars, queryVars>>
  PROVE  Understood'
  <1>1. chip' = chip /\ die' = die
    BY DEF QueryNext, Detect, Ask, QueryHost, InfoAnswered, MagicRead, WordRead, Convert, ReadFails,
       flashVars, queryVars, DetectSize, Host, Save, Write, Start, Poll, PollsUsedUp, Check, ReadData, Lookup,
       ExchangeFails, ChipDone
  <1>2. DieOK'
    BY <1>1 DEF Understood, DieOK, Burnable
  <1>3. chip \in SupportedChips /\ chip \in DOMAIN EspTarget
    BY DEF ShapeOK, SupportedChips
  <1> DEFINE Same == target' = target /\ query' = query /\ told' = told
  <1>4. CASE Same
    BY <1>1, <1>2, <1>4
       DEF Understood, QueriesOK, EfusesAreUnderstood, WordsRead, Reads, Word
  <1>5. ASSUME target' \in {UnknownChip, chip}, query' = NoQuery, told'.op \notin {"mac", "pins"} \/ told'.outcome # "SUCCESS"
        PROVE  Understood'
    BY <1>1, <1>2, <1>5 DEF Understood, QueriesOK, EfusesAreUnderstood, NoQuery
  <1>6. ASSUME target' = target, told' = told, query'.op \in {"detect", "magic"}
        PROVE  Understood'
    BY <1>1, <1>2, <1>6 DEF Understood, QueriesOK, EfusesAreUnderstood
  <1>7. CASE Detect
    BY <1>6, <1>7 DEF Detect
  <1>8. CASE Ask("mac") \/ Ask("pins")
    <2>1. target' = target /\ target = chip
      BY <1>8 DEF Ask, Understood, QueriesOK
    <2>2. CASE target = "ESP8266_CHIP"
      <3>1. query' = NoQuery /\ told'.outcome = "UNSUPPORTED_CHIP"
        BY <1>8, <2>2 DEF Ask, Free, Told
      <3> QED
        BY <1>5, <2>1, <3>1
    <2>3. CASE target # "ESP8266_CHIP"
      <3>1. told' = told /\ query'.words = <<>>
        BY <1>8, <2>3 DEF Ask
      <3> QED
        BY <1>1, <1>2, <2>1, <2>3, <3>1 DEF Understood, QueriesOK, EfusesAreUnderstood, WordsRead
    <2> QED
      BY <2>2, <2>3
  <1>9. CASE InfoAnswered
    <2>1. CASE chip \in InfoChips /\ SecuritySize \in InfoSizes
      <3>1. target' = SecurityInfo(Security, SecuritySize).target_chip
        BY <1>9, <2>1 DEF InfoAnswered
      <3>2. Security.chip_id = EspTarget[chip].id
        BY DEF Security
      <3>3. SecuritySize = FullInfo \/ chip = "ESP32S2_CHIP"
        BY DEF SecuritySize
      <3>4. target' = chip
        <4>1. target' = IF SecuritySize = FullInfo THEN TargetFromChipId(Security.chip_id) ELSE "ESP32S2_CHIP"
          BY <3>1 DEF SecurityInfo
        <4> QED
          BY <1>3, <3>2, <3>3, <4>1, IdFindsChip
      <3>5. query' = NoQuery /\ told'.op = "detect"
        BY <1>9, <2>1 DEF InfoAnswered, Ends, Told
      <3> QED
        BY <1>5, <3>4, <3>5
    <2>2. CASE ~(chip \in InfoChips /\ SecuritySize \in InfoSizes)
      BY <1>6, <1>9, <2>2 DEF InfoAnswered
    <2> QED
      BY <2>1, <2>2
  <1>10. CASE MagicRead
    <2>1. TargetFromMagic(EspTarget[chip].magics[die.magic]) = chip
      BY <1>3, MagicFindsChip DEF Understood, DieOK
    <2>2. target' = chip /\ query' = NoQuery /\ told'.op = "magic"
      BY <1>3, <1>10, <2>1 DEF MagicRead, Ends, Told
    <2> QED
      BY <1>5, <2>2
  <1>11. CASE WordRead
    <2>1. /\ query.op \in {"mac", "pins"} /\ Len(query.words) < Len(Reads(query.op))
          /\ target' = target /\ told' = told
      BY <1>11 DEF WordRead
    <2>2. WordsRead(query.op) /\ target = chip /\ chip # "ESP8266_CHIP"
      BY <2>1 DEF Understood, QueriesOK
    <2>3. query'.op = query.op
          /\ query'.words = Append(query.words, Word(Reads(query.op)[Len(query.words) + 1]))
      BY <1>11 DEF WordRead, Understood, QueriesOK
    <2>4. Len(Reads(query.op)) \in {0, 2}
      BY <2>1 DEF Reads
    <2> DEFINE r == Reads(query.op)
    <2>5. Len(r) = 2 /\ (query'.words = <<Word(r[1])>> \/ query'.words = <<Word(r[1]), Word(r[2])>>)
      <3>1. CASE query.words = <<>>
        BY <2>1, <2>3, <2>4, <3>1
      <3>2. CASE Len(r) = 2 /\ query.words = <<Word(r[1])>>
        <4>1. Len(<<Word(r[1])>>) = 1
          OBVIOUS
        <4>2. query'.words = Append(<<Word(r[1])>>, Word(r[2]))
          BY <2>3, <3>2, <4>1
        <4> HIDE DEF r
        <4> QED
          BY <3>2, <4>2, Pairs
      <3>3. CASE Len(r) = 2 /\ query.words = <<Word(r[1]), Word(r[2])>>
        BY <2>1, <3>3
      <3> QED
        BY <2>2, <3>1, <3>2, <3>3 DEF WordsRead
    <2>6. WordsRead(query.op)'
      <3>1. r' = r /\ \A w : Word(w)' = Word(w)
        <4>1. r' = r
          BY <2>1, <2>3, <1>1 DEF Reads
        <4>2. \A w : Word(w)' = Word(w)
          BY <1>1 DEF Word
        <4> QED
          BY <4>1, <4>2
      <3> HIDE DEF r
      <3>2. WordsRead(query.op)' <=>
              \/ query'.words = <<>>
              \/ Len(r) = 2 /\ query'.words = <<Word(r[1])>>
              \/ Len(r) = 2 /\ query'.words = <<Word(r[1]), Word(r[2])>>
        BY <3>1 DEF WordsRead, r
      <3> QED
        BY <2>5, <3>2
    <2> QED
      BY <1>1, <1>2, <2>1, <2>2, <2>3, <2>6 DEF Understood, QueriesOK, EfusesAreUnderstood
  <1>12. CASE Convert
    <2>1. query.op \in {"mac", "pins"} /\ Len(query.words) = Len(Reads(query.op)) /\ target' = target
      BY <1>12 DEF Convert
    <2>2. query' = NoQuery /\ told' = Told(query.op, "SUCCESS", Converted(query.op, query.words))
      BY <1>12 DEF Convert, Ends
    <2>3. told'.value = (IF query.op = "mac" THEN Mac ELSE Expected) /\ told'.op = query.op
      BY <2>1, <2>2, ConvertedRight DEF Understood, Told
    <2>4. EfusesAreUnderstood'
      BY <1>1, <2>1, <2>3 DEF EfusesAreUnderstood, Expected
    <2>5. QueriesOK'
      BY <1>1, <2>1, <2>2 DEF Understood, QueriesOK, NoQuery
    <2> QED
      BY <1>2, <2>4, <2>5 DEF Understood
  <1>13. CASE ReadFails
    <2>1. target' = target /\ target \in {UnknownChip, chip}
      BY <1>13 DEF ReadFails, Understood, QueriesOK
    <2>2. CASE query.op = "detect" /\ query' = [op |-> "magic", words |-> <<>>] /\ told' = told
      BY <1>6, <2>1, <2>2
    <2>3. CASE Ends("TIMEOUT", 0)
      BY <1>5, <2>1, <2>3 DEF Ends, Told
    <2> QED
      BY <1>13, <2>2, <2>3 DEF ReadFails
  <1>14. CASE query = NoQuery /\ told' = Told("none", "none", 0) /\ query' = query /\ target' = target
    BY <1>5, <1>14 DEF Told, Understood, QueriesOK
  <1> QED
    BY <1>4, <1>7, <1>8, <1>9, <1>10, <1>11, <1>12, <1>13, <1>14 DEF QueryNext, QueryHost, queryVars

\* Whatever pins are burnt, and however the queries and their timeouts follow
\* each other, the pins SPI_ATTACH is given and the MAC address are those of
\* the attached chip.
THEOREM EfusesUnderstood == QuerySpec => []EfusesAreUnderstood
  <1>1. QueryInit => Understood
    <2> SUFFICES ASSUME QueryInit PROVE Understood
      OBVIOUS
    <2>1. Blank \in PinType /\ die.pins \in PinType /\ die.magic \in 1 .. 4
      BY PinsAssumption DEF QueryInit, Blank, PinType
    <2>2. DOMAIN die.pins = {"clk", "q", "d", "cs", "hd"}
      BY <2>1 DEF PinType
    <2> QED
      BY <2>1, <2>2 DEF QueryInit, Understood, DieOK, QueriesOK, EfusesAreUnderstood, NoQuery, Told
  <1>2. ShapeOK /\ Understood /\ [QueryNext]_<<flashVars, queryVars>> => Understood'
    BY UnderstoodStep
  <1>3. ShapeOK /\ [QueryNext]_<<flashVars, queryVars>> => ShapeOK'
    BY ShapeStep
  <1>4. Understood => EfusesAreUnderstood
    BY DEF Understood
  <1> QED
    BY <1>1, <1>2, <1>3, <1>4, ShapeInit, PTL DEF QuerySpec
=============================================================================
