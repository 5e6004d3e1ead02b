----------------------------- MODULE LoaderState -----------------------------
(***************************************************************************)
(* What the library remembers of the attached target between calls, over   *)
(* connects, resets and changes of the board: s_target, s_reg and          *)
(* s_target_flash_size (esp_loader.c) and stub_running (esp_stubs.c).      *)
(* A call of the interface is one step, with the error of any of its       *)
(* commands as an outcome; the exchanges themselves are FlashSession's.    *)
(* s_target_flash_size is abstracted to the chip whose size it is.         *)
(***************************************************************************)
EXTENDS Naturals

CONSTANTS
  Known,      \* the chips of esp_target
  Esp8266,    \* one of them: no stub, no MD5 command
  WithInfo,   \* those that answer GET_SECURITY_INFO
  Strangers   \* chips with GET_SECURITY_INFO that esp_target does not know

Unknown == "ESP_UNKNOWN_CHIP"
None    == "none"

ASSUME ChipAssumption ==
  /\ Esp8266 \in Known /\ WithInfo \subseteq Known \ {Esp8266}
  /\ Strangers \cap Known = {}
  /\ {Unknown, None} \cap (Known \cup Strangers) = {}

VARIABLES
  board,        \* the chip attached, whether its secure download mode is burnt, what it runs
  sTarget,      \* s_target
  sReg,         \* the chip whose registers s_reg points to, None for NULL
  flashSize,    \* the chip whose size s_target_flash_size is, None for 0
  stubRunning,  \* stub_running
  linked,       \* the client's last connect succeeded and the target has not left since
  mustReset,    \* the client has called connect_with_stub and not reset_target since
  careless,     \* history: since the last reset_target it has connected where it must reset
  last          \* the last call and what it returned

vars == <<board, sTarget, sReg, flashSize, stubRunning, linked, mustReset, careless, last>>
host == <<sTarget, sReg, flashSize, stubRunning>>

Errors == {"TIMEOUT", "INVALID_RESPONSE"}

Returns(name, result) == last' = [call |-> name, result |-> result]

Run(code) == board' = [board EXCEPT !.runs = code]

Init ==
  /\ board \in [chip : Known \cup Strangers, secure : BOOLEAN, runs : {"app"}]
  /\ sTarget = Unknown
  /\ sReg = None
  /\ flashSize = None
  /\ stubRunning = FALSE
  /\ linked = FALSE
  /\ mustReset = FALSE
  /\ careless = FALSE
  /\ last = [call |-> "none", result |-> "SUCCESS"]

-----------------------------------------------------------------------------
(* loader_initialize_conn and loader_detect_chip *)

\* A register is readable unless the secure download mode forbids it.
Readable == ~board.secure

\* The outcomes of the first half of a connect, t and r being s_target and s_reg.
DetectFails(t, r) ==
  {[result |-> e, target |-> t, reg |-> r] :
     e \in Errors \cup (IF board.chip \in Strangers /\ Readable THEN {"INVALID_TARGET"} ELSE {})}

Mut_CachedDetects ==
  IF sTarget # Unknown THEN {[result |-> "SUCCESS", target |-> sTarget, reg |-> sReg]}
  ELSE {[result |-> "SUCCESS", target |-> board.chip, reg |-> board.chip]}

\* GET_SECURITY_INFO succeeds, or the magic value is that of a known chip.
\* &esp_target[ESP_UNKNOWN_CHIP] is the end of the table.
Detects ==
  IF board.chip \in Strangers
  THEN {[result |-> "SUCCESS", target |-> Unknown, reg |-> Unknown]}
  ELSE IF board.chip \in WithInfo \/ Readable
       THEN {[result |-> "SUCCESS", target |-> board.chip, reg |-> board.chip]}
       ELSE {}

\* loader_read_spi_config and loader_spi_attach_cmd, or an empty FLASH_BEGIN
\* for the ESP8266; the first indexes esp_target.
AttachResults(t) == IF t = Unknown THEN {"UNDEFINED"} ELSE {"SUCCESS"} \cup Errors

\* A client resets a target that ran the stub before it connects again, or is careless.
NoteConnect == careless' = (careless \/ mustReset)

\* esp_loader_connect
Connect ==
  /\ NoteConnect
  /\ Run("rom")
  /\ \E d \in DetectFails(sTarget, sReg) \cup Detects :
       /\ sTarget' = d.target
       /\ sReg' = d.reg
       /\ \/ /\ d.result # "SUCCESS"
             /\ Returns("connect", d.result)
             /\ linked' = FALSE
             /\ UNCHANGED flashSize
          \/ /\ d.result = "SUCCESS"
             /\ flashSize' = None
             /\ \E a \in AttachResults(d.target) :
                  Returns("connect", a) /\ linked' = (a = "SUCCESS")
  /\ UNCHANGED <<stubRunning, mustReset>>

Mut_RunStub(t) ==
  \/ /\ t = Unknown
     /\ Run("rom") /\ Returns("connect_with_stub", "UNDEFINED")
     /\ linked' = FALSE /\ UNCHANGED stubRunning
  \/ /\ t # Unknown /\ t # Esp8266 /\ stubRunning
     /\ Run("rom") /\ Returns("connect_with_stub", "INVALID_PARAM")
     /\ linked' = FALSE /\ UNCHANGED stubRunning
  \/ /\ t # Unknown /\ (t = Esp8266 \/ ~stubRunning)
     /\ \E e \in Errors : Returns("connect_with_stub", e)
     /\ \E code \in {"rom"} \cup (IF t # Esp8266 /\ Readable THEN {"stub"} ELSE {}) : Run(code)
     /\ linked' = FALSE /\ UNCHANGED stubRunning
  \/ /\ t # Unknown /\ t # Esp8266 /\ ~stubRunning /\ Readable
     /\ Run("stub") /\ Returns("connect_with_stub", "SUCCESS")
     /\ linked' = TRUE /\ UNCHANGED stubRunning

\* loader_run_stub on a detected chip t.  The first segment of a stub overlaps
\* the stub that is said to be running; the ESP8266 has only a placeholder,
\* whose empty segments overlap nothing and which never reports OHAI.
RunStub(t) ==
  \/ /\ t = Unknown
     /\ Run("rom") /\ Returns("connect_with_stub", "UNDEFINED")
     /\ linked' = FALSE /\ UNCHANGED stubRunning
  \/ /\ t # Unknown /\ t # Esp8266 /\ stubRunning
     /\ Run("rom") /\ Returns("connect_with_stub", "INVALID_PARAM")
     /\ linked' = FALSE /\ UNCHANGED stubRunning
  \/ /\ t # Unknown /\ (t = Esp8266 \/ ~stubRunning)
     /\ \E e \in Errors : Returns("connect_with_stub", e)
     /\ \E code \in {"rom"} \cup (IF t # Esp8266 /\ Readable THEN {"stub"} ELSE {}) : Run(code)
     /\ linked' = FALSE /\ UNCHANGED stubRunning
  \/ /\ t # Unknown /\ t # Esp8266 /\ ~stubRunning /\ Readable
     /\ Run("stub") /\ Returns("connect_with_stub", "SUCCESS")
     /\ linked' = TRUE /\ stubRunning' = TRUE

ConnectWithStub ==
  /\ NoteConnect
  /\ flashSize' = None
  /\ mustReset' = TRUE
  /\ \E d \in DetectFails(sTarget, sReg) \cup Detects :
       /\ sTarget' = d.target
       /\ sReg' = d.reg
       /\ \/ /\ d.result # "SUCCESS"
             /\ Run("rom") /\ Returns("connect_with_stub", d.result)
             /\ linked' = FALSE /\ UNCHANGED stubRunning
          \/ d.result = "SUCCESS" /\ RunStub(d.target)

\* esp_loader_connect_secure_download_mode; the client passes the size of the
\* flash, and either its chip or ESP_UNKNOWN_CHIP.
ConnectSecure(t) ==
  /\ NoteConnect
  /\ board.chip \in Known
  /\ t \in {board.chip, Unknown}
  /\ flashSize' = board.chip
  /\ Run("rom")
  /\ \E d \in DetectFails(t, sReg) \cup
              (IF t = Unknown THEN Detects ELSE {[result |-> "SUCCESS", target |-> t, reg |-> sReg]}) :
       /\ sTarget' = d.target
       /\ sReg' = d.reg
       /\ \/ /\ d.result # "SUCCESS"
             /\ Returns("connect_secure", d.result) /\ linked' = FALSE
          \/ /\ d.result = "SUCCESS"
             /\ \E a \in AttachResults(d.target) :
                  Returns("connect_secure", a) /\ linked' = (a = "SUCCESS")
  /\ UNCHANGED <<stubRunning, mustReset>>

-----------------------------------------------------------------------------
(* Calls of a connected client *)

\* spi_flash_command reads and writes the registers s_reg points to.
DetectSizeResults ==
  IF sReg \in {None, Unknown} THEN {"UNDEFINED"}
  ELSE Errors \cup (IF Readable THEN {"SUCCESS", "UNSUPPORTED_CHIP"} ELSE {})

FlashDetectSize ==
  /\ linked
  /\ \E res \in DetectSizeResults : Returns("detect_size", res)
  /\ UNCHANGED <<board, host, linked, mustReset, careless>>

\* esp_loader_flash_start keeps a size it has read; a failed detection only
\* loses the check of the image size.
FlashStart ==
  /\ linked
  /\ \/ /\ flashSize = None
        /\ \E res \in DetectSizeResults, r \in {"SUCCESS"} \cup Errors :
             /\ flashSize' = IF res = "SUCCESS" THEN sReg ELSE None
             /\ Returns("start", IF res = "UNDEFINED" THEN res ELSE r)
     \/ /\ flashSize # None
        /\ \E r \in {"SUCCESS"} \cup Errors : Returns("start", r)
        /\ UNCHANGED flashSize
  /\ UNCHANGED <<board, sTarget, sReg, stubRunning, linked, mustReset, careless>>

\* loader_md5_cmd expects the answer of the stub (16 bytes) or of the ROM (32
\* digits) according to stub_running: one that is too short is skipped until
\* the time is up, one that is too long has no status where it is looked for.
Md5Answer(expectStub) ==
  CASE expectStub = (board.runs = "stub") -> "SUCCESS"
    [] expectStub /\ board.runs # "stub"  -> "INVALID_RESPONSE"
    [] ~expectStub /\ board.runs = "stub" -> "TIMEOUT"

\* esp_loader_flash_verify of an intact image over an intact line.
FlashVerify ==
  /\ linked
  /\ Returns("verify", IF sTarget = Esp8266 /\ ~stubRunning THEN "UNSUPPORTED_FUNC"
                                                            ELSE Md5Answer(stubRunning))
  /\ UNCHANGED <<board, host, linked, mustReset, careless>>

\* esp_loader_flash_finish(true) and esp_loader_mem_finish: the target leaves.
Leave ==
  /\ linked
  /\ Run("app")
  /\ linked' = FALSE
  /\ Returns("finish", "SUCCESS")
  /\ UNCHANGED <<host, mustReset, careless>>

\* esp_loader_reset_target
ResetTarget ==
  /\ Run("app")
  /\ stubRunning' = FALSE
  /\ linked' = FALSE
  /\ mustReset' = FALSE
  /\ careless' = FALSE
  /\ Returns("reset", "SUCCESS")
  /\ UNCHANGED <<sTarget, sReg, flashSize>>

\* Another board is plugged in.
Swap ==
  /\ board' \in [chip : Known \cup Strangers, secure : BOOLEAN, runs : {"app"}]
  /\ linked' = FALSE
  /\ last' = [call |-> "none", result |-> "SUCCESS"]
  /\ UNCHANGED <<host, mustReset, careless>>

Next ==
  \/ last.result # "UNDEFINED" /\
       \/ Connect \/ ConnectWithStub \/ \E t \in Known \cup {Unknown} : ConnectSecure(t)
       \/ FlashDetectSize \/ FlashStart \/ FlashVerify \/ Leave \/ ResetTarget \/ Swap

Spec == Init /\ [][Next]_vars

-----------------------------------------------------------------------------
(* Properties *)

\* The flag is set only between connect_with_stub and reset_target.
ClearedByReset == ~careless /\ ~mustReset => ~stubRunning

\* A client that resets the target before it connects again always has a
\* stub_running that tells what the target runs, over failed connects and
\* changes of the board.
FlagIsTrue == ~careless /\ linked => (stubRunning <=> board.runs = "stub")

\* Whatever calls and boards came before, a connected client works with the
\* chip it is connected to.
TargetIsAttached == linked => sTarget = board.chip

\* A remembered flash size is that of the chip the client is connected to.
FlashSizeIsAttached == linked /\ flashSize # None => flashSize = board.chip

\* flash_start never reads through s_reg while it is NULL, and never with the
\* registers of another chip; the client of secure_download_mode is the only
\* one without registers and has a flash size.
RegistersWhenNeeded == linked /\ flashSize = None => sReg = board.chip
=============================================================================
