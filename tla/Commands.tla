------------------------------ MODULE Commands ------------------------------
(***************************************************************************)
(* The commands of the serial protocol: the packed structures of           *)
(* protocol.h and the functions of protocol_common.c that fill them in.    *)
(* Of each command the module keeps what decides how it travels: how many  *)
(* bytes follow the common header, whether its answer carries data, and    *)
(* what it does to the sequence number.  Sizes are in bytes.               *)
(***************************************************************************)
EXTENDS Naturals

\* command_common_t; an answer is a common_response_t, the data it carries
\* and a response_status_t.
HeaderSize == 8
AnswerSize(data) == 8 + data + 2

\* The fixed fields behind the header, as the structures declare them.
Fields ==
  [FLASH_BEGIN       |-> 20, FLASH_DATA   |-> 16, FLASH_END       |-> 4,
   MEM_BEGIN         |-> 16, MEM_DATA     |-> 16, MEM_END         |-> 8,
   SYNC              |-> 36, WRITE_REG    |-> 16, READ_REG        |-> 4,
   SPI_SET_PARAMS    |-> 24, SPI_ATTACH   |-> 8,  CHANGE_BAUDRATE |-> 8,
   SPI_FLASH_MD5     |-> 16, GET_SECURITY_INFO |-> 0]

CommandNames == DOMAIN Fields

DataCommands == {"FLASH_DATA", "MEM_DATA"}

\* The fields send_cmd is told to write.  ctx says what the functions look
\* at: whether the target's FLASH_BEGIN has the word "encrypted", whether the
\* stub answers (its SPI_ATTACH has no second word), how long the block is.
Sent(cmd, ctx) ==
  CASE cmd \in DataCommands -> Fields[cmd] + ctx.block
    [] cmd = "FLASH_BEGIN" /\ ~ctx.encryption -> Fields[cmd] - 4
    [] cmd = "SPI_ATTACH" /\ ctx.stub -> Fields[cmd] - 4
    [] OTHER -> Fields[cmd]

\* cmd_size + data_size of send_cmd_config.
CommandSize(cmd, ctx) == HeaderSize + Sent(cmd, ctx)

\* send_cmd_config.resp_data # NULL.
HasAnswerData(cmd) == cmd \in {"SPI_FLASH_MD5", "GET_SECURITY_INFO"}

\* The two commands that restart the shared sequence number of the data
\* commands, and the number a data command carries and leaves behind.
RestartsSequence(cmd) == cmd \in {"FLASH_BEGIN", "MEM_BEGIN"}
NextSequence(cmd, n) ==
  CASE RestartsSequence(cmd) -> 0
    [] cmd \in DataCommands -> n + 1
    [] OTHER -> n
=============================================================================
