\* Three kinds of chip, and one the table does not know.  The program stops when
\* it dereferences a null s_reg or reads past a table.
CONSTANTS
  Known = {esp8266, esp32, esp32s3}
  Esp8266 = esp8266
  WithInfo = {esp32s3}
  Strangers = {esp32p4}
SPECIFICATION Spec
CHECK_DEADLOCK FALSE
INVARIANTS
  FlagIsTrue
  TargetIsAttached
