\* Two programs, two faults, the stubs of four chips and every layout of the application.
SPECIFICATION Spec
CONSTANTS
  MaxLate = 1
  Faults = {"lose_command", "lose_answer", "refuse"}
  Chips = {"ESP8266_CHIP", "ESP32_CHIP", "ESP32S3_CHIP", "ESP32C6_CHIP"}
  Layouts = {"beside", "over_first", "over_second", "around_second"}
  RamBlock = 6144
  Retries = 3
  Policies = {"append", "positional", "strict"}
  MaxPrograms = 2
  MaxFaults = 2
INVARIANTS
  LoadedIsWhole
  ResidentIntact
  ReportedStubRuns
PROPERTIES
  CleanLoadsSucceed
  DownloadsEnd
CHECK_DEADLOCK FALSE
