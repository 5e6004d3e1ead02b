\* Every chip of the table with each of its magic values, pins of both numberings,
\* default pins and pins used twice; one read of the flash size.
CONSTANTS
  Chips = {"ESP8266_CHIP", "ESP32_CHIP", "ESP32S2_CHIP", "ESP32C3_CHIP", "ESP32S3_CHIP",
           "ESP32C2_CHIP", "ESP32H2_CHIP", "ESP32C6_CHIP"}
  InfoChips = {"ESP32S2_CHIP", "ESP32C3_CHIP", "ESP32S3_CHIP", "ESP32C2_CHIP",
               "ESP32H2_CHIP", "ESP32C6_CHIP"}
  PinSets <- BurntPins
  Trials = 2
  Ids = {"4MB", "odd"}
  KnownIds = {"4MB"}
  MaxCalls = 2
SPECIFICATION QuerySpec
INVARIANTS
  DetectedIsReal
  ConfigRestored
  EfusesAreUnderstood
PROPERTY DetectReturns
CHECK_DEADLOCK FALSE
