\* The timers of all ports, before and across a wrap of the clock.
CONSTANTS
  Ports = {"esp32", "stm32", "pico", "usb", "raspberry"}
  Wrap = 32
  Decisec = 2
  MaxVtime = 4
  Timeouts = {2, 5, 12}
  Starts = {24}
  Horizon = 44
SPECIFICATION TimerSpec
CHECK_DEADLOCK FALSE
INVARIANTS
  NotEarly
  WaitBounded
