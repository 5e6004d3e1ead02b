\* Every program on every chip, with both polarities of the pins.
SPECIFICATION ProgramSpec
CONSTANTS
  Mains = {"esp32_example", "esp32_stub_example", "esp32_load_ram_example",
           "esp32_spi_load_ram_example", "esp32_get_target_info_example", "raspberry_example",
           "pi_pico_example", "zephyr_example", "stm32_example", "lx16"}
  Rates = {115200, 460800}
INVARIANTS
  ExchangesHeard
  LogIsReadable
  BoardIsLeftUsable
  DriverStaysAway
