SPECIFICATION Spec
CONSTANTS
    Programs = {"can_test", "bt_test", "watchdog_test", "rtc_test", "gpio_sysfs_test", "gpio_test",
                "battery_test", "atheros.sh", "bluez-init"}
    CommandLines <- MCCommandLines  MaxIds = 2  CanLoops = 2  PatternMod = 3  CanFaults = 1
    MaxLen = 5  BufLen = 2  LinkLen = 3  Blocking = TRUE  BtFaults = 2
    Timeouts = {1, 2, 3, 4}  TestTimes = {0, 1, 3}  DefaultTimeout = 5  Lateness = 1
    WatchdogFaults = 1
    Sec = 5  Min = 3  Hour = 2  Requests <- MCRequests  MaxDelay = 2  RtcFaults = 1
    SysfsLoops = 2  Leds = {TRUE, FALSE}  MaxSignals = 1  SysfsFaults = 1
    Presses = 2  IrqCapable = {TRUE, FALSE}  GpioFaults = 1
    Prompt = TRUE  BatteryFaults = 1
    Addresses = {"own", "default"}  Regions = {"US", "world"}  WirelessRetries = 2
    MaxCuts = 2  WirelessFaults = 1
    BluezRetries = 3  BluezFaults = 3
INVARIANTS
    TypeOK
    ReportsAreTrue
    OnTime
    NothingLeft
PROPERTIES
    StepsAreNeeded
    Ends
