---------------------------- MODULE BoardPrograms ----------------------------
(***************************************************************************)
(* The demonstration programs and the scripts of the boot, each of which   *)
(* is a system of its own: which of them runs is chosen at the start, and  *)
(* the variables of the others are not used.  Programs that have a         *)
(* variable of the same name share it.                                     *)
(***************************************************************************)
EXTENDS Integers, Sequences

CONSTANTS
    Programs,       \* the names of those that may be chosen
    CommandLines, MaxIds, CanLoops, PatternMod, CanFaults,          \* CanTest
    MaxLen, BufLen, LinkLen, Blocking, BtFaults,                    \* BtTransfer
    Timeouts, TestTimes, DefaultTimeout, Lateness, WatchdogFaults,  \* WatchdogTest
    Sec, Min, Hour, Requests, MaxDelay, RtcFaults,                  \* RtcTest
    SysfsLoops, Leds, MaxSignals, SysfsFaults,                      \* SysfsGpio
    Presses, IrqCapable, GpioFaults,                                \* GpioTest
    Prompt, BatteryFaults,                                          \* BatteryTest
    Addresses, Regions, WirelessRetries, MaxCuts, WirelessFaults,   \* WirelessBoot
    BluezRetries, BluezFaults                                       \* BluezInit

VARIABLES
    program,
    main_opts, main, cnt, thread, queue, got, clean,                \* CanTest
    tx, rx, file, pos, buf, bytes_written, conn, out, rest,
    permissions, result, full, heard, damaged,                      \* BtTransfer
    wd_timeout, wd_disable, wd_test_time, watchdog, timeout, asleep,
    since,                                                          \* WatchdogTest
    req, rtc, alarm, tm, results, start, delay,                     \* RtcTest
    round, i, run, value, led_given, pin, out_exported, watched,
    news, edges, late, signals,                                     \* SysfsGpio
    module, gpio, opened, dir, action, complaint, unseen, at, loops,
    inval, lastinval, outval, ret_val, irq_capable, falls, held,    \* GpioTest
    parent, child, ppid, timer, told,                               \* BatteryTest
    mac, region, softmac, loaded, wlan0, modprobes, cuts,           \* WirelessBoot
    chip, power, hci0, fw_mac, stored, address,                     \* BluezInit
    pc, left, pending, line, led, link, tries, faults               \* shared

can_vars == <<main_opts, main, cnt, thread, queue, got, clean>>
bt_vars == <<tx, rx, file, pos, buf, bytes_written, conn, out, rest,
             permissions, result, full, heard, damaged>>
wd_vars == <<wd_timeout, wd_disable, wd_test_time, watchdog, timeout, asleep, since>>
rtc_vars == <<req, rtc, alarm, tm, results, start, delay>>
sysfs_vars == <<round, i, run, value, led_given, pin, out_exported, watched,
                news, edges, late, signals>>
gpio_vars == <<module, gpio, opened, dir, action, complaint, unseen, at, loops,
               inval, lastinval, outval, ret_val, irq_capable, falls, held>>
bat_vars == <<parent, child, ppid, timer, told>>
wlan_vars == <<mac, region, softmac, loaded, wlan0, modprobes, cuts>>
bluez_vars == <<chip, power, hci0, fw_mac, stored, address>>
vars == <<program, can_vars, bt_vars, wd_vars, rtc_vars, sysfs_vars, gpio_vars,
          bat_vars, wlan_vars, bluez_vars, pc, left, pending, line, led, link, tries,
          faults>>

-----------------------------------------------------------------------------
Can == INSTANCE CanTest WITH Loops <- CanLoops, MaxFaults <- CanFaults
Bt == INSTANCE BtTransfer WITH MaxFaults <- BtFaults
Watchdog == INSTANCE WatchdogTest WITH MaxFaults <- WatchdogFaults
Rtc == INSTANCE RtcTest WITH MaxFaults <- RtcFaults
Sysfs == INSTANCE SysfsGpio WITH Loops <- SysfsLoops, MaxFaults <- SysfsFaults
Gpio == INSTANCE GpioTest WITH MaxFaults <- GpioFaults
Battery == INSTANCE BatteryTest WITH MaxFaults <- BatteryFaults
Wireless == INSTANCE WirelessBoot WITH Retries <- WirelessRetries, MaxFaults <- WirelessFaults
Bluez == INSTANCE BluezInit WITH Retries <- BluezRetries, MaxFaults <- BluezFaults

ASSUME CanAssumption == Can!ConstantsOk
ASSUME BtAssumption == Bt!ConstantsOk
ASSUME WatchdogAssumption == Watchdog!ConstantsOk
ASSUME SysfsAssumption == Sysfs!ConstantsOk
ASSUME RtcAssumption == Rtc!ConstantsOk
ASSUME GpioAssumption == Gpio!ConstantsOk
ASSUME BatteryAssumption == BatteryFaults \in Nat
ASSUME WirelessAssumption == Wireless!ConstantsOk
ASSUME BluezAssumption == BluezRetries \in Nat /\ BluezFaults \in Nat

-----------------------------------------------------------------------------
Off == "off"
can_off ==
    /\ main_opts = Off /\ main = Off /\ cnt = Off /\ thread = Off
    /\ queue = Off /\ got = Off /\ clean = Off
bt_off ==
    /\ tx = Off /\ rx = Off /\ file = Off /\ pos = Off /\ buf = Off
    /\ bytes_written = Off /\ conn = Off /\ out = Off
    /\ rest = Off /\ permissions = Off /\ result = Off /\ full = Off
    /\ heard = Off /\ damaged = Off
wd_off ==
    /\ wd_timeout = Off /\ wd_disable = Off /\ wd_test_time = Off
    /\ watchdog = Off /\ timeout = Off /\ asleep = Off /\ since = Off
rtc_off ==
    /\ req = Off /\ rtc = Off /\ alarm = Off /\ tm = Off /\ results = Off
    /\ start = Off /\ delay = Off
sysfs_off ==
    /\ round = Off /\ i = Off /\ run = Off /\ value = Off /\ led_given = Off
    /\ pin = Off /\ out_exported = Off /\ watched = Off /\ news = Off
    /\ edges = Off /\ late = Off /\ signals = Off
gpio_off ==
    /\ module = Off /\ gpio = Off /\ opened = Off /\ dir = Off /\ action = Off
    /\ complaint = Off /\ unseen = Off /\ at = Off /\ loops = Off
    /\ inval = Off /\ lastinval = Off /\ outval = Off /\ ret_val = Off
    /\ irq_capable = Off /\ falls = Off /\ held = Off

bat_off == parent = Off /\ child = Off /\ ppid = Off /\ timer = Off /\ told = Off
wlan_off ==
    /\ mac = Off /\ region = Off /\ softmac = Off /\ loaded = Off /\ wlan0 = Off
    /\ modprobes = Off /\ cuts = Off
bluez_off ==
    /\ chip = Off /\ power = Off /\ hci0 = Off /\ fw_mac = Off /\ stored = Off
    /\ address = Off
boards_off == bat_off /\ wlan_off /\ bluez_off
tests_off == can_off /\ bt_off /\ wd_off /\ rtc_off /\ sysfs_off /\ gpio_off
levels_off == line = Off /\ led = Off

Init ==
    /\ program \in Programs
    /\ \/ program = "can_test" /\ Can!Init /\ bt_off /\ wd_off /\ rtc_off /\ sysfs_off
           /\ gpio_off /\ boards_off /\ levels_off
           /\ pc = Off /\ left = Off /\ pending = Off /\ link = Off /\ tries = Off
       \/ program = "bt_test" /\ Bt!Init /\ can_off /\ wd_off /\ rtc_off /\ sysfs_off
           /\ gpio_off /\ boards_off /\ levels_off
           /\ pc = Off /\ left = Off /\ pending = Off /\ tries = Off
       \/ program = "watchdog_test" /\ Watchdog!Init /\ can_off /\ bt_off /\ rtc_off
           /\ sysfs_off /\ gpio_off /\ boards_off /\ levels_off
           /\ pending = Off /\ link = Off /\ tries = Off
       \/ program = "rtc_test" /\ Rtc!Init /\ can_off /\ bt_off /\ wd_off /\ sysfs_off
           /\ gpio_off /\ boards_off /\ levels_off /\ link = Off /\ tries = Off
       \/ program = "gpio_sysfs_test" /\ Sysfs!Init /\ can_off /\ bt_off /\ wd_off /\ rtc_off
           /\ gpio_off /\ boards_off /\ left = Off /\ pending = Off /\ link = Off /\ tries = Off
       \/ program = "gpio_test" /\ Gpio!Init /\ can_off /\ bt_off /\ wd_off /\ rtc_off
           /\ sysfs_off /\ boards_off /\ left = Off /\ link = Off /\ tries = Off
       \/ program = "battery_test" /\ Battery!Init /\ tests_off /\ wlan_off /\ bluez_off
           /\ levels_off /\ pc = Off /\ left = Off /\ pending = Off /\ link = Off /\ tries = Off
       \/ program = "atheros.sh" /\ Wireless!Init /\ tests_off /\ bat_off /\ bluez_off
           /\ levels_off /\ left = Off /\ pending = Off
       \/ program = "bluez-init" /\ Bluez!Init /\ tests_off /\ bat_off /\ wlan_off
           /\ levels_off /\ left = Off /\ pending = Off /\ link = Off

\* what a step of a program leaves alone
Boards == <<bat_vars, wlan_vars, bluez_vars>>
Tests == <<can_vars, bt_vars, wd_vars, rtc_vars, sysfs_vars, gpio_vars>>
BesideCan == UNCHANGED <<program, bt_vars, wd_vars, rtc_vars, sysfs_vars, gpio_vars, Boards,
                         pc, left, pending, line, led, link, tries>>
BesideBt == UNCHANGED <<program, can_vars, wd_vars, rtc_vars, sysfs_vars, gpio_vars, Boards,
                        pc, left, pending, line, led, tries>>
BesideWatchdog == UNCHANGED <<program, can_vars, bt_vars, rtc_vars, sysfs_vars, gpio_vars,
                              Boards, pending, line, led, link, tries>>
BesideRtc == UNCHANGED <<program, can_vars, bt_vars, wd_vars, sysfs_vars, gpio_vars, Boards,
                         line, led, link, tries>>
BesideSysfs == UNCHANGED <<program, can_vars, bt_vars, wd_vars, rtc_vars, gpio_vars, Boards,
                           left, pending, link, tries>>
BesideGpio == UNCHANGED <<program, can_vars, bt_vars, wd_vars, rtc_vars, sysfs_vars, Boards,
                          left, link, tries>>
BesideBattery == UNCHANGED <<program, Tests, wlan_vars, bluez_vars, pc, left, pending, line,
                             led, link, tries>>
BesideWireless == UNCHANGED <<program, Tests, bat_vars, bluez_vars, left, pending, line, led>>
BesideBluez == UNCHANGED <<program, Tests, bat_vars, wlan_vars, left, pending, line, led, link>>

Next ==
    \/ program = "can_test" /\ Can!Next /\ BesideCan
    \/ program = "bt_test" /\ Bt!Next /\ BesideBt
    \/ program = "watchdog_test" /\ Watchdog!Next /\ BesideWatchdog
    \/ program = "rtc_test" /\ Rtc!Next /\ BesideRtc
    \/ program = "gpio_sysfs_test" /\ Sysfs!Next /\ BesideSysfs
    \/ program = "gpio_test" /\ Gpio!Next /\ BesideGpio
    \/ program = "battery_test" /\ Battery!Next /\ BesideBattery
    \/ program = "atheros.sh" /\ Wireless!Next /\ BesideWireless
    \/ program = "bluez-init" /\ Bluez!Next /\ BesideBluez

(***************************************************************************)
(* What is scheduled in each program (see its module): processes, threads, *)
(* the clock, the interrupt handler.  One program runs, so one condition   *)
(* serves them all.                                                        *)
(***************************************************************************)
First ==
    \/ program = "can_test" /\ Can!Main("tx") /\ BesideCan
    \/ program = "bt_test" /\ Bt!Transmitter /\ BesideBt
    \/ program = "watchdog_test" /\ Watchdog!Program /\ BesideWatchdog
    \/ program = "rtc_test" /\ Rtc!Program /\ BesideRtc
    \/ program = "gpio_sysfs_test" /\ Sysfs!Program /\ BesideSysfs
    \/ program = "gpio_test" /\ Gpio!Program /\ BesideGpio
    \/ program = "battery_test" /\ Battery!Parent /\ BesideBattery
    \/ program = "atheros.sh" /\ Wireless!Script /\ BesideWireless
    \/ program = "bluez-init" /\ Bluez!Script /\ BesideBluez
Second ==
    \/ program = "can_test" /\ Can!Main("rx") /\ BesideCan
    \/ program = "bt_test" /\ Bt!Receiver /\ BesideBt
    \/ program = "watchdog_test" /\ Watchdog!Tick /\ BesideWatchdog
    \/ program = "rtc_test" /\ Rtc!Tick /\ BesideRtc
    \/ program = "gpio_test" /\ Gpio!Handler /\ BesideGpio
    \/ program = "battery_test" /\ (Battery!Child \/ Battery!Tick) /\ BesideBattery
CanThread(s, n) ==
    program = "can_test" /\ n \in Can!Index /\ Can!Thread(s, n) /\ BesideCan

Spec ==
    /\ Init
    /\ [][Next]_vars
    /\ WF_vars(First) /\ WF_vars(Second)
    /\ \A s \in {"tx", "rx"}, n \in 1 .. MaxIds : WF_vars(CanThread(s, n))

-----------------------------------------------------------------------------
(* Each program has the types of its module.                               *)
TypeOK ==
    CASE program = "can_test" -> Can!TypeOK
      [] program = "bt_test" -> Bt!TypeOK
      [] program = "watchdog_test" -> Watchdog!TypeOK
      [] program = "rtc_test" -> Rtc!TypeOK
      [] program = "gpio_sysfs_test" -> Sysfs!TypeOK
      [] program = "gpio_test" -> Gpio!TypeOK
      [] program = "battery_test" -> Battery!TypeOK
      [] program = "atheros.sh" -> Wireless!TypeOK
      [] program = "bluez-init" -> Bluez!TypeOK

(* What a program prints, returns or stands for is true.  can_test: "ok"   *)
(* stands for the frames sent, and an undisturbed can_test reports "ok".   *)
(* bt_test: what has arrived so far is the beginning of the file, unless a *)
(* call on the permissions failed unseen, and two exit statuses of success *)
(* stand for all of it, unless besides the link, recv or fclose failed.    *)
(* battery_test: the parent ends for a reason.  The boot: the driver has   *)
(* this board's files, whatever a power cut left, its failure is reported  *)
(* after all retries, and bluetoothd finds its interface.                  *)
ReportsAreTrue ==
    /\ program = "can_test" => Can!OkMeansAllReceived /\ Can!CleanMeansOk
    /\ program = "bt_test" => Bt!ReceivedIsPrefix /\ Bt!SuccessMeansTransferred
    /\ program = "battery_test" => Battery!ParentWaits
    /\ program = "atheros.sh" => Wireless!LoadedWithOwnFiles /\ Wireless!RetriesUsed
    /\ program = "bluez-init" => Bluez!ServiceIsUsable

(* watchdog_test and rtc_test keep to the seconds they were told: no reset *)
(* and no alarm before that time, and then one.                            *)
OnTime ==
    /\ program = "watchdog_test" => Watchdog!NoResetInTest /\ Watchdog!ResetInTime
    /\ program = "rtc_test" => Rtc!AlarmRings /\ Rtc!NotTooEarly

(* A program that ends leaves nothing behind that goes on without it:      *)
(* options of running threads freed, an alarm armed, a pin that was not    *)
(* even asked to be unexported (an unexport that fails goes unnoticed), an *)
(* interrupt requested, a signal sent to init.                             *)
NothingLeft ==
    /\ program = "can_test" => Can!OptionsOutliveThreads
    /\ program = "rtc_test" => Rtc!AlarmOffAtEnd
    /\ program = "gpio_sysfs_test" => Sysfs!NothingLeftExported
    /\ program = "gpio_test" => Gpio!LeavesPinQuiet
    /\ program = "battery_test" => Battery!OnlyTheParentIsTold

(* Nothing is done without need: a press is counted only when there was    *)
(* one since the last, it shows on the LED, after a signal at most one     *)
(* more is counted, flash is written only to change what is there, and the *)
(* clock is set on, not back.                                              *)
StepsAreNeeded ==
    [][/\ program = "gpio_sysfs_test" =>
            /\ Sysfs!PressesAreReal /\ Sysfs!StopsAtNextPress
            /\ (pc = "press" /\ pc' = "loop" /\ led_given) => led' # led
       /\ (program = "gpio_test" /\ led' # led) => falls > 0 \/ held
       /\ program = "rtc_test" => Rtc!ClockGoesOn
       /\ program = "atheros.sh" => Wireless!WritesOnlyDifferences]_vars

(* What the program waits for comes: both sides of can_test and bt_test    *)
(* end unless the bus or the disk fails them, -d dead resets the board,    *)
(* every press wakes gpio_test up, the parent of the battery daemon and    *)
(* the scripts of the boot end.                                            *)
Awaited ==
    \/ program = "can_test"
    \/ program = "bt_test" /\ conn = "connected"
    \/ program = "watchdog_test" /\ ~wd_disable
    \/ program = "gpio_test" /\ Gpio!PressWaits
    \/ program \in {"battery_test", "atheros.sh", "bluez-init"}
Over ==
    \/ program = "can_test" /\ Can!BothOver
    \/ program = "bt_test" /\ Bt!Over
    \/ program = "watchdog_test" /\ watchdog = "fired"
    \/ program = "gpio_test" /\ ~Gpio!PressWaits
    \/ program = "battery_test" /\ parent \in {"exited", "monitor"}
    \/ program = "atheros.sh" /\ Wireless!Over
    \/ program = "bluez-init" /\ Bluez!Over
Ends == Awaited ~> Over
=============================================================================
