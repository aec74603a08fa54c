------------------------ MODULE BoardProgramsProofs ------------------------
(***************************************************************************)
(* Proofs about BoardPrograms: for each program the inductive invariant of *)
(* its module, what it is good for, and then the theorems about all of     *)
(* them.                                                                   *)
(***************************************************************************)
EXTENDS BoardPrograms, SequenceTheorems, TLAPS

-----------------------------------------------------------------------------
(***************************************************************************)
(* watchdog_test.  From open on the watchdog is armed, and as long as no   *)
(* ioctl has failed what is left of its time is known from what the        *)
(* program and the clock have done since the last kick.                    *)
(***************************************************************************)
WatchdogCount ==
    /\ pc \in {"loop", "sleep", "finish", "done"} => timeout = wd_timeout
    /\ pc = "sleep" => left = timeout - asleep
    /\ pc = "finish" => left = timeout
    /\ pc = "done" => left = timeout - since
    /\ pc = "done" /\ wd_disable => watchdog = "off"

WatchdogInv ==
    /\ Watchdog!TypeOK
    /\ pc = "open" => watchdog = "off"
    /\ pc \notin {"open", "done"} => watchdog # "off"
    /\ watchdog = "armed" => left > 0
    /\ watchdog = "fired" => left = 0 /\ pc \in {"sleep", "done", "failed"}
    /\ pc = "sleep" => wd_test_time > 0
    /\ pc # "done" => since = 0
    /\ pc = "failed" => faults > 0
    /\ faults = 0 => WatchdogCount

LEMMA WatchdogInitial == Watchdog!Init => WatchdogInv
  BY WatchdogAssumption DEF Watchdog!ConstantsOk, Watchdog!Init, WatchdogInv, WatchdogCount,
     Watchdog!TypeOK

LEMMA WatchdogStep == WatchdogInv /\ Watchdog!Next => WatchdogInv'
<1> SUFFICES ASSUME WatchdogInv, Watchdog!Next PROVE WatchdogInv'
  OBVIOUS
<1> USE WatchdogAssumption
    DEF Watchdog!ConstantsOk, WatchdogInv, WatchdogCount, Watchdog!TypeOK, Watchdog!options,
        Watchdog!At, Watchdog!Alive, Watchdog!Outcome, Watchdog!Fault
<1>1. CASE Watchdog!Open
  BY <1>1 DEF Watchdog!Open
<1>2. CASE Watchdog!SetTimeout
  BY <1>2 DEF Watchdog!SetTimeout
<1>3. CASE Watchdog!Kick
  BY <1>3 DEF Watchdog!Kick, Watchdog!wd_keep_alive
<1>4. CASE Watchdog!Wake
  BY <1>4 DEF Watchdog!Wake
<1>5. CASE Watchdog!LastKick
  BY <1>5 DEF Watchdog!LastKick, Watchdog!wd_keep_alive
<1>6. CASE Watchdog!Finish
  BY <1>6 DEF Watchdog!Finish
<1>7. CASE Watchdog!Tick
  BY <1>7 DEF Watchdog!Tick
<1>8. CASE Watchdog!Terminated
  BY <1>8 DEF Watchdog!Terminated, Watchdog!vars
<1> QED
  BY <1>1, <1>2, <1>3, <1>4, <1>5, <1>6, <1>7, <1>8 DEF Watchdog!Next, Watchdog!Program

LEMMA WatchdogSafe ==
  WatchdogInv => Watchdog!NoResetInTest /\ Watchdog!ResetInTime
  BY WatchdogAssumption
  DEF WatchdogInv, WatchdogCount, Watchdog!TypeOK, Watchdog!NoResetInTest,
      Watchdog!ResetInTime, Watchdog!ConstantsOk

-----------------------------------------------------------------------------
(***************************************************************************)
(* battery_test.  When the child asks for its parent nobody has ended yet, *)
(* if no second passes in between: the parent stays in pause until it is   *)
(* signalled or its time is over.                                          *)
(***************************************************************************)
BatteryInv ==
    /\ Battery!TypeOK
    /\ parent = "fork" => child = "none"
    /\ child = "getppid" => parent \in {"alarm", "call_pause", "pause"}
    /\ child \in {"set_up", "kill"} => ppid = "parent"
    /\ child # "monitor" => told = "nobody"
    /\ told # "init"
    /\ Battery!ParentWaits

LEMMA BatteryInitial == Battery!Init => BatteryInv
  BY BatteryAssumption
  DEF Battery!Init, BatteryInv, Battery!TypeOK, Battery!ParentWaits, Battery!Off

LEMMA BatteryStep ==
  ASSUME Prompt, BatteryInv, Battery!Next
  PROVE  BatteryInv'
<1> USE BatteryAssumption
    DEF BatteryInv, Battery!TypeOK, Battery!ParentWaits, Battery!Off, Battery!Fault,
        Battery!Signalled
<1>1. CASE Battery!AlreadyDaemon
  BY <1>1 DEF Battery!AlreadyDaemon
<1>2. CASE Battery!Fork
  BY <1>2 DEF Battery!Fork
<1>3. CASE Battery!Alarm
  BY <1>3 DEF Battery!Alarm
<1>4. CASE Battery!Pause
  BY <1>4 DEF Battery!Pause
<1>5. CASE Battery!GetPpid
  BY <1>5 DEF Battery!GetPpid
<1>6. CASE Battery!SetUp
  BY <1>6 DEF Battery!SetUp
<1>7. CASE Battery!Tell
  BY <1>7 DEF Battery!Tell
<1>8. CASE Battery!Tick
  BY <1>8 DEF Battery!Tick
<1>9. CASE Battery!Terminated
  BY <1>9 DEF Battery!Terminated, Battery!vars
<1> QED
  BY <1>1, <1>2, <1>3, <1>4, <1>5, <1>6, <1>7, <1>8, <1>9
  DEF Battery!Next, Battery!Parent, Battery!Child

LEMMA BatterySafe == BatteryInv => Battery!ParentWaits /\ Battery!OnlyTheParentIsTold
  BY DEF BatteryInv, Battery!OnlyTheParentIsTold

-----------------------------------------------------------------------------
(***************************************************************************)
(* atheros.sh.  What the files are in each place of the script, and how    *)
(* the tries that are left relate to the calls of modprobe.                *)
(***************************************************************************)
WirelessFiles ==
    /\ pc = "cp" => softmac # mac
    /\ pc = "copying" => softmac = Wireless!Partial
    /\ pc = "linking" => link = Wireless!None
    /\ pc \in {"link", "linking", "load", "modprobe", "rmmod", "done", "failed"} => softmac = mac
    /\ pc \in {"load", "modprobe", "rmmod", "done", "failed"} => link = region

WirelessTries ==
    /\ pc \in {"softmac", "cp", "copying", "link", "linking", "load"} => modprobes = 0
    /\ pc = "modprobe" => modprobes + tries = WirelessRetries
    /\ pc = "rmmod" => modprobes + tries = WirelessRetries + 1 /\ tries > 0
    /\ pc = "failed" => modprobes = WirelessRetries
    /\ wlan0 => loaded
    /\ pc \in {"modprobe", "rmmod", "failed"} => ~wlan0

WirelessSwitches == loaded \in BOOLEAN /\ wlan0 \in BOOLEAN
WirelessTypes ==
    /\ pc \in {"softmac", "cp", "copying", "link", "linking", "load", "modprobe",
               "rmmod", "done", "failed", "stopped"}
    /\ mac \in Addresses /\ region \in Regions
    /\ softmac \in Addresses \cup {Wireless!None, Wireless!Partial}
    /\ link \in Regions \cup {Wireless!None}
    /\ tries \in 0 .. WirelessRetries /\ modprobes \in 0 .. WirelessRetries
    /\ cuts \in 0 .. MaxCuts /\ faults \in 0 .. WirelessFaults

WirelessInv ==
    /\ WirelessSwitches /\ WirelessTypes /\ WirelessFiles /\ WirelessTries
    /\ Wireless!LoadedWithOwnFiles

LEMMA WirelessInitial == Wireless!Init => WirelessInv
<1> USE WirelessAssumption DEF Wireless!ConstantsOk, Wireless!Init
<1>1. Wireless!Init => WirelessSwitches
  BY DEF WirelessSwitches
<1>2. Wireless!Init => WirelessTypes
  BY DEF WirelessTypes
<1>3. Wireless!Init => WirelessFiles
  BY DEF WirelessFiles
<1>4. Wireless!Init => WirelessTries
  BY DEF WirelessTries
<1>5. Wireless!Init => Wireless!LoadedWithOwnFiles
  BY DEF Wireless!LoadedWithOwnFiles
<1> QED
  BY <1>1, <1>2, <1>3, <1>4, <1>5 DEF WirelessInv

LEMMA WirelessStep == WirelessInv /\ Wireless!Next => WirelessInv'
<1> SUFFICES ASSUME WirelessInv, Wireless!Next PROVE WirelessInv'
  OBVIOUS
<1> USE WirelessAssumption DEF Wireless!ConstantsOk, Wireless!None, Wireless!Partial
<1>1. CASE Wireless!CompareAddress
  <2> USE <1>1 DEF WirelessInv, Wireless!CompareAddress
  <2>1. WirelessSwitches'
    BY DEF WirelessSwitches
  <2>2. WirelessTypes'
    BY DEF WirelessTypes, WirelessTries
  <2>3. WirelessFiles'
    BY DEF WirelessFiles, WirelessTypes, WirelessTries
  <2>4. WirelessTries'
    BY DEF WirelessTries, WirelessTypes
  <2>5. Wireless!LoadedWithOwnFiles'
    BY DEF Wireless!LoadedWithOwnFiles, WirelessFiles, WirelessTypes
  <2> QED
    BY <2>1, <2>2, <2>3, <2>4, <2>5
<1>2. CASE Wireless!Copy
  <2> USE <1>2 DEF WirelessInv, Wireless!Copy
  <2>1. WirelessSwitches'
    BY DEF WirelessSwitches
  <2>2. WirelessTypes'
    BY DEF WirelessTypes, WirelessTries
  <2>3. WirelessFiles'
    BY DEF WirelessFiles, WirelessTypes, WirelessTries
  <2>4. WirelessTries'
    BY DEF WirelessTries, WirelessTypes
  <2>5. Wireless!LoadedWithOwnFiles'
    BY DEF Wireless!LoadedWithOwnFiles, WirelessFiles, WirelessTypes
  <2> QED
    BY <2>1, <2>2, <2>3, <2>4, <2>5
<1>3. CASE Wireless!Link
  <2> USE <1>3 DEF WirelessInv, Wireless!Link
  <2>1. WirelessSwitches'
    BY DEF WirelessSwitches
  <2>2. WirelessTypes'
    BY DEF WirelessTypes, WirelessTries
  <2>3. WirelessFiles'
    BY DEF WirelessFiles, WirelessTypes, WirelessTries
  <2>4. WirelessTries'
    BY DEF WirelessTries, WirelessTypes
  <2>5. Wireless!LoadedWithOwnFiles'
    BY DEF Wireless!LoadedWithOwnFiles, WirelessFiles, WirelessTypes
  <2> QED
    BY <2>1, <2>2, <2>3, <2>4, <2>5
<1>4. CASE Wireless!Load
  <2> USE <1>4 DEF WirelessInv, Wireless!Load
  <2>1. WirelessSwitches'
    BY DEF WirelessSwitches
  <2>2. WirelessTypes'
    BY DEF WirelessTypes, WirelessTries
  <2>3. WirelessFiles'
    BY DEF WirelessFiles, WirelessTypes, WirelessTries
  <2>4. WirelessTries'
    BY DEF WirelessTries, WirelessTypes
  <2>5. Wireless!LoadedWithOwnFiles'
    BY DEF Wireless!LoadedWithOwnFiles, WirelessFiles, WirelessTypes
  <2> QED
    BY <2>1, <2>2, <2>3, <2>4, <2>5
<1>5. CASE Wireless!Modprobe
  <2> USE <1>5 DEF WirelessInv, Wireless!Modprobe
  <2>1. WirelessSwitches'
    BY DEF WirelessSwitches
  <2>2. WirelessTypes'
    BY DEF WirelessTypes, WirelessTries
  <2>3. WirelessFiles'
    BY DEF WirelessFiles, WirelessTypes, WirelessTries
  <2>4. WirelessTries'
    BY DEF WirelessTries, WirelessTypes
  <2>5. Wireless!LoadedWithOwnFiles'
    BY DEF Wireless!LoadedWithOwnFiles, WirelessFiles, WirelessTypes
  <2> QED
    BY <2>1, <2>2, <2>3, <2>4, <2>5
<1>6. CASE Wireless!Rmmod
  <2> USE <1>6 DEF WirelessInv, Wireless!Rmmod
  <2>1. WirelessSwitches'
    BY DEF WirelessSwitches
  <2>2. WirelessTypes'
    BY DEF WirelessTypes, WirelessTries
  <2>3. WirelessFiles'
    BY DEF WirelessFiles, WirelessTypes, WirelessTries
  <2>4. WirelessTries'
    BY DEF WirelessTries, WirelessTypes
  <2>5. Wireless!LoadedWithOwnFiles'
    BY DEF Wireless!LoadedWithOwnFiles, WirelessFiles, WirelessTypes
  <2> QED
    BY <2>1, <2>2, <2>3, <2>4, <2>5
<1>7. CASE Wireless!Failed
  <2> USE <1>7 DEF WirelessInv, Wireless!Failed
  <2>1. WirelessSwitches'
    BY DEF WirelessSwitches
  <2>2. WirelessTypes'
    BY DEF WirelessTypes, WirelessTries
  <2>3. WirelessFiles'
    BY DEF WirelessFiles, WirelessTypes, WirelessTries
  <2>4. WirelessTries'
    BY DEF WirelessTries, WirelessTypes
  <2>5. Wireless!LoadedWithOwnFiles'
    BY DEF Wireless!LoadedWithOwnFiles, WirelessFiles, WirelessTypes
  <2> QED
    BY <2>1, <2>2, <2>3, <2>4, <2>5
<1>8. CASE Wireless!PowerCut
  <2> USE <1>8 DEF WirelessInv, Wireless!PowerCut
  <2>1. WirelessSwitches'
    BY DEF WirelessSwitches
  <2>2. WirelessTypes'
    BY DEF WirelessTypes, WirelessTries
  <2>3. WirelessFiles'
    BY DEF WirelessFiles, WirelessTypes, WirelessTries
  <2>4. WirelessTries'
    BY DEF WirelessTries, WirelessTypes
  <2>5. Wireless!LoadedWithOwnFiles'
    BY DEF Wireless!LoadedWithOwnFiles, WirelessFiles, WirelessTypes
  <2> QED
    BY <2>1, <2>2, <2>3, <2>4, <2>5
<1>9. CASE Wireless!Again
  <2> USE <1>9 DEF WirelessInv, Wireless!Again
  <2>1. WirelessSwitches'
    BY DEF WirelessSwitches
  <2>2. WirelessTypes'
    BY DEF WirelessTypes, WirelessTries
  <2>3. WirelessFiles'
    BY DEF WirelessFiles, WirelessTypes, WirelessTries
  <2>4. WirelessTries'
    BY DEF WirelessTries, WirelessTypes
  <2>5. Wireless!LoadedWithOwnFiles'
    BY DEF Wireless!LoadedWithOwnFiles, WirelessFiles, WirelessTypes
  <2> QED
    BY <2>1, <2>2, <2>3, <2>4, <2>5
<1>10. CASE Wireless!Terminated
  <2> USE <1>10 DEF WirelessInv, Wireless!Terminated, Wireless!vars
  <2>1. WirelessSwitches'
    BY DEF WirelessSwitches
  <2>2. WirelessTypes'
    BY DEF WirelessTypes, WirelessTries
  <2>3. WirelessFiles'
    BY DEF WirelessFiles, WirelessTypes, WirelessTries
  <2>4. WirelessTries'
    BY DEF WirelessTries, WirelessTypes
  <2>5. Wireless!LoadedWithOwnFiles'
    BY DEF Wireless!LoadedWithOwnFiles, WirelessFiles, WirelessTypes
  <2> QED
    BY <2>1, <2>2, <2>3, <2>4, <2>5
<1> QED
  BY <1>1, <1>2, <1>3, <1>4, <1>5, <1>6, <1>7, <1>8, <1>9, <1>10
  DEF Wireless!Next, Wireless!Script

LEMMA WirelessSafe ==
  WirelessInv => Wireless!TypeOK /\ Wireless!LoadedWithOwnFiles /\ Wireless!RetriesUsed
<1>1. WirelessInv => Wireless!TypeOK
  BY DEF WirelessInv, WirelessTypes, WirelessSwitches, Wireless!TypeOK
<1>2. WirelessInv => Wireless!RetriesUsed
  BY DEF WirelessInv, WirelessTries, Wireless!RetriesUsed
<1> QED
  BY <1>1, <1>2 DEF WirelessInv

LEMMA WirelessWrites == WirelessInv /\ Wireless!Next => Wireless!WritesOnlyDifferences
<1> SUFFICES ASSUME WirelessInv, Wireless!Next PROVE Wireless!WritesOnlyDifferences
  OBVIOUS
<1>1. CASE Wireless!Copy
  BY <1>1, WirelessAssumption
  DEF Wireless!Copy, WirelessInv, WirelessFiles, WirelessTypes, Wireless!ConstantsOk,
      Wireless!WritesOnlyDifferences
<1>2. CASE Wireless!Link
  BY <1>2, WirelessAssumption
  DEF Wireless!Link, WirelessInv, WirelessFiles, WirelessTypes, Wireless!ConstantsOk,
      Wireless!WritesOnlyDifferences
<1>3. CASE ~Wireless!Copy /\ ~Wireless!Link
  BY <1>3
  DEF Wireless!Next, Wireless!Script, Wireless!CompareAddress, Wireless!Load, Wireless!Modprobe,
      Wireless!Rmmod, Wireless!Failed, Wireless!PowerCut, Wireless!Again, Wireless!Terminated,
      Wireless!vars, Wireless!WritesOnlyDifferences
<1> QED
  BY <1>1, <1>2, <1>3

-----------------------------------------------------------------------------
(***************************************************************************)
(* bluez-init.  How far each chip has come in each place of the script.    *)
(***************************************************************************)
QcaPlaces == {"attach", "up", "set_mac", "hci_reset", "down", "up_again"}
Ar3kPlaces == {"hciattach", "toggle", "hci0_up"}
BluezPlaces ==
    /\ pc \in {"reset", "reset_2", "address", "service", "started", "off", "failed", "exited"}
            \cup QcaPlaces \cup Ar3kPlaces
    /\ pc \in {"reset", "reset_2"} => chip = "QCA"
    /\ pc \in QcaPlaces => chip = "QCA" /\ power
    /\ pc \in {"hci_reset", "down", "up_again"} => stored
    /\ pc = "address" => chip = "AR3K"
    /\ pc \in Ar3kPlaces => chip = "AR3K" /\ fw_mac
    /\ pc = "hci0_up" => power /\ stored
    /\ pc \in {"service", "started"} /\ chip # "none" => power /\ hci0 = "up" /\ address
BluezCounts ==
    /\ tries \in 0 .. BluezRetries /\ faults \in 0 .. BluezFaults
    /\ pc = "toggle" => tries > 0
BluezSwitches ==
    /\ power \in BOOLEAN /\ fw_mac \in BOOLEAN /\ stored \in BOOLEAN /\ address \in BOOLEAN
    /\ chip \in {"QCA", "AR3K", "none"} /\ hci0 \in {"none", "down", "up"}
BluezInv == BluezPlaces /\ BluezCounts /\ BluezSwitches

LEMMA BluezInitial == Bluez!Init => BluezInv
<1> USE BluezAssumption DEF Bluez!Init
<1>1. Bluez!Init => BluezPlaces
  BY DEF BluezPlaces, QcaPlaces, Ar3kPlaces
<1>2. Bluez!Init => BluezCounts
  BY DEF BluezCounts
<1>3. Bluez!Init => BluezSwitches
  BY DEF BluezSwitches
<1> QED
  BY <1>1, <1>2, <1>3 DEF BluezInv

LEMMA BluezStep == BluezInv /\ Bluez!Next => BluezInv'
<1> SUFFICES ASSUME BluezPlaces, BluezCounts, BluezSwitches, Bluez!Next PROVE BluezInv'
  BY DEF BluezInv
<1> USE DEF Bluez!Fault, Bluez!gpio_set, Bluez!Up
<1>1. CASE Bluez!QcaReset
  <2>1. BluezPlaces'
    BY <1>1 DEF BluezPlaces, BluezSwitches, QcaPlaces, Ar3kPlaces, Bluez!QcaReset
  <2>2. BluezCounts'
    BY <1>1, BluezAssumption DEF BluezCounts, Bluez!QcaReset
  <2>3. BluezSwitches'
    BY <1>1 DEF BluezSwitches, Bluez!QcaReset
  <2> QED
    BY <2>1, <2>2, <2>3 DEF BluezInv
<1>2. CASE Bluez!Qca
  <2>1. BluezPlaces'
    BY <1>2 DEF BluezPlaces, BluezSwitches, QcaPlaces, Ar3kPlaces, Bluez!Qca, Bluez!Command
  <2>2. BluezCounts'
    BY <1>2, BluezAssumption DEF BluezCounts, Bluez!Qca, Bluez!Command
  <2>3. BluezSwitches'
    BY <1>2 DEF BluezSwitches, Bluez!Qca, Bluez!Command
  <2> QED
    BY <2>1, <2>2, <2>3 DEF BluezInv
<1>3. CASE Bluez!WriteAddress
  <2>1. BluezPlaces'
    BY <1>3 DEF BluezPlaces, BluezSwitches, QcaPlaces, Ar3kPlaces, Bluez!WriteAddress
  <2>2. BluezCounts'
    BY <1>3, BluezAssumption DEF BluezCounts, Bluez!WriteAddress
  <2>3. BluezSwitches'
    BY <1>3 DEF BluezSwitches, Bluez!WriteAddress
  <2> QED
    BY <2>1, <2>2, <2>3 DEF BluezInv
<1>4. CASE Bluez!Attach
  <2>1. BluezPlaces'
    <3>1. chip = "AR3K" /\ fw_mac /\ chip' = chip /\ fw_mac' = fw_mac
      BY <1>4 DEF BluezPlaces, Ar3kPlaces, Bluez!Attach
    <3>2. \/ pc' = "hci0_up" /\ power /\ power' = power /\ stored' = fw_mac
          \/ pc' = "toggle"
      BY <1>4 DEF Bluez!Attach
    <3> QED
      BY <3>1, <3>2, Zenon DEF BluezPlaces, QcaPlaces, Ar3kPlaces
  <2>2. BluezCounts'
    BY <1>4, BluezAssumption DEF BluezCounts, Bluez!Attach
  <2>3. BluezSwitches'
    BY <1>4 DEF BluezSwitches, Bluez!Attach
  <2> QED
    BY <2>1, <2>2, <2>3 DEF BluezInv
<1>5. CASE Bluez!Toggle
  <2>1. BluezPlaces'
    BY <1>5 DEF BluezPlaces, BluezSwitches, QcaPlaces, Ar3kPlaces, Bluez!Toggle
  <2>2. BluezCounts'
    BY <1>5, BluezAssumption DEF BluezCounts, Bluez!Toggle
  <2>3. BluezSwitches'
    BY <1>5 DEF BluezSwitches, Bluez!Toggle
  <2> QED
    BY <2>1, <2>2, <2>3 DEF BluezInv
<1>6. CASE Bluez!GiveUp
  <2>1. BluezPlaces'
    BY <1>6 DEF BluezPlaces, BluezSwitches, QcaPlaces, Ar3kPlaces, Bluez!GiveUp
  <2>2. BluezCounts'
    BY <1>6, BluezAssumption DEF BluezCounts, Bluez!GiveUp
  <2>3. BluezSwitches'
    BY <1>6 DEF BluezSwitches, Bluez!GiveUp
  <2> QED
    BY <2>1, <2>2, <2>3 DEF BluezInv
<1>7. CASE Bluez!Ar3kUp
  <2>1. BluezPlaces'
    BY <1>7 DEF BluezPlaces, BluezSwitches, QcaPlaces, Ar3kPlaces, Bluez!Ar3kUp
  <2>2. BluezCounts'
    BY <1>7, BluezAssumption DEF BluezCounts, Bluez!Ar3kUp
  <2>3. BluezSwitches'
    BY <1>7 DEF BluezSwitches, Bluez!Ar3kUp
  <2> QED
    BY <2>1, <2>2, <2>3 DEF BluezInv
<1>8. CASE Bluez!PowerOff
  <2>1. BluezPlaces'
    BY <1>8 DEF BluezPlaces, BluezSwitches, QcaPlaces, Ar3kPlaces, Bluez!PowerOff
  <2>2. BluezCounts'
    BY <1>8, BluezAssumption DEF BluezCounts, Bluez!PowerOff
  <2>3. BluezSwitches'
    BY <1>8 DEF BluezSwitches, Bluez!PowerOff
  <2> QED
    BY <2>1, <2>2, <2>3 DEF BluezInv
<1>9. CASE Bluez!StartService
  <2>1. BluezPlaces'
    BY <1>9 DEF BluezPlaces, BluezSwitches, QcaPlaces, Ar3kPlaces, Bluez!StartService
  <2>2. BluezCounts'
    BY <1>9, BluezAssumption DEF BluezCounts, Bluez!StartService
  <2>3. BluezSwitches'
    BY <1>9 DEF BluezSwitches, Bluez!StartService
  <2> QED
    BY <2>1, <2>2, <2>3 DEF BluezInv
<1>10. CASE Bluez!Terminated
  <2>1. BluezPlaces'
    BY <1>10 DEF BluezPlaces, BluezSwitches, QcaPlaces, Ar3kPlaces, Bluez!Terminated, Bluez!vars
  <2>2. BluezCounts'
    BY <1>10, BluezAssumption DEF BluezCounts, Bluez!Terminated, Bluez!vars
  <2>3. BluezSwitches'
    BY <1>10 DEF BluezSwitches, Bluez!Terminated, Bluez!vars
  <2> QED
    BY <2>1, <2>2, <2>3 DEF BluezInv
<1> QED
  BY <1>1, <1>2, <1>3, <1>4, <1>5, <1>6, <1>7, <1>8, <1>9, <1>10
  DEF Bluez!Next, Bluez!Script, Bluez!Ar3k

LEMMA BluezSafe == BluezInv => Bluez!TypeOK /\ Bluez!ServiceIsUsable
  BY DEF BluezInv, BluezPlaces, BluezCounts, BluezSwitches, Bluez!TypeOK, Bluez!ServiceIsUsable

-----------------------------------------------------------------------------
(***************************************************************************)
(* gpio_sysfs_test.  The LED follows the number of presses of the round,   *)
(* poll returns only for an edge, and after a signal the loop is left.     *)
(***************************************************************************)
Waiting == {"open", "read", "poll", "press"}
SysfsTypes ==
    /\ pc \in {"export", "direction", "settings", "loop", "open", "read", "poll",
               "press", "unexport", "done", "left", "aborted", "killed"}
    /\ round \in 1 .. 6 /\ i \in 0 .. SysfsLoops
    /\ value \in {0, 1} /\ line \in {0, 1} /\ led \in {0, 1}
    /\ late \in 0 .. 1 /\ signals \in 0 .. MaxSignals /\ faults \in 0 .. SysfsFaults
SysfsSwitches ==
    /\ run \in BOOLEAN /\ led_given \in BOOLEAN /\ out_exported \in BOOLEAN
    /\ watched \in BOOLEAN /\ news \in BOOLEAN /\ edges \in BOOLEAN
    /\ pin \in [exported : BOOLEAN, low : BOOLEAN,
                edge : {"none", "rising", "falling", "both"}]
SysfsLed ==
    /\ pc \in Waiting => i < SysfsLoops
    /\ pc \in Waiting \cup {"loop"} => value = i % 2 /\ (led_given => led = value)
    /\ pc = "settings" /\ run /\ led_given => led = 0
SysfsEdges ==
    /\ pc = "poll" /\ news => edges
    /\ pc = "press" => edges
SysfsLate ==
    /\ pc \in Waiting => late = 0
    /\ late > 0 => ~run
SysfsInv ==
    /\ SysfsTypes /\ SysfsSwitches /\ SysfsLed /\ SysfsEdges /\ SysfsLate
    /\ Sysfs!NothingLeftExported

LEMMA SysfsRounds ==
    /\ DOMAIN Sysfs!Rounds = 1 .. 6 /\ Len(Sysfs!Rounds) = 6
    /\ \A r \in 1 .. 6 : /\ Sysfs!Rounds[r].low \in BOOLEAN
                         /\ Sysfs!Rounds[r].edge \in {"none", "rising", "falling", "both"}
<1>1. DOMAIN Sysfs!Rounds = 1 .. 6 /\ Len(Sysfs!Rounds) = 6
  BY DEF Sysfs!Rounds
<1>2. ASSUME NEW r \in 1 .. 6
      PROVE  /\ Sysfs!Rounds[r].low \in BOOLEAN
             /\ Sysfs!Rounds[r].edge \in {"none", "rising", "falling", "both"}
  <2>1. r = 1 \/ r = 2 \/ r = 3 \/ r = 4 \/ r = 5 \/ r = 6
    OBVIOUS
  <2>2. Sysfs!Rounds[r].low = TRUE \/ Sysfs!Rounds[r].low = FALSE
    BY <2>1 DEF Sysfs!Rounds
  <2>3. Sysfs!Rounds[r].edge \in {"none", "rising", "falling", "both"}
    BY <2>1 DEF Sysfs!Rounds
  <2> QED
    BY <2>2, <2>3
<1> QED
  BY <1>1, <1>2

LEMMA SysfsInitial == Sysfs!Init => SysfsInv
<1> USE SysfsAssumption DEF Sysfs!ConstantsOk, Sysfs!Init
<1>1. Sysfs!Init => SysfsTypes
  BY DEF SysfsTypes
<1>2. Sysfs!Init => SysfsSwitches
  <2> SUFFICES ASSUME Sysfs!Init PROVE SysfsSwitches
    OBVIOUS
  <2>1. pin \in [exported : BOOLEAN, low : BOOLEAN,
                edge : {"none", "rising", "falling", "both"}]
    BY DEF Sysfs!Init
  <2>2. led_given \in BOOLEAN
    BY DEF Sysfs!Init
  <2> QED
    BY <2>1, <2>2 DEF SysfsSwitches
<1>3. Sysfs!Init => SysfsLed /\ SysfsEdges /\ SysfsLate /\ Sysfs!NothingLeftExported
  BY DEF SysfsLed, SysfsEdges, SysfsLate, Sysfs!NothingLeftExported, Waiting
<1> QED
  BY <1>1, <1>2, <1>3 DEF SysfsInv

LEMMA SysfsStep == SysfsInv /\ Sysfs!Next => SysfsInv'
<1> SUFFICES ASSUME SysfsInv, Sysfs!Next PROVE SysfsInv'
  OBVIOUS
<1> USE SysfsAssumption
    DEF Sysfs!ConstantsOk, SysfsInv, Sysfs!Fault, Sysfs!Abort, Sysfs!Ended, Sysfs!program, Sysfs!kernel
<1>1. CASE Sysfs!Export
  <2> USE <1>1 DEF Sysfs!Export
  <2>1. SysfsTypes'
    BY SysfsRounds DEF SysfsTypes, SysfsLed, SysfsLate, Waiting
  <2>2. SysfsSwitches'
    BY SysfsRounds DEF SysfsSwitches, SysfsTypes
  <2>3. SysfsLed'
    BY SysfsRounds DEF SysfsLed, SysfsTypes, Waiting
  <2>4. SysfsEdges'
    BY DEF SysfsEdges, SysfsSwitches
  <2>5. SysfsLate'
    BY DEF SysfsLate, SysfsTypes, Waiting
  <2>6. Sysfs!NothingLeftExported'
    BY DEF Sysfs!NothingLeftExported, SysfsSwitches
  <2> QED
    BY <2>1, <2>2, <2>3, <2>4, <2>5, <2>6
<1>2. CASE Sysfs!SetDirections
  <2> USE <1>2 DEF Sysfs!SetDirections
  <2>1. SysfsTypes'
    BY SysfsRounds DEF SysfsTypes, SysfsLed, SysfsLate, Waiting
  <2>2. SysfsSwitches'
    BY SysfsRounds DEF SysfsSwitches, SysfsTypes
  <2>3. SysfsLed'
    BY SysfsRounds DEF SysfsLed, SysfsTypes, Waiting
  <2>4. SysfsEdges'
    BY DEF SysfsEdges, SysfsSwitches
  <2>5. SysfsLate'
    BY DEF SysfsLate, SysfsTypes, Waiting
  <2>6. Sysfs!NothingLeftExported'
    BY DEF Sysfs!NothingLeftExported, SysfsSwitches
  <2> QED
    BY <2>1, <2>2, <2>3, <2>4, <2>5, <2>6
<1>3. CASE Sysfs!NextRound
  <2> USE <1>3 DEF Sysfs!NextRound, Sysfs!AfterRound
  <2>1. SysfsTypes'
    BY SysfsRounds DEF SysfsTypes, SysfsLed, SysfsLate, Waiting
  <2>2. SysfsSwitches'
    BY SysfsRounds DEF SysfsSwitches, SysfsTypes
  <2>3. SysfsLed'
    BY SysfsRounds DEF SysfsLed, SysfsTypes, Waiting
  <2>4. SysfsEdges'
    BY DEF SysfsEdges, SysfsSwitches
  <2>5. SysfsLate'
    BY DEF SysfsLate, SysfsTypes, Waiting
  <2>6. Sysfs!NothingLeftExported'
    BY DEF Sysfs!NothingLeftExported, SysfsSwitches
  <2> QED
    BY <2>1, <2>2, <2>3, <2>4, <2>5, <2>6
<1>4. CASE Sysfs!Loop
  <2> USE <1>4 DEF Sysfs!Loop, Sysfs!AfterRound
  <2>1. SysfsTypes'
    BY SysfsRounds DEF SysfsTypes, SysfsLed, SysfsLate, Waiting
  <2>2. SysfsSwitches'
    BY SysfsRounds DEF SysfsSwitches, SysfsTypes
  <2>3. SysfsLed'
    BY SysfsRounds DEF SysfsLed, SysfsTypes, Waiting
  <2>4. SysfsEdges'
    BY DEF SysfsEdges, SysfsSwitches
  <2>5. SysfsLate'
    BY DEF SysfsLate, SysfsTypes, Waiting
  <2>6. Sysfs!NothingLeftExported'
    BY DEF Sysfs!NothingLeftExported, SysfsSwitches
  <2> QED
    BY <2>1, <2>2, <2>3, <2>4, <2>5, <2>6
<1>5. CASE Sysfs!PollOpen
  <2> USE <1>5 DEF Sysfs!PollOpen
  <2>1. SysfsTypes'
    BY SysfsRounds DEF SysfsTypes, SysfsLed, SysfsLate, Waiting
  <2>2. SysfsSwitches'
    BY SysfsRounds DEF SysfsSwitches, SysfsTypes
  <2>3. SysfsLed'
    BY SysfsRounds DEF SysfsLed, SysfsTypes, Waiting
  <2>4. SysfsEdges'
    BY DEF SysfsEdges, SysfsSwitches
  <2>5. SysfsLate'
    BY DEF SysfsLate, SysfsTypes, Waiting
  <2>6. Sysfs!NothingLeftExported'
    BY DEF Sysfs!NothingLeftExported, SysfsSwitches
  <2> QED
    BY <2>1, <2>2, <2>3, <2>4, <2>5, <2>6
<1>6. CASE Sysfs!DummyRead
  <2> USE <1>6 DEF Sysfs!DummyRead
  <2>1. SysfsTypes'
    BY SysfsRounds DEF SysfsTypes, SysfsLed, SysfsLate, Waiting
  <2>2. SysfsSwitches'
    BY SysfsRounds DEF SysfsSwitches, SysfsTypes
  <2>3. SysfsLed'
    BY SysfsRounds DEF SysfsLed, SysfsTypes, Waiting
  <2>4. SysfsEdges'
    BY DEF SysfsEdges, SysfsSwitches
  <2>5. SysfsLate'
    BY DEF SysfsLate, SysfsTypes, Waiting
  <2>6. Sysfs!NothingLeftExported'
    BY DEF Sysfs!NothingLeftExported, SysfsSwitches
  <2> QED
    BY <2>1, <2>2, <2>3, <2>4, <2>5, <2>6
<1>7. CASE Sysfs!Poll
  <2> USE <1>7 DEF Sysfs!Poll
  <2>1. SysfsTypes'
    BY SysfsRounds DEF SysfsTypes, SysfsLed, SysfsLate, Waiting
  <2>2. SysfsSwitches'
    BY SysfsRounds DEF SysfsSwitches, SysfsTypes
  <2>3. SysfsLed'
    BY SysfsRounds DEF SysfsLed, SysfsTypes, Waiting
  <2>4. SysfsEdges'
    BY DEF SysfsEdges, SysfsSwitches
  <2>5. SysfsLate'
    BY DEF SysfsLate, SysfsTypes, Waiting
  <2>6. Sysfs!NothingLeftExported'
    BY DEF Sysfs!NothingLeftExported, SysfsSwitches
  <2> QED
    BY <2>1, <2>2, <2>3, <2>4, <2>5, <2>6
<1>8. CASE Sysfs!Press
  <2> USE <1>8 DEF Sysfs!Press
  <2>1. SysfsTypes'
    BY SysfsRounds DEF SysfsTypes, SysfsLed, SysfsLate, Waiting
  <2>2. SysfsSwitches'
    BY SysfsRounds DEF SysfsSwitches, SysfsTypes
  <2>3. SysfsLed'
    BY SysfsRounds DEF SysfsLed, SysfsTypes, Waiting
  <2>4. SysfsEdges'
    BY DEF SysfsEdges, SysfsSwitches
  <2>5. SysfsLate'
    BY DEF SysfsLate, SysfsTypes, Waiting
  <2>6. Sysfs!NothingLeftExported'
    BY DEF Sysfs!NothingLeftExported, SysfsSwitches
  <2> QED
    BY <2>1, <2>2, <2>3, <2>4, <2>5, <2>6
<1>9. CASE Sysfs!Unexport
  <2>0. /\ pc' \in {"done", "left"} /\ (UNCHANGED faults \/ Sysfs!Fault)
        /\ UNCHANGED <<round, i, run, value, led_given, late, signals, line, led>>
    BY <1>9, Zenon DEF Sysfs!Unexport
  <2>1. SysfsTypes'
    BY <2>0 DEF SysfsTypes
  <2>2. SysfsSwitches'
    <3>1. /\ pin' = pin \/ pin' = [pin EXCEPT !.exported = FALSE, !.edge = "none"]
          /\ out_exported' \in BOOLEAN /\ UNCHANGED <<run, led_given, watched, news, edges>>
      BY <1>9, Zenon DEF Sysfs!Unexport
    <3> QED
      BY <3>1 DEF SysfsSwitches
  <2> USE <1>9 DEF Sysfs!Unexport
  <2>3. SysfsLed'
    BY SysfsRounds DEF SysfsLed, SysfsTypes, Waiting
  <2>4. SysfsEdges'
    BY DEF SysfsEdges, SysfsSwitches
  <2>5. SysfsLate'
    BY DEF SysfsLate, SysfsTypes, Waiting
  <2>6. Sysfs!NothingLeftExported'
    BY DEF Sysfs!NothingLeftExported, SysfsSwitches
  <2> QED
    BY <2>1, <2>2, <2>3, <2>4, <2>5, <2>6
<1>10. CASE Sysfs!Button
  <2> USE <1>10 DEF Sysfs!Button, Sysfs!Noticed, Sysfs!Logical
  <2>1. SysfsTypes'
    BY SysfsRounds DEF SysfsTypes, SysfsLed, SysfsLate, Waiting
  <2>2. SysfsSwitches'
    BY SysfsRounds DEF SysfsSwitches, SysfsTypes
  <2>3. SysfsLed'
    BY SysfsRounds DEF SysfsLed, SysfsTypes, Waiting
  <2>4. SysfsEdges'
    BY DEF SysfsEdges, SysfsSwitches
  <2>5. SysfsLate'
    BY DEF SysfsLate, SysfsTypes, Waiting
  <2>6. Sysfs!NothingLeftExported'
    BY DEF Sysfs!NothingLeftExported, SysfsSwitches
  <2> QED
    BY <2>1, <2>2, <2>3, <2>4, <2>5, <2>6
<1>11. CASE Sysfs!Signal
  <2> USE <1>11 DEF Sysfs!Signal
  <2>1. SysfsTypes'
    BY SysfsRounds DEF SysfsTypes, SysfsLed, SysfsLate, Waiting
  <2>2. SysfsSwitches'
    BY SysfsRounds DEF SysfsSwitches, SysfsTypes
  <2>3. SysfsLed'
    BY SysfsRounds DEF SysfsLed, SysfsTypes, Waiting
  <2>4. SysfsEdges'
    BY DEF SysfsEdges, SysfsSwitches
  <2>5. SysfsLate'
    BY DEF SysfsLate, SysfsTypes, Waiting
  <2>6. Sysfs!NothingLeftExported'
    BY DEF Sysfs!NothingLeftExported, SysfsSwitches
  <2> QED
    BY <2>1, <2>2, <2>3, <2>4, <2>5, <2>6
<1>12. CASE Sysfs!Terminated
  <2> USE <1>12 DEF Sysfs!Terminated, Sysfs!vars
  <2>1. SysfsTypes'
    BY SysfsRounds DEF SysfsTypes, SysfsLed, SysfsLate, Waiting
  <2>2. SysfsSwitches'
    BY SysfsRounds DEF SysfsSwitches, SysfsTypes
  <2>3. SysfsLed'
    BY SysfsRounds DEF SysfsLed, SysfsTypes, Waiting
  <2>4. SysfsEdges'
    BY DEF SysfsEdges, SysfsSwitches
  <2>5. SysfsLate'
    BY DEF SysfsLate, SysfsTypes, Waiting
  <2>6. Sysfs!NothingLeftExported'
    BY DEF Sysfs!NothingLeftExported, SysfsSwitches
  <2> QED
    BY <2>1, <2>2, <2>3, <2>4, <2>5, <2>6
<1> QED
  BY <1>1, <1>2, <1>3, <1>4, <1>5, <1>6, <1>7, <1>8, <1>9, <1>10, <1>11, <1>12
  DEF Sysfs!Next, Sysfs!Program

LEMMA SysfsSafe ==
  SysfsInv => /\ Sysfs!TypeOK /\ Sysfs!NothingLeftExported
              /\ Sysfs!PressesAreReal /\ Sysfs!StopsAtNextPress
<1>1. SysfsInv => Sysfs!TypeOK
  BY SysfsRounds DEF SysfsInv, SysfsTypes, SysfsSwitches, Sysfs!TypeOK, Sysfs!Ended
<1>2. SysfsInv => Sysfs!PressesAreReal /\ Sysfs!StopsAtNextPress
  BY DEF SysfsInv, SysfsEdges, SysfsTypes, Sysfs!PressesAreReal, Sysfs!StopsAtNextPress
<1> QED
  BY <1>1, <1>2 DEF SysfsInv

(* Every press changes the LED.                                            *)
LEMMA SysfsShows ==
  ASSUME SysfsInv, Sysfs!Next, pc = "press", pc' = "loop", led_given
  PROVE  led' # led
<1>1. Sysfs!Press
  BY DEF Sysfs!Next, Sysfs!Program, Sysfs!Export, Sysfs!SetDirections, Sysfs!NextRound,
     Sysfs!Loop, Sysfs!PollOpen, Sysfs!DummyRead, Sysfs!Poll, Sysfs!Unexport, Sysfs!Button,
     Sysfs!Signal, Sysfs!Terminated, Sysfs!vars, Sysfs!Ended
<1>2. led' = 1 - value /\ led = value
  BY <1>1 DEF Sysfs!Press, Sysfs!Abort, SysfsInv, SysfsLed, Waiting
<1> QED
  BY <1>2 DEF SysfsInv, SysfsTypes

-----------------------------------------------------------------------------
(***************************************************************************)
(* bt_test.  The file consists of the numbers 1, 2, ..., so that what is   *)
(* in buf, on the link, in the receiver's buffer and in its file is known  *)
(* from how much of it there is.                                           *)
(***************************************************************************)
BtUnits == Bt!Garbage .. MaxLen
BtPlaces ==
    /\ tx \in {"connect", "open", "read", "send", "exit"}
    /\ rx \in {"open", "listen", "accept", "permissions", "recv", "write", "close", "exit"}
    /\ conn \in {"none", "listening", "connected", "closed", "lost"}
    /\ result \in [{"tx", "rx"} -> {"none", "success", "failure"}]
    /\ tx \in {"connect", "open"} => link = <<>>
BtData ==
    /\ file \in Seq(1 .. MaxLen) /\ Len(file) \in 0 .. MaxLen /\ pos \in 0 .. Len(file)
    /\ buf \in Seq(1 .. MaxLen) /\ Len(buf) \in 0 .. BufLen
    /\ bytes_written \in -1 .. Len(buf)
    /\ link \in Seq(BtUnits) /\ Len(link) \in 0 .. LinkLen + 1
    /\ rest \in Seq(BtUnits) /\ Len(rest) \in 0 .. BufLen
    /\ out \in Seq(Int) /\ Len(out) \in Nat
    /\ permissions \in BtUnits /\ faults \in 0 .. BtFaults
BtTypes == BtPlaces /\ BtData
BtSwitches == full \in BOOLEAN /\ heard \in BOOLEAN /\ damaged \in BOOLEAN

Before == rx \in {"open", "listen", "accept", "permissions"}
Refused == rx = "exit" /\ result["rx"] # "success"      \* before anybody was accepted
BtConnection ==
    /\ rx \in {"open", "listen"} => conn = "none"
    /\ rx = "accept" => conn # "none"
    /\ rx \in {"permissions", "recv", "write", "close"} => conn \in {"connected", "closed", "lost"}
    /\ conn \in {"none", "listening"} => link = <<>> /\ tx \in {"connect", "exit"}
    /\ tx = "connect" => conn \in {"none", "listening"}
    /\ tx = "open" /\ conn # "lost" /\ heard => Before
    /\ tx \in {"open", "read", "send"} => conn \in {"connected", "lost"}
    /\ tx = "exit" => conn # "connected"
    /\ Refused => conn \in {"none", "closed", "lost"}
    /\ rx = "close" => rest = <<>>
    /\ rx = "exit" /\ ~Refused => link = <<>> /\ rest = <<>> /\ conn \in {"closed", "lost"}
    /\ conn \notin {"closed", "lost"} => ~damaged
    /\ conn = "lost" => damaged \/ Refused
BtResults ==
    /\ result["tx"] = "success" => tx = "exit" /\ conn \in {"closed", "lost"}
    /\ rx # "exit" => result["rx"] = "none"
    /\ Before => rest = <<>> /\ permissions = Bt!Garbage
    /\ rx = "open" => out = Bt!Old
    /\ rx \in {"listen", "accept", "permissions"} => out = <<>>
    /\ Refused => out \in {Bt!Old, <<>>}
    /\ rx = "recv" => rest = <<>>
BtOrder ==
    /\ \A k \in 1 .. Len(file) : file[k] = k
    /\ Len(buf) <= pos
    /\ \A k \in 1 .. Len(buf) : buf[k] = pos - Len(buf) + k
    /\ Before => \A k \in 1 .. Len(link) : link[k] = k - 1
    /\ ~Before /\ ~Refused =>
        /\ \A k \in 1 .. Len(out) : out[k] = k
        /\ \A k \in 1 .. Len(rest) : rest[k] = Len(out) + k
        /\ \A k \in 1 .. Len(link) : link[k] = Len(out) + Len(rest) + k

BtSent == pos - Len(buf) + bytes_written
Under == tx \in {"read", "send"} \/ result["tx"] = "success"    \* the permissions were sent
BtAmount ==
    /\ bytes_written >= 0
    /\ tx \in {"connect", "open"} => pos = 0 /\ buf = <<>> /\ bytes_written = 0
    /\ tx = "read" => bytes_written = Len(buf)
    /\ result["tx"] = "success" => BtSent = Len(file)
    /\ Before => Len(link) <= 1 + BtSent /\ (Under /\ ~damaged => Len(link) = 1 + BtSent)
    /\ ~Before /\ ~Refused =>
        /\ Len(out) + Len(rest) + Len(link) <= BtSent
        /\ Under /\ ~damaged =>
            permissions = Bt!Mode /\ Len(out) + Len(rest) + Len(link) = BtSent
BtInv ==
    /\ BtTypes /\ BtSwitches /\ BtConnection /\ BtResults
    /\ heard => BtOrder /\ BtAmount

LEMMA FunctionIsSeq ==
  ASSUME NEW S, NEW n \in Nat, NEW g \in [1 .. n -> S]
  PROVE  g \in Seq(S) /\ Len(g) = n
  OBVIOUS

(* What each call that moves data does to the sequences.                   *)
LEMMA PrefixOf ==
  ASSUME NEW S, NEW s \in Seq(S), NEW n \in 0 .. Len(s)
  PROVE  /\ SubSeq(s, 1, n) \in Seq(S) /\ Len(SubSeq(s, 1, n)) = n
         /\ \A k \in 1 .. n : SubSeq(s, 1, n)[k] = s[k]
<1>1. Len(s) \in Nat /\ \A k \in 1 .. n : s[k] \in S
  BY LenProperties, ElementOfSeq
<1> QED
  BY <1>1, SubSeqProperties

LEMMA RestOf ==
  ASSUME NEW S, NEW s \in Seq(S), NEW n \in 0 .. Len(s)
  PROVE  /\ SubSeq(s, n + 1, Len(s)) \in Seq(S) /\ Len(SubSeq(s, n + 1, Len(s))) = Len(s) - n
         /\ \A k \in 1 .. Len(s) - n : SubSeq(s, n + 1, Len(s))[k] = s[n + k]
<1>1. Len(s) \in Nat /\ n + 1 \in Int /\ \A k \in n + 1 .. Len(s) : s[k] \in S
  BY LenProperties, ElementOfSeq
<1>2. \A k : n + 1 + k - 1 = n + k \/ k \notin Int
  BY <1>1
<1> QED
  BY <1>1, <1>2, SubSeqProperties

(* The pieces that fread, send, recv and fwrite take.                      *)
LEMMA BtPiece ==
  ASSUME BtTypes, NEW n \in Nat, pos + n <= Len(file)
  PROVE  /\ SubSeq(file, pos + 1, pos + n) \in Seq(1 .. MaxLen)
         /\ Len(SubSeq(file, pos + 1, pos + n)) = n
         /\ \A k \in 1 .. n : SubSeq(file, pos + 1, pos + n)[k] = file[pos + k]
<1>0. file \in Seq(1 .. MaxLen) /\ Len(file) \in Nat /\ pos \in Nat
  BY DEF BtTypes, BtData
<1>1. \A k \in 1 .. Len(file) : file[k] \in 1 .. MaxLen
  BY <1>0, ElementOfSeq
<1>2. \A k \in pos + 1 .. pos + n : file[k] \in 1 .. MaxLen
  BY <1>0, <1>1
<1>3. \A k \in 1 .. n : pos + 1 + k - 1 = pos + k /\ (pos + n) - (pos + 1) + 1 = n
  BY <1>0
<1> QED
  BY <1>0, <1>1, <1>2, <1>3, SubSeqProperties

LEMMA BtAppended ==
  ASSUME BtTypes, tx = "send", NEW n \in 1 .. LinkLen - Len(link), bytes_written + n <= Len(buf)
  PROVE  LET g == [k \in 1 .. n |-> Bt!Byte(bytes_written + k)]
         IN  /\ link \o g \in Seq(BtUnits) /\ Len(link \o g) = Len(link) + n
             /\ \A k \in 1 .. Len(link) : (link \o g)[k] = link[k]
             /\ bytes_written >= 0 =>
                    \A k \in Len(link) + 1 .. Len(link) + n :
                        (link \o g)[k] = buf[bytes_written + k - Len(link)]
<1> DEFINE g == [k \in 1 .. n |-> Bt!Byte(bytes_written + k)]
<1>0. Len(link) \in Nat /\ Len(buf) \in Nat /\ n \in Nat /\ bytes_written \in Int
  BY LenProperties, BtAssumption DEF BtTypes, BtData, Bt!ConstantsOk
<1>1. ASSUME NEW k \in 1 .. n PROVE Bt!Byte(bytes_written + k) \in BtUnits
  <2>1. bytes_written + k = 0 \/ bytes_written + k \in 1 .. Len(buf)
    BY <1>0 DEF BtTypes, BtData
  <2>2. bytes_written + k # 0 => buf[bytes_written + k] \in 1 .. MaxLen
    BY <2>1, ElementOfSeq DEF BtTypes, BtData
  <2> QED
    BY <2>2, BtAssumption DEF Bt!Byte, BtUnits, Bt!Garbage, Bt!ConstantsOk
<1>2. g \in Seq(BtUnits) /\ Len(g) = n
  BY <1>0, <1>1, FunctionIsSeq
<1>3. /\ link \o g \in Seq(BtUnits) /\ Len(link \o g) = Len(link) + n
      /\ \A k \in 1 .. Len(link) + n : (link \o g)[k] = IF k <= Len(link) THEN link[k] ELSE g[k - Len(link)]
  BY <1>2, ConcatProperties DEF BtTypes, BtData
<1>4. ASSUME bytes_written >= 0, NEW k \in Len(link) + 1 .. Len(link) + n
      PROVE  (link \o g)[k] = buf[bytes_written + k - Len(link)]
  <2>1. k - Len(link) \in 1 .. n /\ bytes_written + (k - Len(link)) # 0 /\ ~(k <= Len(link))
    BY <1>0, <1>4
  <2>2. bytes_written + (k - Len(link)) = bytes_written + k - Len(link)
    BY <1>0, <1>4
  <2> QED
    BY <1>0, <1>3, <2>1, <2>2 DEF Bt!Byte
<1> QED
  BY <1>0, <1>3, <1>4


LEMMA BtEndTx ==
  ASSUME BtTypes, NEW status \in {"none", "success", "failure"}, Bt!EndTx(status)
  PROVE  /\ tx' = "exit" /\ conn' = IF conn = "connected" THEN "closed" ELSE conn
         /\ result' \in [{"tx", "rx"} -> {"none", "success", "failure"}]
         /\ result'["tx"] = status /\ result'["rx"] = result["rx"]
  BY DEF BtTypes, BtPlaces, Bt!EndTx

LEMMA BtEndRx ==
  ASSUME BtTypes, NEW status \in {"none", "success", "failure"}, Bt!EndRx(status)
  PROVE  /\ rx' = "exit" /\ link' = <<>>
         /\ conn' = IF conn = "connected" THEN "lost" ELSE IF conn = "listening" THEN "none" ELSE conn
         /\ result' \in [{"tx", "rx"} -> {"none", "success", "failure"}]
         /\ result'["rx"] = status /\ result'["tx"] = result["tx"]
  BY DEF BtTypes, BtPlaces, Bt!EndRx

LEMMA BtOpenFile ==
  ASSUME BtTypes, Bt!OpenFile
  PROVE  /\ tx = "open" /\ Len(link) = 0 /\ faults' \in 0 .. BtFaults
         /\ \/ /\ tx' = "read" /\ conn = "connected" /\ UNCHANGED <<conn, result, heard>>
               /\ link' \in Seq(BtUnits) /\ Len(link') = 1 /\ link'[1] = Bt!Mode
            \/ tx' = "read" /\ conn # "connected" /\ UNCHANGED <<conn, result, link, heard>>
            \/ /\ tx' = "read" /\ conn = "connected" /\ UNCHANGED <<conn, result>> /\ heard' = FALSE
               /\ link' \in Seq(BtUnits) /\ Len(link') \in 0 .. 1
            \/ Bt!EndTx("failure") /\ UNCHANGED <<link, heard>>
         /\ UNCHANGED <<rx, out, rest, permissions, file, pos, buf, bytes_written, full, damaged>>
<1>1. link = <<>> /\ Len(link) = 0
  BY EmptySeq DEF Bt!OpenFile, BtTypes, BtPlaces
<1>2. ASSUME NEW u \in BtUnits
      PROVE  /\ Append(link, u) \in Seq(BtUnits) /\ Len(Append(link, u)) = 1
             /\ Append(link, u)[1] = u
  BY <1>1, AppendProperties DEF BtTypes, BtData
<1>3. Bt!Mode \in BtUnits /\ Bt!Garbage \in BtUnits
  BY BtAssumption DEF BtUnits, Bt!Mode, Bt!Garbage, Bt!ConstantsOk
<1>4. faults' \in 0 .. BtFaults
  <2>1. UNCHANGED faults \/ Bt!Fault
    BY Zenon DEF Bt!OpenFile
  <2> QED
    BY <2>1, BtAssumption DEF Bt!Fault, BtTypes, BtData, Bt!ConstantsOk
<1>5. link \in Seq(BtUnits)
  BY DEF BtTypes, BtData
<1>6. /\ tx = "open"
      /\ UNCHANGED <<rx, out, rest, permissions, file, pos, buf, bytes_written, full, damaged>>
  BY DEF Bt!OpenFile, Bt!receiver
<1>7. CASE Bt!EndTx("failure") /\ UNCHANGED <<link, heard>>
  BY <1>1, <1>4, <1>6, <1>7
<1>8. CASE /\ tx' = "read" /\ UNCHANGED <<conn, result>> /\ conn = "connected"
           /\ link' = Append(link, Bt!Mode) /\ UNCHANGED heard
  BY <1>1, <1>2, <1>3, <1>4, <1>6, <1>8
<1>9. CASE tx' = "read" /\ UNCHANGED <<conn, result>> /\ conn # "connected" /\ UNCHANGED <<link, heard>>
  BY <1>1, <1>4, <1>6, <1>9
<1>10. CASE /\ tx' = "read" /\ UNCHANGED <<conn, result>> /\ conn = "connected" /\ heard' = FALSE
            /\ link' \in {link, Append(link, Bt!Garbage)}
  <2>1. link' \in Seq(BtUnits) /\ (Len(link') = 0 \/ Len(link') = 1)
    BY <1>1, <1>2, <1>3, <1>5, <1>10
  <2> QED
    BY <1>1, <1>4, <1>6, <1>10, <2>1
<1> QED
  BY <1>7, <1>8, <1>9, <1>10 DEF Bt!OpenFile

LEMMA BtRead ==
  ASSUME BtTypes, Bt!Read
  PROVE  /\ tx = "read" /\ faults' \in 0 .. BtFaults
         /\ \/ /\ buf' \in Seq(1 .. MaxLen) /\ Len(buf') \in 0 .. BufLen
               /\ pos' = pos + Len(buf') /\ pos' <= Len(file) /\ bytes_written' = 0
               /\ \A k \in 1 .. Len(buf') : buf'[k] = file[pos + k]
               /\ \/ tx' = "send" /\ UNCHANGED <<result, conn>> /\ Len(buf') > 0
                  \/ Bt!EndTx("success") /\ Len(buf') = 0 /\ pos = Len(file)
            \/ Bt!EndTx("failure") /\ UNCHANGED <<pos, buf, bytes_written>>
         /\ UNCHANGED <<rx, out, rest, permissions, file, link, full, heard, damaged>>
<1> DEFINE n == IF Len(file) - pos < BufLen THEN Len(file) - pos ELSE BufLen
<1>1. /\ n \in Nat /\ n <= BufLen /\ pos + n <= Len(file)
      /\ n = 0 => pos = Len(file)
  BY BtAssumption DEF BtTypes, BtData, Bt!ConstantsOk
<1> DEFINE b == SubSeq(file, pos + 1, pos + n)
<1>2. b \in Seq(1 .. MaxLen) /\ Len(b) = n /\ \A k \in 1 .. n : b[k] = file[pos + k]
  BY <1>1, BtPiece
<1>3. faults' \in 0 .. BtFaults
  <2>1. UNCHANGED faults \/ Bt!Fault
    BY Zenon DEF Bt!Read
  <2> QED
    BY <2>1, BtAssumption DEF Bt!Fault, BtTypes, BtData, Bt!ConstantsOk
<1>4. CASE /\ buf' = b /\ pos' = pos + n /\ bytes_written' = 0
           /\ IF n > 0 THEN tx' = "send" /\ UNCHANGED <<result, conn>> ELSE Bt!EndTx("success")
  <2>1. Len(buf') = n /\ buf' \in Seq(1 .. MaxLen) /\ \A k \in 1 .. n : buf'[k] = file[pos + k]
    BY <1>2, <1>4
  <2> HIDE DEF n, b
  <2>2. Len(buf') \in 0 .. BufLen /\ pos' = pos + Len(buf') /\ pos' <= Len(file)
    BY <1>1, <1>4, <2>1, BtAssumption DEF Bt!ConstantsOk
  <2>3. n > 0 \/ n = 0
    BY <1>1
  <2> QED
    BY <1>1, <1>3, <1>4, <2>1, <2>2, <2>3 DEF Bt!Read, Bt!receiver
<1>5. CASE Bt!Fault /\ Bt!EndTx("failure") /\ UNCHANGED <<pos, buf, bytes_written>>
  BY <1>3, <1>5 DEF Bt!Read, Bt!receiver
<1> HIDE DEF b
<1> QED
  BY <1>4, <1>5 DEF Bt!Read, b

LEMMA BtSend ==
  ASSUME BtTypes, Bt!Send
  PROVE  /\ tx = "send" /\ faults' \in 0 .. BtFaults
         /\ \/ /\ conn = "connected" /\ link' \in Seq(BtUnits)
               /\ \E n \in Nat :
                    /\ bytes_written' = bytes_written + n /\ bytes_written' <= Len(buf)
                    /\ Len(link') = Len(link) + n /\ Len(link') <= LinkLen
               /\ \A k \in 1 .. Len(link) : link'[k] = link[k]
               /\ bytes_written >= 0 =>
                    \A k \in Len(link) + 1 .. Len(link') :
                        link'[k] = buf[bytes_written + k - Len(link)]
               /\ Bt!Sent
            \/ ~Blocking /\ bytes_written' = -1 + bytes_written /\ bytes_written >= 0
                  /\ UNCHANGED <<tx, conn, link, result>>
            \/ Bt!EndTx("failure") /\ UNCHANGED <<link, bytes_written>>
         /\ UNCHANGED <<rx, out, rest, permissions, file, pos, buf, full, heard, damaged>>
<1>1. faults' \in 0 .. BtFaults
  <2>1. UNCHANGED faults \/ Bt!Fault
    BY Zenon DEF Bt!Send
  <2> QED
    BY <2>1, BtAssumption DEF Bt!Fault, BtTypes, BtData, Bt!ConstantsOk
<1>2. ASSUME NEW n \in 1 .. LinkLen - Len(link), bytes_written + n <= Len(buf), tx = "send",
             link' = link \o [k \in 1 .. n |-> Bt!Byte(bytes_written + k)],
             bytes_written' = bytes_written + n
      PROVE  /\ n \in Nat /\ link' \in Seq(BtUnits)
             /\ Len(link') = Len(link) + n /\ Len(link') <= LinkLen
             /\ \A k \in 1 .. Len(link) : link'[k] = link[k]
             /\ bytes_written >= 0 =>
                    \A k \in Len(link) + 1 .. Len(link') :
                        link'[k] = buf[bytes_written + k - Len(link)]
  <2>1. n \in Nat /\ Len(link) + n <= LinkLen
    BY BtAssumption DEF BtTypes, BtData, Bt!ConstantsOk
  <2> QED
    BY <1>2, <2>1, BtAppended
<1>3. CASE /\ conn = "connected"
           /\ \E n \in 1 .. LinkLen - Len(link) :
                 /\ bytes_written + n <= Len(buf)
                 /\ link' = link \o [k \in 1 .. n |-> Bt!Byte(bytes_written + k)]
                 /\ bytes_written' = bytes_written + n
           /\ Bt!Sent
  <2>1. PICK n \in 1 .. LinkLen - Len(link) :
            /\ bytes_written + n <= Len(buf)
            /\ link' = link \o [k \in 1 .. n |-> Bt!Byte(bytes_written + k)]
            /\ bytes_written' = bytes_written + n
    BY <1>3
  <2>2. tx = "send"
    BY DEF Bt!Send
  <2>3. /\ n \in Nat /\ link' \in Seq(BtUnits)
        /\ Len(link') = Len(link) + n /\ Len(link') <= LinkLen
        /\ \A k \in 1 .. Len(link) : link'[k] = link[k]
        /\ bytes_written >= 0 =>
               \A k \in Len(link) + 1 .. Len(link') :
                   link'[k] = buf[bytes_written + k - Len(link)]
    BY <1>2, <2>1, <2>2
  <2> QED
    BY <1>1, <1>3, <2>1, <2>2, <2>3 DEF Bt!Send, Bt!receiver
<1>4. CASE /\ ~Blocking /\ conn = "connected" /\ bytes_written >= 0 /\ Bt!Fault
           /\ bytes_written' = bytes_written - 1 /\ UNCHANGED <<tx, conn, link, result>>
  <2>1. bytes_written' = -1 + bytes_written
    BY <1>4 DEF BtTypes, BtData
  <2> QED
    BY <1>1, <1>4, <2>1 DEF Bt!Send, Bt!receiver
<1>5. CASE Bt!EndTx("failure") /\ UNCHANGED <<link, bytes_written>>
  BY <1>1, <1>5 DEF Bt!Send, Bt!receiver
<1> QED
  BY <1>3, <1>4, <1>5 DEF Bt!Send

LEMMA BtRecvPermissions ==
  ASSUME BtTypes, Bt!RecvPermissions
  PROVE  /\ rx = "permissions" /\ rx' = "recv"
         /\ \/ /\ Len(link) > 0 /\ permissions' = link[1] /\ permissions' \in BtUnits
               /\ link' \in Seq(BtUnits) /\ Len(link') = Len(link) - 1
               /\ \A k \in 1 .. Len(link') : link'[k] = link[k + 1]
            \/ Bt!NoMore /\ Len(link) = 0 /\ UNCHANGED <<permissions, link>>
            \/ /\ heard' = FALSE /\ UNCHANGED permissions
               /\ link' \in Seq(BtUnits) /\ Len(link') = Len(link)
         /\ (heard' = heard \/ heard' = FALSE)
         /\ faults' \in 0 .. BtFaults
         /\ UNCHANGED <<tx, pos, buf, bytes_written, file, conn, out, rest, result, full, damaged>>
<1>0. /\ rx = "permissions" /\ rx' = "recv" /\ (heard' = heard \/ heard' = FALSE)
      /\ faults' \in 0 .. BtFaults
      /\ UNCHANGED <<tx, pos, buf, bytes_written, file, conn, out, rest, result, full, damaged>>
  <2>1. UNCHANGED faults \/ Bt!Fault
    BY Zenon DEF Bt!RecvPermissions
  <2>2. faults' \in 0 .. BtFaults
    BY <2>1, BtAssumption DEF Bt!Fault, BtTypes, BtData, Bt!ConstantsOk
  <2> QED
    BY <2>2 DEF Bt!RecvPermissions, Bt!transmitter
<1>1. CASE link # <<>> /\ permissions' = Head(link) /\ link' = Tail(link)
  <2>1. Len(link) > 0 /\ Len(link) \in Nat
    BY <1>1, EmptySeq DEF BtTypes, BtData
  <2>2. Head(link) = link[1]
    OBVIOUS
  <2>3. /\ Head(link) \in BtUnits /\ link' \in Seq(BtUnits) /\ Len(link') = Len(link) - 1
        /\ \A k \in 1 .. Len(link') : link'[k] = link[k + 1]
    BY <1>1, HeadTailProperties DEF BtTypes, BtData
  <2> QED
    BY <1>0, <1>1, <2>1, <2>2, <2>3
<1>2. CASE Bt!NoMore /\ UNCHANGED <<permissions, link>>
  BY <1>0, <1>2, EmptySeq DEF Bt!NoMore
<1>3. CASE /\ heard' = FALSE /\ UNCHANGED permissions
           /\ link' = link \/ (link # <<>> /\ link' = [link EXCEPT ![1] = Bt!Garbage])
  <2>1. link \in Seq(BtUnits) /\ Bt!Garbage \in BtUnits
    BY BtAssumption DEF BtTypes, BtData, BtUnits, Bt!Garbage, Bt!ConstantsOk
  <2>2. CASE link' = link
    BY <1>0, <1>3, <2>1, <2>2
  <2>3. CASE link # <<>> /\ link' = [link EXCEPT ![1] = Bt!Garbage]
    <3>1. 1 \in 1 .. Len(link)
      BY <2>1, <2>3, EmptySeq, LenProperties
    <3>2. link' \in Seq(BtUnits) /\ Len(link') = Len(link)
      BY <2>1, <2>3, <3>1, ExceptSeq
    <3> QED
      BY <1>0, <1>3, <3>2
  <2> QED
    BY <1>3, <2>2, <2>3
<1> QED
  BY <1>1, <1>2, <1>3 DEF Bt!RecvPermissions

LEMMA BtRecv ==
  ASSUME BtTypes, Bt!Recv
  PROVE  /\ rx = "recv"
         /\ \/ /\ rx' = "write"
               /\ rest' \in Seq(BtUnits) /\ Len(rest') \in 1 .. BufLen
               /\ \A k \in 1 .. Len(rest') : rest'[k] = link[k]
               /\ link' \in Seq(BtUnits) /\ Len(link') = Len(link) - Len(rest') /\ Len(link') >= 0
               /\ \A k \in 1 .. Len(link') : link'[k] = link[Len(rest') + k]
            \/ rx' = "close" /\ UNCHANGED <<rest, link>>
         /\ faults' \in 0 .. BtFaults
         /\ UNCHANGED <<tx, pos, buf, bytes_written, file, conn, out, permissions, result, full, heard, damaged>>
<1>0. /\ rx = "recv" /\ faults' \in 0 .. BtFaults
      /\ UNCHANGED <<tx, pos, buf, bytes_written, file, conn, out, permissions, result, full, heard, damaged>>
  <2>1. UNCHANGED faults \/ Bt!Fault
    BY Zenon DEF Bt!Recv
  <2>2. faults' \in 0 .. BtFaults
    BY <2>1, BtAssumption DEF Bt!Fault, BtTypes, BtData, Bt!ConstantsOk
  <2> QED
    BY <2>2 DEF Bt!Recv, Bt!transmitter
<1>1. ASSUME NEW n \in 1 .. Len(link), n <= BufLen, rest' = SubSeq(link, 1, n),
             link' = SubSeq(link, n + 1, Len(link)), rx' = "write"
      PROVE  /\ rest' \in Seq(BtUnits) /\ Len(rest') = n /\ n \in 1 .. BufLen
             /\ \A k \in 1 .. n : rest'[k] = link[k]
             /\ link' \in Seq(BtUnits) /\ Len(link') = Len(link) - n /\ Len(link') >= 0
             /\ \A k \in 1 .. Len(link') : link'[k] = link[n + k]
  <2>1. n \in 0 .. Len(link) /\ link \in Seq(BtUnits) /\ n \in 1 .. BufLen
    BY <1>1, BtAssumption DEF BtTypes, BtData, Bt!ConstantsOk
  <2>2. rest' \in Seq(BtUnits) /\ Len(rest') = n /\ \A k \in 1 .. n : rest'[k] = link[k]
    BY <1>1, <2>1, PrefixOf
  <2>3. /\ link' \in Seq(BtUnits) /\ Len(link') = Len(link) - n
        /\ \A k \in 1 .. Len(link) - n : link'[k] = link[n + k]
    BY <1>1, <2>1, RestOf
  <2> QED
    BY <2>1, <2>2, <2>3, SMTT(30) DEF BtTypes, BtData
<1>2. CASE \E n \in 1 .. Len(link) :
               /\ n <= BufLen
               /\ rest' = SubSeq(link, 1, n) /\ link' = SubSeq(link, n + 1, Len(link))
               /\ rx' = "write"
  BY <1>0, <1>1, <1>2
<1>3. CASE rx' = "close" /\ UNCHANGED <<rest, link>>
  BY <1>0, <1>3
<1> QED
  BY <1>2, <1>3 DEF Bt!Recv

LEMMA BtWrite ==
  ASSUME BtTypes, Bt!Write
  PROVE  /\ rx = "write" /\ faults' \in 0 .. BtFaults
         /\ \E n \in 0 .. Len(rest) :
               /\ out' \in Seq(Int) /\ Len(out') = Len(out) + n
               /\ \A k \in 1 .. Len(out) : out'[k] = out[k]
               /\ \A k \in Len(out) + 1 .. Len(out') : out'[k] = rest[k - Len(out)]
               /\ rest' \in Seq(BtUnits) /\ Len(rest') = Len(rest) - n
               /\ \A k \in 1 .. Len(rest') : rest'[k] = rest[n + k]
               /\ rx' = IF n = Len(rest) THEN "recv" ELSE "write"
         /\ UNCHANGED <<tx, pos, buf, bytes_written, file, conn, link, permissions, result, heard, damaged>>
<1>1. PICK n \in 0 .. Len(rest) :
          /\ out' = out \o SubSeq(rest, 1, n) /\ rest' = SubSeq(rest, n + 1, Len(rest))
          /\ rx' = IF n = Len(rest) THEN "recv" ELSE "write"
  BY DEF Bt!Write
<1>2. faults' \in 0 .. BtFaults
  <2>1. UNCHANGED faults \/ Bt!Fault
    BY Zenon DEF Bt!Write
  <2> QED
    BY <2>1, BtAssumption DEF Bt!Fault, BtTypes, BtData, Bt!ConstantsOk
<1>3. rest \in Seq(BtUnits) /\ out \in Seq(Int) /\ Len(out) \in Nat /\ BtUnits \subseteq Int
  BY BtAssumption DEF BtTypes, BtData, BtUnits, Bt!Garbage, Bt!ConstantsOk
<1> DEFINE s == SubSeq(rest, 1, n)
<1>4. s \in Seq(BtUnits) /\ Len(s) = n /\ \A k \in 1 .. n : s[k] = rest[k]
  BY <1>3, PrefixOf
<1>5. s \in Seq(Int)
  BY <1>3, <1>4, SeqMonotonic
<1>6. /\ out' \in Seq(Int) /\ Len(out') = Len(out) + n
      /\ \A k \in 1 .. Len(out) + n : out'[k] = IF k <= Len(out) THEN out[k] ELSE s[k - Len(out)]
  <2> HIDE DEF s
  <2> QED
    BY <1>1, <1>3, <1>4, <1>5, ConcatProperties DEF s
<1>7. /\ rest' \in Seq(BtUnits) /\ Len(rest') = Len(rest) - n
      /\ \A k \in 1 .. Len(rest) - n : rest'[k] = rest[n + k]
  BY <1>1, <1>3, RestOf
<1> HIDE DEF s
<1>8. \A k \in 1 .. Len(out) : out'[k] = out[k]
  BY <1>3, <1>6
<1>9. \A k \in Len(out) + 1 .. Len(out') : out'[k] = rest[k - Len(out)]
  <2> SUFFICES ASSUME NEW k \in Len(out) + 1 .. Len(out') PROVE out'[k] = rest[k - Len(out)]
    OBVIOUS
  <2>1. k \in 1 .. Len(out) + n /\ ~(k <= Len(out)) /\ k - Len(out) \in 1 .. n
    BY <1>3, <1>6
  <2> QED
    BY <1>4, <1>6, <2>1
<1> QED
  BY <1>1, <1>2, <1>6, <1>7, <1>8, <1>9 DEF Bt!Write, Bt!transmitter

LEMMA BtCloseFile ==
  ASSUME BtTypes, BtSwitches, Bt!CloseFile
  PROVE  /\ rx = "close" /\ faults' \in 0 .. BtFaults /\ Bt!EndRx("success")
         /\ out' \in Seq(Int) /\ Len(out') \in 0 .. Len(out)
         /\ \A k \in 1 .. Len(out') : out'[k] = out[k]
         /\ damaged' \in BOOLEAN /\ (damaged => damaged') /\ (out' # out => damaged')
         /\ ~damaged' => Bt!NoMore
         /\ UNCHANGED <<tx, pos, buf, bytes_written, file, rest, permissions, full, heard>>
<1>1. faults' \in 0 .. BtFaults
  BY BtAssumption DEF Bt!CloseFile, Bt!Fault, BtTypes, BtData, Bt!ConstantsOk
<1>0. /\ rx = "close" /\ Bt!EndRx("success")
      /\ UNCHANGED <<tx, pos, buf, bytes_written, file, rest, permissions, full, heard>>
  BY Zenon DEF Bt!CloseFile, Bt!transmitter
<1>2. CASE damaged' = (damaged \/ ~Bt!NoMore) /\ UNCHANGED out
  <2>1. out \in Seq(Int) /\ Len(out) \in Nat
    BY DEF BtTypes, BtData
  <2>2. damaged' \in BOOLEAN /\ (damaged => damaged') /\ (~damaged' => Bt!NoMore)
    BY <1>2, Zenon DEF BtSwitches
  <2> QED
    BY <1>0, <1>1, <1>2, <2>1, <2>2
<1>3. CASE damaged' = TRUE /\ \E n \in 0 .. Len(out) : out' = SubSeq(out, 1, n)
  <2>1. PICK n \in 0 .. Len(out) : out' = SubSeq(out, 1, n)
    BY <1>3
  <2>2. out' \in Seq(Int) /\ Len(out') = n /\ \A k \in 1 .. n : out'[k] = out[k]
    BY <2>1, PrefixOf DEF BtTypes, BtData
  <2> QED
    BY <1>0, <1>1, <1>3, <2>2
<1> QED
  BY <1>2, <1>3 DEF Bt!CloseFile

LEMMA BtLinkLost ==
  ASSUME BtTypes, Bt!LinkLost
  PROVE  /\ conn \in {"connected", "closed"} /\ rx # "exit" /\ conn' = "lost" /\ damaged' = TRUE
         /\ faults' \in 0 .. BtFaults
         /\ link' \in Seq(BtUnits) /\ Len(link') \in 0 .. Len(link)
         /\ \A k \in 1 .. Len(link') : link'[k] = link[k]
         /\ UNCHANGED <<tx, pos, buf, bytes_written, rx, out, rest, permissions, file, result, full, heard>>
<1>1. PICK n \in 0 .. Len(link) : link' = SubSeq(link, 1, n)
  BY DEF Bt!LinkLost
<1>2. link' \in Seq(BtUnits) /\ Len(link') = n /\ \A k \in 1 .. n : link'[k] = link[k]
  BY <1>1, PrefixOf DEF BtTypes, BtData
<1>3. faults' \in 0 .. BtFaults
  BY BtAssumption DEF Bt!LinkLost, Bt!Fault, BtTypes, BtData, Bt!ConstantsOk
<1> QED
  BY <1>2, <1>3 DEF Bt!LinkLost, Bt!transmitter, Bt!receiver

LEMMA BtFault ==
  ASSUME BtTypes, UNCHANGED faults \/ Bt!Fault
  PROVE  faults' \in 0 .. BtFaults
  BY BtAssumption DEF Bt!Fault, BtTypes, BtData, Bt!ConstantsOk

(* Types hold also when send may return EAGAIN.                            *)
LEMMA BtTypesStep == BtTypes /\ BtSwitches /\ Bt!Next => BtTypes' /\ BtSwitches'
<1> SUFFICES ASSUME BtTypes, BtSwitches, Bt!Next PROVE BtTypes' /\ BtSwitches'
  OBVIOUS
<1>a. /\ MaxLen \in Nat /\ BufLen \in Nat \ {0} /\ LinkLen \in Nat /\ BtFaults \in Nat
      /\ <<>> \in Seq(Int) /\ Bt!Old \in Seq(Int) /\ Len(Bt!Old) = 1 /\ Len(<<>>) = 0
      /\ <<>> \in Seq(BtUnits)
  BY BtAssumption, EmptySeq DEF Bt!ConstantsOk, Bt!Old
<1>1. CASE Bt!Connect
  <2>1. BtPlaces'
    BY <1>1, BtEndTx, BtEndRx DEF Bt!Connect, BtTypes, BtPlaces, Bt!receiver, Bt!transmitter
  <2>2. UNCHANGED faults \/ Bt!Fault
    BY <1>1, Zenon DEF Bt!Connect, Bt!Outcome
  <2>3. UNCHANGED <<file, pos, buf, bytes_written, link, rest, permissions>> /\ out' \in {out, <<>>}
    BY <1>1 DEF Bt!Connect, Bt!receiver, Bt!transmitter
  <2>4. BtData'
    BY <1>a, <2>2, <2>3, BtFault DEF BtTypes, BtData
  <2>5. BtSwitches'
    BY <1>1, Zenon DEF Bt!Connect, BtSwitches
  <2> QED
    BY <2>1, <2>4, <2>5 DEF BtTypes
<1>2. CASE Bt!OpenFile
  <2>1. BtPlaces'
    BY <1>2, BtOpenFile, BtEndTx, BtEndRx, EmptySeq DEF BtTypes, BtPlaces, BtData, Bt!Sent
  <2>2. link' \in Seq(BtUnits) /\ Len(link') \in 0 .. LinkLen + 1
    <3>1. CASE UNCHANGED link
      BY <3>1 DEF BtTypes, BtData
    <3>2. CASE link' \in Seq(BtUnits) /\ Len(link') = 1
      BY <1>a, <3>2
    <3>3. CASE link' \in Seq(BtUnits) /\ Len(link') \in 0 .. 1
      BY <1>a, <3>3, SMTT(30)
    <3> QED
      BY <1>2, <3>1, <3>2, <3>3, BtOpenFile, ZenonT(30)
  <2>4. BtData'
    BY <1>2, <2>2, BtOpenFile DEF BtTypes, BtData
  <2>3. BtSwitches'
    BY <1>2, Zenon DEF Bt!OpenFile, BtSwitches
  <2> QED
    BY <2>1, <2>4, <2>3 DEF BtTypes
<1>3. CASE Bt!Read
  <2>1. BtPlaces'
    BY <1>3, BtRead, BtEndTx, BtEndRx, EmptySeq DEF BtTypes, BtPlaces, BtData, Bt!Sent
  <2>2. /\ pos' \in 0 .. Len(file) /\ buf' \in Seq(1 .. MaxLen) /\ Len(buf') \in 0 .. BufLen
        /\ bytes_written' \in -1 .. Len(buf')
    <3>1. CASE UNCHANGED <<pos, buf, bytes_written>>
      BY <3>1 DEF BtTypes, BtData
    <3> QED
      BY <1>3, <3>1, BtRead DEF BtTypes, BtData
  <2>4. BtData'
    BY <1>3, <2>2, BtRead DEF BtTypes, BtData
  <2>3. BtSwitches'
    BY <1>3, Zenon DEF Bt!Read, BtSwitches
  <2> QED
    BY <2>1, <2>4, <2>3 DEF BtTypes
<1>4. CASE Bt!Send
  <2>1. BtPlaces'
    BY <1>4, BtSend, BtEndTx, BtEndRx, EmptySeq DEF BtTypes, BtPlaces, BtData, Bt!Sent
  <2>2. /\ link' \in Seq(BtUnits) /\ Len(link') \in 0 .. LinkLen + 1
        /\ bytes_written' \in -1 .. Len(buf)
    <3>1. CASE UNCHANGED <<link, bytes_written>>
      BY <3>1 DEF BtTypes, BtData
    <3>2. CASE bytes_written' = -1 + bytes_written /\ bytes_written >= 0 /\ UNCHANGED link
      BY <3>2 DEF BtTypes, BtData
    <3>3. ASSUME link' \in Seq(BtUnits), NEW n \in Nat, bytes_written' = bytes_written + n,
                 bytes_written' <= Len(buf), Len(link') = Len(link) + n, Len(link') <= LinkLen
          PROVE  Len(link') \in 0 .. LinkLen + 1 /\ bytes_written' \in -1 .. Len(buf)
      BY <1>a, <3>3 DEF BtTypes, BtData
    <3> QED
      BY <1>4, <3>1, <3>2, <3>3, BtSend
  <2>4. BtData'
    BY <1>4, <2>2, BtSend DEF BtTypes, BtData
  <2>3. BtSwitches'
    BY <1>4, Zenon DEF Bt!Send, BtSwitches
  <2> QED
    BY <2>1, <2>4, <2>3 DEF BtTypes
<1>5. CASE Bt!CreateFile
  <2>1. BtPlaces'
    BY <1>5, BtEndTx, BtEndRx DEF Bt!CreateFile, BtTypes, BtPlaces, Bt!receiver, Bt!transmitter
  <2>2. UNCHANGED faults \/ Bt!Fault
    BY <1>5, Zenon DEF Bt!CreateFile, Bt!Outcome
  <2>3. /\ UNCHANGED <<file, pos, buf, bytes_written, rest, permissions>>
        /\ out' \in {out, <<>>} /\ link' \in {link, <<>>}
    BY <1>5 DEF Bt!CreateFile, Bt!EndRx, Bt!receiver, Bt!transmitter
  <2>4. BtData'
    <3>1. faults' \in 0 .. BtFaults
      BY <2>2, BtFault
    <3>2. /\ out' \in Seq(Int) /\ Len(out') \in Nat
          /\ link' \in Seq(BtUnits) /\ Len(link') \in 0 .. LinkLen + 1
      <4>1. CASE out' = <<>> /\ link' = link
        BY <1>a, <4>1 DEF BtTypes, BtData
      <4>2. CASE out' = <<>> /\ link' = <<>>
        BY <1>a, <4>2 DEF BtTypes, BtData
      <4>3. CASE out' = out /\ link' = <<>>
        BY <1>a, <4>3 DEF BtTypes, BtData
      <4>4. CASE out' = out /\ link' = link
        BY <4>4 DEF BtTypes, BtData
      <4> QED
        BY <2>3, <4>1, <4>2, <4>3, <4>4
    <3> QED
      BY <2>3, <3>1, <3>2 DEF BtTypes, BtData
  <2>5. BtSwitches'
    BY <1>5, Zenon DEF Bt!CreateFile, BtSwitches
  <2> QED
    BY <2>1, <2>4, <2>5 DEF BtTypes
<1>6. CASE Bt!Listen
  <2>1. BtPlaces'
    BY <1>6, BtEndTx, BtEndRx DEF Bt!Listen, BtTypes, BtPlaces, Bt!receiver, Bt!transmitter
  <2>2. UNCHANGED faults \/ Bt!Fault
    BY <1>6, Zenon DEF Bt!Listen, Bt!Outcome
  <2>3. /\ UNCHANGED <<file, pos, buf, bytes_written, rest, permissions>>
        /\ out' \in {out, <<>>} /\ link' \in {link, <<>>}
    BY <1>6 DEF Bt!Listen, Bt!EndRx, Bt!receiver, Bt!transmitter
  <2>4. BtData'
    <3>1. faults' \in 0 .. BtFaults
      BY <2>2, BtFault
    <3>2. /\ out' \in Seq(Int) /\ Len(out') \in Nat
          /\ link' \in Seq(BtUnits) /\ Len(link') \in 0 .. LinkLen + 1
      <4>1. CASE out' = <<>> /\ link' = link
        BY <1>a, <4>1 DEF BtTypes, BtData
      <4>2. CASE out' = <<>> /\ link' = <<>>
        BY <1>a, <4>2 DEF BtTypes, BtData
      <4>3. CASE out' = out /\ link' = <<>>
        BY <1>a, <4>3 DEF BtTypes, BtData
      <4>4. CASE out' = out /\ link' = link
        BY <4>4 DEF BtTypes, BtData
      <4> QED
        BY <2>3, <4>1, <4>2, <4>3, <4>4
    <3> QED
      BY <2>3, <3>1, <3>2 DEF BtTypes, BtData
  <2>5. BtSwitches'
    BY <1>6, Zenon DEF Bt!Listen, BtSwitches
  <2> QED
    BY <2>1, <2>4, <2>5 DEF BtTypes
<1>7. CASE Bt!Accept
  <2>1. BtPlaces'
    BY <1>7, BtEndTx, BtEndRx DEF Bt!Accept, BtTypes, BtPlaces, Bt!receiver, Bt!transmitter
  <2>2. UNCHANGED faults \/ Bt!Fault
    BY <1>7, Zenon DEF Bt!Accept, Bt!Outcome
  <2>3. /\ UNCHANGED <<file, pos, buf, bytes_written, rest, permissions>>
        /\ out' \in {out, <<>>} /\ link' \in {link, <<>>}
    BY <1>7 DEF Bt!Accept, Bt!EndRx, Bt!receiver, Bt!transmitter
  <2>4. BtData'
    <3>1. faults' \in 0 .. BtFaults
      BY <2>2, BtFault
    <3>2. /\ out' \in Seq(Int) /\ Len(out') \in Nat
          /\ link' \in Seq(BtUnits) /\ Len(link') \in 0 .. LinkLen + 1
      <4>1. CASE out' = <<>> /\ link' = link
        BY <1>a, <4>1 DEF BtTypes, BtData
      <4>2. CASE out' = <<>> /\ link' = <<>>
        BY <1>a, <4>2 DEF BtTypes, BtData
      <4>3. CASE out' = out /\ link' = <<>>
        BY <1>a, <4>3 DEF BtTypes, BtData
      <4>4. CASE out' = out /\ link' = link
        BY <4>4 DEF BtTypes, BtData
      <4> QED
        BY <2>3, <4>1, <4>2, <4>3, <4>4
    <3> QED
      BY <2>3, <3>1, <3>2 DEF BtTypes, BtData
  <2>5. BtSwitches'
    BY <1>7, Zenon DEF Bt!Accept, BtSwitches
  <2> QED
    BY <2>1, <2>4, <2>5 DEF BtTypes
<1>8. CASE Bt!RecvPermissions
  <2>1. BtPlaces'
    <3>1. /\ rx' = "recv" /\ UNCHANGED <<tx, conn, result>>
          /\ link \in Seq(BtUnits) /\ Len(link) \in Nat
      BY <1>8, BtRecvPermissions DEF BtTypes, BtData
    <3>2. link = <<>> => link' = <<>>
      <4>1. link = <<>> => Len(link) = 0
        BY EmptySeq
      <4>2. \/ Len(link) > 0
            \/ UNCHANGED link
            \/ link' \in Seq(BtUnits) /\ Len(link') = Len(link)
        BY <1>8, BtRecvPermissions, Zenon
      <4> QED
        BY <3>1, <4>1, <4>2, EmptySeq
    <3> QED
      BY <3>1, <3>2 DEF BtTypes, BtPlaces
  <2>2. BtData'
    <3>1. /\ faults' \in 0 .. BtFaults
          /\ UNCHANGED <<pos, buf, bytes_written, file, out, rest>>
      BY <1>8, BtRecvPermissions
    <3>2. /\ link' \in Seq(BtUnits) /\ Len(link') \in {Len(link), Len(link) - 1}
          /\ permissions' \in BtUnits
      <4>1. link \in Seq(BtUnits) /\ permissions \in BtUnits
        BY DEF BtTypes, BtData
      <4>2. \/ link' \in Seq(BtUnits) /\ Len(link') = Len(link) - 1 /\ permissions' \in BtUnits
            \/ UNCHANGED <<permissions, link>>
            \/ link' \in Seq(BtUnits) /\ Len(link') = Len(link) /\ UNCHANGED permissions
        BY <1>8, BtRecvPermissions, Zenon
      <4> QED
        BY <4>1, <4>2
    <3>3. Len(link') \in Nat
      BY <3>2, LenProperties
    <3>4. Len(link') \in 0 .. LinkLen + 1
      BY <1>a, <3>2, <3>3 DEF BtTypes, BtData
    <3> QED
      BY <3>1, <3>2, <3>4 DEF BtTypes, BtData
  <2>3. BtSwitches'
    BY <1>8, Zenon DEF Bt!RecvPermissions, BtSwitches
  <2> QED
    BY <2>1, <2>2, <2>3 DEF BtTypes
<1>9. CASE Bt!Recv
  <2>1. BtPlaces'
    BY <1>9, BtRecv, BtEndTx, BtEndRx, EmptySeq DEF BtTypes, BtPlaces, BtData, Bt!Sent
  <2>2. BtData'
    BY <1>a, <1>9, BtRecv, SMTT(30) DEF BtTypes, BtData
  <2>3. BtSwitches'
    BY <1>9, Zenon DEF Bt!Recv, BtSwitches
  <2> QED
    BY <2>1, <2>2, <2>3 DEF BtTypes
<1>10. CASE Bt!Write
  <2>1. BtPlaces'
    BY <1>10, BtWrite, BtEndTx, BtEndRx, EmptySeq DEF BtTypes, BtPlaces, BtData, Bt!Sent
  <2>2. BtData'
    BY <1>a, <1>10, BtWrite, SMTT(30) DEF BtTypes, BtData
  <2>3. BtSwitches'
    BY <1>10, Zenon DEF Bt!Write, BtSwitches
  <2> QED
    BY <2>1, <2>2, <2>3 DEF BtTypes
<1>11. CASE Bt!CloseFile
  <2>1. BtPlaces'
    BY <1>11, BtCloseFile, BtEndTx, BtEndRx, EmptySeq DEF BtTypes, BtPlaces, BtData, Bt!Sent
  <2>2. BtData'
    BY <1>a, <1>11, BtCloseFile, BtEndRx DEF BtTypes, BtData
  <2>3. BtSwitches'
    BY <1>11, BtCloseFile DEF BtSwitches
  <2> QED
    BY <2>1, <2>2, <2>3 DEF BtTypes
<1>12. CASE Bt!LinkLost
  <2>0. Len(link) = 0 => link' = <<>>
    BY <1>12, BtLinkLost, EmptySeq
  <2>1. BtPlaces'
    BY <1>12, <2>0, BtLinkLost, EmptySeq DEF BtTypes, BtPlaces
  <2>2. BtData'
    BY <1>a, <1>12, BtLinkLost DEF BtTypes, BtData
  <2>3. BtSwitches'
    BY <1>12, Zenon DEF Bt!LinkLost, BtSwitches
  <2> QED
    BY <2>1, <2>2, <2>3 DEF BtTypes
<1>13. CASE Bt!Terminated
  BY <1>13 DEF Bt!Terminated, Bt!vars, BtTypes, BtPlaces, BtData, BtSwitches
<1> QED
  BY <1>1, <1>2, <1>3, <1>4, <1>5, <1>6, <1>7, <1>8, <1>9, <1>10, <1>11, <1>12, <1>13 DEF Bt!Next, Bt!Transmitter, Bt!Receiver

LEMMA BtControlStep ==
  ASSUME BtTypes, BtSwitches, BtConnection, BtResults, Bt!Next
  PROVE  BtConnection' /\ BtResults'
<1> DEFINE Control == BtConnection /\ BtResults
<1>a. /\ result \in [{"tx", "rx"} -> {"none", "success", "failure"}]
      /\ Bt!Old # <<>>
  BY DEF BtTypes, BtPlaces, Bt!Old
<1>1. CASE Bt!Connect
  <2>1. BtConnection'
    <3>1. CASE conn = "listening"
      BY <1>1, <3>1 DEF Bt!Connect, Bt!receiver, BtConnection, Refused, Before, BtTypes, BtPlaces
    <3>2. CASE conn # "listening" /\ Bt!EndTx("failure")
      <4>1. tx' = "exit" /\ conn' = "none" /\ result'["rx"] = result["rx"]
        BY <1>1, <3>2, BtEndTx DEF Bt!Connect, BtConnection
      <4> QED
        BY <1>1, <4>1 DEF Bt!Connect, Bt!receiver, BtConnection, Refused, Before, BtTypes, BtPlaces
    <3> QED
      BY <1>1, <3>1, <3>2 DEF Bt!Connect
  <2>2. BtResults'
    BY <1>a, <1>1, BtEndTx, BtEndRx, EmptySeq DEF Bt!Connect, Bt!receiver, Bt!transmitter, Bt!Outcome, Bt!Sent, Bt!NoMore, BtTypes, BtData, BtPlaces, BtConnection, BtResults, Refused, Before
  <2> QED
    BY <2>1, <2>2
<1>2. CASE Bt!OpenFile
  <2>1. BtConnection'
    <3>1. /\ tx = "open" /\ tx' \in {"read", "exit"} /\ UNCHANGED <<rx, rest, damaged>>
          /\ result'["rx"] = result["rx"]
          /\ conn' = conn \/ (conn = "connected" /\ conn' = "closed" /\ tx' = "exit")
          /\ tx' = "exit" => conn' # "connected"
      BY <1>2, BtOpenFile, BtEndTx DEF BtTypes, BtPlaces
    <3>2. conn \in {"connected", "lost"} /\ conn' \notin {"none", "listening"}
      BY <3>1 DEF BtConnection
    <3>3. rx = "exit" => link = <<>> /\ conn = "lost"
      BY <3>1, <3>2 DEF BtConnection, Refused, BtTypes, BtPlaces
    <3>4. rx = "exit" /\ ~Refused => link' = <<>>
      BY <1>2, <3>3, BtOpenFile, BtEndTx
    <3> QED
      BY <3>1, <3>2, <3>4 DEF BtConnection, Refused, Before
  <2>2. BtResults'
    BY <1>a, <1>2, BtOpenFile, BtEndTx, BtEndRx, EmptySeq DEF Bt!Sent, Bt!NoMore, BtTypes, BtData, BtPlaces, BtConnection, BtResults, Refused, Before
  <2> QED
    BY <2>1, <2>2
<1>3. CASE Bt!Read
  <2>1. BtConnection'
    <3>1. CASE UNCHANGED <<tx, result, conn>>
      BY <1>3, <3>1, BtRead DEF BtConnection, Refused, Before, BtTypes, BtPlaces
    <3>2. CASE tx' = "send" /\ UNCHANGED <<result, conn>>
      BY <1>3, <3>2, BtRead DEF BtConnection, Refused, Before, BtTypes, BtPlaces
    <3>3. ASSUME NEW status \in {"success", "failure"}, Bt!EndTx(status)
          PROVE  BtConnection'
      <4>1. /\ tx' = "exit" /\ result'["rx"] = result["rx"]
            /\ conn' = IF conn = "connected" THEN "closed" ELSE conn
        BY <3>3, BtEndTx
      <4> QED
        BY <1>3, <4>1, BtRead DEF BtConnection, Refused, Before, BtTypes, BtPlaces
    <3> QED
      BY <1>3, <3>1, <3>2, <3>3, BtRead
  <2>2. BtResults'
    BY <1>a, <1>3, BtRead, BtEndTx, BtEndRx, EmptySeq DEF Bt!Sent, Bt!NoMore, BtTypes, BtData, BtPlaces, BtConnection, BtResults, Refused, Before
  <2> QED
    BY <2>1, <2>2
<1>4. CASE Bt!Send
  <2>1. BtConnection'
    BY <1>a, <1>4, BtSend, BtEndTx, BtEndRx, EmptySeq, SMTT(30) DEF Bt!Sent, Bt!NoMore, BtTypes, BtData, BtPlaces, BtConnection, BtResults, Refused, Before
  <2>2. BtResults'
    BY <1>a, <1>4, BtSend, BtEndTx, BtEndRx, EmptySeq DEF Bt!Sent, Bt!NoMore, BtTypes, BtData, BtPlaces, BtConnection, BtResults, Refused, Before
  <2> QED
    BY <2>1, <2>2
<1>5. CASE Bt!CreateFile
  <2>1. BtConnection'
    BY <1>a, <1>5, BtEndTx, BtEndRx, EmptySeq DEF Bt!CreateFile, Bt!receiver, Bt!transmitter, Bt!Outcome, Bt!Sent, Bt!NoMore, BtTypes, BtData, BtPlaces, BtConnection, BtResults, Refused, Before
  <2>2. BtResults'
    BY <1>a, <1>5, BtEndTx, BtEndRx, EmptySeq DEF Bt!CreateFile, Bt!receiver, Bt!transmitter, Bt!Outcome, Bt!Sent, Bt!NoMore, BtTypes, BtData, BtPlaces, BtConnection, BtResults, Refused, Before
  <2> QED
    BY <2>1, <2>2
<1>6. CASE Bt!Listen
  <2>1. BtConnection'
    BY <1>a, <1>6, BtEndTx, BtEndRx, EmptySeq DEF Bt!Listen, Bt!receiver, Bt!transmitter, Bt!Outcome, Bt!Sent, Bt!NoMore, BtTypes, BtData, BtPlaces, BtConnection, BtResults, Refused, Before
  <2>2. BtResults'
    BY <1>a, <1>6, BtEndTx, BtEndRx, EmptySeq DEF Bt!Listen, Bt!receiver, Bt!transmitter, Bt!Outcome, Bt!Sent, Bt!NoMore, BtTypes, BtData, BtPlaces, BtConnection, BtResults, Refused, Before
  <2> QED
    BY <2>1, <2>2
<1>7. CASE Bt!Accept
  <2>1. BtConnection'
    BY <1>a, <1>7, BtEndTx, BtEndRx, EmptySeq DEF Bt!Accept, Bt!receiver, Bt!transmitter, Bt!Outcome, Bt!Sent, Bt!NoMore, BtTypes, BtData, BtPlaces, BtConnection, BtResults, Refused, Before
  <2>2. BtResults'
    BY <1>a, <1>7, BtEndTx, BtEndRx, EmptySeq DEF Bt!Accept, Bt!receiver, Bt!transmitter, Bt!Outcome, Bt!Sent, Bt!NoMore, BtTypes, BtData, BtPlaces, BtConnection, BtResults, Refused, Before
  <2> QED
    BY <2>1, <2>2
<1>8. CASE Bt!RecvPermissions
  <2>1. BtConnection'
    <3>1. /\ rx = "permissions" /\ rx' = "recv" /\ (heard' = heard \/ heard' = FALSE)
          /\ UNCHANGED <<tx, conn, rest, result, damaged>>
      BY <1>8, BtRecvPermissions
    <3>2. tx = "open" /\ heard' => conn = "lost"
      <4>1. tx = "open" => Len(link) = 0 /\ conn \in {"connected", "lost"}
        BY EmptySeq DEF BtConnection, BtTypes, BtPlaces
      <4>2. Len(link) > 0 \/ conn \in {"closed", "lost"} \/ heard' = FALSE
        BY <1>8, BtRecvPermissions DEF Bt!NoMore
      <4> QED
        BY <4>1, <4>2
    <3>3. conn \in {"connected", "closed", "lost"}
      BY <3>1 DEF BtConnection
    <3> QED
      BY <3>1, <3>2, <3>3 DEF BtConnection, Refused, Before
  <2>2. BtResults'
    BY <1>a, <1>8, BtRecvPermissions, BtEndTx, BtEndRx, EmptySeq DEF Bt!Sent, Bt!NoMore, BtTypes, BtData, BtPlaces, BtConnection, BtResults, Refused, Before
  <2> QED
    BY <2>1, <2>2
<1>9. CASE Bt!Recv
  <2>1. BtConnection'
    <3>1. rx = "recv" /\ rx' \in {"write", "close"} /\ UNCHANGED <<tx, conn, result, heard, damaged>>
      BY <1>9, BtRecv
    <3>2. link = <<>> => link' = <<>>
      BY <1>9, BtRecv, EmptySeq DEF BtTypes, BtData
    <3>3. rx' = "close" => rest' = <<>>
      BY <1>9, BtRecv DEF BtResults
    <3> QED
      BY <3>1, <3>2, <3>3 DEF BtConnection, Refused, Before, BtTypes, BtPlaces
  <2>2. BtResults'
    BY <1>a, <1>9, BtRecv, BtEndTx, BtEndRx, EmptySeq DEF Bt!Sent, Bt!NoMore, BtTypes, BtData, BtPlaces, BtConnection, BtResults, Refused, Before
  <2> QED
    BY <2>1, <2>2
<1>10. CASE Bt!Write
  <2>1. BtConnection'
    <3>1. rx = "write" /\ rx' \in {"recv", "write"} /\ UNCHANGED <<tx, conn, result, heard, damaged, link>>
      BY <1>10, BtWrite
    <3> QED
      BY <3>1 DEF BtConnection, Refused, Before, BtTypes, BtPlaces
  <2>2. BtResults'
    <3>1. /\ rx = "write" /\ rx' \in {"recv", "write"} /\ UNCHANGED <<tx, conn, result>>
          /\ rx' = "recv" => Len(rest') = 0 /\ rest' \in Seq(BtUnits)
      BY <1>10, BtWrite DEF BtTypes, BtData
    <3> QED
      BY <3>1, EmptySeq DEF BtResults, Refused, Before
  <2> QED
    BY <2>1, <2>2
<1>11. CASE Bt!CloseFile
  <2>1. BtConnection'
    <3>1. /\ rx = "close" /\ rx' = "exit" /\ result'["rx"] = "success" /\ link' = <<>>
          /\ conn \in {"connected", "closed", "lost"} /\ rest' = <<>>
          /\ conn' = IF conn = "connected" THEN "lost" ELSE conn
          /\ (damaged => damaged') /\ (conn = "connected" => damaged') /\ UNCHANGED tx
      BY <1>11, BtCloseFile, BtEndRx DEF BtConnection, Bt!NoMore
    <3> QED
      BY <3>1 DEF BtConnection, Refused, Before, BtTypes, BtPlaces
  <2>2. BtResults'
    BY <1>a, <1>11, BtCloseFile, BtEndTx, BtEndRx, EmptySeq DEF Bt!Sent, Bt!NoMore, BtTypes, BtData, BtPlaces, BtConnection, BtResults, Refused, Before
  <2> QED
    BY <2>1, <2>2
<1>12. CASE Bt!LinkLost
  <2>1. BtConnection'
    <3>1. /\ conn \in {"connected", "closed"} /\ conn' = "lost" /\ damaged' = TRUE /\ rx # "exit"
          /\ UNCHANGED <<tx, rx, rest, result, heard>>
          /\ link = <<>> => link' = <<>>
      BY <1>12, BtLinkLost, EmptySeq
    <3> QED
      BY <3>1 DEF BtConnection, Refused, Before, BtTypes, BtPlaces
  <2>2. BtResults'
    BY <1>a, <1>12, BtLinkLost, BtEndTx, BtEndRx, EmptySeq DEF Bt!Sent, Bt!NoMore, BtTypes, BtData, BtPlaces, BtConnection, BtResults, Refused, Before
  <2> QED
    BY <2>1, <2>2
<1>13. CASE Bt!Terminated
  <2>1. BtConnection'
    BY <1>a, <1>13, BtEndTx, BtEndRx, EmptySeq DEF Bt!Terminated, Bt!vars, Bt!Sent, Bt!NoMore, BtTypes, BtData, BtPlaces, BtConnection, BtResults, Refused, Before
  <2>2. BtResults'
    BY <1>a, <1>13, BtEndTx, BtEndRx, EmptySeq DEF Bt!Terminated, Bt!vars, Bt!Sent, Bt!NoMore, BtTypes, BtData, BtPlaces, BtConnection, BtResults, Refused, Before
  <2> QED
    BY <2>1, <2>2
<1> QED
  BY <1>1, <1>2, <1>3, <1>4, <1>5, <1>6, <1>7, <1>8, <1>9, <1>10, <1>11, <1>12, <1>13 DEF Bt!Next, Bt!Transmitter, Bt!Receiver

LEMMA BtLengths ==
  ASSUME BtTypes
  PROVE  /\ Len(file) \in Nat /\ Len(buf) \in Nat /\ Len(link) \in Nat /\ Len(rest) \in Nat
         /\ Len(out) \in Nat /\ pos \in Nat /\ bytes_written \in Int /\ Len(<<>>) = 0
         /\ permissions \in Int
         /\ link = <<>> <=> Len(link) = 0
         /\ rest = <<>> <=> Len(rest) = 0
         /\ out = <<>> <=> Len(out) = 0
         /\ buf = <<>> <=> Len(buf) = 0
  BY BtAssumption, EmptySeq DEF BtTypes, BtData, Bt!ConstantsOk, BtUnits, Bt!Garbage

(* The steps that move no data.                                            *)
LEMMA BtStillStep ==
  ASSUME BtTypes, BtConnection, BtResults, BtOrder, BtAmount,
         Bt!Connect \/ Bt!CreateFile \/ Bt!Listen \/ Bt!Accept \/ Bt!Terminated
  PROVE  BtOrder' /\ BtAmount'
<1>a. \/ UNCHANGED out
      \/ rx = "open" /\ rx' = "listen"
  BY DEF Bt!Connect, Bt!CreateFile, Bt!Listen, Bt!Accept, Bt!Terminated, Bt!receiver, Bt!vars
<1>1. CASE Bt!Connect
  <2>1. BtOrder'
    BY <1>1, BtLengths, BtEndTx, BtEndRx DEF Bt!Connect, Bt!receiver, Bt!transmitter, Bt!Outcome, Bt!vars, Under, BtSent, BtTypes, BtPlaces, BtData, BtConnection, BtResults, BtOrder, BtAmount, Refused, Before
  <2>2. BtAmount'
    BY <1>1, BtLengths, BtEndTx, BtEndRx DEF Bt!Connect, Bt!receiver, Bt!transmitter, Bt!Outcome, Bt!vars, Under, BtSent, BtTypes, BtPlaces, BtData, BtConnection, BtResults, BtOrder, BtAmount, Refused, Before
  <2> QED
    BY <2>1, <2>2
<1>2. CASE Bt!CreateFile
  <2>1. BtOrder'
    BY <1>2, BtLengths, BtEndTx, BtEndRx DEF Bt!CreateFile, Bt!receiver, Bt!transmitter, Bt!Outcome, Bt!vars, Under, BtSent, BtTypes, BtPlaces, BtData, BtConnection, BtResults, BtOrder, BtAmount, Refused, Before
  <2>2. BtAmount'
    BY <1>2, BtLengths, BtEndTx, BtEndRx DEF Bt!CreateFile, Bt!receiver, Bt!transmitter, Bt!Outcome, Bt!vars, Under, BtSent, BtTypes, BtPlaces, BtData, BtConnection, BtResults, BtOrder, BtAmount, Refused, Before
  <2> QED
    BY <2>1, <2>2
<1>3. CASE Bt!Listen
  <2>1. BtOrder'
    BY <1>3, BtLengths, BtEndTx, BtEndRx DEF Bt!Listen, Bt!receiver, Bt!transmitter, Bt!Outcome, Bt!vars, Under, BtSent, BtTypes, BtPlaces, BtData, BtConnection, BtResults, BtOrder, BtAmount, Refused, Before
  <2>2. BtAmount'
    BY <1>3, BtLengths, BtEndTx, BtEndRx DEF Bt!Listen, Bt!receiver, Bt!transmitter, Bt!Outcome, Bt!vars, Under, BtSent, BtTypes, BtPlaces, BtData, BtConnection, BtResults, BtOrder, BtAmount, Refused, Before
  <2> QED
    BY <2>1, <2>2
<1>4. CASE Bt!Accept
  <2>1. BtOrder'
    BY <1>4, BtLengths, BtEndTx, BtEndRx DEF Bt!Accept, Bt!receiver, Bt!transmitter, Bt!Outcome, Bt!vars, Under, BtSent, BtTypes, BtPlaces, BtData, BtConnection, BtResults, BtOrder, BtAmount, Refused, Before
  <2>2. BtAmount'
    BY <1>4, BtLengths, BtEndTx, BtEndRx DEF Bt!Accept, Bt!receiver, Bt!transmitter, Bt!Outcome, Bt!vars, Under, BtSent, BtTypes, BtPlaces, BtData, BtConnection, BtResults, BtOrder, BtAmount, Refused, Before
  <2> QED
    BY <2>1, <2>2
<1>5. CASE Bt!Terminated
  <2>1. BtOrder'
    BY <1>5, BtLengths, BtEndTx, BtEndRx DEF Bt!Terminated, Bt!receiver, Bt!transmitter, Bt!Outcome, Bt!vars, Under, BtSent, BtTypes, BtPlaces, BtData, BtConnection, BtResults, BtOrder, BtAmount, Refused, Before
  <2>2. BtAmount'
    BY <1>5, BtLengths, BtEndTx, BtEndRx DEF Bt!Terminated, Bt!receiver, Bt!transmitter, Bt!Outcome, Bt!vars, Under, BtSent, BtTypes, BtPlaces, BtData, BtConnection, BtResults, BtOrder, BtAmount, Refused, Before
  <2> QED
    BY <2>1, <2>2
<1> QED
  BY <1>1, <1>2, <1>3, <1>4, <1>5

LEMMA BtOpenFileKeeps ==
  ASSUME BtTypes, BtConnection, BtOrder, BtAmount, Bt!OpenFile, heard, heard'
  PROVE  BtOrder' /\ BtAmount'
<1>1. /\ tx = "open" /\ Len(link) = 0 /\ pos = 0 /\ Len(buf) = 0 /\ bytes_written = 0
      /\ UNCHANGED <<rx, out, rest, permissions, file, pos, buf, bytes_written, full, damaged>>
      /\ conn # "lost" => Before
      /\ conn \in {"connected", "lost"} /\ (conn = "lost" => damaged \/ Refused)
  BY BtOpenFile, BtLengths DEF BtConnection, BtAmount
<1>2. CASE tx' = "read" /\ UNCHANGED <<conn, result>> /\ Len(link') = 1 /\ link'[1] = 0 /\ Before
  <2>1. BtOrder'
    BY <1>1, <1>2, BtLengths DEF BtOrder, Before, Refused
  <2> QED
    BY <1>1, <1>2, <2>1, BtLengths DEF BtAmount, Before, Refused, Under, BtSent
<1>3. CASE tx' = "read" /\ UNCHANGED <<conn, result, link>> /\ (damaged \/ Refused)
  <2>1. BtOrder'
    BY <1>1, <1>3 DEF BtOrder, Before, Refused
  <2> QED
    BY <1>1, <1>3, <2>1, BtLengths DEF BtAmount, Before, Refused, Under, BtSent
<1>4. CASE Bt!EndTx("failure") /\ UNCHANGED link
  <2>1. tx' = "exit" /\ result'["rx"] = result["rx"] /\ result'["tx"] = "failure"
    BY <1>4, BtEndTx
  <2>2. BtOrder'
    BY <1>1, <1>4, <2>1 DEF BtOrder, Before, Refused
  <2> QED
    BY <1>1, <1>4, <2>1, <2>2, BtLengths DEF BtAmount, Before, Refused, Under, BtSent
<1> QED
  BY <1>1, <1>2, <1>3, <1>4, BtOpenFile DEF Bt!Mode

LEMMA BtReadKeeps ==
  ASSUME BtTypes, BtOrder, BtAmount, Bt!Read
  PROVE  BtOrder' /\ BtAmount'
<1>1. /\ tx = "read" /\ bytes_written = Len(buf)
      /\ UNCHANGED <<rx, out, rest, permissions, file, link, full, damaged>>
  BY BtRead DEF BtAmount
<1>2. CASE /\ Len(buf') \in Nat /\ pos' = pos + Len(buf') /\ pos' <= Len(file) /\ bytes_written' = 0
           /\ \A k \in 1 .. Len(buf') : buf'[k] = file[pos + k]
  <2>1. \/ tx' = "send" /\ UNCHANGED result
        \/ /\ tx' = "exit" /\ result'["rx"] = result["rx"] /\ result'["tx"] = "success"
           /\ Len(buf') = 0 /\ pos = Len(file)
        \/ tx' = "exit" /\ result'["rx"] = result["rx"] /\ result'["tx"] = "failure"
    BY BtRead, BtEndTx
  <2>2. ASSUME NEW k \in 1 .. Len(buf') PROVE buf'[k] = pos' - Len(buf') + k
    <3>1. pos + k \in 1 .. Len(file) /\ pos' - Len(buf') + k = pos + k
      BY <1>2, BtLengths
    <3> QED
      BY <1>2, <3>1 DEF BtOrder
  <2>3. Len(buf') <= pos'
    BY <1>2, BtLengths
  <2>4. BtOrder'
    BY <1>1, <2>1, <2>2, <2>3 DEF BtOrder, Before, Refused
  <2>5. pos' - Len(buf') + bytes_written' = pos - Len(buf) + bytes_written
    BY <1>1, <1>2, BtLengths
  <2>6. Under' => Under
    BY <1>1, <2>1 DEF Under
  <2>7. result'["tx"] = "success" => pos' - Len(buf') + bytes_written' = Len(file)
    BY <1>1, <1>2, <2>1, BtLengths DEF BtAmount, BtSent
  <2> QED
    BY <1>1, <1>2, <2>1, <2>4, <2>5, <2>6, <2>7 DEF BtAmount, BtSent, Before, Refused
<1>3. CASE Bt!EndTx("failure") /\ UNCHANGED <<pos, buf, bytes_written>>
  <2>1. tx' = "exit" /\ result'["rx"] = result["rx"] /\ result'["tx"] = "failure"
    BY <1>3, BtEndTx
  <2>2. BtOrder'
    BY <1>1, <1>3, <2>1 DEF BtOrder, Before, Refused
  <2> QED
    BY <1>1, <1>3, <2>1, <2>2 DEF BtAmount, Before, Refused, Under, BtSent
<1> QED
  BY <1>2, <1>3, BtRead

LEMMA BtSendKeeps ==
  ASSUME Blocking, BtTypes, BtConnection, BtResults, BtOrder, BtAmount, Bt!Send
  PROVE  BtOrder' /\ BtAmount'
<1>1. /\ tx = "send" /\ bytes_written >= 0
      /\ UNCHANGED <<rx, out, rest, permissions, file, pos, buf, full, damaged>>
  BY BtSend DEF BtAmount
<1>2. CASE Bt!EndTx("failure") /\ UNCHANGED <<link, bytes_written>>
  <2>1. tx' = "exit" /\ result'["rx"] = result["rx"] /\ result'["tx"] = "failure"
    BY <1>2, BtEndTx
  <2>2. BtOrder'
    BY <1>1, <1>2, <2>1 DEF BtOrder, Before, Refused
  <2> QED
    BY <1>1, <1>2, <2>1, <2>2 DEF BtAmount, Before, Refused, Under, BtSent
<1>3. ASSUME conn = "connected", NEW n \in Nat,
             bytes_written' = bytes_written + n, bytes_written' <= Len(buf),
             Len(link') = Len(link) + n,
             \A k \in 1 .. Len(link) : link'[k] = link[k],
             \A k \in Len(link) + 1 .. Len(link') : link'[k] = buf[bytes_written + k - Len(link)],
             Bt!Sent
      PROVE  BtOrder' /\ BtAmount'
  <2>1. \/ tx' = "send" /\ UNCHANGED result
        \/ tx' = "read" /\ UNCHANGED result /\ ~(bytes_written' < Len(buf))
        \/ /\ tx' = "exit" /\ result'["rx"] = result["rx"] /\ result'["tx"] = "success"
           /\ ~(bytes_written' < Len(buf)) /\ pos = Len(file)
    BY <1>3, BtEndTx DEF Bt!Sent, Bt!Eof
  <2>2. ~damaged /\ ~Refused /\ Under /\ result["tx"] # "success"
    BY <1>1, <1>3 DEF BtConnection, BtResults, Under
  <2>3. (Before' <=> Before) /\ (Refused' <=> Refused)
    BY <1>1, <2>1 DEF Before, Refused
  <2>4. \A k \in Len(link) + 1 .. Len(link') : link'[k] = BtSent + k - Len(link)
    <3> SUFFICES ASSUME NEW k \in Len(link) + 1 .. Len(link')
                 PROVE  link'[k] = BtSent + k - Len(link)
      OBVIOUS
    <3>1. bytes_written + k - Len(link) \in 1 .. Len(buf)
      BY <1>1, <1>3, BtLengths
    <3>2. buf[bytes_written + k - Len(link)] = pos - Len(buf) + (bytes_written + k - Len(link))
      BY <3>1 DEF BtOrder
    <3> QED
      BY <1>3, <3>2, BtLengths, SMTT(30) DEF BtSent
  <2>7. /\ bytes_written' >= 0 /\ tx' \notin {"connect", "open"} /\ BtSent' \in Int
        /\ tx' = "read" => bytes_written' = Len(buf')
        /\ result'["tx"] = "success" => BtSent' = Len(file')
    <3>2. BtSent' = pos - Len(buf) + bytes_written'
      BY <1>1 DEF BtSent
    <3>3. bytes_written' \in Int /\ bytes_written' >= 0 /\ bytes_written' <= Len(buf)
      BY <1>1, <1>3, BtLengths
    <3>1. /\ bytes_written' >= 0 /\ BtSent' \in Int
          /\ ~(bytes_written' < Len(buf)) => bytes_written' = Len(buf)
          /\ bytes_written' = Len(buf) => BtSent' = pos
      BY <3>2, <3>3, BtLengths
    <3> QED
      BY <1>1, <2>1, <2>2, <3>1
  <2>5. CASE Before
    <3>1. Len(link) = 1 + BtSent
      BY <2>2, <2>5 DEF BtAmount
    <3>2. ASSUME NEW k \in 1 .. Len(link') PROVE link'[k] = k - 1
      <4>1. CASE k \in 1 .. Len(link)
        BY <1>3, <2>5, <4>1 DEF BtOrder
      <4>2. CASE k \in Len(link) + 1 .. Len(link')
        <5>1. BtSent + k - Len(link) = k - 1
          BY <3>1, BtLengths, SMTT(30) DEF BtSent
        <5> QED
          BY <2>4, <4>2, <5>1
      <4> QED
        BY <1>3, <4>1, <4>2, BtLengths
    <3>3. BtOrder'
      BY <1>1, <2>3, <2>5, <3>2 DEF BtOrder
    <3>4. Len(link') = 1 + BtSent'
      BY <1>1, <1>3, <3>1, BtLengths, SMTT(30) DEF BtSent
    <3> QED
      BY <1>1, <2>3, <2>5, <2>7, <3>3, <3>4 DEF BtAmount, BtSent, Before
  <2>6. CASE ~Before
    <3>1. Len(out) + Len(rest) + Len(link) = BtSent
      BY <2>2, <2>6 DEF BtAmount
    <3>2. ASSUME NEW k \in 1 .. Len(link') PROVE link'[k] = Len(out) + Len(rest) + k
      <4>1. CASE k \in 1 .. Len(link)
        BY <1>3, <2>2, <2>6, <4>1 DEF BtOrder
      <4>2. CASE k \in Len(link) + 1 .. Len(link')
        <5>1. BtSent + k - Len(link) = Len(out) + Len(rest) + k
          BY <3>1, BtLengths DEF BtSent
        <5> QED
          BY <2>4, <4>2, <5>1
      <4> QED
        BY <1>3, <4>1, <4>2, BtLengths
    <3>3. BtOrder'
      BY <1>1, <2>2, <2>3, <2>6, <3>2 DEF BtOrder
    <3>4. permissions = Bt!Mode
      BY <2>2, <2>6 DEF BtAmount
    <3>5. Len(out') + Len(rest') + Len(link') = BtSent'
      BY <1>1, <1>3, <3>1, BtLengths, SMTT(30) DEF BtSent
    <3> QED
      BY <1>1, <2>3, <2>6, <2>7, <3>3, <3>4, <3>5 DEF BtAmount, BtSent, Before
  <2> QED
    BY <2>5, <2>6
<1> QED
  BY <1>1, <1>2, <1>3, BtSend

LEMMA BtRecvPermissionsKeeps ==
  ASSUME BtTypes, BtConnection, BtResults, BtOrder, BtAmount, Bt!RecvPermissions, heard'
  PROVE  BtOrder' /\ BtAmount'
<1>1. /\ rx = "permissions" /\ rx' = "recv" /\ Before /\ ~Before' /\ ~Refused'
      /\ UNCHANGED <<tx, pos, buf, bytes_written, file, conn, out, rest, result, full, damaged>>
      /\ Len(out) = 0 /\ Len(rest) = 0
  BY BtRecvPermissions, BtLengths DEF Before, Refused, BtResults
<1>2. /\ \A k \in 1 .. Len(link) : link[k] = k - 1
      /\ Len(link) <= 1 + BtSent /\ (Under /\ ~damaged => Len(link) = 1 + BtSent)
      /\ BtSent \in Int /\ (Under <=> Under')
  BY <1>1, BtLengths DEF BtOrder, BtAmount, BtSent, Under
<1>3. CASE /\ Len(link) > 0 /\ permissions' = link[1]
           /\ link' \in Seq(BtUnits) /\ Len(link') = Len(link) - 1
           /\ \A k \in 1 .. Len(link') : link'[k] = link[k + 1]
  <2>1. ASSUME NEW k \in 1 .. Len(link') PROVE link'[k] = Len(out) + Len(rest) + k
    <3>1. k + 1 \in 1 .. Len(link)
      BY <1>3, BtLengths
    <3> QED
      BY <1>1, <1>2, <1>3, <3>1
  <2>2. permissions' = 0
    BY <1>2, <1>3, BtLengths
  <2>3. BtOrder'
    BY <1>1, <2>1 DEF BtOrder
  <2> QED
    BY <1>1, <1>2, <1>3, <2>2, <2>3, BtLengths DEF BtAmount, Bt!Mode, BtSent
<1>4. CASE Bt!NoMore /\ Len(link) = 0 /\ UNCHANGED <<permissions, link>>
  <2>1. conn # "connected"
    BY <1>4 DEF Bt!NoMore
  <2>2. BtOrder'
    BY <1>1, <1>4 DEF BtOrder
  <2>3. bytes_written >= 0 /\ Len(buf) <= pos
    BY DEF BtAmount, BtOrder
  <2>4. BtSent >= 0 /\ ~(Under /\ ~damaged)
    BY <1>2, <1>4, <2>3, BtLengths DEF BtSent
  <2> QED
    BY <1>1, <1>2, <1>4, <2>2, <2>4, BtLengths DEF BtAmount, BtSent
<1> QED
  BY <1>3, <1>4, BtRecvPermissions

LEMMA BtRecvKeeps ==
  ASSUME BtTypes, BtConnection, BtResults, BtOrder, BtAmount, Bt!Recv
  PROVE  BtOrder' /\ BtAmount'
<1>1. /\ rx = "recv" /\ ~Before /\ ~Refused /\ Len(rest) = 0
      /\ rx' \in {"write", "close"} /\ ~Before' /\ ~Refused'
      /\ UNCHANGED <<tx, pos, buf, bytes_written, file, conn, out, permissions, result, full, damaged>>
  BY BtRecv, BtLengths DEF Before, Refused, BtResults
<1>2. CASE UNCHANGED <<rest, link>>
  <2>1. BtOrder'
    BY <1>1, <1>2 DEF BtOrder
  <2> QED
    BY <1>1, <1>2, <2>1 DEF BtAmount, BtSent, Under
<1>3. CASE /\ rest' \in Seq(BtUnits) /\ Len(rest') \in 1 .. BufLen
           /\ \A k \in 1 .. Len(rest') : rest'[k] = link[k]
           /\ Len(link') = Len(link) - Len(rest') /\ Len(link') >= 0
           /\ \A k \in 1 .. Len(link') : link'[k] = link[Len(rest') + k]
  <2>0. Len(rest') \in Int /\ Len(link') \in Int /\ Len(rest') > 0
    BY <1>3, BtLengths, BtAssumption DEF Bt!ConstantsOk
  <2>1. ASSUME NEW k \in 1 .. Len(rest') PROVE rest'[k] = Len(out) + k
    <3>1. k \in 1 .. Len(link)
      BY <1>3, <2>0, BtLengths
    <3>2. link[k] = Len(out) + Len(rest) + k
      BY <1>1, <3>1 DEF BtOrder
    <3> QED
      BY <1>1, <1>3, <3>2, BtLengths
  <2>2. ASSUME NEW k \in 1 .. Len(link') PROVE link'[k] = Len(out) + Len(rest') + k
    <3>1. Len(rest') + k \in 1 .. Len(link)
      BY <1>3, <2>0, BtLengths
    <3>2. link[Len(rest') + k] = Len(out) + Len(rest) + (Len(rest') + k)
      BY <1>1, <3>1 DEF BtOrder
    <3> QED
      BY <1>1, <1>3, <2>0, <3>2, BtLengths
  <2>3. BtOrder'
    BY <1>1, <2>1, <2>2 DEF BtOrder
  <2>4. Len(out') + Len(rest') + Len(link') = Len(out) + Len(rest) + Len(link)
    BY <1>1, <1>3, <2>0, BtLengths
  <2> QED
    BY <1>1, <2>3, <2>4 DEF BtAmount, BtSent, Under
<1> QED
  BY <1>2, <1>3, BtRecv

LEMMA BtWriteKeeps ==
  ASSUME BtTypes, BtConnection, BtResults, BtOrder, BtAmount, Bt!Write
  PROVE  BtOrder' /\ BtAmount'
<1>1. PICK n \in 0 .. Len(rest) :
          /\ Len(out') = Len(out) + n
          /\ \A k \in 1 .. Len(out) : out'[k] = out[k]
          /\ \A k \in Len(out) + 1 .. Len(out') : out'[k] = rest[k - Len(out)]
          /\ Len(rest') = Len(rest) - n
          /\ \A k \in 1 .. Len(rest') : rest'[k] = rest[n + k]
          /\ rx' = IF n = Len(rest) THEN "recv" ELSE "write"
  BY BtWrite
<1>2. /\ rx = "write" /\ ~Before /\ ~Refused /\ rx' \in {"recv", "write"} /\ ~Before' /\ ~Refused'
      /\ UNCHANGED <<tx, pos, buf, bytes_written, file, conn, link, permissions, result, damaged>>
  BY <1>1, BtWrite DEF Before, Refused
<1>3. /\ \A k \in 1 .. Len(out) : out[k] = k
      /\ \A k \in 1 .. Len(rest) : rest[k] = Len(out) + k
      /\ \A k \in 1 .. Len(link) : link[k] = Len(out) + Len(rest) + k
  BY <1>2 DEF BtOrder
<1>4. ASSUME NEW k \in 1 .. Len(out') PROVE out'[k] = k
  <2>1. CASE k \in 1 .. Len(out)
    BY <1>1, <1>3, <2>1
  <2>2. CASE k \in Len(out) + 1 .. Len(out')
    <3>1. k - Len(out) \in 1 .. Len(rest) /\ Len(out) + (k - Len(out)) = k
      BY <1>1, <2>2, BtLengths
    <3> QED
      BY <1>1, <1>3, <2>2, <3>1
  <2> QED
    BY <1>1, <2>1, <2>2, BtLengths
<1>5. ASSUME NEW k \in 1 .. Len(rest') PROVE rest'[k] = Len(out') + k
  <2>1. n + k \in 1 .. Len(rest) /\ Len(out) + (n + k) = Len(out') + k
    BY <1>1, BtLengths
  <2> QED
    BY <1>1, <1>3, <2>1
<1>6. Len(out') + Len(rest') = Len(out) + Len(rest)
  BY <1>1, BtLengths
<1>7. BtOrder'
  BY <1>2, <1>3, <1>4, <1>5, <1>6 DEF BtOrder
<1> QED
  BY <1>2, <1>6, <1>7 DEF BtAmount, BtSent, Under

LEMMA BtCloseFileKeeps ==
  ASSUME BtTypes, BtSwitches, BtConnection, BtResults, BtOrder, BtAmount, Bt!CloseFile
  PROVE  BtOrder' /\ BtAmount'
<1>1. /\ rx = "close" /\ rx' = "exit" /\ result'["rx"] = "success" /\ result'["tx"] = result["tx"]
      /\ Len(out') \in 0 .. Len(out) /\ \A k \in 1 .. Len(out') : out'[k] = out[k]
      /\ (damaged => damaged') /\ (out' # out => damaged') /\ (~damaged' => Len(link) = 0)
      /\ Len(link') = 0
      /\ UNCHANGED <<tx, pos, buf, bytes_written, file, rest, permissions, full>>
  BY BtCloseFile, BtEndRx, BtLengths DEF Bt!NoMore
<1>2. /\ ~Before /\ ~Refused /\ ~Before' /\ ~Refused' /\ Len(rest) = 0
  BY <1>1, BtLengths DEF Before, Refused, BtConnection
<1>3. \A k \in 1 .. Len(out') : out'[k] = k
  BY <1>1, <1>2, BtLengths DEF BtOrder
<1>4. BtOrder'
  BY <1>1, <1>2, <1>3 DEF BtOrder
<1>5. /\ Len(out') + Len(rest') + Len(link') <= Len(out) + Len(rest) + Len(link)
      /\ Len(out') + Len(rest') + Len(link') \in Int
      /\ ~damaged' => Len(out') + Len(rest') + Len(link') = Len(out) + Len(rest) + Len(link)
  BY <1>1, <1>2, BtLengths
<1> QED
  BY <1>1, <1>2, <1>4, <1>5, BtLengths DEF BtAmount, BtSent, Under

LEMMA BtLinkLostKeeps ==
  ASSUME BtTypes, BtOrder, BtAmount, Bt!LinkLost
  PROVE  BtOrder' /\ BtAmount'
<1>1. /\ damaged' = TRUE
      /\ Len(link') \in 0 .. Len(link) /\ \A k \in 1 .. Len(link') : link'[k] = link[k]
      /\ UNCHANGED <<tx, pos, buf, bytes_written, rx, out, rest, permissions, file, result, full>>
  BY BtLinkLost
<1>2. \A k \in 1 .. Len(link') : k \in 1 .. Len(link)
  BY <1>1, BtLengths
<1>3. BtOrder'
  BY <1>1, <1>2 DEF BtOrder, Before, Refused
<1>4. Len(link') <= Len(link) /\ Len(link') \in Int
  BY <1>1, BtLengths
<1> QED
  BY <1>1, <1>3, <1>4, BtLengths, SMTT(30) DEF BtAmount, BtSent, Under, Before, Refused

LEMMA SameSeq ==
  ASSUME NEW S, NEW T, NEW s \in Seq(S), NEW t \in Seq(T), Len(s) = Len(t),
         \A k \in 1 .. Len(s) : s[k] = t[k]
  PROVE  s = t
<1>1. s \in [1 .. Len(s) -> S] /\ t \in [1 .. Len(s) -> T]
  BY LenProperties
<1> QED
  BY <1>1

LEMMA BtInitial == Bt!Init => BtInv
<1> SUFFICES ASSUME Bt!Init PROVE BtInv
  OBVIOUS
<1>a. /\ MaxLen \in Nat /\ BufLen \in Nat \ {0} /\ LinkLen \in Nat /\ BtFaults \in Nat
      /\ Bt!Old \in Seq(Int) /\ Len(Bt!Old) = 1 /\ Bt!Garbage \in BtUnits
  BY BtAssumption DEF Bt!ConstantsOk, Bt!Old, BtUnits, Bt!Garbage
<1>b. /\ <<>> \in Seq(1 .. MaxLen) /\ <<>> \in Seq(BtUnits) /\ Len(<<>>) = 0
  BY EmptySeq
<1>1. PICK len \in 0 .. MaxLen : file = [n \in 1 .. len |-> n]
  BY DEF Bt!Init
<1>2. file \in Seq(1 .. MaxLen) /\ Len(file) = len /\ \A k \in 1 .. len : file[k] = k
  <2>1. file \in [1 .. len -> 1 .. MaxLen] /\ len \in Nat
    BY <1>a, <1>1
  <2> QED
    BY <1>1, <2>1, FunctionIsSeq
<1>3. BtPlaces
  BY DEF Bt!Init, BtPlaces
<1>4. BtData
  BY <1>a, <1>b, <1>2 DEF Bt!Init, BtData
<1>5. BtSwitches
  BY DEF Bt!Init, BtSwitches
<1>6. BtConnection
  BY DEF Bt!Init, BtConnection, Refused, Before
<1>7. BtResults
  BY DEF Bt!Init, BtResults, Refused, Before
<1>8. BtOrder
  BY <1>b, <1>2 DEF Bt!Init, BtOrder, Refused, Before
<1>9. BtAmount
  BY <1>b DEF Bt!Init, BtAmount, BtSent, Under, Refused, Before
<1> QED
  BY <1>3, <1>4, <1>5, <1>6, <1>7, <1>8, <1>9 DEF BtInv, BtTypes

(* Once a call on the permissions has failed it has failed.                *)
LEMMA BtHeard == ASSUME BtTypes, Bt!Next PROVE heard' = heard \/ heard' = FALSE
<1>1. CASE Bt!OpenFile
  BY <1>1, BtOpenFile
<1>2. CASE Bt!RecvPermissions
  BY <1>2, BtRecvPermissions
<1>3. CASE Bt!Recv \/ Bt!Write \/ Bt!CloseFile \/ Bt!LinkLost \/ Bt!Terminated
  BY <1>3, Zenon DEF Bt!Recv, Bt!Write, Bt!CloseFile, Bt!LinkLost, Bt!Terminated, Bt!vars
<1>4. CASE Bt!Connect \/ Bt!Read \/ Bt!Send \/ Bt!CreateFile \/ Bt!Listen \/ Bt!Accept
  BY <1>4, Zenon DEF Bt!Connect, Bt!Read, Bt!Send, Bt!CreateFile, Bt!Listen, Bt!Accept
<1> QED
  BY <1>1, <1>2, <1>3, <1>4 DEF Bt!Next, Bt!Transmitter, Bt!Receiver

LEMMA BtStep == ASSUME Blocking PROVE BtInv /\ Bt!Next => BtInv'
<1> SUFFICES ASSUME BtInv, Bt!Next PROVE BtInv'
  OBVIOUS
<1>1. BtTypes' /\ BtSwitches'
  BY BtTypesStep DEF BtInv
<1>2. BtConnection' /\ BtResults'
  BY BtControlStep DEF BtInv
<1>4. heard' => heard
  BY BtHeard DEF BtInv
<1>3. heard' => BtOrder' /\ BtAmount'
  BY <1>4, BtStillStep, BtOpenFileKeeps, BtReadKeeps, BtSendKeeps, BtRecvPermissionsKeeps, BtRecvKeeps,
     BtWriteKeeps, BtCloseFileKeeps, BtLinkLostKeeps
     DEF BtInv, Bt!Next, Bt!Transmitter, Bt!Receiver
<1> QED
  BY <1>1, <1>2, <1>3 DEF BtInv

LEMMA BtTypesSafe == BtTypes /\ BtSwitches => Bt!TypeOK
<1> SUFFICES ASSUME BtTypes, BtSwitches PROVE Bt!TypeOK
  OBVIOUS
<1>1. MaxLen \in Nat /\ BufLen \in Nat /\ LinkLen \in Nat /\ BtFaults \in Nat
  BY BtAssumption DEF Bt!ConstantsOk
<1>2. bytes_written \in -1 .. BufLen /\ permissions \in Bt!Garbage .. MaxLen
  BY <1>1, BtLengths DEF BtTypes, BtData, BtUnits
<1> QED
  BY <1>1, <1>2 DEF BtTypes, BtPlaces, BtData, BtSwitches, Bt!TypeOK

LEMMA BtHeardSafe ==
  ASSUME BtInv, heard PROVE Bt!ReceivedIsPrefix /\ Bt!SuccessMeansTransferred
<1>0. BtTypes /\ BtConnection /\ BtResults /\ BtOrder /\ BtAmount
  BY DEF BtInv
<1>3. Len(file) \in Nat /\ Len(out) \in Nat
  BY <1>0, BtLengths
<1>4. /\ Len(out) <= Len(file) \/ out = Bt!Old
      /\ \A k \in 1 .. Len(out) : out[k] = file[k] \/ out = Bt!Old
  <2>1. CASE Before \/ Refused
    BY <1>0, <2>1, BtLengths DEF BtResults, Before
  <2>2. CASE ~Before /\ ~Refused
    <3>1. Len(out) + Len(rest) + Len(link) <= BtSent /\ \A k \in 1 .. Len(out) : out[k] = k
      BY <1>0, <2>2 DEF BtAmount, BtOrder
    <3>2. BtSent <= Len(file)
      BY <1>0 DEF BtSent, BtTypes, BtData
    <3>3. Len(out) <= Len(file)
      BY <1>0, <3>1, <3>2, BtLengths DEF BtSent
    <3>4. \A k \in 1 .. Len(file) : file[k] = k
      BY <1>0 DEF BtOrder
    <3> QED
      BY <1>3, <3>1, <3>3, <3>4
  <2> QED
    BY <2>1, <2>2
<1>5. out # Bt!Old => SubSeq(out, 1, Len(out)) = SubSeq(file, 1, Len(out))
  <2> SUFFICES ASSUME out # Bt!Old PROVE SubSeq(out, 1, Len(out)) = SubSeq(file, 1, Len(out))
    OBVIOUS
  <2>1. Len(out) \in 0 .. Len(out) /\ Len(out) \in 0 .. Len(file) /\ out \in Seq(Int) /\ file \in Seq(1 .. MaxLen)
    BY <1>0, <1>3, <1>4 DEF BtTypes, BtData
  <2>2. /\ SubSeq(out, 1, Len(out)) \in Seq(Int) /\ Len(SubSeq(out, 1, Len(out))) = Len(out)
        /\ \A k \in 1 .. Len(out) : SubSeq(out, 1, Len(out))[k] = out[k]
    BY <2>1, PrefixOf
  <2>3. /\ SubSeq(file, 1, Len(out)) \in Seq(1 .. MaxLen) /\ Len(SubSeq(file, 1, Len(out))) = Len(out)
        /\ \A k \in 1 .. Len(out) : SubSeq(file, 1, Len(out))[k] = file[k]
    BY <2>1, PrefixOf
  <2> HIDE DEF Bt!Old
  <2> QED
    BY <1>4, <2>2, <2>3, SameSeq
<1>6. Bt!ReceivedIsPrefix
  BY <1>4, <1>5 DEF Bt!ReceivedIsPrefix, Bt!IsPrefix
<1>7. Bt!SuccessMeansTransferred
  <2> SUFFICES ASSUME result = [tx |-> "success", rx |-> "success"], ~damaged
               PROVE  out = file /\ permissions = Bt!Mode
    BY DEF Bt!SuccessMeansTransferred
  <2>1. result["tx"] = "success" /\ result["rx"] = "success" /\ Under
    BY DEF Under
  <2>2. rx = "exit" /\ ~Before /\ ~Refused
    BY <1>0, <2>1 DEF BtResults, Before, Refused
  <2>3. Len(link) = 0 /\ Len(rest) = 0
    BY <1>0, <2>2, BtLengths DEF BtConnection
  <2>4. /\ permissions = Bt!Mode /\ Len(out) + Len(rest) + Len(link) = BtSent /\ BtSent = Len(file)
        /\ \A k \in 1 .. Len(out) : out[k] = k
        /\ \A k \in 1 .. Len(file) : file[k] = k
    BY <1>0, <2>1, <2>2 DEF BtAmount, BtOrder
  <2>5. Len(out) = Len(file)
    BY <1>3, <2>3, <2>4
  <2>6. out \in Seq(Int) /\ file \in Seq(1 .. MaxLen)
    BY <1>0 DEF BtTypes, BtData
  <2> QED
    BY <2>4, <2>5, <2>6, SameSeq
<1> QED
  BY <1>6, <1>7

LEMMA BtSafe == BtInv => Bt!TypeOK /\ Bt!ReceivedIsPrefix /\ Bt!SuccessMeansTransferred
<1>1. BtInv => Bt!TypeOK
  BY BtTypesSafe DEF BtInv
<1>2. ~heard => Bt!ReceivedIsPrefix /\ Bt!SuccessMeansTransferred
  BY DEF Bt!ReceivedIsPrefix, Bt!SuccessMeansTransferred
<1> QED
  BY <1>1, <1>2, BtHeardSafe

-----------------------------------------------------------------------------
(***************************************************************************)
(* can_test.  A receiver has read as many frames as it has counted, all as *)
(* expected; on an undisturbed bus what it has read and what waits for it  *)
(* are the frames its transmitter has sent.                                *)
(***************************************************************************)
CanThreads ==
    [{"tx", "rx"} -> [Can!Index -> [pc : {"none", "setup", "loop", "ended"},
        loop : 1 .. CanLoops, result : {"none", "ok", "failed"}]]]
OwnFrames == {Can!Frame("tx", k, n) : k \in Can!Index, n \in 1 .. CanLoops}
ForeignFrames ==
    {[id |-> Can!canids[k], eff |-> eff, dlc |-> Can!bytes["tx"], data |-> data,
      seq |-> 0, from |-> 0] : k \in Can!Index, eff \in BOOLEAN, data \in 0 .. PatternMod - 1}
CanFrames == OwnFrames \cup ForeignFrames
CanTypes ==
    /\ main_opts \in CommandLines
    /\ main \in [{"tx", "rx"} -> {"create", "join", "freed", "crashed"}]
    /\ cnt \in [{"tx", "rx"} -> 1 .. Len(Can!canids) + 1]
    /\ thread \in CanThreads
    /\ queue \in [Can!Index -> Seq(CanFrames)] /\ got \in [Can!Index -> Seq(CanFrames)]
    /\ faults \in 0 .. CanFaults

MainOk(s, k) ==
    /\ main[s] = "create" /\ k >= cnt[s] => thread[s][k].pc = "none"
    /\ main[s] = "join" /\ k < cnt[s] => thread[s][k].pc = "ended"
    /\ main[s] = "freed" => thread[s][k].pc = "ended"
CanMains == \A s \in {"tx", "rx"}, k \in Can!Index : MainOk(s, k)
StageOk(s, k) ==
    /\ thread[s][k].pc \in {"none", "setup"} => thread[s][k].loop = 1
    /\ thread[s][k].pc = "loop" => Can!ValidId(Can!canids[k])
    /\ thread[s][k].result # "none" <=> thread[s][k].pc = "ended"
    /\ s = "tx" /\ thread[s][k].result = "ok" => thread[s][k].loop = CanLoops
    /\ thread[s][k].result = "failed" /\ Can!ValidId(Can!canids[k]) /\ s = "tx" => faults > 0
CanStages == \A s \in {"tx", "rx"}, k \in Can!Index : StageOk(s, k)

Good(k) == thread["rx"][k].pc # "ended" \/ thread["rx"][k].result = "ok"
ReceivedOk(k) ==
    /\ thread["rx"][k].pc # "ended" => Len(got[k]) = thread["rx"][k].loop - 1
    /\ thread["rx"][k].result = "ok" => Len(got[k]) = CanLoops
    /\ Good(k) =>
        \A n \in 1 .. Len(got[k]) : Can!compare_frames(got[k][n], Can!Frame("rx", k, n))
CanReceived == \A k \in Can!Index : ReceivedOk(k)

SentBy(k) == IF thread["tx"][k].pc = "ended" THEN CanLoops ELSE thread["tx"][k].loop - 1
Undisturbed ==
    clean /\ faults = 0 /\ Can!UniqueIds /\ Can!bytes["tx"] = Can!bytes["rx"]
UndisturbedOk(k) ==
    Undisturbed /\ Can!ValidId(Can!canids[k]) =>
        /\ thread["rx"][k].pc \in {"none", "setup"} => Len(queue[k]) = 0 /\ SentBy(k) = 0
        /\ thread["rx"][k].pc = "loop" =>
            /\ Len(got[k]) + Len(queue[k]) = SentBy(k)
            /\ \A n \in 1 .. Len(queue[k]) : queue[k][n] = Can!Frame("tx", k, Len(got[k]) + n)
        /\ thread["rx"][k].pc = "ended" => thread["rx"][k].result = "ok"
CanUndisturbed == \A k \in Can!Index : UndisturbedOk(k)
CanInv ==
    /\ CanTypes /\ clean \in BOOLEAN /\ CanMains /\ CanStages /\ CanReceived /\ CanUndisturbed

LEMMA CanOptionsOk ==
  ASSUME CanTypes
  PROVE  /\ Can!Index = 1 .. Len(Can!canids) /\ Len(Can!canids) \in Nat
         /\ \A k \in Can!Index : Can!canids[k] \in [low : Nat, high : Nat]
         /\ CanLoops \in Nat \ {0} /\ PatternMod \in Nat \ {0} /\ CanFaults \in Nat
<1>1. Can!canids \in Seq([low : Nat, high : Nat])
  BY CanAssumption DEF CanTypes, Can!ConstantsOk, Can!canids
<1>2. Can!Index = 1 .. Len(Can!canids) /\ Len(Can!canids) \in Nat
  BY <1>1, LenProperties DEF Can!Index
<1> QED
  BY <1>1, <1>2, ElementOfSeq, CanAssumption DEF Can!ConstantsOk

(* What a step does to one thread, and that it does nothing to others.     *)
Others(s, k) ==
    \A t \in {"tx", "rx"}, n \in Can!Index : t # s \/ n # k => thread'[t][n] = thread[t][n]

CanSteps == [pc : {"none", "setup", "loop", "ended"}, loop : 1 .. CanLoops,
             result : {"none", "ok", "failed"}]
LEMMA CanPlaces ==
  ASSUME CanTypes, NEW s \in {"tx", "rx"}, NEW k \in Can!Index, NEW r \in CanSteps,
         thread' = [thread EXCEPT ![s] = [thread[s] EXCEPT ![k] = r]]
  PROVE  thread' \in CanThreads /\ Others(s, k) /\ thread'[s][k] = r
<1>1. thread \in [{"tx", "rx"} -> [Can!Index -> CanSteps]]
  BY DEF CanTypes, CanThreads, CanSteps
<1>2. thread' \in [{"tx", "rx"} -> [Can!Index -> CanSteps]]
  BY <1>1
<1> QED
  BY <1>1, <1>2 DEF CanThreads, CanSteps, Others

LEMMA CanStepTypes ==
  ASSUME CanTypes, NEW s \in {"tx", "rx"}, NEW k \in Can!Index
  PROVE  thread[s][k] \in CanSteps
  BY DEF CanTypes, CanThreads, CanSteps

Goes(s, k, x) == thread' = [thread EXCEPT ![s][k].pc = x]
LEMMA CanGoes ==
  ASSUME CanTypes, NEW s \in {"tx", "rx"}, NEW k \in Can!Index, NEW x \in {"none", "setup", "loop", "ended"},
         Goes(s, k, x)
  PROVE  /\ thread' \in CanThreads /\ Others(s, k)
         /\ thread'[s][k].pc = x /\ thread'[s][k].loop = thread[s][k].loop
         /\ thread'[s][k].result = thread[s][k].result
<1> DEFINE r == [thread[s][k] EXCEPT !.pc = x]
<1>1. r \in CanSteps /\ r.pc = x /\ r.loop = thread[s][k].loop /\ r.result = thread[s][k].result
  BY CanStepTypes DEF CanSteps
<1>2. thread' = [thread EXCEPT ![s] = [thread[s] EXCEPT ![k] = r]]
  BY DEF Goes
<1> HIDE DEF r
<1>3. thread' \in CanThreads /\ Others(s, k) /\ thread'[s][k] = r
  BY <1>1, <1>2, CanPlaces, ZenonT(60)
<1> QED
  BY <1>1, <1>3

LEMMA CanEnds ==
  ASSUME CanTypes, NEW s \in {"tx", "rx"}, NEW k \in Can!Index, NEW x \in {"none", "ok", "failed"},
         Can!End(s, k, x)
  PROVE  /\ thread' \in CanThreads /\ Others(s, k)
         /\ thread'[s][k].pc = "ended" /\ thread'[s][k].loop = thread[s][k].loop
         /\ thread'[s][k].result = x
<1> DEFINE r == [thread[s][k] EXCEPT !.pc = "ended", !.result = x]
<1>1. r \in CanSteps /\ r.pc = "ended" /\ r.loop = thread[s][k].loop /\ r.result = x
  BY CanStepTypes DEF CanSteps
<1>2. thread' = [thread EXCEPT ![s] = [thread[s] EXCEPT ![k] = r]]
  BY DEF Can!End, CanTypes, CanThreads
<1> HIDE DEF r
<1>3. thread' \in CanThreads /\ Others(s, k) /\ thread'[s][k] = r
  BY <1>1, <1>2, CanPlaces
<1> QED
  BY <1>1, <1>3

LEMMA CanAdvances ==
  ASSUME CanTypes, NEW s \in {"tx", "rx"}, NEW k \in Can!Index, Can!Advance(s, k)
  PROVE  /\ thread' \in CanThreads /\ Others(s, k)
         /\ \/ /\ thread[s][k].loop < CanLoops
               /\ thread'[s][k].pc = thread[s][k].pc /\ thread'[s][k].loop = thread[s][k].loop + 1
               /\ thread'[s][k].result = thread[s][k].result
            \/ /\ thread[s][k].loop = CanLoops
               /\ thread'[s][k].pc = "ended" /\ thread'[s][k].loop = thread[s][k].loop
               /\ thread'[s][k].result = "ok"
<1>1. CASE thread[s][k].loop < CanLoops
  <2>1. thread' = [thread EXCEPT ![s][k].loop = thread[s][k].loop + 1]
    BY <1>1 DEF Can!Advance, CanTypes, CanThreads
  <2>2. thread[s][k].loop + 1 \in 1 .. CanLoops
    BY <1>1, CanOptionsOk, CanStepTypes DEF CanSteps
  <2> DEFINE r == [thread[s][k] EXCEPT !.loop = thread[s][k].loop + 1]
  <2>3. /\ r \in CanSteps /\ r.pc = thread[s][k].pc /\ r.loop = thread[s][k].loop + 1
        /\ r.result = thread[s][k].result
    BY <2>2, CanStepTypes DEF CanSteps
  <2>4. thread' = [thread EXCEPT ![s] = [thread[s] EXCEPT ![k] = r]]
    BY <2>1
  <2> HIDE DEF r
  <2>5. thread' \in CanThreads /\ Others(s, k) /\ thread'[s][k] = r
    BY <2>3, <2>4, CanPlaces
  <2> QED
    BY <1>1, <2>3, <2>5
<1>2. CASE ~(thread[s][k].loop < CanLoops)
  <2>1. thread[s][k].loop = CanLoops /\ Can!End(s, k, "ok")
    BY <1>2, CanOptionsOk DEF Can!Advance, CanTypes, CanThreads
  <2> QED
    BY <2>1, CanEnds
<1> QED
  BY <1>1, <1>2

LEMMA CanDelivers ==
  ASSUME CanTypes, NEW frame \in CanFrames, NEW times \in Nat, Can!Deliver(frame, times)
  PROVE  /\ queue' \in [Can!Index -> Seq(CanFrames)]
         /\ \A k \in Can!Index :
                IF Can!Listening(k) /\ Can!PassesFilter(frame, k)
                THEN /\ Len(queue'[k]) = Len(queue[k]) + times
                     /\ \A n \in 1 .. Len(queue[k]) : queue'[k][n] = queue[k][n]
                     /\ \A n \in Len(queue[k]) + 1 .. Len(queue[k]) + times : queue'[k][n] = frame
                ELSE queue'[k] = queue[k]
<1> DEFINE g == [n \in 1 .. times |-> frame]
<1>1. g \in Seq(CanFrames) /\ Len(g) = times /\ \A n \in 1 .. times : g[n] = frame
  BY FunctionIsSeq
<1> HIDE DEF g
<1>2. /\ queue' = [k \in Can!Index |-> IF Can!Listening(k) /\ Can!PassesFilter(frame, k)
                                       THEN queue[k] \o g ELSE queue[k]]
  BY DEF Can!Deliver, g
<1>3. ASSUME NEW k \in Can!Index
      PROVE  /\ queue[k] \in Seq(CanFrames) /\ Len(queue[k]) \in Nat
             /\ queue[k] \o g \in Seq(CanFrames) /\ Len(queue[k] \o g) = Len(queue[k]) + times
             /\ \A n \in 1 .. Len(queue[k]) : (queue[k] \o g)[n] = queue[k][n]
             /\ \A n \in Len(queue[k]) + 1 .. Len(queue[k]) + times : (queue[k] \o g)[n] = frame
  <2>1. queue[k] \in Seq(CanFrames) /\ Len(queue[k]) \in Nat
    BY LenProperties DEF CanTypes
  <2>2. /\ queue[k] \o g \in Seq(CanFrames) /\ Len(queue[k] \o g) = Len(queue[k]) + times
        /\ \A n \in 1 .. Len(queue[k]) + times :
            (queue[k] \o g)[n] = IF n <= Len(queue[k]) THEN queue[k][n] ELSE g[n - Len(queue[k])]
    BY <1>1, <2>1, ConcatProperties, ZenonT(60)
  <2> QED
    BY <1>1, <2>1, <2>2
<1> QED
  BY <1>2, <1>3

LEMMA CanFilter ==
  ASSUME CanTypes, NEW k \in Can!Index, NEW n \in Can!Index, NEW loop,
         Can!ValidId(Can!canids[n]), Can!ValidId(Can!canids[k])
  PROVE  Can!PassesFilter(Can!Frame("tx", n, loop), k) <=> Can!canids[n] = Can!canids[k]
  BY CanOptionsOk DEF Can!PassesFilter, Can!Frame, Can!ValidId

(* The options do not change, and what is made of them.                    *)
LEMMA CanSame ==
  ASSUME UNCHANGED main_opts
  PROVE  /\ Can!Index' = Can!Index /\ Can!canids' = Can!canids /\ Can!bytes' = Can!bytes
         /\ CanThreads' = CanThreads /\ CanFrames' = CanFrames
         /\ Can!UniqueIds' <=> Can!UniqueIds
         /\ \A id : Can!ValidId(id)' <=> Can!ValidId(id)
         /\ \A s, k, n : Can!Frame(s, k, n)' = Can!Frame(s, k, n)
<1>1. Can!Index' = Can!Index /\ Can!canids' = Can!canids /\ Can!bytes' = Can!bytes
  BY DEF Can!Index, Can!canids, Can!bytes
<1>2. \A s, k, n : Can!Frame(s, k, n)' = Can!Frame(s, k, n)
  BY DEF Can!Frame, Can!canids, Can!extended, Can!bytes, Can!same_pattern
<1>3. \A id : Can!ValidId(id)' <=> Can!ValidId(id)
  BY DEF Can!ValidId, Can!extended
<1>4. Can!UniqueIds' <=> Can!UniqueIds
  BY <1>1 DEF Can!UniqueIds
<1>5. CanThreads' = CanThreads
  BY <1>1 DEF CanThreads
<1>6. OwnFrames' = OwnFrames
  BY <1>1, <1>2 DEF OwnFrames
<1>7. ForeignFrames' = ForeignFrames
  BY <1>1 DEF ForeignFrames
<1> QED
  BY <1>1, <1>2, <1>3, <1>4, <1>5, <1>6, <1>7 DEF CanFrames

LEMMA CanFault ==
  ASSUME CanTypes, UNCHANGED faults \/ Can!Fault
  PROVE  /\ faults' \in 0 .. CanFaults /\ (faults > 0 => faults' > 0)
         /\ faults' = 0 => faults = 0
         /\ Can!Fault => faults' > 0
  BY CanAssumption DEF Can!Fault, CanTypes, Can!ConstantsOk

CanKept == CanMains /\ CanStages /\ CanReceived /\ CanUndisturbed
LEMMA CanKeptIf ==
  ASSUME UNCHANGED main_opts,
         \A s \in {"tx", "rx"}, k \in Can!Index : MainOk(s, k)' /\ StageOk(s, k)',
         \A k \in Can!Index : ReceivedOk(k)' /\ UndisturbedOk(k)'
  PROVE  CanKept'
  BY CanSame DEF CanKept, CanMains, CanStages, CanReceived, CanUndisturbed

LEMMA CanStillUndisturbed ==
  ASSUME NEW k \in Can!Index, UndisturbedOk(k), Undisturbed' => Undisturbed,
         UNCHANGED main_opts, queue'[k] = queue[k], got'[k] = got[k], SentBy(k)' = SentBy(k),
         \/ thread'["rx"][k] = thread["rx"][k]
         \/ {thread["rx"][k].pc, thread'["rx"][k].pc} \subseteq {"none", "setup"}
  PROVE  UndisturbedOk(k)'
<1>1. CASE Undisturbed /\ Can!ValidId(Can!canids[k])
  <2>1. CASE thread["rx"][k].pc = "loop"
    BY <1>1, <2>1 DEF UndisturbedOk, Can!Frame, Can!canids, Can!extended, Can!bytes, Can!same_pattern
  <2>2. CASE thread["rx"][k].pc # "loop"
    BY <1>1, <2>2 DEF UndisturbedOk
  <2> QED
    BY <2>1, <2>2
<1>2. CASE ~(Undisturbed' /\ Can!ValidId(Can!canids[k])')
  BY <1>2 DEF UndisturbedOk
<1> QED
  BY <1>1, <1>2 DEF Can!ValidId, Can!canids, Can!extended

LEMMA CanCreateKeeps ==
  ASSUME CanTypes, CanKept, NEW s \in {"tx", "rx"}, Can!Create(s)
  PROVE  CanTypes' /\ CanKept'
<1>0. /\ main[s] = "create" /\ UNCHANGED <<main_opts, queue, got, clean>>
      /\ main \in [{"tx", "rx"} -> {"create", "join", "freed", "crashed"}]
      /\ cnt \in [{"tx", "rx"} -> 1 .. Len(Can!canids) + 1]
  BY DEF Can!Create, CanTypes
<1>1. UNCHANGED faults \/ Can!Fault
  BY Zenon DEF Can!Create
<1>2. CASE /\ cnt[s] \in Can!Index /\ (UNCHANGED thread \/ Goes(s, cnt[s], "setup"))
           /\ cnt' = [cnt EXCEPT ![s] = @ + 1] /\ UNCHANGED main
  <2>1. cnt' \in [{"tx", "rx"} -> 1 .. Len(Can!canids) + 1]
    BY <1>0, <1>2, CanOptionsOk
  <2>2. thread[s][cnt[s]].pc = "none"
    <3>1. cnt[s] >= cnt[s]
      BY <1>2, CanOptionsOk
    <3> QED
      BY <1>0, <1>2, <3>1 DEF CanKept, CanMains, MainOk
  <2>3. CASE UNCHANGED thread
    <3>1. CanTypes'
      BY <1>0, <1>1, <1>2, <2>1, <2>3, CanSame, CanFault DEF CanTypes
    <3>2. ASSUME NEW t \in {"tx", "rx"}, NEW n \in Can!Index PROVE MainOk(t, n)'
      <4>1. MainOk(t, n) /\ (n >= cnt'[t] => n >= cnt[t]) /\ (main[t] # "create" => cnt'[t] = cnt[t])
        BY <1>0, <1>2, CanOptionsOk DEF CanKept, CanMains
      <4> QED
        BY <1>2, <2>3, <4>1 DEF MainOk
    <3>3. ASSUME NEW t \in {"tx", "rx"}, NEW n \in Can!Index PROVE StageOk(t, n)'
      <4>1. StageOk(t, n)
        BY DEF CanKept, CanStages
      <4> QED
        BY <1>0, <1>1, <2>3, <4>1, CanSame, CanFault DEF StageOk
    <3>4. ASSUME NEW n \in Can!Index PROVE ReceivedOk(n)' /\ UndisturbedOk(n)'
      <4>1. ReceivedOk(n) /\ UndisturbedOk(n)
        BY DEF CanKept, CanReceived, CanUndisturbed
      <4>2. ReceivedOk(n)'
        BY <1>0, <2>3, <4>1, CanSame DEF ReceivedOk, Good
      <4>3. Undisturbed' => Undisturbed
        BY <1>0, <1>1, CanSame, CanFault DEF Undisturbed
      <4>4. SentBy(n)' = SentBy(n)
        BY <2>3 DEF SentBy
      <4> QED
        BY <1>0, <2>3, <4>1, <4>2, <4>3, <4>4, CanStillUndisturbed
    <3> QED
      BY <1>0, <3>1, <3>2, <3>3, <3>4, CanKeptIf
  <2>4. CASE Goes(s, cnt[s], "setup")
    <3>0. /\ thread' \in CanThreads /\ Others(s, cnt[s])
          /\ thread'[s][cnt[s]].pc = "setup" /\ thread'[s][cnt[s]].loop = thread[s][cnt[s]].loop
          /\ thread'[s][cnt[s]].result = thread[s][cnt[s]].result
      BY <1>2, <2>4, CanGoes
    <3>1. CanTypes'
      BY <1>0, <1>1, <1>2, <2>1, <3>0, CanSame, CanFault DEF CanTypes
    <3>2. ASSUME NEW t \in {"tx", "rx"}, NEW n \in Can!Index PROVE MainOk(t, n)'
      <4>1. MainOk(t, n) /\ (n >= cnt'[t] => n >= cnt[t] /\ (n # cnt[t] \/ t # s)) /\ (main[t] # "create" => t # s /\ cnt'[t] = cnt[t])
        BY <1>0, <1>2, CanOptionsOk DEF CanKept, CanMains
      <4> QED
        BY <1>0, <1>2, <3>0, <4>1 DEF MainOk, Others
    <3>3. ASSUME NEW t \in {"tx", "rx"}, NEW n \in Can!Index PROVE StageOk(t, n)'
      <4>1. StageOk(t, n)
        BY DEF CanKept, CanStages
      <4>2. CASE t # s \/ n # cnt[s]
        BY <1>0, <1>1, <3>0, <4>1, <4>2, CanSame, CanFault DEF StageOk, Others
      <4>3. CASE t = s /\ n = cnt[s]
        BY <2>2, <3>0, <4>1, <4>3 DEF StageOk
      <4> QED
        BY <4>2, <4>3
    <3>4. ASSUME NEW n \in Can!Index PROVE ReceivedOk(n)' /\ UndisturbedOk(n)'
      <4>1. ReceivedOk(n) /\ UndisturbedOk(n)
        BY DEF CanKept, CanReceived, CanUndisturbed
      <4>2. /\ \/ thread'["rx"][n] = thread["rx"][n]
               \/ /\ thread["rx"][n].pc = "none" /\ thread'["rx"][n].pc = "setup"
                  /\ thread'["rx"][n].loop = thread["rx"][n].loop /\ thread'["rx"][n].result = thread["rx"][n].result
            /\ \/ thread'["tx"][n] = thread["tx"][n]
               \/ /\ thread["tx"][n].pc = "none" /\ thread'["tx"][n].pc = "setup"
                  /\ thread'["tx"][n].loop = thread["tx"][n].loop
        BY <2>2, <3>0 DEF Others
      <4>3. ReceivedOk(n)'
        BY <1>0, <4>1, <4>2, CanSame DEF ReceivedOk, Good
      <4>4. Undisturbed' => Undisturbed
        BY <1>0, <1>1, CanSame, CanFault DEF Undisturbed
      <4>5. SentBy(n)' = SentBy(n)
        BY <4>2 DEF SentBy
      <4> QED
        BY <1>0, <4>1, <4>2, <4>3, <4>4, <4>5, CanStillUndisturbed
    <3> QED
      BY <1>0, <3>1, <3>2, <3>3, <3>4, CanKeptIf
  <2> QED
    BY <1>2, <2>3, <2>4
<1>3. CASE /\ cnt[s] \notin Can!Index /\ UNCHANGED <<thread, faults>>
           /\ main' = [main EXCEPT ![s] = "join"] /\ cnt' = [cnt EXCEPT ![s] = 1]
  <2>1. cnt' \in [{"tx", "rx"} -> 1 .. Len(Can!canids) + 1]
    BY <1>0, <1>3, CanOptionsOk
  <2>2. CanTypes'
    BY <1>0, <1>3, <2>1, CanSame DEF CanTypes
  <2>3. ASSUME NEW t \in {"tx", "rx"}, NEW n \in Can!Index PROVE MainOk(t, n)'
    <3>1. MainOk(t, n) /\ ~(n < 1)
      BY CanOptionsOk DEF CanKept, CanMains
    <3> QED
      BY <1>0, <1>3, <3>1 DEF MainOk
  <2>4. ASSUME NEW t \in {"tx", "rx"}, NEW n \in Can!Index PROVE StageOk(t, n)'
    BY <1>0, <1>3, CanSame DEF StageOk, CanKept, CanStages
  <2>5. ASSUME NEW n \in Can!Index PROVE ReceivedOk(n)' /\ UndisturbedOk(n)'
    <3>1. ReceivedOk(n) /\ UndisturbedOk(n)
      BY DEF CanKept, CanReceived, CanUndisturbed
    <3>2. ReceivedOk(n)' /\ SentBy(n)' = SentBy(n)
      BY <1>0, <1>3, <3>1, CanSame DEF ReceivedOk, Good, SentBy
    <3>3. Undisturbed' => Undisturbed
      BY <1>0, <1>3, CanSame DEF Undisturbed
    <3> QED
      BY <1>0, <1>3, <3>1, <3>2, <3>3, CanStillUndisturbed
  <2> QED
    BY <1>0, <2>2, <2>3, <2>4, <2>5, CanKeptIf
<1> QED
  BY <1>2, <1>3 DEF Can!Create, Goes

(* What a step leaves as it was when it changes neither threads nor frames *)
(* of a receiver, and for the threads of the others.                       *)
LEMMA CanDataKept ==
  ASSUME CanTypes, CanKept, UNCHANGED <<main_opts, thread, queue, got, clean, faults>>
  PROVE  /\ \A s \in {"tx", "rx"}, k \in Can!Index : StageOk(s, k)'
         /\ \A k \in Can!Index : ReceivedOk(k)' /\ UndisturbedOk(k)'
<1>1. ASSUME NEW t \in {"tx", "rx"}, NEW n \in Can!Index PROVE StageOk(t, n)'
  BY CanSame DEF StageOk, CanKept, CanStages
<1>2. ASSUME NEW n \in Can!Index PROVE ReceivedOk(n)' /\ UndisturbedOk(n)'
  <2>1. ReceivedOk(n) /\ UndisturbedOk(n)
    BY DEF CanKept, CanReceived, CanUndisturbed
  <2>2. ReceivedOk(n)' /\ SentBy(n)' = SentBy(n)
    BY <2>1, CanSame DEF ReceivedOk, Good, SentBy
  <2>3. Undisturbed' => Undisturbed
    BY CanSame DEF Undisturbed
  <2> QED
    BY <2>1, <2>2, <2>3, CanStillUndisturbed
<1> QED
  BY <1>1, <1>2

LEMMA CanMainsKept ==
  ASSUME CanKept, UNCHANGED <<main, cnt>>, NEW s \in {"tx", "rx"}, NEW k \in Can!Index, Others(s, k),
         Can!Running(s, k, "setup") \/ Can!Running(s, k, "loop")
  PROVE  \A t \in {"tx", "rx"}, n \in Can!Index : MainOk(t, n)'
<1> SUFFICES ASSUME NEW t \in {"tx", "rx"}, NEW n \in Can!Index PROVE MainOk(t, n)'
  OBVIOUS
<1>1. MainOk(t, n)
  BY DEF CanKept, CanMains
<1>2. CASE t # s \/ n # k
  BY <1>1, <1>2 DEF MainOk, Others
<1>3. CASE t = s /\ n = k
  BY <1>1, <1>3 DEF MainOk, Can!Running
<1> QED
  BY <1>2, <1>3

LEMMA CanStagesKept ==
  ASSUME CanTypes, CanKept, UNCHANGED main_opts, UNCHANGED faults \/ Can!Fault,
         NEW s \in {"tx", "rx"}, NEW k \in Can!Index, Others(s, k), StageOk(s, k)'
  PROVE  \A t \in {"tx", "rx"}, n \in Can!Index : StageOk(t, n)'
<1> SUFFICES ASSUME NEW t \in {"tx", "rx"}, NEW n \in Can!Index PROVE StageOk(t, n)'
  OBVIOUS
<1>1. StageOk(t, n)
  BY DEF CanKept, CanStages
<1>2. CASE t # s \/ n # k
  BY <1>1, <1>2, CanSame, CanFault DEF StageOk, Others
<1> QED
  BY <1>2

LEMMA CanJoinKeeps ==
  ASSUME CanTypes, CanKept, NEW s \in {"tx", "rx"}, Can!Join(s)
  PROVE  CanTypes' /\ CanKept'
<1>0. /\ main[s] = "join" /\ UNCHANGED <<main_opts, thread, queue, got, clean, faults>>
      /\ main \in [{"tx", "rx"} -> {"create", "join", "freed", "crashed"}]
      /\ cnt \in [{"tx", "rx"} -> 1 .. Len(Can!canids) + 1]
  BY DEF Can!Join, CanTypes
<1>1. \/ /\ cnt[s] \in Can!Index /\ thread[s][cnt[s]].pc = "ended"
         /\ cnt' = [cnt EXCEPT ![s] = @ + 1] /\ UNCHANGED main
      \/ main' = [main EXCEPT ![s] = "crashed"] /\ UNCHANGED cnt
      \/ cnt[s] \notin Can!Index /\ main' = [main EXCEPT ![s] = "freed"] /\ UNCHANGED cnt
  BY DEF Can!Join
<1>2. cnt' \in [{"tx", "rx"} -> 1 .. Len(Can!canids) + 1]
  BY <1>0, <1>1, CanOptionsOk
<1>3. CanTypes'
  BY <1>0, <1>1, <1>2, CanSame DEF CanTypes
<1>4. ASSUME NEW t \in {"tx", "rx"}, NEW n \in Can!Index PROVE MainOk(t, n)'
  <2>1. MainOk(t, n)
    BY DEF CanKept, CanMains
  <2>2. CASE t # s
    BY <1>0, <1>1, <2>1, <2>2 DEF MainOk
  <2>3. CASE t = s
    <3>1. n < cnt[s] \/ n = cnt[s] \/ (n > cnt[s] /\ cnt[s] \in Can!Index)
      BY <1>0, CanOptionsOk
    <3>2. n > cnt[s] => ~(n < cnt[s] + 1)
      BY <1>0, CanOptionsOk
    <3> QED
      BY <1>0, <1>1, <2>1, <2>3, <3>1, <3>2 DEF MainOk
  <2> QED
    BY <2>2, <2>3
<1> QED
  BY <1>0, <1>3, <1>4, CanDataKept, CanKeptIf

LEMMA CanSetupKeeps ==
  ASSUME CanTypes, CanKept, NEW s \in {"tx", "rx"}, NEW k \in Can!Index, Can!Setup(s, k)
  PROVE  CanTypes' /\ CanKept'
<1>0. /\ Can!Running(s, k, "setup") /\ UNCHANGED <<main_opts, main, cnt, queue, got, clean>>
      /\ thread[s][k].pc = "setup"
  BY DEF Can!Setup, Can!Running
<1>1. UNCHANGED faults \/ Can!Fault
  BY Zenon DEF Can!Setup
<1>2. /\ thread' \in CanThreads /\ Others(s, k) /\ thread'[s][k].loop = thread[s][k].loop
      /\ \/ /\ thread'[s][k].pc = "loop" /\ Can!ValidId(Can!canids[k])
            /\ thread'[s][k].result = thread[s][k].result
         \/ /\ thread'[s][k].pc = "ended" /\ thread'[s][k].result = "failed"
            /\ ~Can!ValidId(Can!canids[k]) \/ Can!Fault
  <2>1. CASE Goes(s, k, "loop") /\ Can!ValidId(Can!canids[k])
    BY <2>1, CanGoes
  <2>2. CASE Can!End(s, k, "failed") /\ (~Can!ValidId(Can!canids[k]) \/ Can!Fault)
    BY <2>2, CanEnds
  <2> QED
    BY <2>1, <2>2 DEF Can!Setup, Goes
<1>3. CanTypes'
  BY <1>0, <1>1, <1>2, CanSame, CanFault DEF CanTypes
<1>4. StageOk(s, k) /\ StageOk(s, k)'
  <2>1. StageOk(s, k)
    BY DEF CanKept, CanStages
  <2> QED
    BY <1>0, <1>2, <2>1, CanSame, CanFault DEF StageOk
<1>5. ASSUME NEW n \in Can!Index PROVE ReceivedOk(n)' /\ UndisturbedOk(n)'
  <2>1. ReceivedOk(n) /\ UndisturbedOk(n)
    BY DEF CanKept, CanReceived, CanUndisturbed
  <2>2. Undisturbed' => Undisturbed /\ faults' = 0
    BY <1>0, <1>1, CanSame, CanFault DEF Undisturbed
  <2>3. CASE s # "rx" \/ n # k
    <3>1. thread'["rx"][n] = thread["rx"][n]
      BY <1>2, <2>3 DEF Others
    <3>2. ReceivedOk(n)'
      BY <1>0, <2>1, <3>1, CanSame DEF ReceivedOk, Good
    <3>3. CASE s # "tx" \/ n # k
      <4>1. SentBy(n)' = SentBy(n)
        BY <1>2, <3>3 DEF Others, SentBy
      <4> QED
        BY <1>0, <2>1, <2>2, <3>1, <3>2, <4>1, CanStillUndisturbed
    <3>4. CASE s = "tx" /\ n = k /\ thread'[s][k].pc = "loop"
      <4>1. SentBy(n)' = SentBy(n)
        BY <1>0, <1>2, <3>4 DEF SentBy
      <4> QED
        BY <1>0, <2>1, <2>2, <3>1, <3>2, <4>1, CanStillUndisturbed
    <3>5. CASE n = k /\ thread'[s][k].pc = "ended"
      <4>1. ~(Undisturbed' /\ Can!ValidId(Can!canids[n])')
        BY <1>0, <1>2, <2>2, <3>5, CanSame, CanFault
      <4> QED
        BY <3>2, <4>1 DEF UndisturbedOk
    <3> QED
      BY <1>2, <2>3, <3>3, <3>4, <3>5
  <2>4. CASE s = "rx" /\ n = k
    <3>1. SentBy(n)' = SentBy(n)
      BY <1>2, <2>4 DEF Others, SentBy
    <3>2. /\ Len(got[n]) = 0 /\ Len(got'[n]) = 0 /\ Len(queue[n]) \in Nat /\ Len(queue'[n]) = Len(queue[n])
          /\ thread["rx"][n].loop = 1
      BY <1>0, <1>4, <2>1, <2>4, LenProperties DEF ReceivedOk, StageOk, CanTypes
    <3>3. ReceivedOk(n)'
      BY <1>0, <1>2, <1>4, <2>4, <3>2 DEF ReceivedOk, Good, StageOk
    <3>4. CASE Undisturbed' /\ Can!ValidId(Can!canids[n])'
      <4>1. /\ Undisturbed /\ Can!ValidId(Can!canids[n]) /\ ~Can!Fault
        BY <1>0, <2>2, <3>4, CanSame, CanFault
      <4>2. Len(queue[n]) = 0 /\ SentBy(n) = 0 /\ thread'["rx"][n].pc = "loop"
        BY <1>0, <1>2, <2>1, <2>4, <4>1 DEF UndisturbedOk
      <4> QED
        BY <1>0, <3>1, <3>2, <3>3, <4>2 DEF UndisturbedOk
    <3> QED
      BY <3>3, <3>4 DEF UndisturbedOk
  <2> QED
    BY <2>3, <2>4
<1> QED
  BY <1>0, <1>1, <1>2, <1>3, <1>4, <1>5, CanMainsKept, CanStagesKept, CanKeptIf

LEMMA CanUndisturbedIf ==
  ASSUME UNCHANGED main_opts, NEW k \in Can!Index, thread'["rx"][k].pc = "loop",
         Len(got'[k]) + Len(queue'[k]) = SentBy(k)',
         \A m \in 1 .. Len(queue'[k]) : queue'[k][m] = Can!Frame("tx", k, Len(got'[k]) + m)
  PROVE  UndisturbedOk(k)'
  BY DEF UndisturbedOk, Can!Frame, Can!canids, Can!extended, Can!bytes, Can!same_pattern

LEMMA Moved ==
  ASSUME NEW a \in Int, NEW b \in Int
  PROVE  (a + 1) + (b - 1) = a + b /\ a + (b + 1) = (a + 1) + b
  OBVIOUS

LEMMA OneMore ==
  ASSUME NEW a \in Int, NEW b \in Int, NEW c \in Int, a + b = c - 1
  PROVE  c = a + (b + 1)
  OBVIOUS

(* A thread of a transmitter counts one more frame as sent, or has failed. *)
LEMMA CanTransmitKeeps ==
  ASSUME CanTypes, CanKept, NEW k \in Can!Index, Can!Transmit(k)
  PROVE  CanTypes' /\ CanKept'
<1> DEFINE loop == thread["tx"][k].loop
           frame == Can!Frame("tx", k, loop)
<1>0. /\ Can!Running("tx", k, "loop") /\ UNCHANGED <<main_opts, main, cnt, got>>
      /\ thread["tx"][k].pc = "loop" /\ loop \in 1 .. CanLoops /\ CanLoops \in Nat \ {0}
  BY CanOptionsOk, CanStepTypes DEF Can!Transmit, Can!Running, CanSteps
<1>a. UNCHANGED faults \/ Can!Fault
  BY Zenon DEF Can!Transmit
<1>b. frame \in CanFrames
  BY <1>0 DEF CanFrames, OwnFrames
<1>1. \/ Can!Deliver(frame, 1) /\ Can!Advance("tx", k)
            /\ clean' = (clean /\ \A j \in Can!Index : Can!Bound(j))
      \/ /\ clean' = FALSE
         /\ UNCHANGED queue \/ Can!Deliver(frame, 0) \/ Can!Deliver(frame, 2)
         /\ Can!Advance("tx", k) \/ (Can!Fault /\ Can!End("tx", k, "failed"))
  BY Zenon DEF Can!Transmit
<1>2. StageOk("tx", k)
  BY DEF CanKept, CanStages
<1>3. /\ thread' \in CanThreads /\ Others("tx", k)
      /\ \/ /\ Can!Advance("tx", k)
            /\ \/ /\ loop < CanLoops /\ thread'["tx"][k].pc = "loop" /\ thread'["tx"][k].loop = loop + 1
                  /\ thread'["tx"][k].result = thread["tx"][k].result
               \/ /\ loop = CanLoops /\ thread'["tx"][k].pc = "ended" /\ thread'["tx"][k].loop = loop
                  /\ thread'["tx"][k].result = "ok"
         \/ /\ Can!Fault /\ thread'["tx"][k].pc = "ended" /\ thread'["tx"][k].loop = loop
            /\ thread'["tx"][k].result = "failed"
  BY <1>0, <1>1, CanAdvances, CanEnds
<1>4. StageOk("tx", k)'
  BY <1>0, <1>2, <1>3, <1>a, CanSame, CanFault DEF StageOk
<1>5. queue' \in [Can!Index -> Seq(CanFrames)]
  <2>1. CASE UNCHANGED queue
    BY <2>1 DEF CanTypes
  <2> QED
    BY <1>1, <1>b, <2>1, CanDelivers
<1>6. CanTypes'
  BY <1>0, <1>3, <1>5, <1>a, CanSame, CanFault DEF CanTypes
<1>7. ASSUME NEW n \in Can!Index PROVE ReceivedOk(n)' /\ UndisturbedOk(n)'
  <2>1. ReceivedOk(n) /\ UndisturbedOk(n)
    BY DEF CanKept, CanReceived, CanUndisturbed
  <2>2. thread'["rx"][n] = thread["rx"][n]
    BY <1>3 DEF Others
  <2>3. ReceivedOk(n)'
    BY <1>0, <2>1, <2>2, CanSame DEF ReceivedOk, Good
  <2>4. CASE ~(Undisturbed' /\ Can!ValidId(Can!canids[n])')
    BY <2>3, <2>4 DEF UndisturbedOk
  <2>5. CASE Undisturbed' /\ Can!ValidId(Can!canids[n])'
    <3>1. /\ faults' = 0 /\ faults = 0 /\ ~Can!Fault /\ Can!UniqueIds /\ Can!bytes["tx"] = Can!bytes["rx"]
          /\ Can!ValidId(Can!canids[n])
      BY <1>0, <1>a, <2>5, CanSame, CanFault DEF Undisturbed
    <3>2. clean'
      BY <2>5 DEF Undisturbed
    <3>3. /\ Can!Deliver(frame, 1) /\ clean /\ \A j \in Can!Index : Can!Bound(j)
      BY <1>1, <3>2, Zenon
    <3>4. Undisturbed
      BY <3>1, <3>3 DEF Undisturbed
    <3>5. thread["rx"][n].pc \in {"loop", "ended"} /\ Can!Advance("tx", k)
      BY <1>3, <3>1, <3>3 DEF Can!Bound
    <3>6. CASE thread["rx"][n].pc = "ended"
      BY <2>1, <2>2, <2>3, <3>1, <3>4, <3>6 DEF UndisturbedOk
    <3>7. CASE thread["rx"][n].pc = "loop"
      <4>1. /\ Len(got[n]) + Len(queue[n]) = SentBy(n) /\ Len(got[n]) \in Nat /\ Len(queue[n]) \in Nat
            /\ \A m \in 1 .. Len(queue[n]) : queue[n][m] = Can!Frame("tx", n, Len(got[n]) + m)
        BY <2>1, <3>1, <3>4, <3>7, LenProperties DEF UndisturbedOk, CanTypes
      <4>0. Len(got[n]) + Len(queue[n]) = SentBy(n) /\ Len(got[n]) \in Nat /\ Len(queue[n]) \in Nat
        BY <4>1
      <4>2. Can!Listening(n) /\ Can!ValidId(Can!canids[k])
        BY <1>0, <1>2, <3>7 DEF Can!Listening, StageOk
      <4>3. Can!PassesFilter(frame, n) <=> k = n
        BY <3>1, <4>2, CanFilter DEF Can!UniqueIds
      <4>4. CASE k # n
        <5>1. queue'[n] = queue[n] /\ SentBy(n)' = SentBy(n)
          BY <1>3, <1>b, <3>3, <4>3, <4>4, CanDelivers DEF SentBy, Others
        <5>2. /\ Len(got'[n]) + Len(queue'[n]) = SentBy(n)'
              /\ \A m \in 1 .. Len(queue'[n]) : queue'[n][m] = Can!Frame("tx", n, Len(got'[n]) + m)
          BY <1>0, <4>1, <5>1
        <5>3. thread'["rx"][n].pc = "loop"
          BY <2>2, <3>7
        <5> QED
          BY <1>0, <2>3, <5>2, <5>3, CanUndisturbedIf
      <4>5. CASE k = n
        <5>1. /\ Len(queue'[n]) = Len(queue[n]) + 1
              /\ \A m \in 1 .. Len(queue[n]) : queue'[n][m] = queue[n][m]
              /\ \A m \in Len(queue[n]) + 1 .. Len(queue[n]) + 1 : queue'[n][m] = frame
          BY <1>b, <3>3, <4>2, <4>3, <4>5, CanDelivers
        <5>2. SentBy(n) = loop - 1 /\ SentBy(n)' = loop
          BY <1>0, <1>3, <3>1, <4>5 DEF SentBy
        <5>3. queue'[n][Len(queue[n]) + 1] = frame /\ loop = Len(got[n]) + (Len(queue[n]) + 1)
          <6>1. Len(queue[n]) + 1 \in Len(queue[n]) + 1 .. Len(queue[n]) + 1
            BY <4>1
          <6>2. Len(got[n]) + Len(queue[n]) = loop - 1
            BY <4>0, <5>2, Zenon
          <6>3. loop \in Int
            BY <1>0
          <6>4. Len(got[n]) \in Int /\ Len(queue[n]) \in Int
            BY <4>0
          <6> HIDE DEF loop, frame
          <6>5. loop = Len(got[n]) + (Len(queue[n]) + 1)
            BY <6>2, <6>3, <6>4, OneMore, ZenonT(60)
          <6> QED
            BY <5>1, <6>1, <6>5
        <5>4. ASSUME NEW m \in 1 .. Len(queue'[n]) PROVE queue'[n][m] = Can!Frame("tx", n, Len(got[n]) + m)
          <6>1. m \in 1 .. Len(queue[n]) \/ m = Len(queue[n]) + 1
            BY <4>1, <5>1
          <6> QED
            BY <4>1, <4>5, <5>1, <5>3, <6>1
        <5>5. Len(got'[n]) + Len(queue'[n]) = SentBy(n)'
          <6>1. Len(got'[n]) = Len(got[n]) /\ loop \in Int
            BY <1>0
          <6> HIDE DEF loop
          <6> QED
            BY <4>1, <5>1, <5>2, <5>3, <6>1
        <5>6. thread'["rx"][n].pc = "loop"
          BY <2>2, <3>7
        <5>7. \A m \in 1 .. Len(queue'[n]) : queue'[n][m] = Can!Frame("tx", n, Len(got'[n]) + m)
          BY <1>0, <5>4
        <5> QED
          BY <1>0, <2>3, <5>5, <5>6, <5>7, CanUndisturbedIf
      <4> QED
        BY <4>4, <4>5
    <3> QED
      BY <3>5, <3>6, <3>7
  <2> QED
    BY <2>4, <2>5
<1> QED
  BY <1>0, <1>3, <1>4, <1>6, <1>7, <1>a, CanMainsKept, CanStagesKept, CanKeptIf

LEMMA CanReceiveKeeps ==
  ASSUME CanTypes, CanKept, NEW k \in Can!Index, Can!Receive(k)
  PROVE  CanTypes' /\ CanKept'
<1> DEFINE loop == thread["rx"][k].loop
           first == Head(queue[k])
<1>0. /\ Can!Running("rx", k, "loop") /\ UNCHANGED <<main_opts, main, cnt, clean, faults>>
      /\ thread["rx"][k].pc = "loop" /\ loop \in 1 .. CanLoops /\ CanLoops \in Nat \ {0}
      /\ got' = [got EXCEPT ![k] = Append(got[k], first)]
      /\ queue' = [queue EXCEPT ![k] = Tail(queue[k])]
      /\ queue \in [Can!Index -> Seq(CanFrames)] /\ got \in [Can!Index -> Seq(CanFrames)]
  BY CanOptionsOk, CanStepTypes DEF Can!Receive, Can!Running, CanSteps, CanTypes
<1>1. IF Can!compare_frames(first, Can!Frame("rx", k, loop))
      THEN Can!Advance("rx", k) ELSE Can!End("rx", k, "failed")
  BY DEF Can!Receive
<1>2. /\ queue[k] \in Seq(CanFrames) /\ queue[k] # <<>> /\ got[k] \in Seq(CanFrames)
      /\ Len(queue[k]) \in Nat /\ Len(got[k]) \in Nat
  BY <1>0, LenProperties DEF Can!Receive
<1>3. /\ first \in CanFrames /\ first = queue[k][1]
      /\ Tail(queue[k]) \in Seq(CanFrames) /\ Len(Tail(queue[k])) = Len(queue[k]) - 1
      /\ \A m \in 1 .. Len(queue[k]) - 1 : Tail(queue[k])[m] = queue[k][m + 1]
      /\ Len(queue[k]) > 0
  BY <1>2, HeadTailProperties, EmptySeq
<1>4. /\ Append(got[k], first) \in Seq(CanFrames) /\ Len(Append(got[k], first)) = Len(got[k]) + 1
      /\ \A m \in 1 .. Len(got[k]) : Append(got[k], first)[m] = got[k][m]
      /\ Append(got[k], first)[Len(got[k]) + 1] = first
  BY <1>2, <1>3, AppendProperties
<1> HIDE DEF first
<1>5. /\ got' \in [Can!Index -> Seq(CanFrames)] /\ queue' \in [Can!Index -> Seq(CanFrames)]
      /\ got'[k] = Append(got[k], first) /\ queue'[k] = Tail(queue[k])
      /\ \A n \in Can!Index : n # k => got'[n] = got[n] /\ queue'[n] = queue[n]
  BY <1>0, <1>3, <1>4
<1>6. /\ thread' \in CanThreads /\ Others("rx", k)
      /\ \/ /\ Can!compare_frames(first, Can!Frame("rx", k, loop))
            /\ \/ /\ loop < CanLoops /\ thread'["rx"][k].pc = "loop" /\ thread'["rx"][k].loop = loop + 1
                  /\ thread'["rx"][k].result = thread["rx"][k].result
               \/ /\ loop = CanLoops /\ thread'["rx"][k].pc = "ended" /\ thread'["rx"][k].loop = loop
                  /\ thread'["rx"][k].result = "ok"
         \/ /\ ~Can!compare_frames(first, Can!Frame("rx", k, loop))
            /\ thread'["rx"][k].pc = "ended" /\ thread'["rx"][k].result = "failed"
  BY <1>0, <1>1, CanAdvances, CanEnds
<1>7. CanTypes'
  BY <1>0, <1>5, <1>6, CanSame DEF CanTypes
<1>8. StageOk("rx", k) /\ ReceivedOk(k) /\ UndisturbedOk(k)
  BY DEF CanKept, CanStages, CanReceived, CanUndisturbed
<1>9. StageOk("rx", k)'
  BY <1>0, <1>6, <1>8, CanSame DEF StageOk
<1>10. Len(got[k]) = loop - 1
  BY <1>0, <1>8 DEF ReceivedOk
<1>11. ReceivedOk(k)'
  <2>1. /\ thread'["rx"][k].pc # "ended" => Len(got'[k]) = thread'["rx"][k].loop - 1
        /\ thread'["rx"][k].result = "ok" => Len(got'[k]) = CanLoops
    <3>1. Len(got'[k]) = loop
      BY <1>0, <1>2, <1>4, <1>5, <1>10
    <3>2. thread["rx"][k].result = "none" /\ loop = (loop + 1) - 1
      BY <1>0, <1>8 DEF StageOk
    <3> QED
      BY <1>6, <3>1, <3>2
  <2>2. ASSUME Good(k)', NEW m \in 1 .. Len(got'[k])
        PROVE  Can!compare_frames(got'[k][m], Can!Frame("rx", k, m))
    <3>1. Can!compare_frames(first, Can!Frame("rx", k, loop))
      BY <1>6, <2>2 DEF Good
    <3>2. m \in 1 .. Len(got[k]) \/ (m = loop /\ m = Len(got[k]) + 1)
      <4>1. Len(got'[k]) = loop /\ loop \in 1 .. CanLoops /\ CanLoops \in Nat
        BY <1>0, <1>2, <1>4, <1>5, <1>10, SMTT(30)
      <4>2. m \in 1 .. loop /\ Len(got[k]) = loop - 1
        BY <4>1, <1>10
      <4> HIDE DEF loop
      <4> QED
        BY ONLY <4>1, <4>2
    <3>3. CASE m \in 1 .. Len(got[k])
      BY <1>0, <1>4, <1>5, <1>8, <3>3 DEF ReceivedOk, Good
    <3> QED
      BY <1>4, <1>5, <3>1, <3>2, <3>3
  <2> QED
    BY <1>0, <2>1, <2>2, CanSame DEF ReceivedOk
<1>12. UndisturbedOk(k)'
  <2>1. CASE ~(Undisturbed' /\ Can!ValidId(Can!canids[k])')
    BY <2>1 DEF UndisturbedOk
  <2>2. CASE Undisturbed' /\ Can!ValidId(Can!canids[k])'
    <3>1. Undisturbed /\ Can!ValidId(Can!canids[k]) /\ Can!bytes["tx"] = Can!bytes["rx"]
      BY <1>0, <2>2, CanSame DEF Undisturbed
    <3>2. /\ Len(got[k]) + Len(queue[k]) = SentBy(k)
          /\ \A m \in 1 .. Len(queue[k]) : queue[k][m] = Can!Frame("tx", k, Len(got[k]) + m)
      BY <1>0, <1>8, <3>1 DEF UndisturbedOk
    <3>3. first = Can!Frame("tx", k, loop)
      <4>1. 1 \in 1 .. Len(queue[k]) /\ Len(got[k]) + 1 = loop
        BY <1>0, <1>2, <1>3, <1>10, SMTT(30)
      <4>2. queue[k][1] = Can!Frame("tx", k, Len(got[k]) + 1)
        BY <3>2, <4>1
      <4> QED
        BY <1>3, <4>1, <4>2
    <3>4. Can!compare_frames(first, Can!Frame("rx", k, loop))
      BY <3>1, <3>3 DEF Can!compare_frames, Can!Frame
    <3>5. CASE thread'["rx"][k].pc = "ended"
      BY <1>6, <3>4, <3>5 DEF UndisturbedOk
    <3>6. CASE thread'["rx"][k].pc = "loop"
      <4>1. Len(got'[k]) = Len(got[k]) + 1 /\ Len(queue'[k]) = Len(queue[k]) - 1
        BY <1>3, <1>4, <1>5
      <4>2. SentBy(k)' = SentBy(k)
        BY <1>6 DEF SentBy, Others
      <4>5. (Len(got[k]) + 1) + (Len(queue[k]) - 1) = Len(got[k]) + Len(queue[k])
        <5>1. Len(got[k]) \in Int /\ Len(queue[k]) \in Int
          BY <1>2
        <5> QED
          BY <5>1, Moved
      <4>6. (Len(got[k]) + 1) + (Len(queue[k]) - 1) = SentBy(k)
        BY <3>2, <4>5, Zenon
      <4>3. Len(got'[k]) + Len(queue'[k]) = SentBy(k)'
        BY <4>1, <4>2, <4>6, Zenon
      <4>4. ASSUME NEW m \in 1 .. Len(queue'[k])
            PROVE  queue'[k][m] = Can!Frame("tx", k, Len(got'[k]) + m)
        <5>1. m + 1 \in 1 .. Len(queue[k]) /\ m \in 1 .. Len(queue[k]) - 1
          BY <1>2, <4>1
        <5>2. queue'[k][m] = Can!Frame("tx", k, Len(got[k]) + (m + 1))
          BY <1>3, <1>5, <3>2, <5>1
        <5>3. Len(got[k]) + (m + 1) = Len(got'[k]) + m
          <6>1. m \in Int /\ Len(got[k]) \in Int
            BY <1>2, <5>1
          <6> QED
            BY <4>1, <6>1, Moved, ZenonT(60)
        <5> QED
          BY <5>2, <5>3
      <4> QED
        BY <1>0, <3>6, <4>3, <4>4, CanUndisturbedIf
    <3> QED
      BY <1>6, <3>5, <3>6
  <2> QED
    BY <2>1, <2>2
<1>13. ASSUME NEW n \in Can!Index, n # k PROVE ReceivedOk(n)' /\ UndisturbedOk(n)'
  <2>1. ReceivedOk(n) /\ UndisturbedOk(n)
    BY DEF CanKept, CanReceived, CanUndisturbed
  <2>2. thread'["rx"][n] = thread["rx"][n] /\ thread'["tx"][n] = thread["tx"][n]
    BY <1>6, <1>13 DEF Others
  <2>3. ReceivedOk(n)'
    BY <1>0, <1>5, <1>13, <2>1, <2>2, CanSame DEF ReceivedOk, Good
  <2>4. Undisturbed' => Undisturbed
    BY <1>0, CanSame DEF Undisturbed
  <2>5. SentBy(n)' = SentBy(n)
    BY <2>2 DEF SentBy
  <2> QED
    BY <1>0, <1>5, <1>13, <2>1, <2>2, <2>3, <2>4, <2>5, CanStillUndisturbed
<1>14. \A n \in Can!Index : ReceivedOk(n)' /\ UndisturbedOk(n)'
  BY <1>11, <1>12, <1>13
<1> QED
  BY <1>0, <1>6, <1>7, <1>9, <1>14, CanMainsKept, CanStagesKept, CanKeptIf

LEMMA CanReadFailsKeeps ==
  ASSUME CanTypes, CanKept, NEW k \in Can!Index, Can!ReadFails(k)
  PROVE  CanTypes' /\ CanKept'
<1>0. /\ Can!Running("rx", k, "loop") /\ UNCHANGED <<main_opts, main, cnt, queue, got, clean>>
      /\ thread["rx"][k].pc = "loop" /\ Can!Fault
  BY DEF Can!ReadFails, Can!Running
<1>1. /\ thread' \in CanThreads /\ Others("rx", k)
      /\ thread'["rx"][k].pc = "ended" /\ thread'["rx"][k].result = "failed"
  BY CanEnds DEF Can!ReadFails
<1>2. CanTypes'
  BY <1>0, <1>1, CanSame, CanFault DEF CanTypes
<1>3. StageOk("rx", k)'
  BY <1>1 DEF StageOk
<1>4. ~Undisturbed'
  <2>1. faults' > 0 /\ faults' \in 0 .. CanFaults /\ CanFaults \in Nat
    BY <1>0, CanFault, CanOptionsOk
  <2> QED
    BY <2>1 DEF Undisturbed
<1>5. ASSUME NEW n \in Can!Index PROVE ReceivedOk(n)' /\ UndisturbedOk(n)'
  <2>1. ReceivedOk(n)
    BY DEF CanKept, CanReceived
  <2>2. CASE n = k
    BY <1>1, <1>4, <2>2 DEF ReceivedOk, Good, UndisturbedOk
  <2>3. CASE n # k
    BY <1>0, <1>1, <1>4, <2>1, <2>3, CanSame DEF ReceivedOk, Good, UndisturbedOk, Others
  <2> QED
    BY <2>2, <2>3
<1> QED
  BY <1>0, <1>1, <1>2, <1>3, <1>5, CanMainsKept, CanStagesKept, CanKeptIf

LEMMA CanForeignKeeps ==
  ASSUME CanTypes, CanKept, NEW k \in Can!Index, NEW eff \in BOOLEAN, NEW data \in 0 .. PatternMod - 1,
         Can!Foreign(Can!canids[k], eff, data)
  PROVE  CanTypes' /\ CanKept'
<1> DEFINE frame == [id |-> Can!canids[k], eff |-> eff, dlc |-> Can!bytes["tx"], data |-> data,
                     seq |-> 0, from |-> 0]
<1>0. UNCHANGED <<main_opts, main, cnt, thread, got>> /\ Can!Fault /\ Can!Deliver(frame, 1)
  BY DEF Can!Foreign
<1>1. frame \in CanFrames
  BY DEF CanFrames, ForeignFrames
<1> HIDE DEF frame
<1>2. queue' \in [Can!Index -> Seq(CanFrames)]
  BY <1>0, <1>1, CanDelivers
<1>3. CanTypes'
  BY <1>0, <1>2, CanSame, CanFault DEF CanTypes
<1>4. ~Undisturbed'
  <2>1. faults' > 0 /\ faults' \in 0 .. CanFaults /\ CanFaults \in Nat
    BY <1>0, CanFault, CanOptionsOk
  <2> QED
    BY <2>1 DEF Undisturbed
<1>5. ASSUME NEW t \in {"tx", "rx"}, NEW n \in Can!Index PROVE MainOk(t, n)' /\ StageOk(t, n)'
  <2>1. MainOk(t, n) /\ StageOk(t, n)
    BY DEF CanKept, CanMains, CanStages
  <2>2. MainOk(t, n)'
    BY <1>0, <2>1 DEF MainOk
  <2>3. StageOk(t, n)'
    BY <1>0, <2>1, CanSame, CanFault DEF StageOk
  <2> QED
    BY <2>2, <2>3
<1>6. ASSUME NEW n \in Can!Index PROVE ReceivedOk(n)' /\ UndisturbedOk(n)'
  BY <1>0, <1>4, CanSame DEF CanKept, CanReceived, ReceivedOk, Good, UndisturbedOk
<1> QED
  BY <1>0, <1>3, <1>5, <1>6, CanKeptIf

LEMMA CanStep == CanInv /\ Can!Next => CanInv'
<1> SUFFICES ASSUME CanInv, Can!Next PROVE CanInv'
  OBVIOUS
<1>0. CanTypes /\ CanKept
  BY DEF CanInv, CanKept
<1>1. CanTypes' /\ CanKept'
  <2>1. ASSUME NEW s \in {"tx", "rx"}, Can!Main(s) PROVE CanTypes' /\ CanKept'
    BY <1>0, <2>1, CanCreateKeeps, CanJoinKeeps DEF Can!Main
  <2>2. ASSUME NEW s \in {"tx", "rx"}, NEW k \in Can!Index, Can!Thread(s, k) PROVE CanTypes' /\ CanKept'
    BY <1>0, <2>2, CanSetupKeeps, CanTransmitKeeps, CanReceiveKeeps, CanReadFailsKeeps DEF Can!Thread
  <2>3. CASE UNCHANGED Can!vars
    <3>1. UNCHANGED <<main_opts, main, cnt, thread, queue, got, clean, faults>>
      BY <2>3 DEF Can!vars
    <3>2. CanTypes'
      BY <1>0, <3>1, CanSame DEF CanTypes
    <3>3. ASSUME NEW t \in {"tx", "rx"}, NEW n \in Can!Index PROVE MainOk(t, n)'
      BY <1>0, <3>1 DEF CanKept, CanMains, MainOk
    <3> QED
      BY <1>0, <3>1, <3>2, <3>3, CanDataKept, CanKeptIf
  <2> QED
    BY <1>0, <2>1, <2>2, <2>3, CanForeignKeeps DEF Can!Next, Can!Sides, Can!Terminated, Can!Waiting
<1>2. clean' \in BOOLEAN
  BY ZenonT(30) DEF CanInv, Can!Next, Can!Main, Can!Thread, Can!Create, Can!Join, Can!Setup, Can!Transmit,
     Can!Receive, Can!ReadFails, Can!Foreign, Can!Terminated, Can!Waiting, Can!vars
<1> QED
  BY <1>1, <1>2 DEF CanInv, CanKept

LEMMA CanInitial == Can!Init => CanInv
<1> SUFFICES ASSUME Can!Init PROVE CanInv
  OBVIOUS
<1>0. main_opts \in CommandLines
  BY DEF Can!Init
<1>1. Can!canids \in Seq([low : Nat, high : Nat])
  BY <1>0, CanAssumption DEF Can!ConstantsOk, Can!canids
<1>2. /\ Can!Index = 1 .. Len(Can!canids) /\ Len(Can!canids) \in Nat
      /\ CanLoops \in Nat \ {0} /\ CanFaults \in Nat
  BY <1>1, LenProperties, CanAssumption DEF Can!Index, Can!ConstantsOk
<1>3. ASSUME NEW s \in {"tx", "rx"}, NEW k \in Can!Index
      PROVE  /\ thread[s][k].pc = "none" /\ thread[s][k].loop = 1 /\ thread[s][k].result = "none"
             /\ main[s] = "create" /\ cnt[s] = 1
  BY <1>3 DEF Can!Init, Can!Sides
<1>4. ASSUME NEW k \in Can!Index PROVE Len(queue[k]) = 0 /\ Len(got[k]) = 0
  BY <1>4, EmptySeq DEF Can!Init
<1>5. thread \in CanThreads
  <2>1. thread = [s \in {"tx", "rx"} |-> [k \in Can!Index |-> [pc |-> "none", loop |-> 1, result |-> "none"]]]
    BY DEF Can!Init, Can!Sides
  <2>2. 1 \in 1 .. CanLoops
    BY <1>2
  <2> QED
    BY <2>1, <2>2 DEF CanThreads
<1>6. cnt \in [{"tx", "rx"} -> 1 .. Len(Can!canids) + 1]
  <2>1. cnt = [s \in {"tx", "rx"} |-> 1] /\ 1 \in 1 .. Len(Can!canids) + 1
    BY <1>2 DEF Can!Init, Can!Sides
  <2> QED
    BY <2>1
<1>7. queue \in [Can!Index -> Seq(CanFrames)] /\ got \in [Can!Index -> Seq(CanFrames)]
  <2>1. <<>> \in Seq(CanFrames)
    BY EmptySeq
  <2> QED
    BY <2>1 DEF Can!Init
<1>8. main \in [{"tx", "rx"} -> {"create", "join", "freed", "crashed"}]
  BY DEF Can!Init, Can!Sides
<1>9. CanTypes
  BY <1>0, <1>2, <1>5, <1>6, <1>7, <1>8 DEF Can!Init, CanTypes
<1>10. clean \in BOOLEAN
  BY DEF Can!Init
<1>11. ASSUME NEW s \in {"tx", "rx"}, NEW k \in Can!Index PROVE MainOk(s, k) /\ StageOk(s, k)
  BY <1>3 DEF MainOk, StageOk
<1>12. ASSUME NEW k \in Can!Index PROVE ReceivedOk(k) /\ UndisturbedOk(k)
  <2>1. thread["rx"][k].pc = "none" /\ thread["rx"][k].loop = 1 /\ thread["rx"][k].result = "none"
    BY <1>3, <1>12
  <2>2. SentBy(k) = 0
    BY <1>3, <1>12 DEF SentBy
  <2>3. Len(queue[k]) = 0 /\ Len(got[k]) = 0
    BY <1>4, <1>12
  <2> QED
    BY <2>1, <2>2, <2>3 DEF ReceivedOk, UndisturbedOk
<1> QED
  BY <1>9, <1>10, <1>11, <1>12 DEF CanInv, CanMains, CanStages, CanReceived, CanUndisturbed

LEMMA CanTypesSafe == CanTypes /\ clean \in BOOLEAN => Can!TypeOK
<1> SUFFICES ASSUME CanTypes, clean \in BOOLEAN PROVE Can!TypeOK
  OBVIOUS
<1>1. DOMAIN queue = Can!Index /\ DOMAIN got = Can!Index
  BY DEF CanTypes
<1> QED
  BY <1>1 DEF CanTypes, CanThreads, Can!TypeOK, Can!Sides

LEMMA SmallRemainder ==
  ASSUME NEW m \in Nat \ {0}, NEW a \in 1 .. m - 1, NEW b \in 1 .. m - 1, a % m = b % m
  PROVE  a = b
  OBVIOUS

LEMMA CanSafe ==
  CanInv => /\ Can!TypeOK /\ Can!OkMeansAllReceived /\ Can!CleanMeansOk
            /\ Can!OptionsOutliveThreads
<1> SUFFICES ASSUME CanInv
             PROVE  /\ Can!TypeOK /\ Can!OkMeansAllReceived /\ Can!CleanMeansOk
                    /\ Can!OptionsOutliveThreads
  OBVIOUS
<1>0. CanTypes /\ CanKept
  BY DEF CanInv, CanKept
<1>1. Can!TypeOK
  BY CanTypesSafe DEF CanInv
<1>2. Can!OptionsOutliveThreads
  BY <1>0 DEF Can!OptionsOutliveThreads, Can!Sides, CanKept, CanMains, MainOk
<1>3. Can!CleanMeansOk
  <2> SUFFICES ASSUME NEW k \in Can!Index, clean, faults = 0, Can!UniqueIds,
                      Can!bytes["tx"] = Can!bytes["rx"], Can!ValidId(Can!canids[k]),
                      thread["rx"][k].pc = "ended"
               PROVE  thread["rx"][k].result = "ok"
    BY Zenon DEF Can!CleanMeansOk
  <2>1. Undisturbed
    BY DEF Undisturbed
  <2> QED
    BY <1>0, <2>1 DEF CanKept, CanUndisturbed, UndisturbedOk
<1>4. Can!OkMeansAllReceived
  <2> SUFFICES ASSUME NEW k \in Can!Index, thread["rx"][k].result = "ok", Can!Telling, Can!UniqueIds
               PROVE  /\ Len(got[k]) = CanLoops
                      /\ \A n \in 1 .. CanLoops : got[k][n].from = 0 \/ got[k][n].seq = n
                      /\ \A n \in 1 .. CanLoops : got[k][n].from \in {0, k}
    BY DEF Can!OkMeansAllReceived
  <2>1. /\ Len(got[k]) = CanLoops
        /\ \A n \in 1 .. Len(got[k]) : Can!compare_frames(got[k][n], Can!Frame("rx", k, n))
    BY <1>0 DEF CanKept, CanReceived, ReceivedOk, Good
  <2>2. ASSUME NEW n \in 1 .. CanLoops
        PROVE  got[k][n].from = 0 \/ (got[k][n].seq = n /\ got[k][n].from = k)
    <3>1. got[k][n] \in CanFrames
      BY <1>0, <2>1, ElementOfSeq DEF CanTypes
    <3>2. CASE got[k][n] \in ForeignFrames
      BY <3>2 DEF ForeignFrames
    <3>3. CASE got[k][n] \in OwnFrames
      <4>1. PICK j \in Can!Index, l \in 1 .. CanLoops : got[k][n] = Can!Frame("tx", j, l)
        BY <3>3 DEF OwnFrames
      <4>2. /\ got[k][n].id = Can!canids[j] /\ got[k][n].from = j /\ got[k][n].seq = l
            /\ got[k][n].data = l % PatternMod
        BY <4>1 DEF Can!Frame, Can!Telling
      <4>3. got[k][n].id = Can!canids[k] /\ got[k][n].data = n % PatternMod
        BY <2>1, <2>2 DEF Can!Frame, Can!Telling, Can!compare_frames
      <4>4. j = k
        BY <4>2, <4>3 DEF Can!UniqueIds
      <4>5. l \in 1 .. PatternMod - 1 /\ n \in 1 .. PatternMod - 1 /\ PatternMod \in Nat \ {0}
        BY <1>0, CanOptionsOk DEF Can!Telling
      <4> QED
        BY <4>2, <4>3, <4>4, <4>5, SmallRemainder
    <3> QED
      BY <3>1, <3>2, <3>3 DEF CanFrames
  <2> QED
    BY <2>1, <2>2
<1> QED
  BY <1>1, <1>2, <1>3, <1>4

-----------------------------------------------------------------------------
(***************************************************************************)
(* gpio_test.  The driver's invariant for its one thread, by where the     *)
(* program is; what the presses counted so far are kept in; and that a     *)
(* sample that will show the button down has a press behind it.            *)
(***************************************************************************)
Step == pc["main"]
GpioRecord == [dev_id : {0, 1}, irqnum : {-1, 0, 101}, triggered : {0, 1},
               wait_q : {{}, {"main"}, {"uninitialised"}}]
GpioTypes ==
    /\ gpio \in GpioRecord
    /\ pc \in [{"main"} -> {"idle", "gotval", "waiting", "asleep", "clear", "get", "falling"}]
    /\ module \in {"absent", "registered", "loaded"} /\ dir \in {"in", "out"}
    /\ line \in {0, 1} /\ action \in {"none", "falling"} /\ faults \in 0 .. GpioFaults
    /\ complaint = {}
    /\ at \in {"open", "as_inp", "as_out", "ioctl", "read", "as_irq", "as_irq_end",
               "irq", "close", "done"}
    /\ loops \in 1 .. Presses /\ ret_val \in -1 .. 1 /\ falls \in 0 .. 3
    /\ inval \in {0, 1} /\ lastinval \in {0, 1} /\ outval \in {0, 1} /\ led \in {0, 1}
GpioSwitches ==
    /\ opened \in BOOLEAN /\ pending \in BOOLEAN /\ unseen \in {"no", "yes", "wiped"}
    /\ irq_capable \in BOOLEAN /\ held \in BOOLEAN

\* where the program is, its call and the driver
GpioPlaces ==
    /\ opened <=> at \notin {"open", "done"}
    /\ at # "open" => module = "loaded"
    /\ module = "loaded" /\ at \notin {"as_irq_end", "irq", "close"} => gpio.irqnum = -1
    /\ at \in {"open", "as_inp", "as_out", "as_irq", "close", "done"} => Step = "idle"
    /\ at = "ioctl" => Step \in {"idle", "gotval"}
    /\ at = "read" => Step \in {"idle", "get"}
    /\ at = "as_irq_end" => Step = "falling"
    /\ at = "irq" => Step \in {"idle", "waiting", "asleep", "clear", "get"}
    /\ at \in {"as_irq_end", "irq"} => gpio.irqnum = 101
    /\ at = "close" => gpio.irqnum \in {-1, 101}
    /\ action = "falling" <=> gpio.irqnum = 101 /\ at \in {"irq", "close"}
    /\ at \in {"as_irq_end", "irq"} => gpio.wait_q # {"uninitialised"}
    /\ gpio.wait_q = {"main"} => Step = "asleep"
    /\ Step = "clear" => gpio.triggered = 1
    /\ at = "as_irq_end" => gpio.triggered = 0
    /\ pending => action = "falling"

GpioCount ==
    /\ at = "irq" => falls = (IF pending THEN 1 ELSE 0) + gpio.triggered
                                + (IF Step = "get" THEN 1 ELSE 0)
    /\ at # "irq" /\ pending => falls > 0

GpioSamples ==
    /\ at \in {"open", "as_inp", "as_out"} => inval = 1 /\ lastinval = 1
    /\ at \in {"ioctl", "read"} /\ inval = 1 /\ line = 0 => falls > 0 \/ held
    /\ at \in {"ioctl", "read"} /\ Gpio!SeesPress => falls > 0 \/ held

GpioInv == GpioTypes /\ GpioSwitches /\ GpioPlaces /\ GpioCount /\ GpioSamples

LEMMA GpioTypesOf == Presses \in Nat \ {0} /\ GpioFaults \in Nat
  BY GpioAssumption DEF Gpio!ConstantsOk

LEMMA GpioRecordKept ==
  ASSUME NEW g \in GpioRecord
  PROVE  /\ [g EXCEPT !.dev_id = 1, !.irqnum = -1] \in GpioRecord
         /\ [g EXCEPT !.irqnum = 101, !.triggered = 0, !.wait_q = {}] \in GpioRecord
         /\ [g EXCEPT !.triggered = 1, !.wait_q = {}] \in GpioRecord
<1>1. [g EXCEPT !.dev_id = 1, !.irqnum = -1] \in GpioRecord
  BY DEF GpioRecord
<1>2. [g EXCEPT !.irqnum = 101, !.triggered = 0, !.wait_q = {}] \in GpioRecord
  BY DEF GpioRecord
<1>3. [g EXCEPT !.triggered = 1, !.wait_q = {}] \in GpioRecord
  BY DEF GpioRecord
<1> QED
  BY <1>1, <1>2, <1>3

LEMMA GpioTakesKeeps ==
  ASSUME GpioInv, at = "ioctl", Gpio!Driver!ReadPinVal("main"), lastinval' = inval, inval' = line,
         UNCHANGED <<at, loops, outval, ret_val, irq_capable, led, falls, held>>
  PROVE  GpioInv'
<1> USE GpioTypesOf
      DEF Gpio!Driver!ReadPinVal, Gpio!Driver!May, Gpio!Driver!Goto,
          Gpio!Driver!hardware, Gpio!Main
<1>1. GpioTypes'
  BY DEF GpioInv, GpioTypes, GpioRecord, GpioPlaces, GpioCount, Step
<1>2. GpioSwitches'
  BY Zenon DEF GpioInv, GpioSwitches, GpioTypes
<1>3. GpioPlaces'
  BY DEF GpioInv, GpioTypes, GpioRecord, GpioPlaces, Step
<1>4. GpioCount'
  BY DEF GpioInv, GpioTypes, GpioRecord, GpioPlaces, GpioCount, Step
<1>5. GpioSamples'
  BY DEF GpioInv, GpioTypes, GpioPlaces, GpioSamples, Step, Gpio!SeesPress
<1> QED
  BY <1>1, <1>2, <1>3, <1>4, <1>5 DEF GpioInv

LEMMA GpioTakesEndKeeps ==
  ASSUME GpioInv, at = "ioctl", Gpio!Driver!ReadPinValEnd("main"),
         UNCHANGED <<at, loops, inval, lastinval, outval, ret_val, irq_capable, led, falls, held>>
  PROVE  GpioInv'
<1> USE GpioTypesOf
      DEF Gpio!Driver!ReadPinValEnd, Gpio!Driver!Goto, Gpio!Driver!hardware
<1>1. GpioTypes'
  BY DEF GpioInv, GpioTypes, GpioRecord, GpioPlaces, GpioCount, Step
<1>2. GpioSwitches'
  BY Zenon DEF GpioInv, GpioSwitches, GpioTypes
<1>3. GpioPlaces'
  BY DEF GpioInv, GpioTypes, GpioRecord, GpioPlaces, Step
<1>4. GpioCount'
  BY DEF GpioInv, GpioTypes, GpioRecord, GpioPlaces, GpioCount, Step
<1>5. GpioSamples'
  BY DEF GpioInv, GpioTypes, GpioPlaces, GpioSamples, Step, Gpio!SeesPress
<1> QED
  BY <1>1, <1>2, <1>3, <1>4, <1>5 DEF GpioInv

LEMMA GpioGetsKeeps ==
  ASSUME GpioInv, at = "read", Gpio!Driver!ReadGet("main"), lastinval' = inval, inval' = line,
         UNCHANGED <<at, loops, outval, ret_val, irq_capable, led, falls, held>>
  PROVE  GpioInv'
<1> USE GpioTypesOf
      DEF Gpio!Driver!ReadGet, Gpio!Driver!Goto, Gpio!Driver!hardware
<1>1. GpioTypes'
  BY DEF GpioInv, GpioTypes, GpioRecord, GpioPlaces, GpioCount, Step
<1>2. GpioSwitches'
  BY Zenon DEF GpioInv, GpioSwitches, GpioTypes
<1>3. GpioPlaces'
  BY DEF GpioInv, GpioTypes, GpioRecord, GpioPlaces, Step
<1>4. GpioCount'
  BY DEF GpioInv, GpioTypes, GpioRecord, GpioPlaces, GpioCount, Step
<1>5. GpioSamples'
  BY DEF GpioInv, GpioTypes, GpioPlaces, GpioSamples, Step, Gpio!SeesPress
<1> QED
  BY <1>1, <1>2, <1>3, <1>4, <1>5 DEF GpioInv

LEMMA GpioReadsKeeps ==
  ASSUME GpioInv, at = "read", Gpio!Driver!ReadStart("main"),
         UNCHANGED <<at, loops, inval, lastinval, outval, ret_val, irq_capable, led, falls, held>>
  PROVE  GpioInv'
<1> USE GpioTypesOf
      DEF Gpio!Driver!ReadStart, Gpio!Driver!May, Gpio!Driver!Goto,
          Gpio!Driver!hardware, Gpio!Main
<1>1. GpioTypes'
  BY DEF GpioInv, GpioTypes, GpioRecord, GpioPlaces, GpioCount, Step
<1>2. GpioSwitches'
  BY Zenon DEF GpioInv, GpioSwitches, GpioTypes
<1>3. GpioPlaces'
  BY DEF GpioInv, GpioTypes, GpioRecord, GpioPlaces, Step
<1>4. GpioCount'
  BY DEF GpioInv, GpioTypes, GpioRecord, GpioPlaces, GpioCount, Step
<1>5. GpioSamples'
  BY DEF GpioInv, GpioTypes, GpioPlaces, GpioSamples, Step, Gpio!SeesPress
<1> QED
  BY <1>1, <1>2, <1>3, <1>4, <1>5 DEF GpioInv

LEMMA GpioOpenKeeps ==
  ASSUME GpioInv, Gpio!Open
  PROVE  GpioInv'
<1> USE GpioTypesOf
      DEF Gpio!Open, Gpio!Driver!gpio_open, Gpio!Driver!hardware, Gpio!Main,
          Gpio!Goto, Gpio!history
<1>1. GpioTypes'
  BY DEF GpioInv, GpioTypes, GpioRecord, GpioPlaces, GpioCount, Step
<1>2. GpioSwitches'
  BY Zenon DEF GpioInv, GpioSwitches, GpioTypes
<1>3. GpioPlaces'
  BY DEF GpioInv, GpioTypes, GpioRecord, GpioPlaces, Step
<1>4. GpioCount'
  BY DEF GpioInv, GpioTypes, GpioRecord, GpioPlaces, GpioCount, Step
<1>5. GpioSamples'
  BY DEF GpioInv, GpioTypes, GpioPlaces, GpioSamples, Step, Gpio!SeesPress
<1> QED
  BY <1>1, <1>2, <1>3, <1>4, <1>5 DEF GpioInv

LEMMA GpioAsInpKeeps ==
  ASSUME GpioInv, Gpio!AsInp
  PROVE  GpioInv'
<1> USE GpioTypesOf
      DEF Gpio!AsInp, Gpio!Driver!AsInpOrOut, Gpio!Driver!May, Gpio!Driver!Alone,
          Gpio!Driver!free_irq, Gpio!Driver!Complain, Gpio!Driver!Goto, Gpio!Main,
          Gpio!Goto, Gpio!history
<1>1. GpioTypes'
  BY DEF GpioInv, GpioTypes, GpioRecord, GpioPlaces, GpioCount, Step
<1>2. GpioSwitches'
  BY Zenon DEF GpioInv, GpioSwitches, GpioTypes
<1>3. GpioPlaces'
  BY DEF GpioInv, GpioTypes, GpioRecord, GpioPlaces, Step
<1>4. GpioCount'
  BY DEF GpioInv, GpioTypes, GpioRecord, GpioPlaces, GpioCount, Step
<1>5. GpioSamples'
  BY DEF GpioInv, GpioTypes, GpioPlaces, GpioSamples, Step, Gpio!SeesPress
<1> QED
  BY <1>1, <1>2, <1>3, <1>4, <1>5 DEF GpioInv

LEMMA GpioAsOutKeeps ==
  ASSUME GpioInv, Gpio!AsOut
  PROVE  GpioInv'
<1> USE GpioTypesOf
      DEF Gpio!AsOut, Gpio!Idle, Gpio!Main, Gpio!Goto
<1>1. GpioTypes'
  BY DEF GpioInv, GpioTypes, GpioRecord, GpioPlaces, GpioCount, Step
<1>2. GpioSwitches'
  BY Zenon DEF GpioInv, GpioSwitches, GpioTypes
<1>3. GpioPlaces'
  BY DEF GpioInv, GpioTypes, GpioRecord, GpioPlaces, Step
<1>4. GpioCount'
  BY DEF GpioInv, GpioTypes, GpioRecord, GpioPlaces, GpioCount, Step
<1>5. GpioSamples'
  BY ZenonT(60) DEF GpioInv, GpioTypes, GpioPlaces, GpioSamples, Step, Gpio!SeesPress
<1> QED
  BY <1>1, <1>2, <1>3, <1>4, <1>5 DEF GpioInv

LEMMA GpioCallFailsKeeps ==
  ASSUME GpioInv, Gpio!CallFails
  PROVE  GpioInv'
<1> USE GpioTypesOf
      DEF Gpio!CallFails, Gpio!Idle, Gpio!Main, Gpio!Goto, Gpio!history
<1>1. GpioTypes'
  BY DEF GpioInv, GpioTypes, GpioRecord, GpioPlaces, GpioCount, Step
<1>2. GpioSwitches'
  BY Zenon DEF GpioInv, GpioSwitches, GpioTypes
<1>3. GpioPlaces'
  BY DEF GpioInv, GpioTypes, GpioRecord, GpioPlaces, Step
<1>4. GpioCount'
  BY DEF GpioInv, GpioTypes, GpioRecord, GpioPlaces, GpioCount, Step
<1>5. GpioSamples'
  BY DEF GpioInv, GpioTypes, GpioPlaces, GpioSamples, Step, Gpio!SeesPress
<1> QED
  BY <1>1, <1>2, <1>3, <1>4, <1>5 DEF GpioInv

LEMMA GpioPressedKeeps ==
  ASSUME GpioInv, Gpio!Pressed
  PROVE  GpioInv'
<1> USE GpioTypesOf
      DEF Gpio!Pressed, Gpio!Idle, Gpio!Main, Gpio!SeesPress, Gpio!Toggle,
          Gpio!Goto, Gpio!NextTest
<1>1. GpioTypes'
  BY DEF GpioInv, GpioTypes, GpioRecord, GpioPlaces, GpioCount, Step
<1>2. GpioSwitches'
  BY Zenon DEF GpioInv, GpioSwitches, GpioTypes
<1>3. GpioPlaces'
  BY DEF GpioInv, GpioTypes, GpioRecord, GpioPlaces, Step
<1>4. GpioCount'
  BY DEF GpioInv, GpioTypes, GpioRecord, GpioPlaces, GpioCount, Step
<1>5. GpioSamples'
  BY DEF GpioInv, GpioTypes, GpioPlaces, GpioSamples, Step, Gpio!SeesPress
<1> QED
  BY <1>1, <1>2, <1>3, <1>4, <1>5 DEF GpioInv

LEMMA GpioAsIrqKeeps ==
  ASSUME GpioInv, Gpio!AsIrq
  PROVE  GpioInv'
<1> USE GpioTypesOf
      DEF Gpio!AsIrq, Gpio!Driver!AsIrq, Gpio!Driver!May, Gpio!Driver!Alone,
          Gpio!Driver!Irq, Gpio!Driver!Goto, Gpio!Driver!ValidTypes, Gpio!Main,
          Gpio!Goto, Gpio!history
<1>1. GpioTypes'
  <2>1. gpio' \in GpioRecord
    <3>1. Gpio!Driver!Irq = 101
      BY DEF Gpio!Driver!Irq
    <3> QED
      BY <3>1, GpioRecordKept DEF Gpio!AsIrq, Gpio!Driver!AsIrq, GpioInv, GpioTypes
  <2>2. UNCHANGED <<loops, inval, lastinval, outval, ret_val, led, falls, module, line,
                    action, complaint, faults>>
    BY DEF Gpio!AsIrq, Gpio!history, Gpio!Driver!AsIrq
  <2>3. /\ at' = "as_irq_end" /\ dir' = "in"
        /\ pc' = [pc EXCEPT !["main"] = "falling"]
    BY DEF Gpio!AsIrq, Gpio!Goto, Gpio!Main, Gpio!Driver!AsIrq, Gpio!Driver!Goto,
           Gpio!Driver!ValidTypes
  <2> QED
    BY <2>1, <2>2, <2>3 DEF GpioInv, GpioTypes
<1>2. GpioSwitches'
  BY Zenon DEF GpioInv, GpioSwitches, GpioTypes
<1>3. GpioPlaces'
  BY DEF GpioInv, GpioTypes, GpioRecord, GpioPlaces, Step
<1>4. GpioCount'
  BY DEF GpioInv, GpioTypes, GpioRecord, GpioPlaces, GpioCount, Step
<1>5. GpioSamples'
  BY DEF GpioInv, GpioTypes, GpioPlaces, GpioSamples, Step, Gpio!SeesPress
<1> QED
  BY <1>1, <1>2, <1>3, <1>4, <1>5 DEF GpioInv

LEMMA GpioAsIrqEndKeeps ==
  ASSUME GpioInv, Gpio!AsIrqEnd
  PROVE  GpioInv'
<1> USE GpioTypesOf
      DEF Gpio!AsIrqEnd, Gpio!Driver!RequestIrq, Gpio!Driver!ValidTypes,
          Gpio!Driver!Goto, Gpio!Driver!Raises, Gpio!Driver!hardware, Gpio!Main,
          Gpio!Goto
<1>1. GpioTypes'
  BY DEF GpioInv, GpioTypes, GpioRecord, GpioPlaces, GpioCount, Step
<1>2. GpioSwitches'
  BY Zenon DEF GpioInv, GpioSwitches, GpioTypes
<1>3. GpioPlaces'
  BY DEF GpioInv, GpioTypes, GpioRecord, GpioPlaces, Step
<1>4. GpioCount'
  <2>1. pending' = FALSE \/ pending' = pending
    BY DEF Gpio!AsIrqEnd, Gpio!Driver!RequestIrq, Gpio!Driver!ValidTypes, GpioInv, GpioPlaces,
           Step, Gpio!Main
  <2>2. ~pending
    BY DEF Gpio!AsIrqEnd, GpioInv, GpioPlaces
  <2>3. pending' = FALSE
    BY <2>1, <2>2, Zenon DEF GpioInv, GpioSwitches
  <2>4. Step' = "idle" /\ falls' = 0 /\ gpio'.triggered = 0
    BY DEF Gpio!AsIrqEnd, Gpio!Driver!RequestIrq, Gpio!Driver!Goto, Gpio!Main, GpioInv,
           GpioTypes, GpioRecord, GpioPlaces, Step
  <2> QED
    BY <2>3, <2>4 DEF GpioCount
<1>5. GpioSamples'
  BY DEF GpioInv, GpioTypes, GpioPlaces, GpioSamples, Step, Gpio!SeesPress
<1> QED
  BY <1>1, <1>2, <1>3, <1>4, <1>5 DEF GpioInv

LEMMA GpioStartsKeeps ==
  ASSUME GpioInv, at = "irq", Gpio!Driver!ReadStart("main"),
         UNCHANGED <<Gpio!client, Gpio!history>>
  PROVE  GpioInv'
<1> USE GpioTypesOf
      DEF Gpio!Driver!ReadStart, Gpio!Driver!May, Gpio!Driver!Goto,
          Gpio!Driver!hardware, Gpio!client, Gpio!history, Gpio!Main
<1>1. GpioTypes'
  BY DEF GpioInv, GpioTypes, GpioRecord, GpioPlaces, GpioCount, Step
<1>2. GpioSwitches'
  BY Zenon DEF GpioInv, GpioSwitches, GpioTypes
<1>3. GpioPlaces'
  BY DEF GpioInv, GpioTypes, GpioRecord, GpioPlaces, Step
<1>4. GpioCount'
  BY DEF GpioInv, GpioTypes, GpioRecord, GpioPlaces, GpioCount, Step
<1>5. GpioSamples'
  BY DEF GpioInv, GpioTypes, GpioPlaces, GpioSamples, Step, Gpio!SeesPress
<1> QED
  BY <1>1, <1>2, <1>3, <1>4, <1>5 DEF GpioInv

LEMMA GpioWaitsKeeps ==
  ASSUME GpioInv, at = "irq", Gpio!Driver!WaitEvent("main"),
         UNCHANGED <<Gpio!client, Gpio!history>>
  PROVE  GpioInv'
<1> USE GpioTypesOf
      DEF Gpio!Driver!WaitEvent, Gpio!Driver!Goto, Gpio!Driver!NoQueue,
          Gpio!Driver!Complain, Gpio!Driver!hardware, Gpio!client, Gpio!history
<1>1. GpioTypes'
  BY DEF GpioInv, GpioTypes, GpioRecord, GpioPlaces, GpioCount, Step
<1>2. GpioSwitches'
  BY Zenon DEF GpioInv, GpioSwitches, GpioTypes
<1>3. GpioPlaces'
  BY DEF GpioInv, GpioTypes, GpioRecord, GpioPlaces, Step
<1>4. GpioCount'
  BY DEF GpioInv, GpioTypes, GpioRecord, GpioPlaces, GpioCount, Step
<1>5. GpioSamples'
  BY DEF GpioInv, GpioTypes, GpioPlaces, GpioSamples, Step, Gpio!SeesPress
<1> QED
  BY <1>1, <1>2, <1>3, <1>4, <1>5 DEF GpioInv

LEMMA GpioClearsKeeps ==
  ASSUME GpioInv, at = "irq", Gpio!Driver!ReadClear("main"),
         UNCHANGED <<Gpio!client, Gpio!history>>
  PROVE  GpioInv'
<1> USE GpioTypesOf
      DEF Gpio!Driver!ReadClear, Gpio!Driver!Goto, Gpio!Driver!hardware,
          Gpio!client, Gpio!history
<1>1. GpioTypes'
  BY DEF GpioInv, GpioTypes, GpioRecord, GpioPlaces, GpioCount, Step
<1>2. GpioSwitches'
  BY Zenon DEF GpioInv, GpioSwitches, GpioTypes
<1>3. GpioPlaces'
  BY DEF GpioInv, GpioTypes, GpioRecord, GpioPlaces, Step
<1>4. GpioCount'
  BY DEF GpioInv, GpioTypes, GpioRecord, GpioPlaces, GpioCount, Step
<1>5. GpioSamples'
  BY DEF GpioInv, GpioTypes, GpioPlaces, GpioSamples, Step, Gpio!SeesPress
<1> QED
  BY <1>1, <1>2, <1>3, <1>4, <1>5 DEF GpioInv

LEMMA GpioIrqPressedKeeps ==
  ASSUME GpioInv, Gpio!IrqPressed
  PROVE  GpioInv'
<1> USE GpioTypesOf
      DEF Gpio!IrqPressed, Gpio!Driver!ReadGet, Gpio!Driver!Goto,
          Gpio!Driver!hardware, Gpio!Main, Gpio!Toggle, Gpio!Goto, Gpio!NextTest
<1>1. GpioTypes'
  BY DEF GpioInv, GpioTypes, GpioRecord, GpioPlaces, GpioCount, Step
<1>2. GpioSwitches'
  BY Zenon DEF GpioInv, GpioSwitches, GpioTypes
<1>3. GpioPlaces'
  BY DEF GpioInv, GpioTypes, GpioRecord, GpioPlaces, Step
<1>4. GpioCount'
  BY DEF GpioInv, GpioTypes, GpioRecord, GpioPlaces, GpioCount, Step
<1>5. GpioSamples'
  BY DEF GpioInv, GpioTypes, GpioPlaces, GpioSamples, Step, Gpio!SeesPress
<1> QED
  BY <1>1, <1>2, <1>3, <1>4, <1>5 DEF GpioInv

LEMMA GpioKilledKeeps ==
  ASSUME GpioInv, Gpio!Killed
  PROVE  GpioInv'
<1> USE GpioTypesOf
      DEF Gpio!Killed, Gpio!Driver!Signal, Gpio!Driver!Goto, Gpio!Driver!hardware,
          Gpio!Main, Gpio!Goto, Gpio!history
<1>1. GpioTypes'
  BY DEF GpioInv, GpioTypes, GpioRecord, GpioPlaces, GpioCount, Step
<1>2. GpioSwitches'
  BY Zenon DEF GpioInv, GpioSwitches, GpioTypes
<1>3. GpioPlaces'
  BY DEF GpioInv, GpioTypes, GpioRecord, GpioPlaces, Step
<1>4. GpioCount'
  BY DEF GpioInv, GpioTypes, GpioRecord, GpioPlaces, GpioCount, Step
<1>5. GpioSamples'
  BY DEF GpioInv, GpioTypes, GpioPlaces, GpioSamples, Step, Gpio!SeesPress
<1> QED
  BY <1>1, <1>2, <1>3, <1>4, <1>5 DEF GpioInv

LEMMA GpioCloseKeeps ==
  ASSUME GpioInv, Gpio!Close
  PROVE  GpioInv'
<1> USE GpioTypesOf
      DEF Gpio!Close, Gpio!Driver!gpio_release_close, Gpio!Driver!May,
          Gpio!Driver!free_irq, Gpio!Driver!Complain, Gpio!Driver!hardware,
          Gpio!Main, Gpio!Goto, Gpio!history
<1>1. GpioTypes'
  BY DEF GpioInv, GpioTypes, GpioRecord, GpioPlaces, GpioCount, Step
<1>2. GpioSwitches'
  BY Zenon DEF GpioInv, GpioSwitches, GpioTypes
<1>3. GpioPlaces'
  BY DEF GpioInv, GpioTypes, GpioRecord, GpioPlaces, Step
<1>4. GpioCount'
  BY DEF GpioInv, GpioTypes, GpioRecord, GpioPlaces, GpioCount, Step
<1>5. GpioSamples'
  BY DEF GpioInv, GpioTypes, GpioPlaces, GpioSamples, Step, Gpio!SeesPress
<1> QED
  BY <1>1, <1>2, <1>3, <1>4, <1>5 DEF GpioInv

LEMMA GpioHandled ==
  ASSUME GpioInv, Gpio!Handler
  PROVE  pending' = FALSE
<1>1. action \notin {"high", "low"}
  BY DEF GpioInv, GpioTypes
<1>2. (action \in {"high", "low"}) = FALSE
  BY <1>1
<1>3. pending' = Gpio!Driver!Level
  BY DEF Gpio!Handler, Gpio!Driver!gpio_irq_handler
<1> QED
  BY <1>2, <1>3, Zenon DEF Gpio!Driver!Level

LEMMA GpioHandlerKeeps ==
  ASSUME GpioInv, Gpio!Handler
  PROVE  GpioInv'
<1>0. Gpio!Driver!StillQueued = {}
  <2>1. gpio.wait_q \in {{}, {"main"}, {"uninitialised"}} /\ (gpio.wait_q = {"main"} => Step = "asleep")
    BY DEF GpioInv, GpioTypes, GpioRecord, GpioPlaces
  <2> QED
    BY <2>1 DEF Gpio!Driver!StillQueued, Gpio!Main, Step
<1>a. gpio' = [gpio EXCEPT !.triggered = 1, !.wait_q = {}]
  BY <1>0, Zenon DEF Gpio!Handler, Gpio!Driver!gpio_irq_handler
<1> USE GpioTypesOf
      DEF Gpio!Handler, Gpio!Driver!gpio_irq_handler, Gpio!Driver!Woken,
          Gpio!Driver!Level, Gpio!Driver!hardware, Gpio!client, Gpio!Main
<1>1. GpioTypes'
  <2>1. gpio' \in GpioRecord
    <3>1. gpio \in GpioRecord
      BY DEF GpioInv, GpioTypes
    <3>2. [gpio EXCEPT !.triggered = 1, !.wait_q = {}] \in GpioRecord
      BY <3>1, GpioRecordKept
    <3> QED
      BY <1>a, <3>2, Zenon
  <2>2. UNCHANGED <<at, loops, inval, lastinval, outval, ret_val, led, module, dir, line,
                    action, complaint, faults>>
    BY DEF Gpio!Handler, Gpio!client, Gpio!Driver!gpio_irq_handler, Gpio!Driver!hardware
  <2>3. pc' \in [{"main"} -> {"idle", "gotval", "waiting", "asleep", "clear", "get", "falling"}]
    BY DEF Gpio!Handler, Gpio!Main, Gpio!Driver!gpio_irq_handler, Gpio!Driver!Woken, GpioInv,
           GpioTypes
  <2>4. falls' \in 0 .. 3
    <3>1. pending
      BY DEF Gpio!Handler, Gpio!Driver!gpio_irq_handler
    <3>2. falls > 0
      BY <3>1 DEF GpioInv, GpioTypes, GpioRecord, GpioCount
    <3> QED
      BY <3>2 DEF Gpio!Handler, GpioInv, GpioTypes, GpioRecord
  <2> QED
    BY <2>1, <2>2, <2>3, <2>4 DEF GpioInv, GpioTypes
<1>2. GpioSwitches'
  <2>1. unseen' = "yes" /\ UNCHANGED <<opened, irq_capable, held>>
    BY DEF Gpio!Handler, Gpio!client, Gpio!Driver!gpio_irq_handler
  <2> QED
    BY <2>1, GpioHandled, Zenon DEF GpioInv, GpioSwitches
<1>3. GpioPlaces'
  BY <1>a DEF GpioInv, GpioTypes, GpioRecord, GpioPlaces, Step
<1>4. GpioCount'
  <2>1. pending /\ pending' = FALSE /\ UNCHANGED at
    BY GpioHandled DEF Gpio!Handler, Gpio!client, Gpio!Driver!gpio_irq_handler
  <2>2. gpio'.triggered = 1 /\ falls' = falls - gpio.triggered
    BY <1>a DEF Gpio!Handler, Gpio!Driver!gpio_irq_handler, GpioInv, GpioTypes, GpioRecord
  <2>3. Step' = "get" <=> Step = "get"
    BY DEF Gpio!Handler, Gpio!Main, Gpio!Driver!gpio_irq_handler, Gpio!Driver!Woken, GpioInv,
           GpioTypes, GpioRecord, GpioPlaces, Step
  <2> QED
    BY <2>1, <2>2, <2>3 DEF GpioInv, GpioTypes, GpioRecord, GpioCount
<1>5. GpioSamples'
  BY DEF GpioInv, GpioTypes, GpioPlaces, GpioSamples, Step, Gpio!SeesPress
<1> QED
  BY <1>1, <1>2, <1>3, <1>4, <1>5 DEF GpioInv

LEMMA GpioButtonKeeps ==
  ASSUME GpioInv, Gpio!Driver!Button, at # "done", falls' = Gpio!Fallen, UNCHANGED <<Gpio!client, held>>
  PROVE  GpioInv'
<1> USE GpioTypesOf
      DEF Gpio!Driver!Button, Gpio!Driver!SetLine, Gpio!Driver!Raises,
          Gpio!Driver!Level, Gpio!Fallen, Gpio!Falling, Gpio!client
<1>1. GpioTypes'
  BY DEF GpioInv, GpioTypes, GpioRecord, GpioPlaces, GpioCount, Step
<1>2. GpioSwitches'
  BY Zenon DEF GpioInv, GpioSwitches, GpioTypes
<1>3. GpioPlaces'
  BY ZenonT(60) DEF GpioInv, GpioTypes, GpioRecord, GpioPlaces, Step
<1>4. GpioCount'
  <2>1. UNCHANGED <<at, gpio, pc>> /\ UNCHANGED Step
    BY DEF Gpio!client, Gpio!Driver!Button, Step
  <2>2. pending' = (Gpio!Driver!Raises(action, line, line') \/ pending)
    BY DEF Gpio!Driver!Button, Gpio!Driver!SetLine, Gpio!Driver!Level, GpioInv, GpioTypes
  <2>3. CASE ~Gpio!Falling
    <3>1. falls' = falls
      BY <2>3 DEF Gpio!Fallen
    <3>2. ~Gpio!Driver!Raises(action, line, line')
      BY <2>3 DEF Gpio!Falling, Gpio!Driver!Button, Gpio!Driver!SetLine, Gpio!Driver!Raises,
                  GpioInv, GpioTypes
    <3>3. pending' = pending
      BY <2>2, <3>2, Zenon DEF GpioInv, GpioSwitches
    <3> QED
      BY <2>1, <3>1, <3>3 DEF GpioInv, GpioCount
  <2>4. CASE Gpio!Falling /\ at # "irq"
    BY <2>1, <2>4 DEF Gpio!Fallen, GpioCount
  <2>5. CASE Gpio!Falling /\ at = "irq" /\ pending
    <3>1. pending' = TRUE /\ falls' = falls
      BY <2>2, <2>5 DEF Gpio!Fallen
    <3> QED
      BY <2>1, <2>5, <3>1 DEF GpioInv, GpioCount
  <2>6. CASE Gpio!Falling /\ at = "irq" /\ ~pending
    <3>1. falls' = falls + 1
      BY <2>6 DEF Gpio!Fallen
    <3>2. Gpio!Driver!Raises(action, line, line')
      <4>1. action = "falling" /\ line > line'
        BY <2>6 DEF Gpio!Falling, GpioInv, GpioTypes, GpioPlaces
      <4> QED
        BY <4>1 DEF Gpio!Driver!Raises
    <3>3. pending' = TRUE
      BY <2>2, <3>2, Zenon
    <3> QED
      BY <2>1, <2>6, <3>1, <3>3 DEF GpioInv, GpioTypes, GpioRecord, GpioCount
  <2> QED
    BY <2>3, <2>4, <2>5, <2>6
<1>5. GpioSamples'
  BY DEF GpioInv, GpioTypes, GpioPlaces, GpioSamples, Step, Gpio!SeesPress
<1> QED
  BY <1>1, <1>2, <1>3, <1>4, <1>5 DEF GpioInv

LEMMA GpioLoadKeeps ==
  ASSUME GpioInv, Gpio!Driver!gpio_init, UNCHANGED <<Gpio!client, Gpio!history>>
  PROVE  GpioInv'
<1> USE GpioTypesOf
      DEF Gpio!Driver!gpio_init, Gpio!Driver!ZeroConf, Gpio!Driver!NoQueue,
          Gpio!Driver!Complain, Gpio!Driver!free_irq, Gpio!Driver!hardware,
          Gpio!client, Gpio!history
<1>1. GpioTypes'
  BY DEF GpioInv, GpioTypes, GpioRecord, GpioPlaces, GpioCount, Step
<1>2. GpioSwitches'
  BY Zenon DEF GpioInv, GpioSwitches, GpioTypes
<1>3. GpioPlaces'
  BY DEF GpioInv, GpioTypes, GpioRecord, GpioPlaces, Step
<1>4. GpioCount'
  BY DEF GpioInv, GpioTypes, GpioRecord, GpioPlaces, GpioCount, Step
<1>5. GpioSamples'
  BY DEF GpioInv, GpioTypes, GpioPlaces, GpioSamples, Step, Gpio!SeesPress
<1> QED
  BY <1>1, <1>2, <1>3, <1>4, <1>5 DEF GpioInv

LEMMA GpioLoadEndKeeps ==
  ASSUME GpioInv, Gpio!Driver!gpio_init_end, UNCHANGED <<Gpio!client, Gpio!history>>
  PROVE  GpioInv'
<1> USE GpioTypesOf
      DEF Gpio!Driver!gpio_init_end, Gpio!Driver!hardware, Gpio!client, Gpio!history
<1>1. GpioTypes'
  <2>1. gpio' \in GpioRecord
    BY GpioRecordKept DEF Gpio!Driver!gpio_init_end, GpioInv, GpioTypes
  <2>2. UNCHANGED <<at, loops, inval, lastinval, outval, ret_val, led, falls, pc, dir, line,
                    action, complaint, faults>>
    BY DEF Gpio!client, Gpio!history, Gpio!Driver!gpio_init_end, Gpio!Driver!hardware
  <2>3. module' = "loaded"
    BY DEF Gpio!Driver!gpio_init_end
  <2> QED
    BY <2>1, <2>2, <2>3 DEF GpioInv, GpioTypes
<1>2. GpioSwitches'
  BY Zenon DEF GpioInv, GpioSwitches, GpioTypes
<1>3. GpioPlaces'
  BY DEF GpioInv, GpioTypes, GpioRecord, GpioPlaces, Step
<1>4. GpioCount'
  BY DEF GpioInv, GpioTypes, GpioRecord, GpioPlaces, GpioCount, Step
<1>5. GpioSamples'
  BY DEF GpioInv, GpioTypes, GpioPlaces, GpioSamples, Step, Gpio!SeesPress
<1> QED
  BY <1>1, <1>2, <1>3, <1>4, <1>5 DEF GpioInv

LEMMA GpioSampleKeeps ==
  ASSUME GpioInv, Gpio!SampleIoctl \/ Gpio!SampleRead
  PROVE  GpioInv'
<1>1. CASE Gpio!SampleIoctl
  BY <1>1, GpioTakesKeeps, GpioTakesEndKeeps, Zenon
     DEF Gpio!SampleIoctl, Gpio!Sample, Gpio!Main, Gpio!history
<1>2. CASE Gpio!SampleRead
  BY <1>2, GpioGetsKeeps, GpioReadsKeeps, Zenon
     DEF Gpio!SampleRead, Gpio!Sample, Gpio!Main, Gpio!history
<1> QED
  BY <1>1, <1>2

LEMMA GpioStep == GpioInv /\ Gpio!Next => GpioInv'
<1> SUFFICES ASSUME GpioInv, Gpio!Next PROVE GpioInv'
  OBVIOUS
<1>1. CASE Gpio!Program
  <2>1. CASE Gpio!IrqRead
    BY <2>1, GpioStartsKeeps, GpioWaitsKeeps, GpioClearsKeeps, Zenon DEF Gpio!IrqRead, Gpio!Main
  <2> QED
    BY <1>1, <2>1, GpioOpenKeeps, GpioAsInpKeeps, GpioAsOutKeeps, GpioSampleKeeps,
       GpioCallFailsKeeps, GpioPressedKeeps, GpioAsIrqKeeps, GpioAsIrqEndKeeps, GpioIrqPressedKeeps, GpioCloseKeeps,
       Zenon
       DEF Gpio!Program
<1>2. CASE Gpio!Kernel
  BY <1>2, GpioLoadKeeps, GpioLoadEndKeeps, GpioHandlerKeeps, GpioButtonKeeps, Zenon
     DEF Gpio!Kernel
<1>3. CASE Gpio!Terminated
  <2> USE <1>3 DEF Gpio!Terminated, Gpio!vars, Gpio!client
  <2>1. GpioTypes' /\ GpioPlaces' /\ GpioCount' /\ GpioSamples'
    BY DEF GpioInv, GpioTypes, GpioPlaces, GpioCount, GpioSamples, Step, Gpio!SeesPress
  <2>2. GpioSwitches'
    BY Zenon DEF GpioInv, GpioSwitches
  <2> QED
    BY <2>1, <2>2 DEF GpioInv
<1> QED
  BY <1>1, <1>2, <1>3, GpioKilledKeeps DEF Gpio!Next

LEMMA GpioInitial == Gpio!Init => GpioInv
<1> SUFFICES ASSUME Gpio!Init PROVE GpioInv
  OBVIOUS
<1> USE GpioAssumption
<1>1. /\ gpio = [dev_id |-> 0, irqnum |-> 0, triggered |-> 0, wait_q |-> {"uninitialised"}]
      /\ pc = [t \in {"main"} |-> "idle"] /\ module = "absent" /\ at = "open"
      /\ opened = FALSE /\ pending = FALSE /\ unseen = "no" /\ held = FALSE
      /\ dir = "in" /\ line \in {0, 1} /\ action = "none" /\ faults = 0 /\ complaint = {}
      /\ loops = Presses /\ ret_val = 0 /\ falls = 0 /\ inval = 1 /\ lastinval = 1
      /\ outval = 0 /\ led \in {0, 1} /\ irq_capable \in BOOLEAN
  BY DEF Gpio!Init, Gpio!Driver!Init, Gpio!Driver!ZeroConf, Gpio!Driver!NoQueue, Gpio!Main,
         Gpio!ConstantsOk
<1>2. GpioTypes /\ GpioPlaces /\ GpioCount /\ GpioSamples
  BY <1>1, GpioTypesOf
     DEF GpioTypes, GpioRecord, GpioPlaces, GpioCount, GpioSamples, Step, Gpio!SeesPress
<1>3. GpioSwitches
  BY <1>1, Zenon DEF GpioSwitches
<1> QED
  BY <1>2, <1>3 DEF GpioInv

LEMMA GpioSafe == GpioInv => Gpio!TypeOK /\ Gpio!LeavesPinQuiet
<1> SUFFICES ASSUME GpioInv PROVE Gpio!TypeOK /\ Gpio!LeavesPinQuiet
  OBVIOUS
<1>1. Gpio!LeavesPinQuiet
  BY DEF GpioInv, GpioTypes, GpioPlaces, Gpio!LeavesPinQuiet, Gpio!Driver!KernelIntact
<1>2. Gpio!Driver!TypeOK
  <2>1. /\ gpio.dev_id \in {0, 1} /\ gpio.irqnum \in {-1, 0, 101} /\ gpio.triggered \in {0, 1}
        /\ gpio.wait_q \in {{}, {"main"}, {"uninitialised"}}
    BY DEF GpioInv, GpioTypes, GpioRecord
  <2>2. gpio.wait_q \subseteq {"main"} \cup {"uninitialised"}
    BY <2>1
  <2>3. pc \in [{"main"} -> {"idle", "in", "out", "gotval", "waiting", "asleep", "clear", "get",
                              "polling", "pollsleep"}
                                \cup {"high", "low", "rising", "falling"}]
    BY DEF GpioInv, GpioTypes
  <2>4. gpio.irqnum \in {-1, 0, Gpio!Driver!Irq}
    BY <2>1 DEF Gpio!Driver!Irq
  <2>5. /\ module \in {"absent", "registered", "loaded"} /\ dir \in {"in", "out"} /\ line \in {0, 1}
        /\ action \in {"high", "low", "rising", "falling"} \cup {"none"} /\ faults \in 0 .. GpioFaults
    BY DEF GpioInv, GpioTypes
  <2> QED
    BY <2>1, <2>2, <2>3, <2>4, <2>5, Zenon
       DEF GpioInv, GpioSwitches, Gpio!Driver!TypeOK, Gpio!Driver!NoQueue, Gpio!Driver!ValidTypes,
           Gpio!Main
<1>3. /\ at \in {"open", "as_inp", "as_out", "ioctl", "read", "as_irq", "as_irq_end",
                 "irq", "close", "done"}
      /\ loops \in 1 .. Presses /\ {inval, lastinval, outval, led} \subseteq {0, 1}
      /\ ret_val \in -1 .. 1 /\ falls \in 0 .. 3
  BY DEF GpioInv, GpioTypes
<1> QED
  BY <1>1, <1>2, <1>3, Zenon DEF GpioInv, GpioSwitches, Gpio!TypeOK

(* Only the two ways to see a press write the LED, and each has a press.   *)
LEMMA GpioPresses ==
  GpioInv /\ Gpio!Next => (led' # led => falls > 0 \/ held)
<1> SUFFICES ASSUME GpioInv, Gpio!Next, led' # led PROVE falls > 0 \/ held
  OBVIOUS
<1>1. CASE Gpio!Pressed
  BY <1>1 DEF Gpio!Pressed, GpioInv, GpioSamples
<1>2. CASE Gpio!IrqPressed
  BY <1>2
     DEF Gpio!IrqPressed, Gpio!Driver!ReadGet, Gpio!Main, Step, GpioInv, GpioTypes, GpioRecord,
         GpioCount
<1>3. ASSUME ~Gpio!Pressed, ~Gpio!IrqPressed PROVE led' = led
  <2>1. CASE Gpio!SampleIoctl \/ Gpio!SampleRead
    BY <2>1, Zenon DEF Gpio!SampleIoctl, Gpio!SampleRead, Gpio!Sample
  <2>2. CASE Gpio!Open \/ Gpio!AsInp \/ Gpio!AsOut \/ Gpio!AsIrq \/ Gpio!AsIrqEnd \/ Gpio!IrqRead
            \/ Gpio!Close \/ Gpio!Killed \/ Gpio!CallFails
    BY <2>2, Zenon
       DEF Gpio!Open, Gpio!AsInp, Gpio!AsOut, Gpio!AsIrq, Gpio!AsIrqEnd, Gpio!IrqRead, Gpio!Close,
           Gpio!Killed, Gpio!CallFails, Gpio!client
  <2>3. CASE Gpio!Kernel \/ Gpio!Terminated
    BY <2>3 DEF Gpio!Kernel, Gpio!Handler, Gpio!Terminated, Gpio!vars, Gpio!client
  <2> QED
    BY <1>3, <2>1, <2>2, <2>3, Zenon DEF Gpio!Next, Gpio!Program
<1> QED
  BY <1>1, <1>2, <1>3

-----------------------------------------------------------------------------
(***************************************************************************)
(* rtc_test.  What the invariant says of a request that is served (see     *)
(* RtcTest.Served): the clock is not before the time that was read, what   *)
(* the program shows is the time it has read, then that at which the alarm *)
(* is due; nothing rings before it; and as long as the time is not over    *)
(* before the program waits, it waits until after the alarm.               *)
(***************************************************************************)
Ahead == IF req.set THEN 2 ELSE 0
Times == [day : Nat, h : Nat, m : Int, s : Int]
\* as they are when the time could not be read
AnyTimes == [day : Nat \cup {-1}, h : Nat, m : Int, s : Int]
WasRead == tm.day # -1
RtcTypes ==
    /\ pc \in {"read", "set", "alarm", "irq", "select", "disable", "done", "exit"}
    /\ req \in Requests /\ rtc \in Nat /\ start \in Nat
    /\ alarm \in [on : BOOLEAN, at : Nat]
    /\ tm \in AnyTimes
    /\ left \in Int /\ results \in SUBSET {"set", "alarm", "irq"}
    /\ delay \in 0 .. MaxDelay /\ faults \in 0 .. RtcFaults
RtcPlaces ==
    /\ pc = "read" => delay = 0
    /\ pc = "set" => rtc = start + delay
    /\ (pc = "set" \/ (pc = "alarm" /\ ~req.set)) /\ WasRead => tm = Rtc!Tm(start)
    /\ pc # "read" /\ faults = 0 => WasRead
    /\ pc \in {"select", "disable"} \/ "irq" \in results => WasRead
    /\ pc \in {"read", "set", "alarm"} => ~pending /\ ~alarm.on
    /\ pc \in {"read", "set", "alarm", "irq", "select"} => "irq" \notin results
    /\ pc \in {"select", "disable"} => req.irq

RtcTimes ==
    /\ rtc >= start
    /\ pc = "alarm" => Rtc!Valid(tm) /\ Rtc!Shown(tm) = start + Ahead
    /\ pc \in {"alarm", "irq"} => rtc <= start + Ahead + delay
    /\ pc \in {"alarm", "irq"} /\ faults = 0 => rtc >= start + Ahead
    /\ pc = "irq" /\ (req.alarm \/ req.irq) => Rtc!Valid(tm) /\ Rtc!Shown(tm) = Rtc!Due
RtcRings ==
    /\ alarm.on => alarm.at >= Rtc!Due
    /\ pending => rtc >= Rtc!Due
    /\ "irq" \in results => rtc >= Rtc!Due
RtcWaits ==
    /\ pc = "select" =>
        /\ alarm.on /\ alarm.at = Rtc!Due /\ (pending \/ rtc <= Rtc!Due)
        /\ rtc + left >= Rtc!Due + 2
    /\ pc = "disable" => "irq" \in results
    /\ pc = "done" => "irq" \in results /\ ~alarm.on

RtcKept ==
    /\ pc # "read" /\ WasRead /\ Rtc!Served => RtcTimes /\ RtcRings
    /\ pc # "read" /\ Rtc!Served /\ faults = 0 /\ req.irq /\ Rtc!InTime => RtcWaits

RtcInv == RtcTypes /\ pending \in BOOLEAN /\ RtcPlaces /\ RtcKept

(* Arithmetic of the clock.                                                *)
LEMMA Grows ==
  ASSUME NEW a \in Int, NEW b \in Int, NEW k \in Nat, a <= b PROVE a * k <= b * k
<1>1. (b - a) * k >= 0
  OBVIOUS
<1> QED
  BY <1>1

LEMMA Divided ==
  ASSUME NEW n \in Int, NEW k \in Nat \ {0}
  PROVE  n \div k \in Int /\ n % k \in 0 .. k - 1 /\ n % k = n - k * (n \div k)
<1>1. n % k = n - k * (n \div k)
  BY SMTT(30)
<1> QED
  BY <1>1

LEMMA Quotient ==
  ASSUME NEW n \in Int, NEW k \in Nat \ {0}, NEW q \in Int, NEW r \in 0 .. k - 1, n = q * k + r
  PROVE  n \div k = q /\ n % k = r
  OBVIOUS

LEMMA SecondsBelow ==
  ASSUME NEW S \in Nat \ {0}, NEW M \in Nat \ {0}, NEW m \in 0 .. M - 1, NEW s \in 0 .. S - 1
  PROVE  m * S + s \in 0 .. S * M - 1
<1>1. m * S <= (M - 1) * S /\ 0 * S <= m * S
  BY Grows
<1>2. (M - 1) * S = S * M - S
  OBVIOUS
<1> QED
  BY <1>1, <1>2

LEMMA SameQuotient ==
  ASSUME NEW n \in Int, NEW k \in Nat \ {0}, NEW q \in Int
  PROVE  n \div k = q <=> (q * k <= n /\ n < q * k + k)
<1>1. ASSUME n \div k = q PROVE q * k <= n /\ n < q * k + k
  <2>1. n % k \in 0 .. k - 1 /\ n % k = n - k * q
    BY <1>1, Divided
  <2> DEFINE r == n % k
  <2>2. r \in 0 .. k - 1 /\ r = n - k * q
    BY <2>1
  <2> HIDE DEF r
  <2> QED
    BY ONLY <2>2, n \in Int, k \in Nat, q \in Int
<1>2. ASSUME q * k <= n, n < q * k + k PROVE n \div k = q
  <2> DEFINE r == n - q * k
  <2>1. r \in 0 .. k - 1 /\ n = q * k + r
    BY <1>2
  <2> HIDE DEF r
  <2> QED
    BY <2>1, Quotient
<1> QED
  BY <1>1, <1>2

LEMMA RtcTm ==
  ASSUME NEW t \in Nat
  PROVE  /\ Rtc!Tm(t) \in Times /\ Rtc!Valid(Rtc!Tm(t)) /\ Rtc!Shown(Rtc!Tm(t)) = t
         /\ t \div Sec = (Rtc!Tm(t).day * Hour + Rtc!Tm(t).h) * Min + Rtc!Tm(t).m
         /\ Rtc!Tm(t).s = t % Sec /\ Rtc!Tm(t).day = t \div Rtc!Day
<1>x. Sec \in Nat \ {0} /\ Min \in Nat \ {0} /\ Hour \in Nat \ {0}
  BY RtcAssumption DEF Rtc!ConstantsOk
<1> USE <1>x
<1> DEFINE d == t \div (Sec * Min * Hour)
           h == (t \div (Sec * Min)) % Hour
           q == t \div Sec
           m == q % Min
           s == t % Sec
<1>y. Rtc!Tm(t) = [day |-> d, h |-> h, m |-> m, s |-> s] /\ d = t \div Rtc!Day
  BY DEF Rtc!Tm, Rtc!Day
<1>z. /\ d = t \div (Sec * Min * Hour) /\ h = (t \div (Sec * Min)) % Hour
      /\ q = t \div Sec /\ m = q % Min /\ s = t % Sec
  OBVIOUS
<1> HIDE DEF d, h, q, m, s
<1> USE <1>z
<1> DEFINE p == q \div Min
<1>0. t \in Int
  OBVIOUS
<1>1. q \in Int /\ s \in 0 .. Sec - 1 /\ t = q * Sec + s
  <2>1. s = t - Sec * q
    BY <1>0, Divided
  <2>2. q \in Int /\ s \in 0 .. Sec - 1
    BY <1>0, Divided
  <2> QED
    BY ONLY <2>1, <2>2, <1>0, Sec \in Nat
<1>2. p \in Int /\ m \in 0 .. Min - 1 /\ q = p * Min + m
  <2>1. m = q - Min * p
    BY <1>1, Divided
  <2>2. p \in Int /\ m \in 0 .. Min - 1
    BY <1>1, Divided
  <2> HIDE DEF p
  <2> QED
    BY ONLY <2>1, <2>2, <1>1, Min \in Nat
<1> HIDE DEF p
<1>3. Sec * Min \in Nat \ {0} /\ Sec * Min * Hour \in Nat \ {0}
  OBVIOUS
<1>4. t \div (Sec * Min) = p
  <2>1. m * Sec + s \in 0 .. Sec * Min - 1
    BY <1>1, <1>2, SecondsBelow
  <2>2. t = (p * Min + m) * Sec + s
    BY ONLY <1>1, <1>2
  <2>3. t = p * (Sec * Min) + (m * Sec + s)
    BY ONLY <2>2, <1>1, <1>2, Sec \in Nat, Min \in Nat
  <2> DEFINE k == Sec * Min
             r == m * Sec + s
  <2>4. t \div k = p
    <3>1. k \in Nat \ {0} /\ r \in 0 .. k - 1 /\ t = p * k + r
      BY <1>3, <2>1, <2>3
    <3> HIDE DEF k, r
    <3> QED
      BY ONLY <1>0, <1>2, <3>1, Quotient
  <2> QED
    BY <2>4
<1> DEFINE e == p \div Hour
<1>5. e \in Int /\ h \in 0 .. Hour - 1 /\ p = e * Hour + h
  <2>1. h = p - Hour * e
    BY <1>2, <1>4, Divided
  <2>2. e \in Int /\ h \in 0 .. Hour - 1
    BY <1>2, <1>4, Divided
  <2> HIDE DEF e
  <2> QED
    BY ONLY <2>1, <2>2, <1>2, Hour \in Nat
<1> HIDE DEF e
<1>6. t = ((e * Hour + h) * Min + m) * Sec + s
  BY ONLY <1>1, <1>2, <1>5
<1>7. m * Sec + s \in 0 .. Sec * Min - 1
  BY <1>1, <1>2, SecondsBelow
<1>8. h * (Sec * Min) + (m * Sec + s) \in 0 .. (Sec * Min) * Hour - 1
  BY <1>3, <1>5, <1>7, SecondsBelow
<1>9. t = e * (Sec * Min * Hour) + (h * (Sec * Min) + (m * Sec + s))
  BY ONLY <1>6, <1>1, <1>2, <1>5, Sec \in Nat, Min \in Nat, Hour \in Nat
<1>10. d = e
  <2> DEFINE k == Sec * Min * Hour
             r == h * (Sec * Min) + (m * Sec + s)
  <2>1. k \in Nat \ {0} /\ r \in 0 .. k - 1 /\ t = e * k + r
    BY <1>3, <1>8, <1>9
  <2>2. t \div k = e
    <3> HIDE DEF k, r
    <3> QED
      BY ONLY <1>0, <1>5, <2>1, Quotient
  <2> QED
    BY <2>2
<1>11. d >= 0
  <2> SUFFICES ASSUME e <= -1 PROVE FALSE
    BY <1>5, <1>10
  <2>1. e * (Sec * Min * Hour) <= (-1) * (Sec * Min * Hour)
    BY <1>3, <1>5, Grows
  <2> DEFINE D == Sec * Min * Hour
             r == h * (Sec * Min) + (m * Sec + s)
  <2>2. D \in Nat /\ r <= D - 1 /\ r \in Int
    BY <1>3, <1>8
  <2>3. t = e * D + r /\ e * D <= (-1) * D /\ e * D \in Int
    BY <2>1, <1>9, <1>5, <1>3
  <2> HIDE DEF D, r
  <2> QED
    BY ONLY <2>2, <2>3, t \in Nat
<1>12. Rtc!Tm(t) \in Times /\ Rtc!Valid(Rtc!Tm(t))
  BY <1>y, <1>1, <1>2, <1>5, <1>10, <1>11 DEF Times, Rtc!Valid
<1>13. Rtc!Shown(Rtc!Tm(t)) = d * (Sec * Min * Hour) + ((h * Min + m) * Sec + s)
  BY <1>y DEF Rtc!Shown, Rtc!TimeOfDay, Rtc!Day
<1>14. t = d * (Sec * Min * Hour) + ((h * Min + m) * Sec + s)
  BY ONLY <1>x, <1>1, <1>2, <1>5, <1>9, <1>10
<1>15. Rtc!Shown(Rtc!Tm(t)) = t
  BY ONLY <1>13, <1>14
<1>16. Rtc!Tm(t).day = d /\ Rtc!Tm(t).h = h /\ Rtc!Tm(t).m = m /\ Rtc!Tm(t).s = s
  BY ONLY <1>y
<1>17. q = (d * Hour + h) * Min + m
  BY ONLY <1>2, <1>5, <1>10
<1> QED
  BY <1>y, <1>12, <1>15, <1>16, <1>17, Zenon

LEMMA RtcConstants ==
  /\ Sec \in Nat \ {0} /\ Min \in Nat \ {0} /\ Hour \in Nat \ {0} /\ Rtc!Day \in Nat \ {0}
  /\ Sec >= 2 /\ MaxDelay \in Nat /\ RtcFaults \in Nat
<1>1. Sec \in Nat \ {0} /\ Sec >= 2 /\ Min \in Nat \ {0} /\ Hour \in Nat \ {0}
  BY RtcAssumption DEF Rtc!ConstantsOk
<1>2. Sec * Min * Hour \in Nat \ {0}
  BY <1>1
<1> QED
  BY <1>1, <1>2, RtcAssumption DEF Rtc!ConstantsOk, Rtc!Day

LEMMA RtcDates ==
  ASSUME NEW x \in AnyTimes
  PROVE  /\ x.day # -1 => x \in Times
         /\ Rtc!Dated(x) <=> Rtc!Valid(x) /\ x.day # -1
  BY DEF Times, AnyTimes, Rtc!Dated, Rtc!NoDate

LEMMA RtcTimesAreTimes == Times \subseteq AnyTimes
  BY DEF Times, AnyTimes

(* What carrying does to each field.                                       *)
Minute(x) == IF x.s >= Sec THEN x.m + 1 ELSE x.m
HourOf(x) == IF Minute(x) = Min THEN x.h + 1 ELSE x.h
LEMMA RtcCarryFields ==
  ASSUME NEW x \in AnyTimes
  PROVE  /\ Rtc!Carry(x) \in AnyTimes
         /\ Rtc!Carry(x).day = x.day
         /\ Rtc!Carry(x).h = IF HourOf(x) = Hour THEN 0 ELSE HourOf(x)
         /\ Rtc!Carry(x).m = IF Minute(x) = Min THEN 0 ELSE Minute(x)
         /\ Rtc!Carry(x).s = IF x.s >= Sec THEN x.s % Sec ELSE x.s
<1> DEFINE s == [x EXCEPT !.m = IF x.s >= Sec THEN @ + 1 ELSE @,
                          !.s = IF @ >= Sec THEN @ % Sec ELSE @]
           m == [s EXCEPT !.h = IF s.m = Min THEN @ + 1 ELSE @,
                          !.m = IF @ = Min THEN 0 ELSE @]
<1>1. x.s % Sec \in Int
  BY RtcConstants DEF AnyTimes
<1>2. s \in AnyTimes /\ s.day = x.day /\ s.h = x.h /\ s.m = Minute(x)
      /\ s.s = IF x.s >= Sec THEN x.s % Sec ELSE x.s
  <2>1. x.day \in Nat \cup {-1} /\ x.h \in Nat /\ x.m \in Int /\ x.s \in Int /\ Sec \in Int
    BY RtcConstants DEF AnyTimes
  <2>2. Minute(x) \in Int /\ (IF x.s >= Sec THEN x.s % Sec ELSE x.s) \in Int
    BY <1>1, <2>1 DEF Minute
  <2> DEFINE a == IF x.s >= Sec THEN x.m + 1 ELSE x.m
             b == IF x.s >= Sec THEN x.s % Sec ELSE x.s
  <2>3. s = [x EXCEPT !.m = a, !.s = b] /\ a = Minute(x)
    BY DEF Minute
  <2> HIDE DEF s, a, b
  <2>4. a \in Int /\ b \in Int
    BY <2>2, <2>3 DEF b
  <2>5. s \in AnyTimes /\ s.day = x.day /\ s.h = x.h /\ s.m = a /\ s.s = b
    BY <2>3, <2>4 DEF AnyTimes
  <2> QED
    BY <2>3, <2>5 DEF b
<1> HIDE DEF s
<1>3. /\ m \in AnyTimes /\ m.day = x.day /\ m.h = HourOf(x) /\ m.s = s.s
      /\ m.m = IF Minute(x) = Min THEN 0 ELSE Minute(x)
  <2>1. s.h \in Nat /\ s.m \in Int /\ HourOf(x) \in Nat /\ Min \in Int
    BY <1>2, RtcConstants DEF AnyTimes, HourOf
  <2> DEFINE a == IF s.m = Min THEN s.h + 1 ELSE s.h
             b == IF s.m = Min THEN 0 ELSE s.m
  <2>2. m = [s EXCEPT !.h = a, !.m = b]
    OBVIOUS
  <2>3. a = HourOf(x) /\ b = (IF Minute(x) = Min THEN 0 ELSE Minute(x)) /\ a \in Nat /\ b \in Int
    BY <1>2, <2>1 DEF HourOf
  <2> HIDE DEF m, a, b
  <2>4. m \in AnyTimes /\ m.day = s.day /\ m.h = a /\ m.m = b /\ m.s = s.s
    BY <1>2, <2>2, <2>3 DEF AnyTimes
  <2> QED
    BY <1>2, <2>3, <2>4
<1>4. Rtc!Carry(x) = [m EXCEPT !.h = IF @ = Hour THEN 0 ELSE @]
  BY DEF Rtc!Carry, s, m
<1> HIDE DEF m
<1> QED
  BY <1>2, <1>3, <1>4, RtcConstants DEF AnyTimes

(* A time up to a minute or two of seconds over, that is still of its day, *)
(* shows the same after the carry, and is valid.                           *)
LEMMA RtcCarry ==
  ASSUME NEW x \in Times, x.h < Hour, x.m \in 0 .. Min, x.s \in 0 .. 2 * Sec - 1,
         x.m = Min => x.s = 0, Rtc!Shown(x) \div Rtc!Day = x.day
  PROVE  /\ Rtc!Valid(Rtc!Carry(x)) /\ Rtc!Shown(Rtc!Carry(x)) = Rtc!Shown(x)
         /\ Rtc!Carry(x).day = x.day
<1> DEFINE d == x.day
           h == x.h
           m == x.m
           s == x.s
           v == (h * Min + m) * Sec + s
           D == Rtc!Day
<1>1. d \in Nat /\ h \in 0 .. Hour - 1 /\ m \in 0 .. Min /\ s \in 0 .. 2 * Sec - 1
  BY RtcConstants DEF Times
<1>2. Rtc!Shown(x) = d * D + v
  BY DEF Rtc!Shown, Rtc!TimeOfDay
<1>3. D = Sec * Min * Hour
  BY DEF Rtc!Day
<1>4. v < D
  <2>1. v \in Int /\ d * D \in Int /\ D \in Nat \ {0}
    BY <1>1, RtcConstants
  <2>2. (d * D + v) \div D = d
    BY <1>2
  <2> HIDE DEF v, D, d
  <2>3. d * D + v < d * D + D
    BY ONLY <1>1, <2>1, <2>2, SameQuotient
  <2> QED
    BY ONLY <2>1, <2>3
<1> DEFINE c == Rtc!Carry(x)
           m1 == Minute(x)
           h1 == HourOf(x)
<1>5. m1 = (IF s >= Sec THEN m + 1 ELSE m) /\ h1 = (IF m1 = Min THEN h + 1 ELSE h)
  BY DEF Minute, HourOf
<1>x. x \in AnyTimes
  BY RtcTimesAreTimes
<1>6. c.day = d /\ c.h = (IF h1 = Hour THEN 0 ELSE h1) /\ c.m = (IF m1 = Min THEN 0 ELSE m1)
  BY <1>x, RtcCarryFields
<1>7. c.s = IF s >= Sec THEN s - Sec ELSE s
  <2>1. ASSUME s >= Sec PROVE s % Sec = s - Sec
    <3> DEFINE q == 1
               r == s - Sec
    <3>1. q \in Int /\ r \in 0 .. Sec - 1 /\ s = q * Sec + r /\ s \in Int
      BY <2>1, <1>1, RtcConstants
    <3> HIDE DEF q, r, s
    <3>2. s % Sec = r
      BY ONLY <3>1, RtcConstants, Quotient
    <3> QED
      BY <3>2 DEF r
  <2> QED
    BY <2>1, <1>x, RtcCarryFields
<1>8. Rtc!Shown(c) = c.day * D + ((c.h * Min + c.m) * Sec + c.s)
  BY DEF Rtc!Shown, Rtc!TimeOfDay
<1> HIDE DEF c, m1, h1, D
<1>9. m1 \in 0 .. Min /\ (h1 * Min + (IF m1 = Min THEN 0 ELSE m1)) * Sec + c.s = v
  <2>1. CASE s >= Sec
    <3>1. m1 = m + 1 /\ c.s = s - Sec /\ m1 \in 0 .. Min
      BY <2>1, <1>1, <1>5, <1>7, RtcConstants
    <3>2. (h1 * Min + (IF m1 = Min THEN 0 ELSE m1)) = h * Min + m + 1
      <4>1. CASE m1 = Min
        <5>1. h1 * Min = h * Min + Min
          <6>1. h1 = h + 1
            BY <4>1, <1>5
          <6> QED
            BY <6>1, <1>1, RtcConstants
        <5> QED
          BY <4>1, <5>1, <3>1, <1>1, RtcConstants
      <4> QED
        BY <4>1, <3>1, <1>1, <1>5, RtcConstants
    <3> QED
      BY <3>1, <3>2, <1>1, RtcConstants
  <2>2. CASE s < Sec
    <3>1. m1 = m /\ c.s = s
      BY <2>2, <1>1, <1>5, <1>7, RtcConstants
    <3>2. (h1 * Min + (IF m1 = Min THEN 0 ELSE m1)) = h * Min + m
      BY <3>1, <1>1, <1>5, RtcConstants
    <3> QED
      BY <3>1, <3>2, <1>1
  <2> QED
    BY <2>1, <2>2, <1>1, RtcConstants
<1>10. c.s \in 0 .. Sec - 1
  BY <1>1, <1>7, RtcConstants
<1>11. h1 # Hour
  <2> SUFFICES ASSUME h1 = Hour PROVE FALSE
    OBVIOUS
  <2>1. m1 = Min
    BY <1>1, <1>5, RtcConstants
  <2>2. (Hour * Min) * Sec + c.s = v
    BY <2>1, <1>9, RtcConstants
  <2>3. (Hour * Min) * Sec = D
    BY <1>3, RtcConstants
  <2> HIDE DEF v
  <2> QED
    BY <2>2, <2>3, <1>4, <1>10, RtcConstants
<1>12. c.h = h1 /\ h1 \in 0 .. Hour - 1
  BY <1>1, <1>5, <1>6, <1>11, RtcConstants
<1>13. Rtc!Valid(c)
  <2>1. c.m \in 0 .. Min - 1
    BY <1>6, <1>9, RtcConstants
  <2> QED
    BY <2>1, <1>6, <1>10, <1>12 DEF Rtc!Valid
<1>14. Rtc!Shown(c) = Rtc!Shown(x)
  BY <1>2, <1>6, <1>8, <1>9, <1>12
<1> QED
  BY <1>6, <1>13, <1>14 DEF c

LEMMA RtcValidDay ==
  ASSUME NEW x \in Times, Rtc!Valid(x)
  PROVE  Rtc!Shown(x) \div Rtc!Day = x.day /\ Rtc!TimeOfDay(x) \in 0 .. Rtc!Day - 1
<1> DEFINE h == x.h
           m == x.m
           s == x.s
           k == h * Min + m
           D == Rtc!Day
<1>1. h \in 0 .. Hour - 1 /\ m \in 0 .. Min - 1 /\ s \in 0 .. Sec - 1
  BY DEF Rtc!Valid
<1>2. D = Sec * Min * Hour
  BY DEF Rtc!Day
<1>3. Rtc!TimeOfDay(x) = k * Sec + s
  BY DEF Rtc!TimeOfDay
<1> HIDE DEF h, m, s, D
<1>4. k \in 0 .. Min * Hour - 1
  BY <1>1, RtcConstants, SecondsBelow
<1> HIDE DEF k
<1>5. Min * Hour \in Nat \ {0}
  BY RtcConstants
<1>6. k * Sec + s \in 0 .. Sec * (Min * Hour) - 1
  BY <1>1, <1>4, <1>5, RtcConstants, SecondsBelow
<1>7. Rtc!TimeOfDay(x) \in 0 .. D - 1
  BY <1>2, <1>3, <1>6, RtcConstants
<1> DEFINE r == Rtc!TimeOfDay(x)
           d == x.day
<1>8. r \in 0 .. D - 1 /\ Rtc!Shown(x) = d * D + r /\ d \in Int /\ D \in Nat \ {0}
  BY <1>7, RtcConstants DEF Rtc!Shown, Times, D
<1> HIDE DEF r, d
<1>9. d * D + r \in Int
  BY <1>8
<1>10. (d * D + r) \div D = d
  BY <1>8, <1>9, Quotient
<1> QED
  BY <1>7, <1>8, <1>10 DEF d, D

LEMMA QuotientGrows ==
  ASSUME NEW a \in Int, NEW b \in Int, NEW k \in Nat \ {0}, a <= b
  PROVE  a \div k <= b \div k
<1> DEFINE p == a \div k
           q == b \div k
<1>1. /\ p \in Int /\ q \in Int
      /\ p * k <= a /\ a < p * k + k /\ q * k <= b /\ b < q * k + k
  <2>1. p \in Int /\ q \in Int
    BY Divided
  <2> QED
    BY <2>1, SameQuotient
<1> HIDE DEF p, q
<1> SUFFICES ASSUME q <= p - 1 PROVE FALSE
  BY <1>1 DEF p, q
<1>2. q * k <= (p - 1) * k
  BY <1>1, Grows
<1> QED
  BY <1>1, <1>2

LEMMA RtcRequest ==
  ASSUME RtcTypes
  PROVE  /\ req.seconds \in Int /\ req.set \in BOOLEAN /\ req.minutes_res \in BOOLEAN
         /\ Ahead \in {0, 2} /\ Rtc!Due \in Int /\ Rtc!Minutes(req.seconds) \in Int
<1>1. req.seconds \in Int /\ req.set \in BOOLEAN /\ req.minutes_res \in BOOLEAN
  BY RtcAssumption DEF RtcTypes, Rtc!ConstantsOk
<1>2. Ahead \in {0, 2}
  BY DEF Ahead
<1>3. Rtc!Due \in Int
  <2>1. start \div Sec \in Int /\ start \in Int
    BY RtcConstants, Divided DEF RtcTypes
  <2> QED
    BY <1>1, <2>1, RtcConstants DEF Rtc!Due
<1>4. Rtc!Minutes(req.seconds) \in Int
  <2>1. -req.seconds \in Int
    BY <1>1
  <2>2. req.seconds \div Sec \in Int /\ (-req.seconds) \div Sec \in Int
    BY <1>1, <2>1, RtcConstants, Divided
  <2> QED
    BY <2>2 DEF Rtc!Minutes
<1> QED
  BY <1>1, <1>2, <1>3, <1>4

(* Of a request that is served, the days of the time read, of the time set *)
(* and of the alarm are one.                                               *)
LEMMA RtcOneDay ==
  ASSUME RtcTypes, Rtc!Served
  PROVE  /\ start <= start + Ahead /\ start + Ahead <= Rtc!Due
         /\ (start + Ahead) \div Rtc!Day = start \div Rtc!Day
         /\ ~req.minutes_res => Rtc!Due = start + Ahead + req.seconds /\ req.seconds \in 0 .. Sec - 3
         /\ req.minutes_res => ~req.set /\ Ahead = 0
<1>1. ~req.minutes_res => Rtc!Due = start + Ahead + req.seconds /\ req.seconds \in 0 .. Sec - 3
  BY RtcRequest DEF Rtc!Served, Rtc!Due, Ahead, RtcTypes
<1>2. req.minutes_res => ~req.set /\ Ahead = 0
  BY DEF Rtc!Served, Ahead
<1>3. req.minutes_res => start <= Rtc!Due
  <2> SUFFICES ASSUME req.minutes_res PROVE start <= Rtc!Due
    OBVIOUS
  <2>1. Rtc!Due = (start \div Sec) * Sec + req.seconds /\ req.seconds > 0 /\ req.seconds % Sec = 0
    BY DEF Rtc!Due, Rtc!Served
  <2>2. start < (start \div Sec) * Sec + Sec
    BY RtcConstants, SameQuotient, Divided DEF RtcTypes
  <2>3. req.seconds >= Sec
    <3> SUFFICES ASSUME req.seconds < Sec PROVE FALSE
      BY RtcRequest, RtcConstants
    <3>1. req.seconds \in 0 .. Sec - 1
      BY <2>1, RtcRequest, RtcConstants
    <3>2. req.seconds = 0 * Sec + req.seconds
      BY <3>1, RtcConstants
    <3>3. req.seconds % Sec = req.seconds
      BY <3>1, <3>2, RtcRequest, RtcConstants, Quotient
    <3> QED
      BY <2>1, <3>3
  <2>4. start \div Sec \in Int
    BY RtcConstants, Divided DEF RtcTypes
  <2> DEFINE k == (start \div Sec) * Sec
  <2>5. k \in Int /\ Rtc!Due = k + req.seconds /\ start < k + Sec
    BY <2>1, <2>2, <2>4, RtcConstants
  <2> HIDE DEF k
  <2> QED
    BY <2>3, <2>5, RtcRequest, RtcConstants DEF RtcTypes
<1>4. start <= start + Ahead /\ start + Ahead <= Rtc!Due /\ start + Ahead \in Int
  <2>1. CASE req.minutes_res
    BY <2>1, <1>2, <1>3 DEF RtcTypes
  <2>2. CASE ~req.minutes_res
    BY <2>2, <1>1, RtcRequest, RtcConstants DEF RtcTypes
  <2> QED
    BY <2>1, <2>2
<1>5. (start + Ahead) \div Rtc!Day = start \div Rtc!Day
  <2> DEFINE a == start \div Rtc!Day
             b == (start + Ahead) \div Rtc!Day
             c == Rtc!Due \div Rtc!Day
  <2>1. a <= b /\ b <= c
    BY <1>4, RtcRequest, RtcConstants, QuotientGrows DEF RtcTypes
  <2>2. a = c /\ a \in Int /\ b \in Int
    BY <1>4, RtcConstants, Divided DEF Rtc!Served, RtcTypes
  <2> HIDE DEF a, b, c
  <2>3. a = b
    BY <2>1, <2>2
  <2> QED
    BY <2>3 DEF a, b
<1> QED
  BY <1>1, <1>2, <1>4, <1>5

(* The alarm time, as it is before the carry.                              *)
Uncarried ==
    IF req.minutes_res THEN [tm EXCEPT !.s = 0, !.m = @ + Rtc!Minutes(req.seconds)]
    ELSE [tm EXCEPT !.s = @ + req.seconds]
LEMMA RtcAlarmTimes ==
  ASSUME RtcTypes
  PROVE  /\ Uncarried \in AnyTimes /\ Rtc!AlarmTime = Rtc!Carry(Uncarried) /\ Rtc!AlarmTime \in AnyTimes
         /\ Uncarried.day = tm.day /\ Rtc!AlarmTime.day = tm.day
<1>1. Uncarried \in AnyTimes /\ Uncarried.day = tm.day
  <2>1. tm \in AnyTimes
    BY DEF RtcTypes
  <2>2. CASE req.minutes_res
    <3>1. PICK a \in Int : a = tm.m + Rtc!Minutes(req.seconds)
      BY <2>1, RtcRequest DEF AnyTimes
    <3>2. Uncarried = [tm EXCEPT !.s = 0, !.m = a]
      BY <2>2, <3>1 DEF Uncarried
    <3>3. ASSUME NEW x \in AnyTimes, NEW b \in Int
          PROVE  [x EXCEPT !.s = b, !.m = a] \in AnyTimes /\ [x EXCEPT !.s = b, !.m = a].day = x.day
      BY DEF AnyTimes
    <3>4. 0 \in Int
      OBVIOUS
    <3> QED
      BY <2>1, <3>2, <3>3, <3>4, Zenon
  <2>3. CASE ~req.minutes_res
    BY <2>1, <2>3, RtcRequest DEF Uncarried, AnyTimes
  <2> QED
    BY <2>2, <2>3
<1>2. Rtc!AlarmTime = Rtc!Carry(Uncarried)
  BY DEF Rtc!AlarmTime, Uncarried
<1> QED
  BY <1>1, <1>2, RtcCarryFields

LEMMA RtcAlarmIsDue ==
  ASSUME RtcTypes, WasRead, Rtc!Served, Rtc!Valid(tm), Rtc!Shown(tm) = start + Ahead,
         ~req.set => tm = Rtc!Tm(start)
  PROVE  Rtc!Valid(Rtc!AlarmTime) /\ Rtc!Shown(Rtc!AlarmTime) = Rtc!Due
<1> DEFINE x == Uncarried
<1>1. tm \in Times /\ x \in Times /\ Rtc!AlarmTime = Rtc!Carry(x)
  <2>1. tm \in AnyTimes /\ tm.day # -1 /\ x \in AnyTimes /\ x.day = tm.day
    BY RtcAlarmTimes DEF RtcTypes, WasRead
  <2> HIDE DEF x
  <2> QED
    BY <2>1, RtcDates, RtcAlarmTimes DEF x
<1>2. tm.h \in 0 .. Hour - 1 /\ tm.m \in 0 .. Min - 1 /\ tm.s \in 0 .. Sec - 1 /\ tm.day \in Nat
  BY <1>1 DEF Rtc!Valid, Times
<1>3. Rtc!Due \div Rtc!Day = tm.day
  <2>1. Rtc!Shown(tm) \div Rtc!Day = tm.day
    BY <1>1, RtcValidDay
  <2>2. (start + Ahead) \div Rtc!Day = start \div Rtc!Day
    BY RtcOneDay
  <2>3. Rtc!Due \div Rtc!Day = start \div Rtc!Day
    BY DEF Rtc!Served
  <2> QED
    BY <2>1, <2>2, <2>3
<1>4. x.h < Hour /\ x.m \in 0 .. Min /\ x.s \in 0 .. 2 * Sec - 1 /\ (x.m = Min => x.s = 0)
      /\ x.day = tm.day /\ Rtc!Shown(x) = Rtc!Due
  <2>1. CASE ~req.minutes_res
    <3>1. x = [tm EXCEPT !.s = tm.s + req.seconds]
      BY <2>1 DEF Uncarried
    <3>2. x.h = tm.h /\ x.m = tm.m /\ x.day = tm.day /\ x.s = tm.s + req.seconds
      BY <3>1, <1>1 DEF Times
    <3>3. Rtc!Due = start + Ahead + req.seconds /\ req.seconds \in 0 .. Sec - 3
      BY <2>1, RtcOneDay
    <3>4. Rtc!Shown(x) = Rtc!Shown(tm) + req.seconds
      <4> DEFINE k == (tm.h * Min + tm.m) * Sec
                 d == tm.day * Rtc!Day
      <4>1. k \in Int /\ d \in Int
        BY <1>2, RtcConstants
      <4>2. Rtc!Shown(x) = d + (k + (tm.s + req.seconds)) /\ Rtc!Shown(tm) = d + (k + tm.s)
        BY <3>2 DEF Rtc!Shown, Rtc!TimeOfDay
      <4> HIDE DEF k, d
      <4> QED
        BY <4>1, <4>2, <3>3, <1>2, RtcConstants
    <3>5. start + Ahead \in Int
      BY RtcRequest DEF RtcTypes
    <3> QED
      BY <3>2, <3>3, <3>4, <3>5, <1>2, RtcConstants
  <2>2. CASE req.minutes_res
    <3> DEFINE k == req.seconds \div Sec
               q == start \div Sec
    <3>1. req.seconds > 0 /\ req.seconds % Sec = 0 /\ tm.m + k <= Min /\ tm = Rtc!Tm(start)
      BY <2>2, RtcOneDay DEF Rtc!Served
    <3>2. k \in Int /\ req.seconds = k * Sec
      <4>1. req.seconds % Sec = req.seconds - Sec * k /\ k \in Int
        BY RtcRequest, RtcConstants, Divided
      <4> HIDE DEF k
      <4> QED
        BY <4>1, <3>1, RtcRequest, RtcConstants
    <3>3. k >= 0
      <4> HIDE DEF k
      <4> SUFFICES ASSUME k <= 0 PROVE FALSE
        BY <3>2
      <4>1. k * Sec <= 0 * Sec
        BY <3>2, RtcConstants, Grows
      <4> QED
        BY <3>1, <3>2, <4>1, RtcConstants
    <3>4. Rtc!Minutes(req.seconds) = k
      BY <3>1, RtcRequest DEF Rtc!Minutes
    <3>5. x.h = tm.h /\ x.m = tm.m + k /\ x.day = tm.day /\ x.s = 0
      <4>1. x = [tm EXCEPT !.s = 0, !.m = tm.m + k]
        BY <2>2, <3>4 DEF Uncarried
      <4> HIDE DEF k, x
      <4> QED
        BY <4>1, <1>1, <3>2 DEF Times
    <3>6. q = (tm.day * Hour + tm.h) * Min + tm.m
      BY <3>1, RtcTm DEF RtcTypes
    <3>7. Rtc!Due = q * Sec + k * Sec
      BY <2>2, <3>2 DEF Rtc!Due
    <3>8. Rtc!Shown(x) = tm.day * (Sec * Min * Hour) + ((tm.h * Min + (tm.m + k)) * Sec + 0)
      BY <3>5 DEF Rtc!Shown, Rtc!TimeOfDay, Rtc!Day
    <3> DEFINE d == tm.day
               h == tm.h
               m == tm.m
    <3> HIDE DEF k, q, x
    <3>9. Rtc!Shown(x) = Rtc!Due
      <4>1. d \in Nat /\ h \in Int /\ m \in Int
        BY <1>2
      <4>2. /\ q = (d * Hour + h) * Min + m /\ Rtc!Due = q * Sec + k * Sec
            /\ Rtc!Shown(x) = d * (Sec * Min * Hour) + ((h * Min + (m + k)) * Sec + 0)
        BY <3>6, <3>7, <3>8
      <4> HIDE DEF d, h, m
      <4> QED
        BY ONLY <4>1, <4>2, <3>2, RtcConstants
    <3> QED
      BY <3>1, <3>2, <3>3, <3>5, <3>9, <1>2, RtcConstants
  <2> QED
    BY <2>1, <2>2
<1>5. Rtc!Shown(x) \div Rtc!Day = x.day
  BY <1>3, <1>4
<1> HIDE DEF x
<1> QED
  BY <1>1, <1>4, <1>5, RtcCarry

(* RTC_ALM_SET rings today or later.                                       *)
LEMMA RtcNextAt ==
  ASSUME RtcTypes, WasRead, Rtc!Served, Rtc!Valid(Rtc!AlarmTime), rtc >= start,
         Rtc!Shown(Rtc!AlarmTime) = Rtc!Due
  PROVE  Rtc!NextAt(Rtc!TimeOfDay(Rtc!AlarmTime)) >= Rtc!Due
<1> DEFINE tod == Rtc!TimeOfDay(Rtc!AlarmTime)
           d == Rtc!AlarmTime.day
           e == rtc \div Rtc!Day
<1>1. Rtc!AlarmTime \in Times
  BY RtcAlarmTimes, RtcDates DEF WasRead
<1>2. tod \in 0 .. Rtc!Day - 1 /\ d = Rtc!Due \div Rtc!Day
  BY <1>1, RtcValidDay
<1>3. d <= e /\ e \in Int /\ d \in Int
  <2>1. d = start \div Rtc!Day
    BY <1>2 DEF Rtc!Served
  <2>2. start \in Int /\ rtc \in Int /\ start <= rtc
    BY DEF RtcTypes
  <2>3. start \div Rtc!Day <= e /\ start \div Rtc!Day \in Int /\ e \in Int
    BY <2>2, RtcConstants, QuotientGrows, Divided
  <2> QED
    BY <2>1, <2>3
<1>4. Rtc!Due = d * Rtc!Day + tod
  BY DEF Rtc!Shown
<1>5. Rtc!NextAt(tod) \in {e * Rtc!Day + tod, e * Rtc!Day + tod + Rtc!Day}
  BY DEF Rtc!NextAt
<1> HIDE DEF tod, d, e
<1>6. d * Rtc!Day <= e * Rtc!Day /\ d * Rtc!Day \in Int /\ e * Rtc!Day \in Int
  BY <1>3, RtcConstants, Grows
<1> QED
  BY <1>2, <1>4, <1>5, <1>6, RtcConstants DEF tod

LEMMA RtcShownIsNat ==
  ASSUME NEW x \in Times, Rtc!Valid(x)
  PROVE  Rtc!Shown(x) \in Nat /\ Rtc!TimeOfDay(x) \in Nat
<1>1. Rtc!TimeOfDay(x) \in Nat
  BY RtcValidDay, RtcConstants
<1>2. x.day * Rtc!Day \in Nat
  BY RtcConstants DEF Times
<1> QED
  BY <1>1, <1>2 DEF Rtc!Shown

LEMMA RtcTimeOfDayIsNat ==
  ASSUME NEW x, Rtc!Valid(x) PROVE Rtc!TimeOfDay(x) \in Nat
<1>1. x.h \in Nat /\ x.m \in Nat /\ x.s \in Nat
  BY RtcConstants DEF Rtc!Valid
<1>2. x.h * Min \in Nat
  BY <1>1, RtcConstants
<1>3. (x.h * Min + x.m) * Sec \in Nat
  BY <1>1, <1>2, RtcConstants
<1> QED
  BY <1>1, <1>3 DEF Rtc!TimeOfDay

LEMMA RtcNextAtIsNat ==
  ASSUME RtcTypes, NEW tod \in Nat
  PROVE  Rtc!NextAt(tod) \in Nat
<1>1. rtc \div Rtc!Day \in Nat
  <2>1. 0 <= rtc \div Rtc!Day /\ rtc \div Rtc!Day \in Int
    <3>1. 0 \div Rtc!Day = 0
      BY RtcConstants, SameQuotient
    <3>2. 0 \in Int /\ rtc \in Int /\ 0 <= rtc
      BY DEF RtcTypes
    <3>3. 0 \div Rtc!Day <= rtc \div Rtc!Day
      BY <3>2, RtcConstants, QuotientGrows
    <3>4. rtc \div Rtc!Day \in Int
      BY <3>2, RtcConstants, Divided
    <3> QED
      BY <3>1, <3>3, <3>4
  <2> QED
    BY <2>1
<1>2. (rtc \div Rtc!Day) * Rtc!Day \in Nat
  BY <1>1, RtcConstants
<1> QED
  BY <1>2, RtcConstants DEF Rtc!NextAt

LEMMA RtcOutcome ==
  ASSUME RtcTypes, faults' = faults \/ Rtc!Fault
  PROVE  faults' \in 0 .. RtcFaults /\ (faults' = 0 => faults = 0)
  BY RtcConstants DEF RtcTypes, Rtc!Fault

LEMMA RtcTimeReadTypes ==
  ASSUME RtcTypes, Rtc!TimeRead PROVE RtcTypes'
<1>1. Rtc!Tm(rtc) \in Times /\ Rtc!Tm(0) \in Times
  BY RtcTm DEF RtcTypes
<1>2. [Rtc!Tm(0) EXCEPT !.day = Rtc!NoDate] \in AnyTimes
  BY <1>1 DEF Times, AnyTimes, Rtc!NoDate
<1>3. tm' \in AnyTimes
  BY <1>1, <1>2, RtcTimesAreTimes DEF Rtc!TimeRead
<1>4. faults' = faults \/ Rtc!Fault
  BY DEF Rtc!TimeRead
<1> QED
  BY <1>3, <1>4, RtcOutcome DEF RtcTypes, Rtc!TimeRead, Rtc!clock

\* the clock two seconds ahead
Later == [tm EXCEPT !.s = @ + 2]
LEMMA RtcTimeSetTypes ==
  ASSUME RtcTypes, Rtc!TimeSet PROVE RtcTypes'
<1>1. CASE ~req.set
  BY <1>1 DEF RtcTypes, Rtc!TimeSet
<1>2. CASE req.set
  <2>1. Later \in AnyTimes
    BY DEF Later, RtcTypes, AnyTimes
  <2>2. Rtc!Carry(Later) \in AnyTimes
    BY <2>1, RtcCarryFields
  <2>3. PICK ok \in BOOLEAN :
            /\ IF Rtc!Dated(Rtc!Carry(Later)) THEN Rtc!Outcome(ok) ELSE ~ok /\ UNCHANGED faults
            /\ tm' = Rtc!Carry(Later)
            /\ rtc' = IF ok THEN Rtc!Shown(Rtc!Carry(Later)) ELSE rtc
            /\ results' = IF ok THEN results \cup {"set"} ELSE results
    BY <1>2 DEF Rtc!TimeSet, Later
  <2>4. faults' = faults \/ Rtc!Fault
    BY <2>3 DEF Rtc!Outcome
  <2>5. rtc' \in Nat
    <3>1. CASE ok
      <4>1. Rtc!Dated(Rtc!Carry(Later))
        BY <2>3, <3>1
      <4>2. Rtc!Valid(Rtc!Carry(Later)) /\ Rtc!Carry(Later) \in Times
        BY <2>2, <4>1, RtcDates
      <4> QED
        BY <2>3, <3>1, <4>2, RtcShownIsNat
    <3>2. CASE ~ok
      BY <2>3, <3>2 DEF RtcTypes
    <3> QED
      BY <3>1, <3>2
  <2>6. results' \in SUBSET {"set", "alarm", "irq"}
    BY <2>3 DEF RtcTypes
  <2>7. pc' = "alarm" /\ UNCHANGED <<req, alarm, left, start, delay>>
    BY DEF Rtc!TimeSet
  <2> QED
    BY <2>2, <2>3, <2>4, <2>5, <2>6, <2>7, RtcOutcome DEF RtcTypes
<1> QED
  BY <1>1, <1>2

LEMMA RtcAlarmSetTypes ==
  ASSUME RtcTypes, Rtc!AlarmSet PROVE RtcTypes'
<1>1. CASE ~(req.alarm \/ req.irq)
  BY <1>1 DEF RtcTypes, Rtc!AlarmSet
<1>2. CASE req.alarm \/ req.irq
  <2> DEFINE x == Rtc!AlarmTime
             next == Rtc!NextAt(Rtc!TimeOfDay(x))
  <2>1. x \in AnyTimes
    BY RtcAlarmTimes
  <2>2. PICK ok \in BOOLEAN :
            /\ IF Rtc!Valid(x) THEN Rtc!Outcome(ok) ELSE ~ok /\ UNCHANGED faults
            /\ tm' = x
            /\ alarm' = IF ok THEN [on |-> TRUE, at |-> next] ELSE alarm
            /\ results' = IF ok THEN results \cup {"alarm"} ELSE results
    BY <1>2 DEF Rtc!AlarmSet
  <2>3. faults' = faults \/ Rtc!Fault
    BY <2>2 DEF Rtc!Outcome
  <2>4. ok => next \in Nat
    BY <2>2, RtcTimeOfDayIsNat, RtcNextAtIsNat
  <2> HIDE DEF x, next
  <2>5. alarm' \in [on : BOOLEAN, at : Nat]
    BY <2>2, <2>4 DEF RtcTypes
  <2>6. results' \in SUBSET {"set", "alarm", "irq"}
    BY <2>2 DEF RtcTypes
  <2>7. pc' = "irq" /\ UNCHANGED <<req, rtc, left, start, delay>>
    BY DEF Rtc!AlarmSet
  <2> QED
    BY <2>1, <2>2, <2>3, <2>5, <2>6, <2>7, RtcOutcome DEF RtcTypes
<1> QED
  BY <1>1, <1>2

LEMMA RtcIrqTypes ==
  ASSUME RtcTypes, Rtc!Irq PROVE RtcTypes'
<1>1. left' \in Int
  <2>1. Rtc!Tm(rtc).s \in Int
    BY RtcTm DEF RtcTypes, Times
  <2>2. Rtc!Timeout \in Int
    BY <2>1, RtcRequest DEF Rtc!Timeout
  <2>3. left' \in {Rtc!Timeout, left} \cup Rtc!AnyTimeout
    BY DEF Rtc!Irq
  <2> QED
    BY <2>2, <2>3, RtcConstants DEF RtcTypes, Rtc!AnyTimeout
<1>2. faults' = faults \/ Rtc!Fault
  BY DEF Rtc!Irq
<1>3. alarm' \in [on : BOOLEAN, at : Nat]
  <2>1. Rtc!Dated(tm) => Rtc!Shown(tm) \in Nat
    BY RtcShownIsNat, RtcDates DEF RtcTypes
  <2>2. alarm' = alarm \/ (Rtc!Dated(tm) /\ alarm' = [on |-> TRUE, at |-> Rtc!Shown(tm)])
    BY DEF Rtc!Irq
  <2>3. CASE alarm' = alarm
    BY <2>3 DEF RtcTypes
  <2>4. CASE Rtc!Dated(tm) /\ alarm' = [on |-> TRUE, at |-> Rtc!Shown(tm)]
    <3> DEFINE n == Rtc!Shown(tm)
    <3>1. n \in Nat
      BY <2>1, <2>4
    <3>2. alarm' = [on |-> TRUE, at |-> n]
      BY <2>4
    <3> HIDE DEF n
    <3> QED
      BY <3>1, <3>2
  <2> QED
    BY <2>2, <2>3, <2>4
<1>4. pc' \in {"done", "select"} /\ UNCHANGED <<req, rtc, tm, results, start, delay>>
  BY DEF Rtc!Irq
<1> QED
  BY <1>1, <1>2, <1>3, <1>4, RtcOutcome DEF RtcTypes

LEMMA RtcSelectTypes ==
  ASSUME RtcTypes, Rtc!Select PROVE RtcTypes'
<1>1. pc' \in {"disable", "exit"} /\ UNCHANGED <<req, rtc, alarm, tm, left, start, delay, faults>>
  BY DEF Rtc!Select
<1>2. results' \in SUBSET {"set", "alarm", "irq"}
  BY DEF Rtc!Select, RtcTypes
<1> QED
  BY <1>1, <1>2 DEF RtcTypes

LEMMA RtcDisableTypes ==
  ASSUME RtcTypes, Rtc!Disable PROVE RtcTypes'
<1>1. PICK ok \in BOOLEAN :
        /\ Rtc!Outcome(ok)
        /\ alarm' = IF ok THEN [alarm EXCEPT !.on = FALSE] ELSE alarm
        /\ results' = IF ok THEN results ELSE results \ {"irq"}
  BY DEF Rtc!Disable
<1>2. faults' = faults \/ Rtc!Fault
  BY <1>1 DEF Rtc!Outcome
<1>3. alarm' \in [on : BOOLEAN, at : Nat]
  BY <1>1 DEF RtcTypes
<1>4. results' \in SUBSET {"set", "alarm", "irq"}
  BY <1>1 DEF RtcTypes
<1>5. pc' = "done" /\ UNCHANGED <<req, rtc, tm, left, start, delay>>
  BY DEF Rtc!Disable
<1> QED
  BY <1>2, <1>3, <1>4, <1>5, RtcOutcome DEF RtcTypes

LEMMA RtcTickTypes ==
  ASSUME RtcTypes, Rtc!Tick PROVE RtcTypes'
<1>1. /\ (delay < MaxDelay /\ delay' = delay + 1 /\ left' = left) \/ (left' = left - 1 /\ delay' = delay)
      /\ rtc' = rtc + 1 /\ UNCHANGED <<pc, req, alarm, tm, results, start, faults>>
  BY DEF Rtc!Tick
<1> QED
  BY <1>1, RtcConstants DEF RtcTypes

LEMMA RtcTypesStep ==
  ASSUME RtcTypes, pending \in BOOLEAN, Rtc!Next
  PROVE  RtcTypes' /\ pending' \in BOOLEAN
<1>1. CASE Rtc!TimeRead
  BY <1>1, RtcTimeReadTypes DEF Rtc!TimeRead, Rtc!clock
<1>2. CASE Rtc!TimeSet
  BY <1>2, RtcTimeSetTypes DEF Rtc!TimeSet
<1>3. CASE Rtc!AlarmSet
  BY <1>3, RtcAlarmSetTypes DEF Rtc!AlarmSet
<1>4. CASE Rtc!Irq
  BY <1>4, RtcIrqTypes DEF Rtc!Irq
<1>5. CASE Rtc!Select
  BY <1>5, RtcSelectTypes DEF Rtc!Select
<1>6. CASE Rtc!Disable
  BY <1>6, RtcDisableTypes DEF Rtc!Disable
<1>7. CASE Rtc!Tick
  <2>1. RtcTypes'
    BY <1>7, RtcTickTypes
  <2>2. pending' \in BOOLEAN
    BY <1>7, Zenon DEF Rtc!Tick
  <2> QED
    BY <2>1, <2>2
<1>8. CASE Rtc!Terminated
  BY <1>8 DEF Rtc!Terminated, Rtc!vars, RtcTypes
<1> QED
  BY <1>1, <1>2, <1>3, <1>4, <1>5, <1>6, <1>7, <1>8 DEF Rtc!Next, Rtc!Program

(* The date is read once and never advanced, and a call that has failed    *)
(* is not forgotten.                                                       *)
LEMMA RtcDateKept ==
  ASSUME RtcTypes, Rtc!Next, pc # "read"
  PROVE  tm'.day = tm.day /\ pc' # "read" /\ (faults' = 0 => faults = 0)
<1>1. CASE Rtc!TimeSet
  <2>1. tm' \in {tm, Rtc!Carry(Later)} /\ pc' = "alarm"
    BY <1>1 DEF Rtc!TimeSet, Later
  <2>2. Rtc!Carry(Later).day = Later.day /\ Later.day = tm.day
    <3>1. Later \in AnyTimes /\ Later.day = tm.day
      BY DEF Later, RtcTypes, AnyTimes
    <3> QED
      BY <3>1, RtcCarryFields
  <2>3. faults' = faults \/ Rtc!Fault
    BY <1>1 DEF Rtc!TimeSet, Rtc!Outcome
  <2> QED
    BY <2>1, <2>2, <2>3, RtcOutcome
<1>2. CASE Rtc!AlarmSet
  <2>1. tm' \in {tm, Rtc!AlarmTime} /\ pc' = "irq"
    BY <1>2 DEF Rtc!AlarmSet
  <2>2. faults' = faults \/ Rtc!Fault
    BY <1>2 DEF Rtc!AlarmSet, Rtc!Outcome
  <2> QED
    BY <2>1, <2>2, RtcAlarmTimes, RtcOutcome
<1>3. CASE Rtc!Irq
  <2>1. tm' = tm /\ pc' \in {"done", "select"} /\ (faults' = faults \/ Rtc!Fault)
    BY <1>3 DEF Rtc!Irq
  <2> QED
    BY <2>1, RtcOutcome
<1>4. CASE Rtc!Select
  BY <1>4 DEF Rtc!Select
<1>5. CASE Rtc!Disable
  <2>1. tm' = tm /\ pc' = "done" /\ (faults' = faults \/ Rtc!Fault)
    BY <1>5 DEF Rtc!Disable, Rtc!Outcome
  <2> QED
    BY <2>1, RtcOutcome
<1>6. CASE Rtc!Tick \/ Rtc!Terminated
  BY <1>6 DEF Rtc!Tick, Rtc!Terminated, Rtc!vars
<1> QED
  BY <1>1, <1>2, <1>3, <1>4, <1>5, <1>6 DEF Rtc!Next, Rtc!Program, Rtc!TimeRead

LEMMA RtcPlacesStep ==
  ASSUME RtcTypes, pending \in BOOLEAN, RtcPlaces, Rtc!Next
  PROVE  RtcPlaces'
<1>0. ASSUME pc # "read"
      PROVE  (WasRead' <=> WasRead) /\ pc' # "read" /\ (faults' = 0 => WasRead')
  BY <1>0, RtcDateKept DEF WasRead, RtcPlaces
<1>1. CASE Rtc!TimeRead
  <2>1. pc = "read" /\ pc' = "set" /\ start' = rtc /\ UNCHANGED <<req, rtc, alarm, pending, results, delay>>
    BY <1>1 DEF Rtc!TimeRead, Rtc!clock
  <2>2. \/ tm' = Rtc!Tm(rtc) /\ WasRead'
        \/ ~WasRead' /\ faults' # 0
    <3>1. CASE tm' = Rtc!Tm(rtc)
      <4>1. Rtc!Tm(rtc).day \in Nat
        BY RtcTm DEF RtcTypes, Times
      <4> QED
        BY <3>1, <4>1 DEF WasRead
    <3>2. CASE tm' = [Rtc!Tm(0) EXCEPT !.day = Rtc!NoDate] /\ Rtc!Fault
      <4>1. tm'.day = -1
        BY <3>2 DEF Rtc!Tm, Rtc!NoDate
      <4>2. faults' # 0
        BY <3>2 DEF Rtc!Fault, RtcTypes
      <4> QED
        BY <4>1, <4>2 DEF WasRead
    <3> QED
      BY <1>1, <3>1, <3>2 DEF Rtc!TimeRead
  <2>3. Rtc!Tm(start)' = Rtc!Tm(rtc)
    BY <2>1 DEF Rtc!Tm
  <2>4. rtc' = start' + delay'
    BY <2>1 DEF RtcPlaces, RtcTypes
  <2> QED
    BY <2>1, <2>2, <2>3, <2>4 DEF RtcPlaces
<1>2. CASE Rtc!TimeSet
  <2>1. pc' = "alarm" /\ UNCHANGED <<req, alarm, pending, start>> /\ pc = "set"
    BY <1>2 DEF Rtc!TimeSet
  <2>2. ~req.set => tm' = tm
    BY <1>2 DEF Rtc!TimeSet
  <2>3. results' \in {results, results \cup {"set"}}
    BY <1>2 DEF Rtc!TimeSet
  <2>4. Rtc!Tm(start)' = Rtc!Tm(start)
    BY <2>1 DEF Rtc!Tm
  <2> QED
    BY <1>0, <2>1, <2>2, <2>3, <2>4 DEF RtcPlaces
<1>3. CASE Rtc!AlarmSet
  <2>1. pc' = "irq" /\ UNCHANGED <<req, pending, start>> /\ pc = "alarm"
    BY <1>3 DEF Rtc!AlarmSet
  <2>2. results' \in {results, results \cup {"alarm"}}
    BY <1>3 DEF Rtc!AlarmSet
  <2> QED
    BY <1>0, <2>1, <2>2 DEF RtcPlaces
<1>4. CASE Rtc!Irq
  <2>1. pc = "irq" /\ pc' \in {"done", "select"} /\ UNCHANGED <<req, results>>
    BY <1>4 DEF Rtc!Irq
  <2>2. pc' = "select" => req.irq /\ WasRead
    BY <1>4 DEF Rtc!Irq, Rtc!Dated, Rtc!NoDate, WasRead
  <2> QED
    BY <1>0, <2>1, <2>2 DEF RtcPlaces
<1>5. CASE Rtc!Select
  <2>1. pc = "select" /\ pc' \in {"disable", "exit"} /\ UNCHANGED req
    BY <1>5 DEF Rtc!Select
  <2> QED
    BY <1>0, <2>1 DEF RtcPlaces
<1>6. CASE Rtc!Disable
  <2>1. pc = "disable" /\ pc' = "done"
    BY <1>6 DEF Rtc!Disable
  <2> QED
    BY <1>0, <2>1 DEF RtcPlaces
<1>7. CASE Rtc!Tick
  <2>1. UNCHANGED <<pc, req, alarm, tm, results, start>> /\ rtc' = rtc + 1 /\ pc \in {"set", "alarm", "irq", "select"}
    BY <1>7 DEF Rtc!Tick
  <2>2. pc = "set" => delay' = delay + 1
    BY <1>7 DEF Rtc!Tick
  <2>3. ~pending /\ ~alarm.on => ~pending'
    BY <1>7, Zenon DEF Rtc!Tick
  <2>4. start \in Nat /\ delay \in Nat
    BY DEF RtcTypes
  <2>5. Rtc!Tm(start)' = Rtc!Tm(start)
    BY <2>1 DEF Rtc!Tm
  <2> QED
    BY <1>0, <2>1, <2>2, <2>3, <2>4, <2>5 DEF RtcPlaces
<1>8. CASE Rtc!Terminated
  BY <1>8 DEF Rtc!Terminated, Rtc!vars, RtcPlaces, WasRead, Rtc!Tm
<1> QED
  BY <1>1, <1>2, <1>3, <1>4, <1>5, <1>6, <1>7, <1>8 DEF Rtc!Next, Rtc!Program

(* What the request asks for does not change once the time has been read.  *)
LEMMA RtcRequestKept ==
  ASSUME UNCHANGED <<req, start>>
  PROVE  /\ Rtc!Due' = Rtc!Due /\ Rtc!Served' = Rtc!Served /\ Ahead' = Ahead
  BY DEF Rtc!Due, Rtc!Served, Ahead, Rtc!Tm

(* What each step keeps of it.                                             *)
LEMMA RtcTimeReadKeeps ==
  ASSUME RtcTypes, RtcPlaces, Rtc!TimeRead PROVE RtcKept'
<1>1. pc' = "set" /\ start' = rtc /\ rtc' = rtc /\ UNCHANGED <<alarm, pending, results>> /\ pc = "read"
  BY DEF Rtc!TimeRead, Rtc!clock
<1> QED
  BY <1>1 DEF RtcKept, RtcTypes, RtcPlaces, RtcTimes, RtcRings, RtcWaits

LEMMA RtcSetsTime ==
  ASSUME RtcTypes, RtcPlaces, WasRead, pc = "set", (start + 2) \div Rtc!Day = start \div Rtc!Day
  PROVE  Rtc!Valid(Rtc!Carry(Later)) /\ Rtc!Shown(Rtc!Carry(Later)) = start + 2
<1> DEFINE x == Later
<1>1. tm = Rtc!Tm(start) /\ start \in Nat /\ tm \in Times
  BY RtcDates DEF RtcPlaces, RtcTypes, WasRead
<1>2. Rtc!Valid(tm) /\ Rtc!Shown(tm) = start /\ tm.day = start \div Rtc!Day
  BY <1>1, RtcTm
<1>3. tm.h \in 0 .. Hour - 1 /\ tm.m \in 0 .. Min - 1 /\ tm.s \in 0 .. Sec - 1 /\ tm.day \in Nat
  BY <1>1, <1>2 DEF Rtc!Valid, Times
<1>4. x \in Times /\ x.h = tm.h /\ x.m = tm.m /\ x.day = tm.day /\ x.s = tm.s + 2
  BY <1>1 DEF Later, Times
<1>5. Rtc!Shown(x) = start + 2
  <2> DEFINE k == (tm.h * Min + tm.m) * Sec
             d == tm.day * Rtc!Day
  <2>1. k \in Int /\ d \in Int
    BY <1>3, RtcConstants
  <2>2. Rtc!Shown(x) = d + (k + (tm.s + 2)) /\ start = d + (k + tm.s)
    BY <1>2, <1>4 DEF Rtc!Shown, Rtc!TimeOfDay
  <2> HIDE DEF k, d
  <2> QED
    BY <2>1, <2>2, <1>3, RtcConstants
<1>6. Rtc!Shown(x) \div Rtc!Day = x.day
  BY <1>2, <1>4, <1>5
<1> HIDE DEF x
<1>7. x.s \in 0 .. 2 * Sec - 1 /\ x.h < Hour /\ x.m \in 0 .. Min /\ x.m # Min
  BY <1>3, <1>4, RtcConstants
<1> QED
  BY <1>4, <1>5, <1>6, <1>7, RtcCarry DEF x

LEMMA RtcTimeSetKeeps ==
  ASSUME RtcTypes, RtcPlaces, RtcKept, Rtc!TimeSet PROVE RtcKept'
<1>1. pc' = "alarm" /\ UNCHANGED <<req, alarm, pending, start, delay>> /\ pc = "set"
  BY DEF Rtc!TimeSet
<1>0. WasRead' <=> WasRead
  BY <1>1, RtcDateKept DEF WasRead, Rtc!Next, Rtc!Program
<1> SUFFICES ASSUME Rtc!Served, WasRead PROVE RtcTimes' /\ RtcRings'
  BY <1>0, <1>1, RtcRequestKept DEF RtcKept, RtcWaits
<1>2. rtc = start + delay /\ start \in Nat /\ delay \in Nat /\ faults \in Nat
  BY <1>1, RtcConstants DEF RtcPlaces, RtcTypes
<1>3. RtcRings'
  <2>1. results' \in {results, results \cup {"set"}}
    BY DEF Rtc!TimeSet
  <2> QED
    BY <1>1, <2>1 DEF RtcRings, RtcPlaces
<1>4. CASE ~req.set
  <2>1. rtc' = rtc /\ tm' = tm /\ faults' = faults /\ Ahead = 0
    BY <1>4 DEF Rtc!TimeSet, Ahead
  <2>2. Rtc!Valid(tm) /\ Rtc!Shown(tm) = start
    BY <1>1, <1>2, RtcTm DEF RtcPlaces
  <2>3. Rtc!Valid(tm)' /\ Rtc!Shown(tm)' = start
    BY <2>1, <2>2 DEF Rtc!Valid, Rtc!Shown, Rtc!TimeOfDay
  <2>4. Ahead' = 0 /\ rtc' >= start' /\ rtc' <= start' + delay'
    BY <1>1, <1>2, <2>1, RtcRequestKept
  <2>5. RtcTimes'
    BY <1>1, <1>2, <2>3, <2>4 DEF RtcTimes
  <2> QED
    BY <1>3, <2>5
<1>5. CASE req.set
  <2>1. Rtc!Valid(Rtc!Carry(Later)) /\ Rtc!Shown(Rtc!Carry(Later)) = start + 2
    <3>1. Ahead = 2
      BY <1>5 DEF Ahead
    <3>2. (start + 2) \div Rtc!Day = start \div Rtc!Day
      BY <3>1, RtcOneDay
    <3> QED
      BY <1>1, <3>2, RtcSetsTime
  <2>2. PICK ok \in BOOLEAN :
            /\ IF Rtc!Dated(Rtc!Carry(Later)) THEN Rtc!Outcome(ok) ELSE ~ok /\ UNCHANGED faults
            /\ tm' = Rtc!Carry(Later)
            /\ rtc' = IF ok THEN Rtc!Shown(Rtc!Carry(Later)) ELSE rtc
    BY <1>5 DEF Rtc!TimeSet, Later
  <2>3. ok \/ faults' = faults + 1
    <3>1. Later \in AnyTimes /\ Later.day = tm.day
      BY DEF Later, RtcTypes, AnyTimes
    <3>2. Rtc!Dated(Rtc!Carry(Later))
      BY <2>1, <3>1, RtcCarryFields, RtcDates DEF WasRead
    <3> QED
      BY <2>2, <3>2 DEF Rtc!Outcome, Rtc!Fault
  <2>4. rtc' = start + 2 \/ (rtc' = rtc /\ faults' # 0)
    BY <1>2, <2>1, <2>2, <2>3
  <2>5. Rtc!Valid(tm)' /\ Rtc!Shown(tm)' = start + 2
    BY <2>1, <2>2 DEF Rtc!Valid, Rtc!Shown, Rtc!TimeOfDay
  <2>6. Ahead' = 2
    BY <1>1, <1>5, RtcRequestKept DEF Ahead
  <2>7. RtcTimes'
    BY <1>1, <1>2, <2>4, <2>5, <2>6 DEF RtcTimes
  <2> QED
    BY <1>3, <2>7
<1> QED
  BY <1>4, <1>5

LEMMA RtcAlarmSetKeeps ==
  ASSUME RtcTypes, RtcPlaces, RtcKept, Rtc!AlarmSet PROVE RtcKept'
<1>1. pc' = "irq" /\ UNCHANGED <<req, rtc, pending, start, delay>> /\ pc = "alarm"
  BY DEF Rtc!AlarmSet
<1>0. WasRead' <=> WasRead
  BY <1>1, RtcDateKept DEF WasRead, Rtc!Next, Rtc!Program
<1> SUFFICES ASSUME Rtc!Served, WasRead PROVE RtcTimes' /\ RtcRings'
  BY <1>0, <1>1, RtcRequestKept DEF RtcKept, RtcWaits
<1>2. RtcTimes
  BY <1>1 DEF RtcKept
<1>3. Rtc!Due' = Rtc!Due /\ Ahead' = Ahead
  BY <1>1, RtcRequestKept
<1>4. faults' = 0 => faults = 0
  <2>1. faults' = faults \/ Rtc!Fault
    BY DEF Rtc!AlarmSet, Rtc!Outcome
  <2> QED
    BY <2>1, RtcOutcome
<1>5. CASE ~(req.alarm \/ req.irq)
  <2>1. UNCHANGED <<alarm, tm, results, faults>>
    BY <1>5 DEF Rtc!AlarmSet
  <2>2. RtcTimes'
    BY <1>1, <1>2, <1>3, <1>5, <2>1 DEF RtcTimes
  <2>3. RtcRings'
    BY <1>1, <2>1 DEF RtcRings, RtcPlaces
  <2> QED
    BY <2>2, <2>3
<1>6. CASE req.alarm \/ req.irq
  <2> DEFINE x == Rtc!AlarmTime
             next == Rtc!NextAt(Rtc!TimeOfDay(x))
  <2>1. Rtc!Valid(tm) /\ Rtc!Shown(tm) = start + Ahead /\ (~req.set => tm = Rtc!Tm(start)) /\ rtc >= start
    BY <1>1, <1>2 DEF RtcTimes, RtcPlaces
  <2>2. Rtc!Valid(x) /\ Rtc!Shown(x) = Rtc!Due
    BY <2>1, RtcAlarmIsDue
  <2>3. next >= Rtc!Due
    BY <2>1, <2>2, RtcNextAt
  <2>4. tm' = x /\ alarm' \in {alarm, [on |-> TRUE, at |-> next]} /\ results' \in {results, results \cup {"alarm"}}
    BY <1>6 DEF Rtc!AlarmSet
  <2>5. Rtc!Valid(tm)' /\ Rtc!Shown(tm)' = Rtc!Due
    <3> HIDE DEF x
    <3> QED
      BY <2>2, <2>4 DEF Rtc!Valid, Rtc!Shown, Rtc!TimeOfDay
  <2> HIDE DEF x, next
  <2>6. RtcTimes'
    BY <1>1, <1>2, <1>3, <1>4, <2>5 DEF RtcTimes
  <2>7. RtcRings'
    <3>1. alarm'.on => alarm'.at >= Rtc!Due
      BY <1>1, <2>3, <2>4 DEF RtcPlaces
    <3> QED
      BY <1>1, <1>3, <2>4, <3>1 DEF RtcRings, RtcPlaces
  <2> QED
    BY <2>6, <2>7
<1> QED
  BY <1>5, <1>6

LEMMA RtcInTimeKept ==
  ASSUME RtcTypes, UNCHANGED <<req, start>>, delay' \in Nat, delay' >= delay
  PROVE  Rtc!InTime' => Rtc!InTime
<1>1. Rtc!Due' = Rtc!Due /\ Rtc!Due \in Int /\ start \in Nat /\ delay \in Nat /\ req.seconds \in Int
  BY RtcRequestKept, RtcRequest DEF RtcTypes
<1>2. CASE req.minutes_res
  <2>1. req'.minutes_res /\ start' = start
    BY <1>2
  <2>2. Rtc!InTime' => start + delay' < Rtc!Due
    BY <1>1, <2>1 DEF Rtc!InTime
  <2>3. start + delay' < Rtc!Due => start + delay < Rtc!Due
    <3>1. ASSUME NEW a \in Nat, NEW b \in Nat, NEW c \in Nat, NEW d \in Int, b <= c, a + c < d
          PROVE  a + b < d
      BY <3>1
    <3>2. delay <= delay'
      BY <1>1
    <3> QED
      BY <1>1, <3>1, <3>2, Zenon
  <2> QED
    BY <1>2, <2>2, <2>3 DEF Rtc!InTime
<1>3. CASE ~req.minutes_res
  BY <1>1, <1>3 DEF Rtc!InTime
<1> QED
  BY <1>2, <1>3

(* Before it waits, the clock has not come to the alarm, and the timeout   *)
(* goes two seconds beyond it.                                             *)
LEMMA RtcInTimeWaits ==
  ASSUME RtcTypes, RtcTimes, Rtc!Served, Rtc!InTime, pc = "irq", faults = 0
  PROVE  rtc < Rtc!Due /\ rtc + Rtc!Timeout >= Rtc!Due + 2
<1>1. /\ rtc <= start + Ahead + delay /\ rtc >= start + Ahead
      /\ rtc \in Nat /\ start \in Nat /\ delay \in Nat /\ req.seconds \in Int /\ Rtc!Due \in Int
      /\ Ahead \in {0, 2}
  BY RtcRequest DEF RtcTimes, RtcTypes
<1>2. CASE ~req.minutes_res
  <2>1. Rtc!Due = start + Ahead + req.seconds /\ delay < req.seconds
    BY <1>2, RtcOneDay DEF Rtc!InTime
  <2>2. Rtc!Timeout = 2 + req.seconds
    BY <1>2 DEF Rtc!Timeout
  <2> QED
    BY <1>1, <2>1, <2>2
<1>3. CASE req.minutes_res
  <2>1. start + delay < Rtc!Due /\ Ahead = 0
    BY <1>3, RtcOneDay DEF Rtc!InTime
  <2> DEFINE p == start \div Sec
             q == rtc \div Sec
             r == rtc % Sec
  <2>2. Rtc!Due = p * Sec + req.seconds
    BY <1>3 DEF Rtc!Due
  <2>3. Rtc!Timeout = 2 + (req.seconds - r)
    <3>1. Rtc!Tm(rtc).s = r
      BY <1>1, RtcTm
    <3> QED
      BY <1>3, <3>1 DEF Rtc!Timeout
  <2>4. start \in Int /\ rtc \in Int /\ start <= rtc
    BY <1>1, <2>1
  <2>5. p \in Int /\ q \in Int /\ r = rtc - Sec * q
    BY <2>4, RtcConstants, Divided
  <2>6. p <= q
    BY <2>4, RtcConstants, QuotientGrows
  <2> HIDE DEF p, q, r
  <2>7. p * Sec <= q * Sec
    BY <2>5, <2>6, RtcConstants, Grows
  <2>8. p * Sec \in Int /\ q * Sec \in Int /\ Sec * q = q * Sec
    BY <2>5, RtcConstants
  <2> DEFINE a == p * Sec
             b == q * Sec
  <2>9. a <= b /\ a \in Int /\ b \in Int /\ r = rtc - b /\ Rtc!Due = a + req.seconds
    BY <2>2, <2>5, <2>7, <2>8
  <2> HIDE DEF a, b
  <2> QED
    BY <1>1, <2>1, <2>3, <2>9
<1> QED
  BY <1>2, <1>3

LEMMA RtcIrqKeeps ==
  ASSUME RtcTypes, RtcPlaces, RtcKept, Rtc!Irq PROVE RtcKept'
<1>1. pc' \in {"done", "select"} /\ UNCHANGED <<req, rtc, pending, tm, results, start, delay>> /\ pc = "irq"
  BY DEF Rtc!Irq
<1>2. /\ Rtc!Due' = Rtc!Due /\ Rtc!Served' = Rtc!Served /\ Ahead' = Ahead /\ Rtc!InTime' = Rtc!InTime
  BY <1>1, RtcRequestKept DEF Rtc!InTime
<1>3. \/ Rtc!Dated(tm) /\ alarm' = [on |-> TRUE, at |-> Rtc!Shown(tm)] /\ pc' = "select" /\ req.irq
         /\ ((left' = Rtc!Timeout /\ faults' = faults) \/ faults' = faults + 1)
      \/ (req.irq => ~Rtc!Dated(tm) \/ Rtc!Shown(tm) <= rtc)
         /\ pc' = "done" /\ UNCHANGED <<alarm, faults>>
      \/ faults' = faults + 1 /\ UNCHANGED alarm /\ pc' = "done"
  BY DEF Rtc!Irq, Rtc!Fault
<1>0. WasRead' <=> WasRead
  BY <1>1 DEF WasRead
<1>4. ASSUME Rtc!Served, WasRead PROVE RtcTimes' /\ RtcRings'
  <2>1. RtcTimes /\ RtcRings
    BY <1>1, <1>4 DEF RtcKept
  <2>2. RtcTimes'
    BY <1>1, <2>1 DEF RtcTimes
  <2>3. alarm'.on => alarm'.at >= Rtc!Due
    <3>1. CASE alarm' = alarm
      BY <2>1, <3>1 DEF RtcRings
    <3>2. CASE alarm' = [on |-> TRUE, at |-> Rtc!Shown(tm)] /\ req.irq
      <4>1. Rtc!Shown(tm) = Rtc!Due
        BY <1>1, <2>1, <3>2 DEF RtcTimes
      <4> QED
        BY <3>2, <4>1, RtcRequest
    <3> QED
      BY <1>3, <3>1, <3>2
  <2>4. RtcRings'
    BY <1>1, <1>2, <2>1, <2>3 DEF RtcRings
  <2> QED
    BY <2>2, <2>4
<1>5. ASSUME Rtc!Served, faults' = 0, req.irq, Rtc!InTime PROVE RtcWaits'
  <2>1. faults = 0 /\ faults' = faults /\ WasRead
    BY <1>1, <1>3, <1>5 DEF RtcTypes, RtcPlaces
  <2>2. RtcTimes
    BY <1>1, <1>5, <2>1 DEF RtcKept
  <2>3. rtc < Rtc!Due /\ rtc + Rtc!Timeout >= Rtc!Due + 2
    BY <1>1, <1>5, <2>1, <2>2, RtcInTimeWaits
  <2>4. Rtc!Dated(tm) /\ Rtc!Shown(tm) = Rtc!Due
    BY <1>1, <1>5, <2>1, <2>2, RtcDates DEF RtcTimes, RtcTypes, WasRead
  <2>5. ~(Rtc!Shown(tm) <= rtc)
    BY <2>3, <2>4, RtcRequest DEF RtcTypes
  <2>6. alarm' = [on |-> TRUE, at |-> Rtc!Shown(tm)] /\ pc' = "select" /\ left' = Rtc!Timeout
    BY <1>3, <1>5, <2>1, <2>4, <2>5 DEF RtcTypes
  <2>7. rtc <= Rtc!Due
    BY <2>3, RtcRequest DEF RtcTypes
  <2> QED
    BY <1>1, <1>2, <2>3, <2>4, <2>6, <2>7 DEF RtcWaits
<1> QED
  BY <1>0, <1>1, <1>2, <1>4, <1>5 DEF RtcKept

LEMMA RtcSelectKeeps ==
  ASSUME RtcTypes, RtcPlaces, RtcKept, Rtc!Select PROVE RtcKept'
<1>1. pc' \in {"disable", "exit"} /\ UNCHANGED <<req, rtc, alarm, tm, left, start, delay, faults>>
      /\ pc = "select"
  BY DEF Rtc!Select
<1>2. /\ Rtc!Due' = Rtc!Due /\ Rtc!Served' = Rtc!Served /\ Ahead' = Ahead /\ Rtc!InTime' = Rtc!InTime
  BY <1>1, RtcRequestKept DEF Rtc!InTime
<1>3. \/ pending /\ results' = results \cup {"irq"} /\ pc' = "disable" /\ pending' = FALSE
      \/ ~pending /\ left = 0 /\ pc' = "disable" /\ UNCHANGED <<results, pending>>
      \/ pc' = "exit" /\ UNCHANGED <<results, pending>>
  BY DEF Rtc!Select
<1>0. WasRead' <=> WasRead
  BY <1>1 DEF WasRead
<1>4. ASSUME Rtc!Served, WasRead PROVE RtcTimes' /\ RtcRings'
  <2>1. RtcTimes /\ RtcRings
    BY <1>1, <1>4 DEF RtcKept
  <2>2. RtcTimes'
    BY <1>1, <2>1 DEF RtcTimes
  <2>3. RtcRings'
    BY <1>1, <1>2, <1>3, <2>1 DEF RtcRings
  <2> QED
    BY <2>2, <2>3
<1>5. ASSUME Rtc!Served, faults' = 0, req.irq, Rtc!InTime PROVE RtcWaits'
  <2>1. (pending \/ rtc <= Rtc!Due) /\ rtc + left >= Rtc!Due + 2
    BY <1>1, <1>5 DEF RtcKept, RtcWaits
  <2>2. ~pending => left # 0
    BY <2>1, RtcRequest DEF RtcTypes
  <2> QED
    BY <1>1, <1>3, <2>2 DEF RtcWaits
<1> QED
  BY <1>0, <1>1, <1>2, <1>4, <1>5 DEF RtcKept

LEMMA RtcDisableKeeps ==
  ASSUME RtcTypes, RtcPlaces, RtcKept, Rtc!Disable PROVE RtcKept'
<1>1. pc' = "done" /\ UNCHANGED <<req, rtc, pending, tm, left, start, delay>> /\ pc = "disable"
  BY DEF Rtc!Disable
<1>2. /\ Rtc!Due' = Rtc!Due /\ Rtc!Served' = Rtc!Served /\ Ahead' = Ahead /\ Rtc!InTime' = Rtc!InTime
  BY <1>1, RtcRequestKept DEF Rtc!InTime
<1>3. \/ faults' = faults /\ alarm' = [alarm EXCEPT !.on = FALSE] /\ results' = results
      \/ faults' = faults + 1 /\ alarm' = alarm /\ results' = results \ {"irq"}
  BY DEF Rtc!Disable, Rtc!Outcome, Rtc!Fault
<1>0. WasRead' <=> WasRead
  BY <1>1 DEF WasRead
<1>4. ASSUME Rtc!Served, WasRead PROVE RtcTimes' /\ RtcRings'
  <2>1. RtcTimes /\ RtcRings
    BY <1>1, <1>4 DEF RtcKept
  <2>2. RtcTimes'
    BY <1>1, <2>1 DEF RtcTimes
  <2>3. RtcRings'
    BY <1>1, <1>2, <1>3, <2>1 DEF RtcRings, RtcTypes
  <2> QED
    BY <2>2, <2>3
<1>5. ASSUME Rtc!Served, faults' = 0, req.irq, Rtc!InTime PROVE RtcWaits'
  <2>1. faults = 0 /\ faults' = faults
    BY <1>3, <1>5 DEF RtcTypes
  <2>2. "irq" \in results
    BY <1>1, <1>5, <2>1 DEF RtcKept, RtcWaits
  <2>3. alarm'.on = FALSE /\ results' = results
    BY <1>3, <1>5, <2>1 DEF RtcTypes
  <2> QED
    BY <1>1, <2>2, <2>3 DEF RtcWaits
<1> QED
  BY <1>0, <1>1, <1>2, <1>4, <1>5 DEF RtcKept

LEMMA RtcTickKeeps ==
  ASSUME RtcTypes, pending \in BOOLEAN, RtcPlaces, RtcKept, Rtc!Tick PROVE RtcKept'
<1>1. UNCHANGED <<pc, req, alarm, tm, results, start, faults>> /\ rtc' = rtc + 1
  BY DEF Rtc!Tick
<1>2. \/ pc \in {"set", "alarm", "irq"} /\ delay' = delay + 1 /\ left' = left
      \/ pc = "select" /\ ~pending /\ left' = left - 1 /\ delay' = delay
  BY DEF Rtc!Tick
<1>3. pending' => pending \/ (alarm.on /\ (alarm.at = rtc' \/ alarm.at + 1 = rtc'))
  BY Zenon DEF Rtc!Tick
<1>4. alarm.on /\ alarm.at + 1 = rtc' => pending'
  <2> SUFFICES ASSUME alarm.on, alarm.at + 1 = rtc' PROVE pending'
    OBVIOUS
  <2>1. ~(alarm.at = rtc')
    BY DEF RtcTypes
  <2> QED
    BY <2>1, Zenon DEF Rtc!Tick
<1>5. Rtc!Due' = Rtc!Due /\ Rtc!Served' = Rtc!Served /\ Ahead' = Ahead
  BY <1>1, RtcRequestKept
<1>6. rtc \in Nat /\ start \in Nat /\ delay \in Nat /\ left \in Int /\ alarm.at \in Nat
      /\ Rtc!Due \in Int /\ Ahead \in {0, 2}
  BY RtcRequest DEF RtcTypes
<1>0. WasRead' <=> WasRead
  BY <1>1 DEF WasRead
<1>7. ASSUME Rtc!Served, WasRead, pc # "read" PROVE RtcTimes' /\ RtcRings'
  <2>1. RtcTimes /\ RtcRings
    BY <1>7 DEF RtcKept
  <2>2. RtcTimes'
    <3>1. (Rtc!Valid(tm) <=> Rtc!Valid(tm)') /\ Rtc!Shown(tm)' = Rtc!Shown(tm)
      BY <1>1 DEF Rtc!Valid, Rtc!Shown, Rtc!TimeOfDay
    <3>2. rtc' >= start' /\ (pc' \in {"alarm", "irq"} => rtc' <= start' + Ahead' + delay')
      BY <1>1, <1>2, <1>5, <1>6, <2>1 DEF RtcTimes
    <3>3. pc' \in {"alarm", "irq"} /\ faults' = 0 => rtc' >= start' + Ahead'
      BY <1>1, <1>2, <1>5, <1>6, <2>1 DEF RtcTimes
    <3>4. pc' = "alarm" => Rtc!Valid(tm)' /\ Rtc!Shown(tm)' = start' + Ahead'
      BY <1>1, <1>5, <3>1, <2>1 DEF RtcTimes
    <3>5. pc' = "irq" /\ (req'.alarm \/ req'.irq) => Rtc!Valid(tm)' /\ Rtc!Shown(tm)' = Rtc!Due'
      BY <1>1, <1>5, <3>1, <2>1 DEF RtcTimes
    <3> QED
      BY <3>2, <3>3, <3>4, <3>5 DEF RtcTimes
  <2>3. RtcRings'
    <3>1. alarm'.on => alarm'.at >= Rtc!Due'
      BY <1>1, <1>5, <2>1 DEF RtcRings
    <3>2. "irq" \in results' => rtc' >= Rtc!Due'
      BY <1>1, <1>5, <1>6, <2>1 DEF RtcRings
    <3>3. pending' => rtc' >= Rtc!Due'
      BY <1>1, <1>3, <1>5, <1>6, <2>1 DEF RtcRings
    <3> QED
      BY <3>1, <3>2, <3>3 DEF RtcRings
  <2> QED
    BY <2>2, <2>3
<1>8. ASSUME Rtc!Served, faults' = 0, req.irq, Rtc!InTime', pc # "read" PROVE RtcWaits'
  <2>1. Rtc!InTime
    BY <1>1, <1>2, <1>6, <1>8, RtcInTimeKept
  <2>2. RtcWaits
    BY <1>1, <1>8, <2>1 DEF RtcKept
  <2>3. CASE pc = "select"
    <3>1. alarm.on /\ alarm.at = Rtc!Due /\ rtc <= Rtc!Due /\ rtc + left >= Rtc!Due + 2
      BY <1>2, <2>2, <2>3 DEF RtcWaits
    <3>2. pending' \/ rtc' <= Rtc!Due
      BY <1>1, <1>4, <1>6, <3>1
    <3>3. rtc' + left' >= Rtc!Due + 2
      BY <1>1, <1>2, <1>6, <2>3, <3>1
    <3> QED
      BY <1>1, <1>5, <2>3, <3>1, <3>2, <3>3 DEF RtcWaits
  <2> QED
    BY <1>1, <1>2, <2>3 DEF RtcWaits
<1> QED
  BY <1>0, <1>1, <1>5, <1>7, <1>8 DEF RtcKept

LEMMA RtcInitial == Rtc!Init => RtcInv
<1> SUFFICES ASSUME Rtc!Init PROVE RtcInv
  OBVIOUS
<1>1. rtc \in Nat
  BY RtcConstants DEF Rtc!Init
<1>2. tm \in Times
  BY RtcTm DEF Rtc!Init
<1>3. RtcTypes
  BY <1>1, <1>2, RtcConstants, RtcTimesAreTimes DEF RtcTypes, Rtc!Init
<1> QED
  BY <1>3 DEF Rtc!Init, RtcInv, RtcPlaces, RtcKept

LEMMA RtcStep == RtcInv /\ Rtc!Next => RtcInv'
<1> SUFFICES ASSUME RtcInv, Rtc!Next PROVE RtcInv'
  OBVIOUS
<1>1. RtcTypes /\ pending \in BOOLEAN /\ RtcPlaces /\ RtcKept
  BY DEF RtcInv
<1>2. RtcTypes' /\ pending' \in BOOLEAN
  BY <1>1, RtcTypesStep
<1>3. RtcPlaces'
  BY <1>1, RtcPlacesStep
<1>4. CASE Rtc!Terminated
  <2>1. UNCHANGED <<pc, req, rtc, alarm, pending, tm, left, results, start, delay, faults>>
    BY <1>4 DEF Rtc!Terminated, Rtc!vars
  <2>2. /\ Rtc!Due' = Rtc!Due /\ Rtc!Served' = Rtc!Served /\ Ahead' = Ahead /\ Rtc!InTime' = Rtc!InTime
    BY <2>1, RtcRequestKept DEF Rtc!InTime
  <2>3. RtcKept'
    BY <1>1, <1>4, <2>1, <2>2 DEF RtcKept, RtcTimes, RtcRings, RtcWaits, WasRead, Rtc!Terminated
  <2> QED
    BY <1>2, <1>3, <2>3 DEF RtcInv
<1>5. CASE ~Rtc!Terminated
  <2>1. RtcKept'
    BY <1>1, <1>5, RtcTimeReadKeeps, RtcTimeSetKeeps, RtcAlarmSetKeeps, RtcIrqKeeps, RtcSelectKeeps,
       RtcDisableKeeps, RtcTickKeeps, Zenon DEF Rtc!Next, Rtc!Program
  <2> QED
    BY <1>2, <1>3, <2>1 DEF RtcInv
<1> QED
  BY <1>4, <1>5

LEMMA RtcSafe ==
  RtcInv => Rtc!TypeOK /\ Rtc!AlarmRings /\ Rtc!NotTooEarly /\ Rtc!AlarmOffAtEnd
<1> SUFFICES ASSUME RtcInv PROVE Rtc!TypeOK /\ Rtc!AlarmRings /\ Rtc!NotTooEarly /\ Rtc!AlarmOffAtEnd
  OBVIOUS
<1>1. Rtc!TypeOK
  BY DEF RtcInv, RtcTypes, AnyTimes, Rtc!TypeOK, Rtc!NoDate
<1>2. Rtc!AlarmRings /\ Rtc!AlarmOffAtEnd
  BY DEF RtcInv, RtcKept, RtcWaits, Rtc!AlarmRings, Rtc!AlarmOffAtEnd
<1>3. Rtc!NotTooEarly
  BY DEF RtcInv, RtcPlaces, RtcKept, RtcRings, Rtc!NotTooEarly
<1> QED
  BY <1>1, <1>2, <1>3

LEMMA RtcClockGoesOn == RtcInv => Rtc!ClockGoesOn
<1> SUFFICES ASSUME RtcInv, Rtc!TimeSet, req.set, faults' = faults, delay <= 2,
                    (start + 2) \div Rtc!Day = start \div Rtc!Day
             PROVE  rtc' >= rtc
  BY DEF Rtc!ClockGoesOn
<1>1. pc = "set" /\ RtcTypes /\ RtcPlaces
  BY DEF Rtc!TimeSet, RtcInv
<1>2. rtc = start + delay /\ start \in Nat /\ delay \in Nat /\ faults \in Nat
  BY <1>1, RtcConstants DEF RtcPlaces, RtcTypes
<1>3. PICK ok \in BOOLEAN :
          /\ IF Rtc!Dated(Rtc!Carry(Later)) THEN Rtc!Outcome(ok) ELSE ~ok /\ UNCHANGED faults
          /\ rtc' = IF ok THEN Rtc!Shown(Rtc!Carry(Later)) ELSE rtc
  BY DEF Rtc!TimeSet, Later
<1>4. CASE ~ok
  BY <1>2, <1>3, <1>4
<1>5. CASE ok
  <2>1. Later \in AnyTimes /\ Later.day = tm.day
    BY <1>1 DEF Later, RtcTypes, AnyTimes
  <2>2. WasRead
    <3>1. Rtc!Dated(Rtc!Carry(Later))
      BY <1>3, <1>5
    <3> QED
      BY <2>1, <3>1, RtcCarryFields, RtcDates DEF WasRead
  <2>3. Rtc!Shown(Rtc!Carry(Later)) = start + 2
    BY <1>1, <2>2, RtcSetsTime
  <2> QED
    BY <1>2, <1>3, <1>5, <2>3
<1> QED
  BY <1>4, <1>5

-----------------------------------------------------------------------------
(***************************************************************************)
(* All programs.  What is true of a program stays true as long as its      *)
(* variables do not change.                                                *)
(***************************************************************************)
LEMMA WatchdogStill == WatchdogInv /\ UNCHANGED Watchdog!vars => WatchdogInv'
  BY DEF WatchdogInv, WatchdogCount, Watchdog!TypeOK, Watchdog!At, Watchdog!Alive, Watchdog!vars

LEMMA BatteryStill == BatteryInv /\ UNCHANGED Battery!vars => BatteryInv'
  BY DEF BatteryInv, Battery!TypeOK, Battery!ParentWaits, Battery!vars

LEMMA WirelessStill == WirelessInv /\ UNCHANGED Wireless!vars => WirelessInv'
<1> SUFFICES ASSUME WirelessInv, UNCHANGED Wireless!vars PROVE WirelessInv'
  OBVIOUS
<1> USE DEF WirelessInv, Wireless!vars
<1>1. WirelessSwitches'
  BY DEF WirelessSwitches
<1>2. WirelessTypes'
  BY DEF WirelessTypes
<1>3. WirelessFiles'
  BY DEF WirelessFiles
<1>4. WirelessTries'
  BY DEF WirelessTries
<1>5. Wireless!LoadedWithOwnFiles'
  BY DEF Wireless!LoadedWithOwnFiles
<1> QED
  BY <1>1, <1>2, <1>3, <1>4, <1>5

LEMMA BluezStill == BluezInv /\ UNCHANGED Bluez!vars => BluezInv'
<1> SUFFICES ASSUME BluezInv, UNCHANGED Bluez!vars PROVE BluezInv'
  OBVIOUS
<1> USE DEF BluezInv, Bluez!vars
<1>1. BluezPlaces'
  BY DEF BluezPlaces, QcaPlaces, Ar3kPlaces
<1>2. BluezCounts'
  BY DEF BluezCounts
<1>3. BluezSwitches'
  BY DEF BluezSwitches
<1> QED
  BY <1>1, <1>2, <1>3

LEMMA SysfsStill == SysfsInv /\ UNCHANGED Sysfs!vars => SysfsInv'
<1> SUFFICES ASSUME SysfsInv, UNCHANGED Sysfs!vars PROVE SysfsInv'
  OBVIOUS
<1> USE DEF SysfsInv, Sysfs!vars
<1>1. SysfsTypes'
  BY DEF SysfsTypes
<1>2. SysfsSwitches'
  BY DEF SysfsSwitches
<1>3. SysfsLed'
  BY DEF SysfsLed, Waiting
<1>4. SysfsEdges'
  BY DEF SysfsEdges
<1>5. SysfsLate'
  BY DEF SysfsLate, Waiting
<1>6. Sysfs!NothingLeftExported'
  BY DEF Sysfs!NothingLeftExported
<1> QED
  BY <1>1, <1>2, <1>3, <1>4, <1>5, <1>6

LEMMA BtTypesStill == BtTypes /\ BtSwitches /\ UNCHANGED Bt!vars => BtTypes' /\ BtSwitches'
  BY DEF Bt!vars, BtTypes, BtPlaces, BtData, BtSwitches

LEMMA BtStill == BtInv /\ UNCHANGED Bt!vars => BtInv'
<1> SUFFICES ASSUME BtInv, UNCHANGED Bt!vars PROVE BtInv'
  OBVIOUS
<1> USE DEF BtInv, Bt!vars
<1>1. BtTypes' /\ BtSwitches'
  BY BtTypesStill
<1>2. BtConnection'
  BY DEF BtConnection, Refused, Before
<1>3. BtResults'
  BY DEF BtResults, Refused, Before
<1>4. heard' => BtOrder'
  BY DEF BtOrder, Refused, Before
<1>5. heard' => BtAmount'
  BY DEF BtAmount, Refused, Before, Under, BtSent
<1> QED
  BY <1>1, <1>2, <1>3, <1>4, <1>5

LEMMA CanStill == CanInv /\ UNCHANGED Can!vars => CanInv'
<1> SUFFICES ASSUME CanInv, UNCHANGED Can!vars PROVE CanInv'
  OBVIOUS
<1>1. UNCHANGED <<main_opts, main, cnt, thread, queue, got, clean, faults>>
  BY DEF Can!vars
<1>2. CanTypes /\ CanKept
  BY DEF CanInv, CanKept
<1>3. CanTypes'
  BY <1>1, <1>2, CanSame DEF CanTypes
<1>4. ASSUME NEW t \in {"tx", "rx"}, NEW n \in Can!Index PROVE MainOk(t, n)'
  BY <1>1, <1>2 DEF CanKept, CanMains, MainOk
<1>5. CanKept'
  BY <1>1, <1>2, <1>3, <1>4, CanDataKept, CanKeptIf
<1>6. clean' \in BOOLEAN
  BY <1>1, Zenon DEF CanInv
<1> QED
  BY <1>3, <1>5, <1>6 DEF CanInv, CanKept

LEMMA GpioStill == GpioInv /\ UNCHANGED Gpio!vars => GpioInv'
<1> SUFFICES ASSUME GpioInv, UNCHANGED Gpio!vars PROVE GpioInv'
  OBVIOUS
<1> USE DEF Gpio!vars, Gpio!client
<1>1. GpioTypes' /\ GpioPlaces' /\ GpioCount' /\ GpioSamples'
  BY DEF GpioInv, GpioTypes, GpioPlaces, GpioCount, GpioSamples, Step, Gpio!SeesPress
<1>2. GpioSwitches'
  BY Zenon DEF GpioInv, GpioSwitches
<1> QED
  BY <1>1, <1>2 DEF GpioInv

LEMMA RtcStill == RtcInv /\ UNCHANGED Rtc!vars => RtcInv'
<1> SUFFICES ASSUME RtcInv, UNCHANGED Rtc!vars PROVE RtcInv'
  OBVIOUS
<1>1. UNCHANGED <<pc, req, rtc, alarm, pending, tm, left, results, start, delay, faults>>
  BY DEF Rtc!vars
<1>2. /\ Rtc!Due' = Rtc!Due /\ Rtc!Served' = Rtc!Served /\ Ahead' = Ahead /\ Rtc!InTime' = Rtc!InTime
  BY <1>1, RtcRequestKept DEF Rtc!InTime
<1>3. RtcKept'
  BY <1>1, <1>2 DEF RtcInv, RtcKept, RtcTimes, RtcRings, RtcWaits, WasRead, Rtc!Valid, Rtc!Shown, Rtc!TimeOfDay
<1>4. RtcTypes' /\ RtcPlaces' /\ pending' \in BOOLEAN
  BY <1>1 DEF RtcInv, RtcTypes, RtcPlaces, WasRead, Rtc!Tm
<1> QED
  BY <1>3, <1>4 DEF RtcInv

(* The daemon keeps its types also when seconds pass in between.           *)
BatteryTypes == Battery!TypeOK /\ (child \in {"set_up", "kill"} => ppid # "unset")
LEMMA BatteryTypesInitial == Battery!Init => BatteryTypes
  BY BatteryAssumption DEF Battery!Init, BatteryTypes, Battery!TypeOK, Battery!Off

LEMMA BatteryTypesStep == BatteryTypes /\ Battery!Next => BatteryTypes'
<1> SUFFICES ASSUME BatteryTypes, Battery!Next PROVE BatteryTypes'
  OBVIOUS
<1> USE BatteryAssumption
    DEF BatteryTypes, Battery!TypeOK, Battery!Off, Battery!Fault, Battery!Signalled
<1>1. CASE Battery!Parent
  BY <1>1 DEF Battery!Parent, Battery!AlreadyDaemon, Battery!Fork, Battery!Alarm, Battery!Pause
<1>2. CASE Battery!GetPpid
  BY <1>2 DEF Battery!GetPpid
<1>3. CASE Battery!SetUp
  BY <1>3 DEF Battery!SetUp
<1>4. CASE Battery!Tell
  BY <1>4 DEF Battery!Tell
<1>5. CASE Battery!Tick
  <2>1. timer' \in Battery!Off .. 2
    BY <1>5 DEF Battery!Tick
  <2> QED
    BY <1>5, <2>1 DEF Battery!Tick
<1>6. CASE Battery!Terminated
  BY <1>6 DEF Battery!Terminated, Battery!vars
<1> QED
  BY <1>1, <1>2, <1>3, <1>4, <1>5, <1>6 DEF Battery!Next, Battery!Child

LEMMA BatteryTypesStill == BatteryTypes /\ UNCHANGED Battery!vars => BatteryTypes'
  BY DEF BatteryTypes, Battery!TypeOK, Battery!vars

(***************************************************************************)
(* The invariant of the program that runs.  What bt_test promises beyond   *)
(* its types rests on sockets that block, as those of the program do, and  *)
(* what the daemon promises on its processes being prompt.                 *)
(***************************************************************************)
Names == {"can_test", "bt_test", "watchdog_test", "rtc_test", "gpio_sysfs_test", "gpio_test",
          "battery_test", "atheros.sh", "bluez-init"}
BtAll == BtTypes /\ BtSwitches /\ (Blocking => BtInv)
BatteryAll == BatteryTypes /\ (Prompt => BatteryInv)
IInv ==
    /\ program \in Names /\ program \in Programs
    /\ program = "can_test" => CanInv
    /\ program = "bt_test" => BtAll
    /\ program = "watchdog_test" => WatchdogInv
    /\ program = "rtc_test" => RtcInv
    /\ program = "gpio_sysfs_test" => SysfsInv
    /\ program = "gpio_test" => GpioInv
    /\ program = "battery_test" => BatteryAll
    /\ program = "atheros.sh" => WirelessInv
    /\ program = "bluez-init" => BluezInv

LEMMA BtAllInitial == Bt!Init => BtAll
  BY BtInitial DEF BtAll, BtInv
LEMMA BtAllStep == BtAll /\ Bt!Next => BtAll'
<1> SUFFICES ASSUME BtAll, Bt!Next PROVE BtAll'
  OBVIOUS
<1>1. BtTypes' /\ BtSwitches'
  BY BtTypesStep DEF BtAll
<1>2. Blocking => BtInv'
  BY BtStep DEF BtAll
<1> QED
  BY <1>1, <1>2 DEF BtAll
LEMMA BtAllStill == BtAll /\ UNCHANGED Bt!vars => BtAll'
<1> SUFFICES ASSUME BtAll, UNCHANGED Bt!vars PROVE BtAll'
  OBVIOUS
<1>1. BtTypes' /\ BtSwitches'
  BY BtTypesStill DEF BtAll
<1>2. Blocking => BtInv'
  BY BtStill DEF BtAll
<1> QED
  BY <1>1, <1>2 DEF BtAll

LEMMA BatteryAllInitial == Battery!Init => BatteryAll
  BY BatteryInitial, BatteryTypesInitial DEF BatteryAll
LEMMA BatteryAllStep == BatteryAll /\ Battery!Next => BatteryAll'
<1> SUFFICES ASSUME BatteryAll, Battery!Next PROVE BatteryAll'
  OBVIOUS
<1>1. BatteryTypes'
  BY BatteryTypesStep DEF BatteryAll
<1>2. Prompt => BatteryInv'
  BY BatteryStep DEF BatteryAll
<1> QED
  BY <1>1, <1>2 DEF BatteryAll
LEMMA BatteryAllStill == BatteryAll /\ UNCHANGED Battery!vars => BatteryAll'
<1> SUFFICES ASSUME BatteryAll, UNCHANGED Battery!vars PROVE BatteryAll'
  OBVIOUS
<1>1. BatteryTypes'
  BY BatteryTypesStill DEF BatteryAll
<1>2. Prompt => BatteryInv'
  BY BatteryStill DEF BatteryAll
<1> QED
  BY <1>1, <1>2 DEF BatteryAll

LEMMA AllInitial == Init => IInv
<1> SUFFICES ASSUME Init PROVE IInv
  OBVIOUS
<1>1. \/ program = "can_test" /\ Can!Init
      \/ program = "bt_test" /\ Bt!Init
      \/ program = "watchdog_test" /\ Watchdog!Init
      \/ program = "rtc_test" /\ Rtc!Init
      \/ program = "gpio_sysfs_test" /\ Sysfs!Init
      \/ program = "gpio_test" /\ Gpio!Init
      \/ program = "battery_test" /\ Battery!Init
      \/ program = "atheros.sh" /\ Wireless!Init
      \/ program = "bluez-init" /\ Bluez!Init
  BY Zenon DEF Init
<1>2. /\ Can!Init => CanInv
      /\ Bt!Init => BtAll
      /\ Watchdog!Init => WatchdogInv
      /\ Rtc!Init => RtcInv
      /\ Sysfs!Init => SysfsInv
      /\ Gpio!Init => GpioInv
      /\ Battery!Init => BatteryAll
      /\ Wireless!Init => WirelessInv
      /\ Bluez!Init => BluezInv
  BY CanInitial, BtAllInitial, WatchdogInitial, RtcInitial, SysfsInitial, GpioInitial,
     BatteryAllInitial, WirelessInitial, BluezInitial, Zenon
<1>3. program \in Programs
  BY DEF Init
<1> QED
  BY <1>1, <1>2, <1>3 DEF IInv, Names

LEMMA AllStep == IInv /\ Next => IInv'
<1> SUFFICES ASSUME IInv, Next PROVE IInv'
  OBVIOUS
<1>1. \/ program = "can_test" /\ Can!Next
      \/ program = "bt_test" /\ Bt!Next
      \/ program = "watchdog_test" /\ Watchdog!Next
      \/ program = "rtc_test" /\ Rtc!Next
      \/ program = "gpio_sysfs_test" /\ Sysfs!Next
      \/ program = "gpio_test" /\ Gpio!Next
      \/ program = "battery_test" /\ Battery!Next
      \/ program = "atheros.sh" /\ Wireless!Next
      \/ program = "bluez-init" /\ Bluez!Next
  BY Zenon DEF Next
<1>2. program' = program
  BY DEF Next, BesideCan, BesideBt, BesideWatchdog, BesideRtc, BesideSysfs, BesideGpio,
     BesideBattery, BesideWireless, BesideBluez
<1>3. /\ CanInv /\ Can!Next => CanInv'
      /\ BtAll /\ Bt!Next => BtAll'
      /\ WatchdogInv /\ Watchdog!Next => WatchdogInv'
      /\ RtcInv /\ Rtc!Next => RtcInv'
      /\ SysfsInv /\ Sysfs!Next => SysfsInv'
      /\ GpioInv /\ Gpio!Next => GpioInv'
      /\ BatteryAll /\ Battery!Next => BatteryAll'
      /\ WirelessInv /\ Wireless!Next => WirelessInv'
      /\ BluezInv /\ Bluez!Next => BluezInv'
  BY CanStep, BtAllStep, WatchdogStep, RtcStep, SysfsStep, GpioStep, BatteryAllStep,
     WirelessStep, BluezStep, Zenon
<1> QED
  BY <1>1, <1>2, <1>3 DEF IInv

LEMMA AllStill == IInv /\ UNCHANGED vars => IInv'
<1> SUFFICES ASSUME IInv, UNCHANGED vars PROVE IInv'
  OBVIOUS
<1>1. /\ UNCHANGED program /\ UNCHANGED Can!vars /\ UNCHANGED Bt!vars /\ UNCHANGED Watchdog!vars
      /\ UNCHANGED Rtc!vars /\ UNCHANGED Sysfs!vars /\ UNCHANGED Gpio!vars
      /\ UNCHANGED Battery!vars /\ UNCHANGED Wireless!vars /\ UNCHANGED Bluez!vars
  BY DEF vars, can_vars, bt_vars, wd_vars, rtc_vars, sysfs_vars, gpio_vars, bat_vars, wlan_vars,
     bluez_vars, Can!vars, Bt!vars, Watchdog!vars, Rtc!vars, Sysfs!vars, Gpio!vars, Gpio!client,
     Battery!vars, Wireless!vars, Bluez!vars
<1>2. /\ CanInv => CanInv'
      /\ BtAll => BtAll'
      /\ WatchdogInv => WatchdogInv'
      /\ RtcInv => RtcInv'
      /\ SysfsInv => SysfsInv'
      /\ GpioInv => GpioInv'
      /\ BatteryAll => BatteryAll'
      /\ WirelessInv => WirelessInv'
      /\ BluezInv => BluezInv'
  BY <1>1, CanStill, BtAllStill, WatchdogStill, RtcStill, SysfsStill, GpioStill, BatteryAllStill,
     WirelessStill, BluezStill, Zenon
<1> QED
  BY <1>1, <1>2 DEF IInv

THEOREM Invariant == Spec => []IInv
<1>1. IInv /\ [Next]_vars => IInv'
  BY AllStep, AllStill
<1> QED
  BY <1>1, AllInitial, PTL DEF Spec

-----------------------------------------------------------------------------
(***************************************************************************)
(* What the runs check, of every instance.                                 *)
(***************************************************************************)
LEMMA AllTypes == IInv => TypeOK
<1> SUFFICES ASSUME IInv PROVE TypeOK
  OBVIOUS
<1>1. /\ CanInv => Can!TypeOK
      /\ BtAll => Bt!TypeOK
      /\ WatchdogInv => Watchdog!TypeOK
      /\ RtcInv => Rtc!TypeOK
      /\ SysfsInv => Sysfs!TypeOK
      /\ GpioInv => Gpio!TypeOK
      /\ BatteryAll => Battery!TypeOK
      /\ WirelessInv => Wireless!TypeOK
      /\ BluezInv => Bluez!TypeOK
  BY CanSafe, BtTypesSafe, RtcSafe, SysfsSafe, GpioSafe, WirelessSafe, BluezSafe, Zenon
  DEF BtAll, WatchdogInv, BatteryAll, BatteryTypes
<1>2. ASSUME program = "can_test" PROVE TypeOK
  BY <1>1, <1>2 DEF IInv, TypeOK
<1>3. ASSUME program = "bt_test" PROVE TypeOK
  BY <1>1, <1>3 DEF IInv, TypeOK
<1>4. ASSUME program = "watchdog_test" PROVE TypeOK
  BY <1>1, <1>4 DEF IInv, TypeOK
<1>5. ASSUME program = "rtc_test" PROVE TypeOK
  BY <1>1, <1>5 DEF IInv, TypeOK
<1>6. ASSUME program = "gpio_sysfs_test" PROVE TypeOK
  BY <1>1, <1>6 DEF IInv, TypeOK
<1>7. ASSUME program = "gpio_test" PROVE TypeOK
  BY <1>1, <1>7 DEF IInv, TypeOK
<1>8. ASSUME program = "battery_test" PROVE TypeOK
  BY <1>1, <1>8 DEF IInv, TypeOK
<1>9. ASSUME program = "atheros.sh" PROVE TypeOK
  BY <1>1, <1>9 DEF IInv, TypeOK
<1>10. ASSUME program = "bluez-init" PROVE TypeOK
  BY <1>1, <1>10 DEF IInv, TypeOK
<1> QED
  BY <1>2, <1>3, <1>4, <1>5, <1>6, <1>7, <1>8, <1>9, <1>10 DEF IInv, Names

(* The program that runs has the types of its module: in particular the    *)
(* counters and the lengths of what is queued stay within their bounds.    *)
THEOREM TypesCorrect == Spec => []TypeOK
<1> QED
  BY Invariant, AllTypes, PTL

(* What a program prints, returns or stands for is true, with the          *)
(* exceptions that ReportsAreTrue names (bt_test: a call on the            *)
(* permissions that failed, a lost link, a recv or fclose that failed), if *)
(* the sockets of bt_test block and the two processes of the battery       *)
(* daemon run within a second.                                             *)
THEOREM ReportsCorrect ==
  ASSUME "bt_test" \in Programs => Blocking,
         "battery_test" \in Programs => Prompt
  PROVE  Spec => []ReportsAreTrue
<1>1. IInv => ReportsAreTrue
  BY CanSafe, BtSafe, BatterySafe, WirelessSafe, BluezSafe, Zenon
  DEF IInv, BtAll, BatteryAll, ReportsAreTrue
<1> QED
  BY <1>1, Invariant, PTL

(* No reset in the time of the test and then one in time (watchdog_test);  *)
(* no alarm before it is due and then one that is reported (rtc_test).     *)
THEOREM OnTimeCorrect == Spec => []OnTime
<1>1. IInv => OnTime
  BY WatchdogSafe, RtcSafe, Zenon DEF IInv, OnTime
<1> QED
  BY <1>1, Invariant, PTL

(* A program that ends leaves none of the things behind that NothingLeft   *)
(* names, if the two processes of the battery daemon run within a second.  *)
(* A pin whose unexport fails stays exported: that is not among them.      *)
THEOREM NothingLeftCorrect ==
  ASSUME "battery_test" \in Programs => Prompt
  PROVE  Spec => []NothingLeft
<1>1. IInv => NothingLeft
  BY CanSafe, RtcSafe, SysfsSafe, GpioSafe, BatterySafe, Zenon
  DEF IInv, BatteryAll, NothingLeft
<1> QED
  BY <1>1, Invariant, PTL

(* Presses are counted only when there were any and show on the LED, flash *)
(* is written only to change it, the clock is set on and not back.         *)
THEOREM StepsAreNeededCorrect == Spec => StepsAreNeeded
<1>1. IInv /\ Next =>
        /\ program = "gpio_sysfs_test" =>
            /\ Sysfs!PressesAreReal /\ Sysfs!StopsAtNextPress
            /\ (pc = "press" /\ pc' = "loop" /\ led_given) => led' # led
        /\ (program = "gpio_test" /\ led' # led) => falls > 0 \/ held
        /\ program = "rtc_test" => Rtc!ClockGoesOn
        /\ program = "atheros.sh" => Wireless!WritesOnlyDifferences
  <2> SUFFICES ASSUME IInv, Next
               PROVE  /\ program = "gpio_sysfs_test" =>
                          /\ Sysfs!PressesAreReal /\ Sysfs!StopsAtNextPress
                          /\ (pc = "press" /\ pc' = "loop" /\ led_given) => led' # led
                      /\ (program = "gpio_test" /\ led' # led) => falls > 0 \/ held
                      /\ program = "rtc_test" => Rtc!ClockGoesOn
                      /\ program = "atheros.sh" => Wireless!WritesOnlyDifferences
    OBVIOUS
  <2>1. /\ program = "gpio_sysfs_test" => SysfsInv /\ Sysfs!Next
        /\ program = "gpio_test" => GpioInv /\ Gpio!Next
        /\ program = "rtc_test" => RtcInv
        /\ program = "atheros.sh" => WirelessInv /\ Wireless!Next
    BY DEF IInv, Next
  <2> QED
    BY <2>1, SysfsSafe, SysfsShows, GpioPresses, RtcClockGoesOn, WirelessWrites, Zenon
<1>2. IInv /\ [Next]_vars =>
        [/\ program = "gpio_sysfs_test" =>
             /\ Sysfs!PressesAreReal /\ Sysfs!StopsAtNextPress
             /\ (pc = "press" /\ pc' = "loop" /\ led_given) => led' # led
         /\ (program = "gpio_test" /\ led' # led) => falls > 0 \/ held
         /\ program = "rtc_test" => Rtc!ClockGoesOn
         /\ program = "atheros.sh" => Wireless!WritesOnlyDifferences]_vars
  BY <1>1
<1> QED
  BY <1>2, Invariant, PTL DEF Spec, StepsAreNeeded
=============================================================================
