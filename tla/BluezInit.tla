------------------------------ MODULE BluezInit ------------------------------
(***************************************************************************)
(* bluez-init start: Bluetooth is powered, attached to its serial line and *)
(* given the board's address before bluetoothd is started, in one way for  *)
(* the QCA6564 and in another for the AR3K, which reads the address from a *)
(* file and is tried five times.  "set -e" is in force.  The boards are    *)
(* those whose power pin the script knows, and sysfs lets it set the pin;  *)
(* the AR3K's links are made as those of WirelessBoot and left out.        *)
(***************************************************************************)
EXTENDS Integers

CONSTANTS
    Retries,    \* RETRIES (5)
    MaxFaults   \* bound: commands that fail

VARIABLES
    pc, chip,
    power,      \* the pin
    hci0,       \* "none", "down", "up"
    fw_mac,     \* FW_MAC holds the board's address
    stored,     \* the chip has been told the address
    address,    \* hci0 came up with it
    tries, faults

vars == <<pc, chip, power, hci0, fw_mac, stored, address, tries, faults>>

Fault(ok) == IF ok THEN UNCHANGED faults
             ELSE faults < MaxFaults /\ faults' = faults + 1

Init ==
    /\ chip \in {"QCA", "AR3K", "none"}
    /\ pc = CASE chip = "QCA" -> "reset" [] chip = "AR3K" -> "address" [] OTHER -> "service"
    /\ power \in BOOLEAN /\ hci0 = "none" /\ fw_mac \in BOOLEAN
    /\ stored = FALSE /\ address = FALSE /\ tries = Retries /\ faults = 0

(* gpio_set: the chip forgets what it was told when it is off; hci0 stays  *)
(* as long as hciattach does.                                              *)
gpio_set(on) ==
    /\ power' = on /\ UNCHANGED hci0
    /\ stored' = (on /\ stored) /\ address' = (on /\ address)

-----------------------------------------------------------------------------
(* bt_init_qca6564                                                         *)
QcaReset ==
    /\ pc \in {"reset", "reset_2"}
    /\ gpio_set(pc = "reset_2")
    /\ pc' = IF pc = "reset" THEN "reset_2" ELSE "attach"
    /\ UNCHANGED <<chip, fw_mac, tries, faults>>

(* Each command that fails leads to FAILED.                                *)
Command(l, next, effect) ==
    /\ pc = l /\ chip = "QCA"
    /\ \E ok \in BOOLEAN :
        /\ Fault(ok)
        /\ IF ok THEN effect /\ pc' = next
           ELSE pc' = "off" /\ UNCHANGED <<hci0, stored, address>>
    /\ UNCHANGED <<chip, power, fw_mac, tries>>
Up == hci0' = "up" /\ address' = stored /\ UNCHANGED stored
Qca_no_down_up ==           \* mutant: the address is told and that is all
    \/ Command("attach", "up", hci0' = "down" /\ UNCHANGED <<stored, address>>)
    \/ Command("up", "set_mac", Up)
    \/ Command("set_mac", "service", stored' = TRUE /\ UNCHANGED <<hci0, address>>)
Qca ==
    \/ Command("attach", "up", hci0' = "down" /\ UNCHANGED <<stored, address>>)
    \/ Command("up", "set_mac", Up)
    \/ Command("set_mac", "hci_reset", stored' = TRUE /\ UNCHANGED <<hci0, address>>)
    \/ Command("hci_reset", "down", UNCHANGED <<hci0, stored, address>>)
    \/ Command("down", "up_again", hci0' = "down" /\ UNCHANGED <<stored, address>>)
    \/ Command("up_again", "service", Up)

-----------------------------------------------------------------------------
(* bt_init_ar3k                                                            *)
WriteAddress ==
    /\ pc = "address"
    /\ \E ok \in BOOLEAN :
        /\ IF fw_mac THEN ok /\ UNCHANGED faults ELSE Fault(ok)
        /\ fw_mac' = ok /\ pc' = IF ok THEN "hciattach" ELSE "exited"
    /\ UNCHANGED <<chip, power, hci0, stored, address, tries>>

(* hciattach sends the chip the address of the file.  The power may be off *)
(* at first; a failure switches it off and on, and counts then.            *)
Attach ==
    /\ pc = "hciattach" /\ tries > 0
    /\ \/ /\ power /\ hci0' = "down" /\ stored' = fw_mac /\ pc' = "hci0_up"
          /\ UNCHANGED <<power, address, faults>>
       \/ /\ Fault(~power) /\ gpio_set(FALSE) /\ pc' = "toggle"
    /\ UNCHANGED <<chip, fw_mac, tries>>
Toggle ==
    /\ pc = "toggle" /\ gpio_set(TRUE)
    /\ tries' = tries - 1 /\ pc' = "hciattach"
    /\ UNCHANGED <<chip, fw_mac, faults>>
GiveUp ==
    /\ pc = "hciattach" /\ tries = 0 /\ pc' = "off"
    /\ UNCHANGED <<chip, power, hci0, fw_mac, stored, address, tries, faults>>
Ar3kUp ==
    /\ pc = "hci0_up"
    /\ \E ok \in BOOLEAN :
        /\ Fault(ok)
        /\ IF ok THEN Up /\ pc' = "service"
           ELSE pc' = "off" /\ UNCHANGED <<hci0, stored, address>>
    /\ UNCHANGED <<chip, power, fw_mac, tries>>
Ar3k == WriteAddress \/ Attach \/ Toggle \/ GiveUp \/ Ar3kUp

-----------------------------------------------------------------------------
PowerOff ==
    /\ pc = "off" /\ gpio_set(FALSE) /\ pc' = "failed"
    /\ UNCHANGED <<chip, fw_mac, tries, faults>>
StartService ==
    /\ pc = "service" /\ pc' = "started"
    /\ UNCHANGED <<chip, power, hci0, fw_mac, stored, address, tries, faults>>

Script == QcaReset \/ Qca \/ Ar3k \/ PowerOff \/ StartService
Over == pc \in {"started", "failed", "exited"}
Terminated == Over /\ UNCHANGED vars
Next == Script \/ Terminated
Spec == Init /\ [][Next]_vars
FairSpec == Spec /\ WF_vars(Script)
-----------------------------------------------------------------------------
TypeOK ==
    /\ chip \in {"QCA", "AR3K", "none"} /\ power \in BOOLEAN
    /\ hci0 \in {"none", "down", "up"} /\ fw_mac \in BOOLEAN
    /\ stored \in BOOLEAN /\ address \in BOOLEAN
    /\ tries \in 0 .. Retries /\ faults \in 0 .. MaxFaults

(* The services start with hci0 up under the board's own address, on every *)
(* board that has Bluetooth and after any number of retries.               *)
ServiceIsUsable == pc = "started" /\ chip # "none" => power /\ hci0 = "up" /\ address

ScriptEnds == pc \in {"reset", "address"} ~> Over
=============================================================================
