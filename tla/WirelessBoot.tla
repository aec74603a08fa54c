---------------------------- MODULE WirelessBoot ----------------------------
(***************************************************************************)
(* atheros.sh, run by udev at every boot: it writes the board's address    *)
(* and region into the firmware directory, which is on flash, only if they *)
(* are not there yet, and loads the driver, with retries.  Power may be    *)
(* cut at any point, and the address may be another at the next boot.      *)
(* "set -e": a command that fails ends the script.                         *)
(***************************************************************************)
EXTENDS Integers

CONSTANTS
    Addresses, Regions,
    Retries,    \* RETRIES (5)
    MaxCuts, MaxFaults  \* bounds: power cuts and further runs; failing cp

VARIABLES
    pc, mac, region,
    softmac, link,      \* on flash
    loaded, wlan0,      \* the module and its interface
    tries,              \* RETRIES
    modprobes,          \* history: how often modprobe was called in this run
    cuts, faults

vars == <<pc, mac, region, softmac, link, loaded, wlan0, tries, modprobes, cuts, faults>>

None == "none"
Partial == "partial"

ConstantsOk ==
    /\ Addresses \cap {None, Partial} = {} /\ None \notin Regions
    /\ Retries \in Nat /\ MaxCuts \in Nat /\ MaxFaults \in Nat

Init ==
    /\ pc = "softmac" /\ mac \in Addresses /\ region \in Regions
    /\ softmac \in Addresses \cup {None} /\ link \in Regions \cup {None}
    /\ loaded = FALSE /\ wlan0 = FALSE /\ tries = 0 /\ modprobes = 0
    /\ cuts = 0 /\ faults = 0

(* cmp -s of a copy in RAM with the file on flash.                         *)
CompareAddress_exists ==    \* mutant: [ -f softmac ]
    /\ pc = "softmac" /\ pc' = IF softmac # None THEN "link" ELSE "cp"
    /\ UNCHANGED <<mac, region, softmac, link, loaded, wlan0, tries, modprobes, cuts, faults>>
CompareAddress ==
    /\ pc = "softmac" /\ pc' = IF softmac = mac THEN "link" ELSE "cp"
    /\ UNCHANGED <<mac, region, softmac, link, loaded, wlan0, tries, modprobes, cuts, faults>>

(* cp empties the file and fills it; it may run out of space.              *)
Copy ==
    /\ \/ pc = "cp" /\ softmac' = Partial /\ pc' = "copying" /\ UNCHANGED faults
       \/ pc = "copying" /\ softmac' = mac /\ pc' = "link" /\ UNCHANGED faults
       \/ /\ pc = "copying" /\ faults < MaxFaults /\ faults' = faults + 1
          /\ pc' = "stopped" /\ UNCHANGED softmac
    /\ UNCHANGED <<mac, region, link, loaded, wlan0, tries, modprobes, cuts>>

(* bdata.bin leads to the calibration of the region; ln -sf removes the    *)
(* link before it makes the new one.                                       *)
Link ==
    /\ \/ pc = "link" /\ link = region /\ pc' = "load" /\ UNCHANGED link
       \/ pc = "link" /\ link # region /\ link' = None /\ pc' = "linking"
       \/ pc = "linking" /\ link' = region /\ pc' = "load"
    /\ UNCHANGED <<mac, region, softmac, loaded, wlan0, tries, modprobes, cuts, faults>>

Load ==
    /\ pc = "load" /\ tries' = Retries
    /\ pc' = IF loaded THEN "done" ELSE "modprobe"
    /\ UNCHANGED <<mac, region, softmac, link, loaded, wlan0, modprobes, cuts, faults>>

(* modprobe || true                                                        *)
Modprobe ==
    /\ pc = "modprobe" /\ tries > 0 /\ modprobes' = modprobes + 1
    /\ \E l, w \in BOOLEAN :
        /\ w => l
        /\ loaded' = l /\ wlan0' = w
        /\ pc' = IF w THEN "done" ELSE "rmmod"
    /\ UNCHANGED <<mac, region, softmac, link, tries, cuts, faults>>

(* Nothing keeps the script going when there is no module to remove.       *)
Rmmod ==
    /\ pc = "rmmod" /\ tries' = tries - 1
    /\ pc' = IF loaded THEN "modprobe" ELSE "stopped"
    /\ loaded' = FALSE
    /\ UNCHANGED <<mac, region, softmac, link, wlan0, modprobes, cuts, faults>>

Failed ==
    /\ pc = "modprobe" /\ tries = 0 /\ pc' = "failed"
    /\ UNCHANGED <<mac, region, softmac, link, loaded, wlan0, tries, modprobes, cuts, faults>>

PowerCut ==
    /\ cuts < MaxCuts /\ cuts' = cuts + 1
    /\ pc' = "softmac" /\ mac' \in Addresses
    /\ loaded' = FALSE /\ wlan0' = FALSE /\ tries' = 0 /\ modprobes' = 0
    /\ UNCHANGED <<region, softmac, link, faults>>

(* udev runs the script again.                                             *)
Again ==
    /\ pc \in {"done", "failed", "stopped"}
    /\ cuts < MaxCuts /\ cuts' = cuts + 1
    /\ pc' = "softmac" /\ tries' = 0 /\ modprobes' = 0
    /\ UNCHANGED <<mac, region, softmac, link, loaded, wlan0, faults>>

Script == CompareAddress \/ Copy \/ Link \/ Load \/ Modprobe \/ Rmmod \/ Failed
Over == pc \in {"done", "failed", "stopped"}
Terminated == Over /\ UNCHANGED vars
Next == Script \/ PowerCut \/ Again \/ Terminated
Spec == Init /\ [][Next]_vars
FairSpec == Spec /\ WF_vars(Script)
-----------------------------------------------------------------------------
TypeOK ==
    /\ pc \in {"softmac", "cp", "copying", "link", "linking", "load", "modprobe",
               "rmmod", "done", "failed", "stopped"}
    /\ mac \in Addresses /\ region \in Regions
    /\ softmac \in Addresses \cup {None, Partial} /\ link \in Regions \cup {None}
    /\ loaded \in BOOLEAN /\ wlan0 \in BOOLEAN
    /\ tries \in 0 .. Retries /\ modprobes \in 0 .. Retries
    /\ cuts \in 0 .. MaxCuts /\ faults \in 0 .. MaxFaults

(* Whatever a power cut left behind, and although files are not written    *)
(* again, the driver starts with this board's address and region.          *)
LoadedWithOwnFiles == loaded => softmac = mac /\ link = region

(* "we don't want to rewrite the file if it already exists and the address *)
(* is the same because we don't want to wear out NAND flash".              *)
WritesOnlyDifferences ==
    /\ softmac' # softmac => softmac # mac
    /\ link' # link => link # region

(* "Loading ath6kl_sdio module: [FAILED]" is said after all the retries,   *)
(* and there is no interface.                                              *)
RetriesUsed == pc = "failed" => modprobes = Retries /\ ~wlan0

(* Wireless is given up only after all the retries.  It is given up before *)
(* when modprobe does not load the module: rmmod, which then has nothing   *)
(* to remove, ends the script.                                             *)
EveryRetryIsMade ==
    (pc = "failed" \/ (pc = "stopped" /\ softmac = mac)) => modprobes = Retries

ScriptEnds == pc = "softmac" ~> Over
=============================================================================
