# A TLA+ model of the flash, NVRAM and GPIO programs of meta-digi

The repository is a set of Yocto layers for Digi's embedded modules. Most of it
is recipes and third-party examples. The programs of its own that carry state,
touch hardware, fail half-way and are hard to test are these:

| part | source | what it does |
|---|---|---|
| `update_flash` | `meta-digi-arm/recipes-bsp/update-flash/update-flash/update_flash.c` | writes firmware images to MTD partitions of the running system |
| `ubootenv`, `prodinfoenv` | `meta-digi-arm/recipes-bsp/ubootenv/ubootenv/main_env.c`, `env_funcs.c` | edit U-Boot's environment and the one-time writable product information |
| `nvram` | `meta-digi-arm/recipes-bsp/nvram/nvram/main.c`, `nvram_priv_linux.c` | edits network parameters; its second file is the flash access of all three tools |
| `libdigi` | `meta-digi-arm/recipes-bsp/libdigi/libdigi/cmdopt.c`, `crc32.c` | options and checksums for these programs |
| GPIO driver | `meta-digi-arm/recipes-kernel/kernel-module-gpio/files/gpio.c` | a character device for pins, with interrupts, blocking reads and poll |
| test programs | `meta-digi-dey/recipes-digi/dey-examples/files/`: `gpio_test`, `gpio_sysfs_test`, `can_test`, `bt_test`, `watchdog_test`, `rtc_test`, `battery_test`, `v4l2_test` | exercise the board's devices, in part as daemons or with several threads |
| boot scripts | `atheros.sh` (kernel-module-atheros), `bluez-init` (bluez5-5.33) | bring the radios up at every boot |

All paths in this file are relative to `src/`. `update_flash.c`, `gpio.c` and so
on are named by their last component from here on.

## Inventory

**update_flash.** One process. State: the partition table on the stack
(`axMtdParts`: file, size, type, checksum, "calculated" flag of every entry), the
options in global variables (`c...`), and outside of it the flash, the bad block
table, the temporary directory, the mount table. A run checks every entry
(`MtdPartInit`, `MtdPartUseFile`, `MtdPartVerifyFile` or `MtdPartCopyFile`), makes
every partition read-only, then for one partition after the other erases,
writes, and verifies (`-v`) or compares checksums (`-c`). UBI images and
bootstreams are given to `ubiformat` and `kobs-ng`. Every error ends the process.
*Hard:* three separate loops that each skip bad blocks on their own; retries and
marking of blocks in the middle of an image; kills at any point and repetition
of the command; files replaced between two readings; entries that share a
partition or a base name. *Correct when:* success means that the image is on the
flash; a wrong checksum is found before anything is touched; no partition is
written while mounted read-write; nothing but the needed blocks changes;
repeating a failed update can succeed.

**ubootenv / prodinfoenv.** One binary. State: a copy of the NVRAM in memory
(critical section, the OS configuration table with the two environments) and the
flash it came from. A run reads everything (`NvInit`), applies `--clean`,
`--file`, `--erase`, `--set` in this order, and writes everything back
(`NvSave`). Network parameters of `ubootenv` go to the critical section instead.
*Hard:* string surgery in a fixed buffer; several assignments of which a later
one is refused; two tools at once; a kill before the save. *Correct when:* a
refused command stores nothing; product information, once there, stays; the
buffer behaves like a set of variables and nothing behind it is written.

**nvram.** Sets one parameter, prints, loads or stores a section, resets.
`nvram_priv_linux.c` gives the NVRAM library its blocks: open, close, protect,
erase, read and write with retries, read-back and bad block marking under `-b`.
The library itself is not in the repository. *Hard:* the nested retry loops over
one counter. *Correct when:* blocks are marked only after consecutive failures, a
write that succeeds under `-b` is on the flash, every call returns; a reset from
Linux does not remove U-Boot's sections.

**GPIO driver.** State: one `gpio_conf` for each pin (`dev_id`, `irqnum`,
`triggered`, `wait_q`), the kernel's handler table, the pin itself. Operations:
open, release, read, write, poll, the ioctls, the interrupt handler, module init
and exit. *Hard:* the handler runs between any two instructions; `free_irq` and
`request_irq` sleep and give up the big kernel lock; readers check, sleep and
clear without a lock. *Correct when:* the interrupt is given back exactly as
often as it was requested, no interrupt is lost, a sleeping reader is woken.

**libdigi.** `cmdOptParse` fills the callers' variables from a table of options and
the command line; `crc32` is continued block by block. State: the table being
built, the rest of the command line. *Correct when:* every variable gets what the
table says, within the arrays, and a continued checksum is that of the whole.

**gpio_test, gpio_sysfs_test.** Count presses of a button and toggle a LED: the first
through the GPIO driver (sampling, then waiting for interrupts), the second
through sysfs and `poll`. *Hard:* presses while nobody looks, the dummy read
before `poll`, a signal handler that only clears a variable. *Correct when:* no press is
invented, one that is waited for is noticed, and the pin is given back.

**can_test, bt_test.** Two machines each: threads with one frame id each on a bus, and
a file over a stream. *Hard:* lost, repeated and foreign frames, partial sends, a lost
link, a full disk, options freed under running threads. *Correct when:* what is
reported as received was received, and both sides end.

**watchdog_test, rtc_test.** Programs against a clock. *Correct when:* no reset and no
alarm before its time, and then one; nothing stays armed that should not.

**battery_test.** Becomes a daemon: parent and child tell each other by signals
which of them failed. *Hard:* a signal before `pause`, a parent that is gone.

**v4l2_preview_test.** The main thread changes settings while the camera thread runs
the preview; SIGINT stops both. State: three descriptors and the driver's overlay,
shared without a lock. *Correct when:* the preview is on while the menu is shown and
off at the end, and no closed descriptor is used - which holds except after a SIGINT that
finds `main` on its way.

**Boot scripts.** `atheros.sh` writes address and region into the firmware directory
and loads the driver, `bluez-init` powers, attaches and addresses the Bluetooth chip;
both retry. *Hard:* power cuts between two commands, `set -e`, the counters.
*Correct when:* the driver starts with this board's files, the service with a usable
interface, failure is reported after all retries only, and flash is not rewritten without need.

**How the parts meet.** All three flash programs reach the MTD layer through the
same ioctls; they share no state but the flash, and work on different partitions.
`ubootenv`, `prodinfoenv` and `nvram` share the NVRAM partition, and nothing keeps
two of them apart. `update_flash` and the tools use `libdigi` for options,
checksums and logging only. `gpio_test` is a client of the GPIO driver and is modelled
as one. The other programs meet their devices only, which are modelled with them.

## The modules

```
FlashUpdate   <--- refines ---  UpdateFlash      (one step for a whole partition)
                                    :  its Erase and MtdPartWrite in detail:
                                MtdPartUpdate    (one step for a block or a page)
EnvStore      <--- refines ---  EnvFuncs         (bytes of one environment)
                                    :  its add_var and remove_var as one step each:
                                NvramTools       (the three tools, processes)
                                    :  its NvSave through:
                                NvramFlash       (blocks, retries, marking)
GpioTest      --- uses --->     GpioDriver       (every call is a step of the driver)
CmdOpt  Crc32                                    (libdigi)
SysfsGpio CanTest BtTransfer WatchdogTest RtcTest BatteryTest WirelessBoot BluezInit
V4l2Preview
```

`MtdPartUpdate`, `UpdateFlash`, `NvramTools`, `GpioDriver` and `V4l2Preview` have an MC module
each; `MCPartitions` holds two further instances of `MtdPartUpdate`, of which each behaviour updates one; `NvramFlash` needs nothing but
numbers and is run as it is. `MCFunctions` runs the sequential pieces
(`EnvFuncs`, `CmdOpt`, `Crc32`) and `BoardPrograms` the nine test programs and scripts, with the values of
`MCPrograms`: in both a variable chosen at the start says which one is running, the others' variables
stay "off", and each property is the conjunction of what its modules state. The programs do not
interact; they share a specification and a run, not a state. The dotted lines are not formal
refinements: the upper module takes the result the lower one establishes
(`SuccessMeansFlashed`, `StoreSpec`, `WrittenIsThere`) as one step.

**MtdPartUpdate** is what a run does to one raw partition. A file is a sequence of
units of a few bytes; a page holds `PageSize` of them. Programming a unit that is
not erased gives a mixture, so that writing to a block that was not erased shows. A unit
may begin a JFFS2 node (`NODE`), be a clean marker (`CM`), begin the padding node (`PAD`) or
be of any other data; `NodeSize` says how many whole units the 12 bytes of a node take up, which decides
whether there is room for a padding node and at which offsets, as the code tests only powers of two,
a second clean marker is found (`OffsetsTested`).
`flash`, `oob`, `bad`, `worn` are the device; `iSize`, `iFileSize`, `uiCRC32`,
`cChecksumSet`, `cChecksumCalculated` the fields of `mtdPartition_t`; `off`, `total`,
`i`, `start` the locals of the loops; `pc` the function. One action is one turn of a
loop: `MtdPartErase` and `MtdPartEraseError`; `WriteSkipBad`, `WritePage`,
`WritePageSilent` (a corruption nobody notices), `WritePageError` (with the retry
and marking logic) and `MtdPartWriteEnd`; `VerifyPage`, `VerifyReadError`,
`VerifyEnd`; `MtdPartCheckCRC32`, one step because it only reads. `Crash`, `Rerun` and
`ReplaceFile` are the environment; a crash may come between two steps or in the middle of an erase or a page,
which then holds anything (`TornErase`, `TornWrite`). A CRC32 stands for the data it was computed
from, so collisions do not exist.

**UpdateFlash** is `main`, `DoMtdUpdate`, `DoMtdVerify` and `DoPrintChecksums` over
several entries. A function's work on one entry is one action. Erasing and
writing a partition are one step each and leave it torn when they fail; a kill
may tear it as well, and leave a copy partly written. The program looks only at the exit status of `ubiformat`,
so one that a signal has killed counts as complete (`WritersKilled`, with `died` as a history
variable). `mount` says how each partition is mounted and by which name `/proc/mounts` lists it; the remounting
recognises a block device and the `/dev/root` that `root=` explains, and nothing else (`Mounted`, `IsRootDev`):
a UBI volume stays as it is. That `ubiformat` itself refuses a partition that is attached to UBI is its own
affair and not modelled. `tmp` maps base names to contents, because the copies are
named so; `Overlay` is what a file opened without `O_TRUNC` holds afterwards. Contents are
sequences of `Units`; what a partition holds at the start or when torn is a unit no file has,
so that "holds the file" is never true by accident.

**FlashUpdate** has for each target "old", "torn" or "new" and a status. Its promise:
no change before all checks have passed, success only when every target is new,
repeatable after failure.

**EnvFuncs** is the buffer cell by cell, with `get_var_addr`, `get_next_env_string`,
`get_end_mark`, `remove_var` and `add_var` as operators on it, and two cells behind
the buffer. What is added need not fit: `cut`, a history variable, is set from the first addition on for which
there was no room (`HasRoom`), and the run goes on. The walks from string to string are recursive functions over positions.
`ConstantsAssumption` says what the callers see to: a string has an "=", and not at its beginning,
and no NUL inside. **EnvStore** is a set of strings with at most one for each name, until `lost` is set.

**NvramTools** has processes that run command lines. `ram[p]` is the copy of process
`p`. `EnvWork` is `main` of `main_env.c` from `NvInit` to before `NvSave` (it works on
the process's own memory alone, so one step loses no interleaving), `NvramWork` the
same of `main.c`, `NvSave` the write. The command lines are the sets `EnvLine` and `NvramLine`: the files
and option lists are sequences of any length, and an assignment may lack its value. A section holds
`Capacity` variables - all of one length, which is what the abstraction costs: `EnvFuncs` has lengths -
and one more is cut off (`Added`), leaves no end mark that could be found (`Overrun`), and is reported as
stored, as `add_var` does. `Exclusive` says whether the user runs one
tool at a time; the code does not see to it.

**NvramFlash** is one call after the other from the library, with one step for each
access to the device. `misses` is a history variable.

**GpioDriver** is one pin and the threads of the process that has it open. Every
point at which a call can sleep or at which the handler could see a difference is
a step of its own: between taking the value and clearing the trigger, between
`free_irq` and the reset of `irqnum`, between setting `irqnum` and `request_irq`.
`wait_event_interruptible` queues first and checks then. `poll` is called by the kernel again whenever the queue is
woken, until one of the events the caller waits for (`PollFor`) is among those `gpio_poll` reports
(`PollResult`); what the driver reports for reading is POLLRDNORM without POLLIN. `unseen` is a history
variable: "yes" when an interrupt was handled and the value has not been read since, "wiped" when a
READ_PIN_VAL that had its value before has then cleared the trigger.
`Disciplined` restricts the users: nobody else is in the driver when a configuration begins, poll comes only after
`GPIO_CONFIG_AS_IRQ`, and the module was loaded properly. Any thread may use READ_PIN_VAL at any time.

**CmdOpt** is one call of `cmdOptParse`: adding the default entries, the turns of
the `getopt_long` loop, the parameters, the check for what is missing. `getopt_long` itself
is external: it hands out whole options and moves the other words to the end.
`AsDeclared` compares the result with a reference definition over the command line.
**Crc32** has numbers as sets of bits; the reference is division of the polynomial, bit by bit.

**GpioTest** calls `GpioDriver`'s actions by INSTANCE, so that the button and the
interrupt handler come between any two steps. `falls` counts presses nothing has answered; the loop
samples until it sees one (`SeesPress`). Every call on either pin may fail (`CallFails`).
**SysfsGpio** has one action for each library call; `news` is the notification that a
read of the value takes away. A pin whose interrupt cannot be set to "both" skips those rounds, and an unexport may
fail, which the program does not notice: it then ends in "left" instead of "done". **CanTest** has two programs of several threads and
a queue for each socket; a frame is its id, length and pattern, and carries as history what
it was. `clean` is a history variable: no frame was lost, repeated or sent while a receiver was not yet
bound to its socket. **BtTransfer** has a byte stream of bounded length between two loops, with the permissions at its front. What `send`
and `recv` of the permissions return is not looked at: after one that failed `heard` is false, and the file begins too
early or too late. `damaged` is set when the link was lost or the receiver's `recv` or `fclose` failed.
**WatchdogTest** and **RtcTest** have the clock as an action of its own, which lets the
program be late by a named bound. `RtcTest` has the length of minute, hour and day as constants and
the program's own carry from one to the next, so that each is crossed within a few seconds; what the program does not
serve is named in `Served`. A time that cannot be read leaves zeros with no date, which the driver refuses (`Dated`),
and with `-m` a timeout of whatever was on the stack (`AnyTimeout`). **BatteryTest** has parent and child of
`daemonize` with the signals between them. **WirelessBoot** has one action for each
command that touches flash or the module, and a power cut between any two; **BluezInit** the
two branches of the script by chip (with the power the chip forgets what it was told; `hci0` stays as long as `hciattach` is attached). **V4l2Preview** has the main thread,
the camera thread and SIGINT; a command is several steps, because the other thread may close
what it uses. `chosen` is the rotation the user chose last after the camera thread had reset the settings (`Resetting`); a
command given before is undone by it.

## The runs

| run | shows | bounds |
|---|---|---|
| `nand_update` | `VerifiedMeansFlashed`, `SuccessMeansFlashed`, `ErasedBeforeProgrammed`, `OnlyNeededBlocksChange` | 3 blocks of 2 pages of 2 units, at most one bad at the start; images shorter than, as long as and longer than a block; 2 invocations, 2 errors, 1 kill, 1 replaced file |
| `partitions` | `NorFlashed` (contents, padding and clean markers on NOR, with JFFS2 images and another one); `WornIsRetired` (repeating the command retires worn blocks) | NOR: 3 blocks of one page of 3 units, 5 images that end at, before and behind the end of a block, with and without `--clean-marker`, `-v`, `-c`, `-b`; 2 invocations, 2 errors, 1 kill. Worn NAND: any set of worn blocks, up to one bad at the start, 5 invocations, no transient errors |
| `given_checksum_single` | a violation of `ChecksumHonoured`, see below | one partition, one replaced file |
| `update_command` | `SuccessMeansAllFlashed`, `NotMountedWhileWritten`, `WrongChecksumTouchesNothing` | 3 partitions, 4 files (two with one base name), 7 lists of entries, all options, one error or killed `ubiformat`, one replaced file; the root file system mounted read-write, and another one on a block device or a UBI volume. One invocation: kills and commands before it are the next run's |
| `update_refinement` | `AbstractSpec`: UpdateFlash implements FlashUpdate | 2 partitions, 3 files, 2 invocations with different command lines, 1 error, 1 kill |
| `pins` | `KernelIntact`, `IrqAssigned`, `NoInterruptLost`, `InterruptReachesReader` | 3 threads that read, poll and use READ_PIN_VAL, two of which configure; all interrupt types, signals, request_irq fails up to twice |
| `functions` | `StaysInBuffer`, `StoreSpec` (EnvFuncs implements EnvStore), `LibdigiAsPromised` | 13 bytes, 7 strings over three names, every order of calls, additions that just fit and that do not; 4 option tables of up to 5 entries with `MAX_ENTRIES` 8, command lines of up to 3 words out of 13; up to 4 bytes in blocks of 0 to 2, with no bit, one bit or several |
| `tools_alone` | `InitFromFile`, `OneTimeWritable`, `RefusedStoresNothing`, `SectionsStay` | 3 commands one after the other out of 130, sections with room for 2 variables, files with up to 3; an error, a kill |
| `tools_together` | a violation of `OneTimeWritable`, see below | 2 processes, one command each |
| `nvram_retries` | `MarkedAfterRetries`, `WrittenIsThere`, `EveryCallReturns` | 2 blocks, 3 retries, 5 errors |
| `programs` | `ReportsAreTrue`, `OnTime`, `NothingLeft`, `StepsAreNeeded`, `Ends`: what each program prints or stands for is true, it keeps to its times, leaves nothing behind, takes no step without need (no press counted without one, flash written only to change it, the clock never set back), and comes to its end | see the instances in `MCPrograms`: 2 frames of 1 or 2 ids, a file of up to 5 units over a link of 3, timeouts up to 4 s, a day of 2 hours of 3 minutes of 5 seconds, alarms in -1 to 10 s, 2 presses, 2 or 3 retries, 1 to 3 failing calls in each program, 2 power cuts |
| `preview` | `PreviewComesBack`, `NoStaleDescriptor`, `StopEnds` | any sequence of commands, from the first step of the camera thread on, 2 rotations, 2 SIGINTs, 2 failing calls |

Each detailed module's type invariant is checked too. Deadlock is checked in all of them;
the modules whose programs end have a `Terminated` step that stutters.

*Why the bounds are enough.* For the raw partition the interesting cases are a bad
block before, in and behind the image, an image that ends in the middle of a page
and of a block, and an error, kill or marking at each page; three blocks of two
pages give all of them, and two invocations are what a failed update and its
repetition need. Two errors with `cMaxRetries` cut to 2 let a page exhaust its retries. For
whole command lines, entries interact through a partition, a base name or a file:
two entries show every pair. For the pin, a race needs the handler and two
callers; three readers let one clear what another was woken for. For the retries,
five errors exhaust two loops of three; a counter that is reset in the wrong place shows, with them, as
a block marked too early or too late (`MarkedAfterRetries`), and an end that never comes only where a mismatch
repeats by itself. The clock of `rtc_test` is
shortened so that every carry happens within a few seconds; the tables of `cmdOptParse` include the
one that just fits and the one that does not. The theorems below do not depend on bounds.


*What the properties exclude, and why.* `SuccessMeansFlashed` speaks of files that
were left alone and, when a page was corrupted unnoticed, of updates with `-v` or
`-c`, because nothing reads back otherwise. `CleanMarkersWritten` asks for a marker in every good block the image
does not reach, and where the image has one of its own; where other data of the image goes over the marker the
block has none, and the image is spoiled (see `MarkersDoNotSpoilImage` below). `SuccessMeansAllFlashed` leaves out
an entry whose temporary copy shares its base name with another file of the command, unless `-v` reads
it back (a known defect); what an external tool takes whatever its size has become must not share the
name with any file, as an earlier command may have left its copy. It leaves out commands of which a signal killed
`ubiformat` (see `CompleteMeansFlashed`). `NotMountedWhileWritten` is about mounts whose name tells the
partition: a UBI volume's does not (see `NothingMountedWhileWritten`).

`TypeOK` and `StoreSpec` of `EnvFuncs` are about a buffer to which nothing was added that did not fit; `StaysInBuffer`
says of every step, after an overflow too, that only an addition without room changes the bytes behind the buffer.
That `add_var` overflows and reports success is a known defect (`AddedIsThere`), and so is in `NvramTools` the variable
that `InitFromFile` allows to be cut off when the file has more names than there is room for.

`KernelIntact`, `IrqAssigned` and the two about interrupts hold under `Disciplined`, with valid interrupt types:
two threads that configure one pin at once do free its interrupt twice, and no program of
the repository does so. `NoInterruptLost` and `InterruptReachesReader` make an exception of the one call that does lose
interrupts, a READ_PIN_VAL that clears the trigger after the handler ran (`EveryInterruptReachesReader` has none).
`PreviewComesBack` and `NoStaleDescriptor` are about calls that succeed, and allow for a SIGINT
that comes where `main` does not look at `should_stop` before it touches the camera again (`raced`): then `main` does use
closed descriptors and may leave the overlay on (`NeverLeftOn`).

`Ends` of `can_test` and `bt_test` needs the bus, the link and the disk to do
their part, as neither program has a timeout. `ReportsAreTrue` of `can_test` needs different ids
and data that tells frames apart; of `bt_test` it excuses failures the program does not look at: permissions not sent or not
received, a link lost, a failing `recv` or `fclose` at the receiver (`SuccessMeansTransferred`), the first of these also
for the beginning of the file (`ReceivedIsPrefix`). `RetriesUsed` is about the failure `atheros.sh` reports; that it
may end before without a word is `EveryRetryIsMade` below. `NothingLeft` does not say that an unexport succeeded, nor
anything of what is left powered or armed by a program told to. A press that `gpio_test` counts may be one that held the button
down since before it began (`held`), and a bounce it samples is a press to it. The day part of `rtc_test`'s carry is not covered: what
`OnTime` says of `rtc_test` is about the requests in `Served`: an alarm on the same day, within the minute less the
two seconds the program adds, or with `-m` in whole minutes of the same hour. Others carry only once
(`rtc_test.c:344`) and ring at another time; the usage text gives no range. `LibdigiAsPromised` takes a number
`0x` without a digit as the code does, which leaves the variable alone.
A branch of `BtTransfer` is never taken in the runs: after `EAGAIN`, which only a socket that does not
block returns, `send` would start one byte before the buffer.
`OneTimeWritable` is about the two environment tools; `nvram -s` may
replace the section by design. It is checked with one tool at a time.

## Fairness

- `MtdPartUpdate!Spec`: weak fairness of `Step`, as a running process goes on, and of
  `Rerun`, as `RepeatingRetiresWornBlocks` is about an operator who repeats the
  command. No fairness for errors, kills or the marking to succeed at a given time;
  the run has no transient errors, since with them a marking could fail each time.
- `GpioDriver!FairSpec`: the kernel delivers a pending interrupt, and each thread that
  is in the driver and not asleep goes on. No thread need call again, no button
  need be pressed, no signal need arrive.
- `NvramFlash!FairSpec`: a call under way goes on.
- `MCPartitions!EitherSpec`: as in `MtdPartUpdate`, for the worn partition.
- `BoardPrograms!Spec`: each program's process, or both of them, every thread of `can_test`, the clock and
  the interrupt handler go on. Nobody needs to press the button, send a signal or
  type; no link, bus or disk needs to work.
- `V4l2Preview!FairSpec`: both threads are scheduled; neither input nor signals are.

The other specifications have no fairness; they are checked for safety alone.

## What is proved

TLAPS checks these for every value of the constants that satisfies the named
assumptions (`GeometryAssumption` and `InputAssumption` of `MtdPartUpdate`,
`PreviewAssumption` of `V4l2Preview`, one for each program in `BoardPrograms`, `ConstantsAssumption` of
the others). TLC evaluates the
assumptions in each run. Where a theorem needs more, it says so after `ASSUME`:

| hypothesis | of | why |
|---|---|---|
| `~RootArgLast` | `WrittenUnmounted` | with `root=` at the end of the command line the property is false (see below) |
| `PlainUpdates`, `MaxReplace = 0`, `~WritersKilled` | `ImplementsFlashUpdate` | the promise is about commands that update every partition, from files nobody replaces meanwhile, through copies nothing else is mixed up with, and with an `ubiformat` that no signal kills; the run `update_refinement` makes the same restriction |
| `~IsNAND` | `MarkersCorrect` | on NAND the property is false (see below) |
| `Exclusive` | `OneTimeWritableAlone`, `SectionsStayAlone` | without it the first is false, as `tools_together` shows |
| `Assumed` | `GpioDriverProofs` | `Disciplined` users, who may call READ_PIN_VAL at any time, and interrupt types the driver knows |
| `Blocking` | `ReportsCorrect`, if `bt_test` may run | the program makes no socket that does not block; on one that does it would send the byte before its buffer |
| `Prompt` | `ReportsCorrect`, `NothingLeftCorrect`, if `battery_test` may run | the two processes of `daemonize` take their steps within the second of `alarm`; otherwise the parent reports a failure of a child that goes on |

Every run of a component whose theorems have such a hypothesis has constants that satisfy it, so none
of them is empty.

Where a proof needs induction, it goes through lemmas about sets, which need no operator as
parameter: a set with 0 that is closed under adding one is `Nat` (`NatAll`, for folds of assignments and the pages
of an image), and what holds at i once it holds above i holds everywhere below a bound (`Downwards`, for the
walks through a buffer, whose recursion runs towards the end).

### update_flash

**TypeCorrect** (`MtdPartUpdateProofs`). `TypeOK` is inductive as it
stands, because it holds the offsets within the partition and the open file: the
loops advance only below `LastPage` and `Len(src)`, and `Chunk` never returns more
than is left. It is split into the device, the files, the flags and the counters,
with one lemma for each (`HardwareStep`, `FileStep`, `FlagStep`, `CounterStep`).

**VerifyCorrect**: `VerifiedMeansFlashed` is not inductive. The invariant is the one of
`MtdPartVerify`'s loop (`VerifiedSoFar`): all
good pages before `off` match their piece of the file, and `total`, the amount read
from the file, is `PageSize * Rank(off)` until the file ends, where `Rank` counts
good pages. The lemmas `RankNext` and `RankMonotonic` say that the loop, which skips
bad blocks as it meets them, walks in that order.

**SuccessCorrect**, **ErasedFirstCorrect**, **OnlyNeededCorrect** rest on `UpdateInv`
(`UpdateInvariance`), which says what each phase leaves to the next. `FileInv`: the loops
work on the file that was measured and, with a checksum, checked. `EraseInv`: `total` is
`EraseSize` times the good blocks the erase loop has passed (`BlockRank`), and these are fresh.
`WriteInv`: the good pages before `off` hold their pieces of the file, those behind it that
the file needs are still fresh. `DoneInv`: after the loop all are written. The hard part is that three loops count
good blocks on their own, two in blocks and one in pages, and that writing may mark a block
bad, which shifts every count behind it: `EraseSize * BlockRank(Blk(p)) < EraseLimit` says that a
page is among those the erase loop has dealt with, and is
not disturbed by the marking because a block is only marked bad when the invocation fails. What a page may hold after a silent
corruption is `PageWritten`: its piece of the file, or one that differs where the file has
data, which `-v` and `-c` then see.

**MarkersCorrect** adds `MarkInv`: on NOR no block is bad, a page is a block,
the erase loop with markers goes to the end of the partition, and every block that needs its marker (`NeedsMarker`) has
it, but the one just being programmed again: the write loop leaves alone the blocks the image does not reach, and what it
programs over the others starts, where a marker is asked for, with the same one. **NorCorrect** puts it together with
`SuccessCorrect`, whose `Padded` includes the padding node of a JFFS2 image: `NorFlashed`, which the run `partitions` checks on an instance, for NOR of every geometry.

**TypeCorrect**, **SuccessProved**, **ChecksumsComeFirst** (`UpdateFlashProofs`). The
program is a row of loops over the entries, so each part of `Inv` says what is true of an
entry once a given loop is past it (`Opened`, `Checked`, `Remounted`, `Flashed`): the
entry has the type and size of its file (`OpenedInv`); its checksum was right
(`ChecksumInv`); its copy has the bytes of its file if it has their number (`TmpInv`); its
partition holds its file unless a later entry names the same partition (`FlashInv`).
`StaleInv` is what makes the temporary directory safe across commands and
kills: under a name only one file has there is never more than a part of this file, so that the missing
`O_TRUNC` does no harm. `OptionsInv` says which loops belong to which options.

**WrittenUnmounted** uses `MountInv`: what the remounting loop has passed is not mounted
read-write under a name that tells it (`NamesPartition`), and nothing mounts it again, kills and later commands included.

**ImplementsFlashUpdate**: `Init` maps to `Abstract!Init`, and each action to a step of `FlashUpdate` or a
stutter. The steps that matter: the last entry of the remounting loop is "all checks
passed", every step of erasing and writing changes one target, the end of the last loop is
"success", which `FlashInv` allows only when every target is new, and `Rerun` maps to a repetition.
`Wanted(p)` is the last entry that names a partition.

### NVRAM tools

**TypeCorrect**, **AllOrNothing**, **FileIsTheSection** (`NvramToolsProofs`) need no
exclusion: they are about what a process does to its own copy. The loops of `env_add_vars` are a recursive
function over the number of assignments done. `StoredInv` has `TakenInv`, that a process about to save
had only assignments that were accepted, since the first refused one sets `ok` for good, and
`CollectedInv`, that after `--clean --file` the section holds for each name the
value of its last assignment in the file, or is cut off when there are more names than room (`Collected`), by induction over the file.

**OneTimeWritableAlone**, **SectionsStayAlone**: both properties are about one step, `NvSave`,
but rest on what was read at the beginning. `Inv` says that at most
one process is busy (`AloneInv`), that before its work its copy is what is stored
(`FreshInv`), that after it the product information still is, unless there was
none (`KeepInv`), and that no stored section is missing from the copy, except in `nvram -m`
(`StayInv`). Without `Exclusive` `FreshInv` fails, and `tools_together`
shows what comes of it.

**TypeCorrect**, **StaysInside**, **ImplementsStore** (`EnvFuncsProofs`). The invariant is the format of the environment, which no
line of the code states: strings one behind the other from the start, an end mark
after the last of them and nothing but NULs behind it (`Layout`), each string a variable and no two
of one name (`WF`). On such a buffer `get_end_mark` finds the end mark (`EndMark`),
`get_var_addr` the start of the variable of that name and of no other (`VarAddr`, by
`Downwards` along its walk), and a reader all strings (`Read`). `RemoveVar` and `AddVar` then say which
strings there are afterwards, with the cases that the code treats together: the first, the last and the only
variable, and the empty environment, whose end mark is one byte off. Names that begin, end or contain
one another are no special case of the proof. This is the invariant until something is added that does not fit. **StaysInside** has no
such limit: a buffer that was filled over its end has no end mark that can be found, or one before its end, and in both cases
the next call writes inside.

**MarkedOnlyAfterRetries**, **ReturnedIsWritten**, **TypeCorrect** (`NvramFlashProofs`):
while a call runs, the counter the two nested loops share equals the number
of accesses that failed in a row and is below `bbMaxRetries` (`CountersAgree`), and
only `-b` gets as far as reading back (`VerifiesWithB`).

### GPIO driver

**KernelStaysIntact**, **IrqStaysAssigned**, **InterruptsAreKept**, **TypeCorrect** (`GpioDriverProofs`):
the safety properties of the run `pins` for any number of threads and any
distribution of calls over them. None is inductive. The invariant `IInv` adds: a closed pin is at rest
(`ClosedAtRest`); at most one thread is inside a configuration call
(`OneConfigures`), and while it is, no handler is installed and `irqnum` is still or already
set (`ConfiguresQuietly`), otherwise the two agree (`Settled`); whoever waits has
a queue, and the queue holds sleepers and callers of poll (`QueueReady`, `QueueSleeps`), so that the handler's
wake-up moves no thread that is about to take the value; and something is unseen only while a handler is
installed (`UnseenIsInstalled`), so that `AS_IRQ` resets no trigger that matters. Besides a read on its way to the value,
READ_PIN_VAL is the one step that clears the trigger, and it leaves "wiped". There is one
lemma for each action.

### v4l2_preview_test

**TypeCorrect**, **DescriptorsAreFresh**, **PreviewIsRestored** (`V4l2PreviewProofs`), for any number of
rotations, errors and signals. `FdsInv`: once `should_stop` is set, `main` is where
it looks at it next, unless the signal came elsewhere (`MainInv`), and the camera thread closes a
descriptor only after that, in its order (`FdInv`). `WaitInv`: before the camera thread has reset the settings no rotation counts as
chosen. `PreviewInv`, as long as no call failed: while it
streams the overlay is on, unless `main` is in the middle of a change, from the reset on the rotation is
the one chosen, and after the thread's end the overlay is off unless a signal has `raced`.

### Programs and boot scripts

`BoardProgramsProofs` has for each program an invariant and four lemmas: it holds at the start, every step
keeps it, it implies the program's properties, and it is not touched by what the program does not own.
`Invariant` puts them together in `IInv`, the invariant of the program that runs, from which follow **TypesCorrect**,
**ReportsCorrect**, **OnTimeCorrect**, **NothingLeftCorrect** and **StepsAreNeededCorrect**, the five properties the run
`programs` checks beside `Ends`. What the invariants add to the properties:

- *watchdog_test* (`WatchdogInv`): from `open` on the watchdog is armed, and as long as no ioctl has failed what is
  `left` of its time is its timeout less what the clock has done since the last kick (`WatchdogCount`).
- *rtc_test* (`RtcKept`): for a request that is served, the clock is not before the time that was read and has
  moved on by at most `delay`; `tm` shows that time, then the one at which the alarm is due; nothing rings before
  it; and what the program waits for reaches behind it. That the program's carry from second to minute to
  hour adds up is arithmetic with variable bases, for any length of a minute, an hour and a day.
- *can_test* (`CanInv`): what a receiver has taken it has compared (`CanReceived`); on a clean bus what it has taken
  and what its socket holds are together the frames its transmitting thread has sent, in order (`CanUndisturbed`);
  `main` frees the options of threads that have ended. For any number of identifiers and frames.
- *bt_test* (`BtInv`): what is in the receiver's file, in its buffer and in the link are pieces of the
  transmitter's file that follow each other (`BtOrder`), and as long as nothing is damaged they amount to what
  was sent (`BtAmount`); both unless a call on the permissions has failed (`heard`). For files, buffers and links of any length.
- *gpio_sysfs_test* (`SysfsInv`): the value to be written is the parity of the presses counted, `poll` returns only for an
  edge, and after a signal at most one more press is counted.
- *gpio_test* (`GpioInv`): the driver's invariant for its one thread by where the program is (`GpioPlaces`),
  that the presses not answered yet are those the driver still holds (`GpioCount`), and that a sample which shows
  the button down has a press behind it (`GpioSamples`).
- *battery_test* (`BatteryInv`): when the child asks for its parent, the parent waits or is about to.
- *atheros.sh*, *bluez-init* (`WirelessInv`, `BluezInv`): which files are this board's at each command, whatever
  a power cut left behind; how far each chip has come at each command; and that loads done and tries left add up.

### Only model-checked

Liveness (`WornIsRetired`, `InterruptReachesReader`, `EveryCallReturns`, `Ends`, `StopEnds`) and
fairness are beyond the prover's reach. Of the safety properties the runs check only `LibdigiAsPromised` is
not proved: it is about what `cmdOptParse` and `crc32`
compute from their input. `crc32` and its reference are folds whose operator is a parameter, and that they
agree rests on the entries of a table, which is a matter of computing; `cmdOptParse` compared with its reference
definition would need induction over command lines and is not attempted.

## Where code and text disagree

Two runs end in a counterexample on purpose:

- `given_checksum_single`: `-c` is to flash "only when checksum matches", but `MtdPartWrite` replaces the
  checksum given by the one of what it has just written (`update_flash.c:1016`), so a file replaced after the
  check is flashed and accepted.
- `tools_together`: two `prodinfoenv --set` at once both find the product
  information empty; both save, and the second overwrites what the first wrote,
  although the usage text calls the variables read-only after the first time.

The modules also hold the formulas for other disagreements met in the code, each
with the configuration under which TLC finds the counterexample
(`tlc -config <cfg> <MC module>`). Where the configuration is that of a run, the
constant or the property to be changed in it is named:

| configuration | formula | what happens |
|---|---|---|
| `MtdPartUpdate_markers_nand` | `CleanMarkersWritten` | on NAND the clean marker that is written is all zeros (`:1285`); with `IsNAND = FALSE`, `MarkersDoNotSpoilImage`: `--clean-marker` on NOR spoils an image that is not JFFS2 (`:818`) |
| `MtdPartUpdate_verifyonly` | `VerifyOnlyChangesNothing` | `-V -b` marks blocks bad (`:1091`) |
| `UpdateFlash_dryrun` | `DryRunChangesNothing` | `--dry-run` runs `kobs-ng` and `ubiformat` (`:488`, `:848`) |
| `UpdateFlash_collision` | `ChecksumHonoured` | two files of one base name share their temporary copy (`:433`) |
| `UpdateFlash_staletmp` | `TmpCopyIsChecked` | a longer temporary file keeps its tail (`:1233`) |
| `UpdateFlash_update` with `RootArgLast = TRUE` | `NotMountedWhileWritten` | `root=` at the end of the kernel command line is not recognised (`:1753`) |
| `UpdateFlash_update` | `NothingMountedWhileWritten` | a file system on a UBI volume stays mounted read-write while its partition is written: only `/dev/mtdblockN` and `/dev/root` are recognised (`:1395`), while the comment says "make it read-only so no one can destroy the data" (`:453`) |
| `UpdateFlash_update` | `CompleteMeansFlashed` | "Flashing:  complete" is printed for a `ubiformat` that a signal killed: only its exit status is looked at (`:854`) |
| `GpioDriver_peeking` | `EveryInterruptReachesReader` | `GPIO_READ_PIN_VAL` resets `triggered` after it has the value: an interrupt in between wakes a reader that finds nothing and sleeps on (`gpio.c:117`) |
| `GpioDriver_reconfiguring` | `InterruptReachesReader` | `AS_IRQ` initialises the wait queue with a reader in it (`gpio.c:134`) |
| `GpioDriver_pins` with `IrqTypes <- BadType` | `IrqAssigned` | an unknown type leaves `irqnum` set (`gpio.c:150`) |
| `GpioDriver_poll` | `QueueIsInitialised` | poll on a pin without interrupt uses an uninitialised queue (`gpio.c:178`) |
| `GpioDriver_pins` with `PollFor <- Pollin` | `InterruptReachesReader` | a caller that polls for `POLLIN` alone is never told: the result has other bits (`gpio.c:183`) |
| `GpioDriver_pins` | `DeletedOnce` | `gpio_exit` deletes the one character device once for each pin (`gpio.c:282`) |
| `MCFunctions` | `AddedIsThere` | `add_var` cuts off a variable at the end of the buffer and returns 1 (`env_funcs.c:172`) |
| `V4l2Preview_preview`, `NeverLeftOn` as invariant | `NeverLeftOn` | SIGINT while `main` is about to start the overlay again leaves it on after the end (`v4l2_common.c:741`) |
| `MCPrograms` | `program = "atheros.sh" => Wireless!EveryRetryIsMade` | `rmmod` of a module that was not loaded fails and ends the script with retries left (`atheros.sh:135`) |

## What is not modelled

- The NVRAM library (`NvInit`, `NvSave`, `NvOSCfg...`): not in the repository. `NvSave` is
  taken to be atomic, because the library keeps two copies and writes one after
  the other. `nvram init` depends on the library alone; `-g` changes nothing; `-s`
  together with a command is left out.
- The bytes of CRC32, of JFFS2 nodes and of NAND OOB layouts; checksum collisions.
- Lengths of names: `env_funcs.c` and `env_add_var` copy them into buffers of fixed
  size. The 64-entry partition table.
- `OnExit`, which closes the partitions when the program ends.
- Several pins, several processes with the device open (the driver refuses the
  second open of a pin), and the registers of `CONFIG_PULLUPDOWN`.
- `log.c`, `mem.c` and `platform.c` of libdigi; the monitor loop of `battery_test`; `v4l2_still.c`; `qualcomm.sh`,
  `mount_bootparts.sh` and `resize-ext4fs.sh`: input and output without a state between two steps.
- The `adc`, `accelerometer`, `alsa` and `spidev` tests, `memwatch` and `fbtest`, recipes, classes and the build
  scripts: one pass of input and output each.
- Third-party code that is shipped along: Atheros' `btconfig`, Freescale's SAHARA tests (of which
  `gen_encrypt.c`, 18,000 lines, is test vectors) and OpenGL samples, `vplay`.

*How much of the code this is.* Nearly all lines of the repository's C files that no module maps
belong to these last two groups: the third-party programs alone are more than two thirds of all
implementation lines. Of the programs Digi wrote, those with a state that lasts from one step to the next are
modelled; what is left of them is printing, parsing of `/proc` files, option tables and usage texts.

### Further hazards

`PROJECT.json` lists the hazards that matter most. These are smaller or share their cause with
one of those; the third column names what covers them, or says why nothing does.

| place | what can go wrong | covered by |
|---|---|---|
| `update_flash.c:549` | DoMtdVerify ignores what MtdPartVerify returns: -V ends with success although the contents differ. | The result is only printed, and neither the help text nor a comment promises an exit status. |
| `update_flash.c:321` | The table of partitions has 64 entries and is used for two purposes: MtdInit writes iFd of the first ones, the command line fills them. | Needs more than 64 entries on a command line; the comparison is made before every use. |
| `update_flash.c:564` | OnExit closes the partitions from within exit(); CLOSE that fails there calls exit again. | close on an MTD device does not fail in practice; the exit handler is not modelled. |
| `nvram_priv_linux.c:242` | Without -b nothing is read back: a write that stores something else is reported as good. | By design: verification belongs to -b. WrittenIsThere states what -b adds. |
| `main_env.c:547` | When NvOSCfgSet fails the rest is still saved: network parameters are stored by a command that reports failure. | `RefusedStoresNothing` |
| `main.c:230` | nvram -s replaces the product information section, which prodinfoenv refuses to. | OneTimeWritable is stated for the two environment tools: the usage text that promises it is theirs. |
| `env_funcs.c:138` | Removing the first, the last or the only variable moves overlapping bytes up to and including the end mark. | `TypeOK`, `StoreSpec` |
| `env_funcs.c:93` | The name is copied into a buffer of fixed size with sprintf; env_add_var uses 50 bytes. | Lengths of names and values are not modelled beyond the environment buffer. |
| `env_funcs.c:113` | get_end_mark scans for a NUL without a limit when the buffer holds none. | A section is only used after its checksum was found right, and the tools write no section without NULs; the model has bytes behind the buffer but starts from terminated contents. |
| `gpio.c:320` | gpio_init fails half-way and calls gpio_exit, which looks at pins that do not exist or whose irqnum is still 0. | gpio_init models the failing cdev_add when Disciplined is FALSE; there is no statement in the source to check it against. |
| `gpio.c:326` | The device is visible before dev_id and irqnum are filled in; pin 0 can be opened then. | GpioDriver has the two steps; opening in between is possible in the runs with Disciplined FALSE, and the window is only the loading of the module. |
| `cmdopt.c:98` | The option table is copied behind the default entries into arrays of 32: the limit counts the entry that ends it. | `LibdigiAsPromised` |
| `cmdopt.c:126` | A long option is told by a negative number beside the letters and the -1 of getopt_long, in a signed char. | `LibdigiAsPromised` |
| `cmdopt.c:212` | Parameters and options stand in any order; a program whose table reuses -h or -l sets both entries. | `LibdigiAsPromised` |
| `can_test.c:565` | The options the threads read are freed at the end of main. | `NothingLeft` |
| `can_test.c:469` | The pattern is a byte and starts again after 256 frames, on both sides at once. | `ReportsAreTrue` |
| `can_test.c:548` | pthread_create is not checked: main joins a thread that was never created. | CanTest has the failure, which ends main; nothing in the source says what should follow. |
| `can_test.c:494` | A receiver that lost one frame waits for ever for its last. | Ends allows for it: no timeout is set on the socket, and the usage text promises none. |
| `bt_test.c:362` | send takes part of the block; the rest has to follow in order. | `ReportsAreTrue`, `Ends` |
| `bt_test.c:374` | After EAGAIN the -1 is added to the count of sent bytes, and the byte before the buffer is sent. | Only a socket that does not block returns EAGAIN, and the program makes none: the runs have Blocking TRUE. |
| `bt_test.c:278` | The end of the file and a lost link look alike to the receiver. | Not covered: a lost link is one of the exceptions `ReportsAreTrue` names, and no text says what the receiver should report then. |
| `bt_test.c:283` | On a full disk fwrite returns 0 and is repeated for ever. | BtTransfer has the full disk; the receiver then never ends, and Ends excludes it. |
| `watchdog_test.c:181` | The watchdog runs on after close unless it was disabled; with -d it has to. | `Ends`: the board is reset, or the watchdog was disabled. |
| `rtc_test.c:395` | The timeout of select and the alarm are set one after the other while the clock goes on. | `OnTime` |
| `rtc_test.c:343` | Seconds of 120 and more carry one minute only, and the alarm comes early. | A missing range check; the usage text gives no range. `Served` leaves such requests out. |
| `gpio_sysfs_test.c:70` | The signal handler clears run, which is only looked at after the next press. | `StepsAreNeeded` |
| `sysfsgpio.c:331` | A signal inside poll makes it fail and the program abort with its pins exported. | abort() is what the test asks for on every error; NothingLeft is about the ends that are not aborts. |
| `gpio_test.c:277` | The interrupt of a press comes before, during or after the read that waits for it. | `Ends` |
| `gpio_test.c:326` | All descriptors are closed on every path, and the pin gives its interrupt back. | `NothingLeft` |
| `gpio_test.c:328` | fd_pullup is closed without having been opened on most platforms. | Closes a descriptor of whatever number the stack holds; a single statement without a history a model could add. |
| `v4l2_common.c:646` | Three functions stop the preview for a change that may be refused; each has to start it again. | `PreviewComesBack` |
| `v4l2_preview_test.c:123` | A command given before the camera thread has reset the settings is undone by it, or uses a descriptor not opened yet. | `PreviewComesBack`; which descriptor is used before it is opened is not checked (`NoStaleDescriptor` is about closed ones). |
| `battery_test.c:129` | SIGUSR1 that comes before pause() wakes nobody; the alarm has to. | `Ends`, `ReportsAreTrue` |
| `battery_test.c:362` | On an unknown status the loop continues without its pause and floods the log. | The monitor is left out: it keeps no state. |
| `atheros.sh:135` | rmmod of a module that was not loaded fails, and under set -e ends the script with retries left. | Not covered by a run: `EveryRetryIsMade` is violated, see the table above. |
| `bluez-init:82` | Any of six commands fails with the chip under power. | BluezInit has each of them fail; the script's error path turns the power off in one step, which no property repeats. |
| `bluez-init:45` | On a board the script does not know the pin is empty, and the value becomes the number: gpio_set "" 0 drives pin 0. | The model has the boards whose pin is known. |

## Plan

1. Done: the modules above and their runs; a theorem about every safety property of the runs but
   `LibdigiAsPromised`, and about both refinements.
2. Little code is left to model: what would add most is the layout of the NVRAM sections,
   should the library's source become part of the repository.
3. The relation of the dotted lines (a partition's detail to `UpdateFlash`, the environment's to `NvramTools`)
   is argued in the text; stated as refinements they would join the modules formally.
