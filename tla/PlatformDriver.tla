--------------------------- MODULE PlatformDriver ---------------------------
(***************************************************************************)
(* The life of the kernel drivers: a module is loaded, its probe takes one *)
(* resource after another, any of which may be refused, a process opens    *)
(* and maps the device, and unloading gives back what the driver's static  *)
(* pointers name.  All drivers but axi4s2dma follow the same order; they   *)
(* differ in what they take and in what a refused step gives back.         *)
(*                                                                         *)
(* Besides the driver there is the kernel: it counts the users of a        *)
(* module, frees devm-managed resources of a device that is not bound, and *)
(* probes again after -EPROBE_DEFER.  A board has one device per driver.   *)
(* An administrator may unbind it through sysfs at any time: the kernel    *)
(* keeps the module of a device that is open, but not its driver bound.    *)
(***************************************************************************)
EXTENDS Naturals, Sequences

CONSTANTS
  Boards,   \* the sets of drivers that are used together
  Rebound   \* drivers that an administrator unbinds and binds

Drivers == {"axil2ipb", "axi_irq1", "axi4s2dmov", "axi4s2dma", "ksgpio",
            "multi-gpio", "multi-gpio-v1"}

\* A module that calls another one needs it.
Needs(d) == IF d = "axi4s2dmov" THEN {"ksgpio"} ELSE {}

\* axi_gpio_prj1 has no other driver.
GpioDrivers == {"multi-gpio", "multi-gpio-v1"}

ASSUME BoardsAssumption ==
  \A b \in Boards :
    /\ b \subseteq Drivers
    /\ \A d \in b : Needs(d) \subseteq b /\ (d \in GpioDrivers => b = {d})

\* axi4s2dma has no device to unbind.
ASSUME ReboundAssumption == Rebound \subseteq Drivers \ {"axi4s2dma"}

VARIABLES
  installed,   \* the drivers of this board
  phase,       \* "out", "probing", "waiting" (loaded, no device), "bound", or "stuck"
  todo,        \* the steps of the probe that are still to be done
  pointers,    \* static pointers that are set (and checks passed), named for their steps
  held,        \* what the kernel has given to the driver
  leaked,      \* history: what refused probes have left behind
  opened,      \* a process has the device open
  mapped,      \* what it has mapped into its memory
  unowned      \* history: drivers that gave back a number they no longer owned

platformVars ==
  <<installed, phase, todo, pointers, held, leaked, opened, mapped, unowned>>

-----------------------------------------------------------------------------
(* The steps of each probe, named for what they take.  "control" only looks *)
(* whether ksgpio is ready, "irq" reads a number, and "claim" sets my_pdev. *)

Buffers == {"buffer0", "buffer1"}     \* BUF_NUM is 2 here
Lines == {"dout1", "dout2", "din"}
Character == {"class", "region", "cdev", "live", "node"}
NodeSteps == <<"class", "region", "cdev", "live", "node">>

BridgeSteps == <<"registers">> \o NodeSteps \o <<"claim">>
CounterSteps == <<"irq", "registers">> \o NodeSteps \o <<"claim">>
MoverSteps == <<"control", "registers", "irq", "class", "region", "cdev", "live", "node",
                "claim", "buffer0", "buffer1">>
DmaSteps == <<"channel">> \o NodeSteps
ControlSteps == <<"start", "reset", "claim">>
GroupSteps == <<"dout1", "dout2", "din">> \o NodeSteps \o <<"files", "claim">>
GroupStepsV1 == <<"dout1", "dout2", "din">> \o NodeSteps \o <<"claim">>

Steps(d) ==
  CASE d = "axil2ipb" -> BridgeSteps
    [] d = "axi_irq1" -> CounterSteps
    [] d = "axi4s2dmov" -> MoverSteps
    [] d = "axi4s2dma" -> DmaSteps
    [] d = "ksgpio" -> ControlSteps
    [] d = "multi-gpio" -> GroupSteps
    [] d = "multi-gpio-v1" -> GroupStepsV1

\* Steps that take something the kernel has to get back.
Takes(s) == s \notin {"control", "irq", "files", "claim"}

\* device_create is looked at by multi-gpio only; my_pdev is an assignment.
MayBeRefused(d, s) == s # "claim" /\ (s = "node" => d = "multi-gpio")

\* Steps that the kernel may refuse for now: their supplier is not there yet.
Deferrable == {"irq", "start", "reset"} \cup Lines

\* Freed by the kernel when the device is not bound.
Managed(d) ==
  Lines \cup {"start", "reset"}
    \cup (IF d \in {"axil2ipb", "axi4s2dmov"} THEN {"registers"} ELSE {})

-----------------------------------------------------------------------------
(* What is given back *)

\* The common part of remove, exit and my_dev_cleanup; each line is guarded
\* by the pointers it uses.
CharacterDevice(d) ==
  {r \in Character :
     CASE r = "node" -> {"class", IF d = "axi4s2dma" THEN "cdev" ELSE "region"}
                          \subseteq pointers[d]
       [] r \in {"cdev", "live"} -> "cdev" \in pointers[d]
       [] r = "class" -> "class" \in pointers[d]
       [] r = "region" -> TRUE}

\* err1 of the probes that map registers gives back nothing else.
RegistersBack == {"registers"}
\* err1 of ksgpio calls remove, which does nothing while my_pdev is not set,
\* and that of axi4s2dma is empty.
NothingBack == {}
\* multi-gpio: err1 of the probe does nothing either, err1 of my_dev_create
\* cleans up what it created.  A class that was refused is no NULL pointer for
\* it, which class_destroy sees and device_destroy does not (see Die).
GroupBack(d, s) == IF s \in Lines THEN NothingBack ELSE CharacterDevice(d)

WayBack(d, s) ==
  CASE d \in {"axil2ipb", "axi_irq1", "axi4s2dmov"} -> RegistersBack
    [] d \in {"axi4s2dma", "ksgpio"} -> NothingBack
    [] OTHER -> GroupBack(d, s)

\* cdev_alloc and dma_zalloc_coherent do not set res, and the probe reports
\* success when they have failed; multi-gpio alone sets an error.
ReportedAsSuccess(d, s) ==
  s \in Buffers \cup {"cdev"} /\ d \notin {"multi-gpio", "multi-gpio-v1"}

\* What remove, or the exit of axi4s2dma, gives back.
BridgeRemoved(d) == CharacterDevice(d) \cup {"registers"}
FaultyMoverRemoved(d) == CharacterDevice(d) \cup {"registers"}
MoverRemoved(d) == CharacterDevice(d) \cup {"registers"} \cup (Buffers \cap pointers[d])
DmaRemoved(d) == CharacterDevice(d) \cup {"channel"}
ControlRemoved(d) ==
  IF "claim" \in pointers[d] THEN {"start", "reset"} \cap pointers[d] ELSE {}
GroupRemoved(d) ==
  IF "claim" \in pointers[d] THEN CharacterDevice(d) \cup (Lines \cap pointers[d]) ELSE {}

Removed(d) ==
  CASE d \in {"axil2ipb", "axi_irq1"} -> BridgeRemoved(d)
    [] d = "axi4s2dmov" -> MoverRemoved(d)
    [] d = "axi4s2dma" -> DmaRemoved(d)
    [] d = "ksgpio" -> ControlRemoved(d)
    [] OTHER -> GroupRemoved(d)

\* my_dev names a number that went back before, to whoever came next.
LostNumber(d) == IF "region" \in pointers[d] \ held[d] THEN {d} ELSE {}

\* The pointers that remove resets.  ksgpio and multi-gpio keep my_pdev, and
\* nobody resets my_dev.
FaultyForgotten(d) == pointers[d] \ {"region", "registers"}
Forgotten(d) ==
  CASE d = "ksgpio" -> {}
    [] d = "multi-gpio" -> Lines \cup {"cdev", "class"}
    [] d = "multi-gpio-v1" -> {"cdev", "class"}
    [] OTHER -> pointers[d] \ {"region"}

-----------------------------------------------------------------------------
(* Loading and probing *)

\* A module that calls another one is loaded after it.
Load(d) ==
  /\ phase[d] = "out"
  /\ \A n \in Needs(d) : phase[n] \in {"waiting", "bound"}
  /\ phase' = [phase EXCEPT ![d] = "probing"]
  /\ todo' = [todo EXCEPT ![d] = Steps(d)]
  /\ UNCHANGED <<installed, pointers, held, leaked, opened, mapped, unowned>>

NextStep(d) == IF todo[d] = <<>> THEN {} ELSE {Head(todo[d])}

\* ksgpio_check_status
FaultyCheckStatus == "start" \in pointers["ksgpio"]
CheckStatus == {"claim", "start", "reset"} \subseteq pointers["ksgpio"]

\* multi-gpio adds an uninitialised i to the minor number of its node: a node
\* of any other number is "stray", my_dev_cleanup does not find it.
Outcomes(d, s) ==
  IF s # "node" THEN {s}
  ELSE IF d \in {"multi-gpio", "multi-gpio-v1"} THEN {"node", "stray"} ELSE {"node"}

\* One step of the probe is done.  A class, a channel or a line that is still
\* held from an earlier load is not given again.
Take(d) ==
  /\ phase[d] = "probing"
  /\ \E s \in NextStep(d) :
     /\ s = "control" => CheckStatus
     /\ s \notin held[d]
     /\ \/ \E r \in Outcomes(d, s) :
             held' = [held EXCEPT ![d] = @ \cup (IF Takes(s) THEN {r} ELSE {})]
        \/ s = "node" /\ ~MayBeRefused(d, s) /\ UNCHANGED held    \* unnoticed
     /\ pointers' = [pointers EXCEPT ![d] = @ \cup {s}]
  /\ todo' = [todo EXCEPT ![d] = Tail(@)]
  /\ UNCHANGED <<installed, phase, leaked, opened, mapped, unowned>>

Bind(d) ==
  /\ phase[d] = "probing" /\ todo[d] = <<>>
  /\ phase' = [phase EXCEPT ![d] = "bound"]
  /\ UNCHANGED <<installed, todo, pointers, held, leaked, opened, mapped, unowned>>

\* The kernel refuses the next step s, and the probe takes its way back.
Refused(d, s) ==
  /\ phase[d] = "probing" /\ MayBeRefused(d, s)
  /\ s = "control" => ~CheckStatus

\* It reports success, and is bound without what s and the way back took away.
BindIncomplete(d) ==
  \E s \in NextStep(d) :
    /\ Refused(d, s) /\ ReportedAsSuccess(d, s)
    /\ phase' = [phase EXCEPT ![d] = "bound"]
    /\ todo' = [todo EXCEPT ![d] = <<>>]
    /\ pointers' = [pointers EXCEPT ![d] = @ \ WayBack(d, s)]
    /\ held' = [held EXCEPT ![d] = @ \ WayBack(d, s)]
    /\ UNCHANGED <<installed, leaked, opened, mapped, unowned>>

\* When multi-gpio is refused its class, my_dev_cleanup looks for the device of
\* the number my_dev still names from an earlier probe, in a class that is an
\* error pointer.
Dies(d, s) == d \in GpioDrivers /\ s = "class" /\ "region" \in pointers[d]

\* It reports the error, and the kernel frees what it manages.  The init of
\* axi4s2dma does all this without a probe: its module is not loaded then.
\* The pointer of a step that fails is reset, but not in multi-gpio.c, and
\* my_dev keeps the number that an earlier step was given.
Refuse(d) ==
  \E s \in NextStep(d) : LET kept == held[d] \ (WayBack(d, s) \cup Managed(d)) IN
    /\ Refused(d, s) /\ ~ReportedAsSuccess(d, s) /\ ~Dies(d, s)
    /\ phase' = [phase EXCEPT ![d] = IF d = "axi4s2dma" THEN "out" ELSE "waiting"]
    /\ \/ todo' = [todo EXCEPT ![d] = <<>>]
       \/ s \in Deferrable /\ todo' = [todo EXCEPT ![d] = Steps(d)]
    /\ pointers' = [pointers EXCEPT ![d] =
         CASE d = "axi4s2dma" -> {}
           [] d = "multi-gpio" -> @ \ (WayBack(d, s) \ {"region"})
           [] OTHER -> @ \ ((WayBack(d, s) \cup {s}) \ {"region"})]
    /\ held' = [held EXCEPT ![d] = kept] /\ leaked' = [leaked EXCEPT ![d] = kept]
    /\ unowned' = unowned \cup (IF "region" \in WayBack(d, s) THEN LostNumber(d) ELSE {})
    /\ UNCHANGED <<installed, opened, mapped>>

\* The process dies in the probe, and keeps the device locked.
Die(d) ==
  /\ \E s \in NextStep(d) : Refused(d, s) /\ Dies(d, s)
  /\ phase' = [phase EXCEPT ![d] = "stuck"]
  /\ UNCHANGED <<installed, todo, pointers, held, leaked, opened, mapped, unowned>>

\* A waiting device is probed again: by the kernel once another driver has
\* come, or through sysfs.  "We can't handle more than one device": as long
\* as my_pdev is set every probe is refused at once.
Retry(d) ==
  /\ phase[d] = "waiting" /\ (todo[d] # <<>> \/ d \in Rebound)
  /\ "claim" \notin pointers[d]
  /\ phase' = [phase EXCEPT ![d] = "probing"]
  /\ todo' = [todo EXCEPT ![d] = Steps(d)]
  /\ UNCHANGED <<installed, pointers, held, leaked, opened, mapped, unowned>>

-----------------------------------------------------------------------------
(* Use by a process; Fops.owner = THIS_MODULE makes an open file, and a    *)
(* mapping, a user of the module.                                          *)

\* As soon as the character device is there, even while the probe goes on.
\* multi-gpio has no operations on its file; all others open with success.
OpenNode(d) ==
  /\ "live" \in held[d] \ leaked[d] /\ ~opened[d]
  /\ opened' = [opened EXCEPT ![d] = TRUE]
  /\ UNCHANGED <<installed, phase, todo, pointers, held, leaked, mapped, unowned>>

\* release of axi_irq1 writes to its registers; without them the process dies
\* in it, and the device stays open.
CloseNode(d) ==
  /\ opened[d] /\ (d = "axi_irq1" => "registers" \in pointers[d])
  /\ opened' = [opened EXCEPT ![d] = FALSE]
  /\ UNCHANGED <<installed, phase, todo, pointers, held, leaked, mapped, unowned>>

\* mmap of axil2ipb maps the physical addresses; that of axi4s2dmov a buffer,
\* or a "hole" when there is no such buffer yet.  Before my_pdev is set the
\* latter ends the process.
Mapping(d) ==
  CASE d = "axil2ipb" -> {{"window"}}
    [] d = "axi4s2dmov" /\ "claim" \in pointers[d] ->
         {{IF b \in held[d] THEN b ELSE "hole"} : b \in Buffers}
    [] OTHER -> {}

MapMemory(d) ==
  /\ opened[d]
  /\ \E m \in Mapping(d) : mapped' = [mapped EXCEPT ![d] = @ \cup m]
  /\ UNCHANGED <<installed, phase, todo, pointers, held, leaked, opened, unowned>>

\* munmap, or the end of the process; the mapping may outlive the file.
UnmapMemory(d) ==
  /\ mapped[d] # {}
  /\ mapped' = [mapped EXCEPT ![d] = {}]
  /\ UNCHANGED <<installed, phase, todo, pointers, held, leaked, opened, unowned>>

Called(d) == \E other \in installed : d \in Needs(other) /\ phase[other] # "out"
InUse(d) == opened[d] \/ mapped[d] # {} \/ Called(d)

\* remove, after which the kernel frees what it manages.
Remove(d) ==
  /\ held' = [held EXCEPT ![d] = @ \ (Removed(d) \cup Managed(d))]
  /\ unowned' = unowned \cup (IF "region" \in Removed(d) THEN LostNumber(d) ELSE {})

\* Nobody asks whether a process has the device open or its memory mapped.
Unbind(d) ==
  /\ phase[d] = "bound" /\ d \in Rebound
  /\ Remove(d)
  /\ pointers' = [pointers EXCEPT ![d] = @ \ Forgotten(d)]
  /\ phase' = [phase EXCEPT ![d] = "waiting"] /\ todo' = [todo EXCEPT ![d] = <<>>]
  /\ UNCHANGED <<installed, leaked, opened, mapped>>

\* A module goes, and its driver leaves the device it is bound to.
Unload(d) ==
  /\ phase[d] \in {"waiting", "bound"} /\ ~InUse(d)
  /\ IF phase[d] = "bound" THEN Remove(d) ELSE UNCHANGED <<held, unowned>>
  /\ pointers' = [pointers EXCEPT ![d] = {}]
  /\ phase' = [phase EXCEPT ![d] = "out"] /\ todo' = [todo EXCEPT ![d] = <<>>]
  /\ UNCHANGED <<installed, leaked, opened, mapped>>

\* The only way out for a process that is stuck.
Reboot ==
  /\ \E d \in installed : phase[d] = "stuck"
  /\ phase' = [d \in installed |-> "out"]
  /\ todo' = [d \in installed |-> <<>>]
  /\ pointers' = [d \in installed |-> {}]
  /\ held' = [d \in installed |-> {}]
  /\ leaked' = [d \in installed |-> {}]
  /\ opened' = [d \in installed |-> FALSE]
  /\ mapped' = [d \in installed |-> {}]
  /\ unowned' = {}
  /\ UNCHANGED installed

-----------------------------------------------------------------------------
PlatformInit ==
  /\ installed \in Boards
  /\ phase = [d \in installed |-> "out"]
  /\ todo = [d \in installed |-> <<>>]
  /\ pointers = [d \in installed |-> {}]
  /\ held = [d \in installed |-> {}]
  /\ leaked = [d \in installed |-> {}]
  /\ opened = [d \in installed |-> FALSE]
  /\ mapped = [d \in installed |-> {}]
  /\ unowned = {}

DriverStep(d) ==
  \/ Load(d) \/ Take(d) \/ Bind(d) \/ BindIncomplete(d) \/ Refuse(d) \/ Die(d) \/ Retry(d)
  \/ Unbind(d) \/ Unload(d) \/ OpenNode(d) \/ CloseNode(d) \/ MapMemory(d) \/ UnmapMemory(d)

PlatformNext == Reboot \/ \E d \in installed : DriverStep(d)

PlatformSpec == PlatformInit /\ [][PlatformNext]_platformVars

-----------------------------------------------------------------------------
(* Properties *)

Resources == Character \cup Lines \cup Buffers \cup {"registers", "channel", "start", "reset"}

PlatformTypeOK ==
  /\ installed \in Boards
  /\ phase \in [installed -> {"out", "probing", "waiting", "bound", "stuck"}]
  /\ \A d \in installed : pointers[d] \subseteq {Steps(d)[i] : i \in 1..Len(Steps(d))}
  /\ held \in [installed -> SUBSET (Resources \cup {"stray"})]
  /\ \A d \in installed : leaked[d] \subseteq held[d]
  /\ opened \in [installed -> BOOLEAN]
  /\ mapped \in [installed -> SUBSET (Buffers \cup {"window", "hole"})]
  /\ unowned \subseteq installed

\* A driver without device has given back all it took, wherever its probe
\* stopped, but for what the way back of a refused probe leaves, which is
\* never an interrupt's registers, a live device or a buffer; the gpio drivers
\* leave nothing (my_dev_cleanup, devm), but for a stray node.  None but these
\* gives back a number that it no longer owns, though my_dev keeps its value.
GivenBack ==
  /\ \A d \in installed : phase[d] \in {"out", "waiting"} =>
       /\ held[d] \subseteq leaked[d] \cup {"stray"}
       /\ leaked[d] \subseteq
            IF d = "axi4s2dma" THEN {"channel", "class", "region", "cdev"}
            ELSE IF d \in {"axil2ipb", "axi_irq1", "axi4s2dmov"} THEN {"class", "region", "cdev"}
            ELSE {"stray"}
  /\ unowned \subseteq GpioDrivers

\* The calls of an open file, and the drivers' own remove, go through static
\* pointers.  Whatever was refused or unbound while the device was open, each of
\* these names something the driver holds or is NULL, and my_pdev names no device
\* that the driver has left.
Serving == {"axil2ipb", "axi_irq1", "axi4s2dmov", "axi4s2dma"}
Followed == {"registers", "class", "cdev", "channel"} \cup Buffers
NothingDangles ==
  \A d \in installed \cap Serving :
    /\ pointers[d] \cap Followed \subseteq held[d]
    /\ "claim" \in pointers[d] => phase[d] \in {"probing", "bound"}

\* From the check of ksgpio in its probe on, and as long as it is bound,
\* axi4s2dmov has the two lines to its engine, which belong to another driver.
\* (Not when ksgpio is in Rebound: its check passes after it was unbound.)
LinesHeld ==
  \A d \in installed :
    d = "axi4s2dmov" /\ "control" \in pointers[d] => {"start", "reset"} \subseteq held["ksgpio"]
=============================================================================
