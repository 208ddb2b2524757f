# Verification of the Z-turn examples

The repository holds example designs for a Z-turn board (Xilinx Zynq): logic
written in VHDL, Linux kernel drivers written in C for it, and small user
programs.  This directory holds TLA+ models of the parts that run concurrently,
the TLC configurations that check them on small instances, and proofs, checked
by TLAPS, that hold for every size.

    tlc -config Dmov_app.cfg MCDmov      # one run; PROJECT.json lists them all
    tlapm DmovProofs.tla                 # one module of proofs; there are eight

## 1. The system

Five projects share much of their code.

| Project | What it is | Components |
|---|---|---|
| `axi_dma_prj2` | A stream is written into a ring of DMA buffers by an AXI DataMover; commands and statuses go through an AXI FIFO | `axi4s2dmov.c`, `ksgpio.c`, `a4s2d_app.c`, `axi4s_src3.vhd` |
| `axi_dma_prj1`, `axi_vdma_prj1` | A stream is written into a user's buffer by an AXI DMA engine | `axi4s2dma.c`, `a4s2d_app.c`, `axi4s_src1.vhd`, `axi4s_src2.vhd` |
| the same three | Registers in the logic reached through a bridge from AXI4-Lite to IPbus | `axil2ipb.vhd`, `ipbus_fabric.vhd`, `slaves.vhd`, `lfsr_test.vhd`, `axil2ipb.c` |
| `axi_irq_prj1` | A counter that interrupts the processor | `wzab_ip_ms_v1_0*.vhd`, `axi_irq1.c` |
| `axi_gpio_prj1` | Groups of GPIO lines shown as attributes in sysfs | `multi-gpio.c` |

The copies of the bridge, of its slaves, of `axi4s_src1`, of `axi4s2dma` and of
`axil2ipb.c` in the different projects are the same text; one model stands for all of them.

### Inventory

**axi4s2dmov driver.**  State: `bready[]`, `blen[]` (which buffers are ready
and how full), `exp_buf`, `received_buf` (the two ends of the ring),
`is_started`, `irq_set`; in the hardware the interrupt enable and status
registers, the transmit FIFO of commands, the receive FIFO of statuses, the
buffer the DataMover writes.  Operations: `open`, `release`, the ioctls `RESET`,
`START`, `STOP`, `GET`, `CONFIRM`, `mmap`, the interrupt handler, `probe`,
`remove`.  Interaction: GPIO lines through `ksgpio`, registers of the FIFO, a
wait queue between handler and `GET`, buffers shared with the user by `mmap`.
Hard: `tst1_ioctl` is unlocked, the handler runs on the other core, the
hardware is asynchronous, the process may be killed anywhere.  Correct when: a
buffer is never with the hardware and with the user at once; packets arrive
in order, complete, once; no wake-up is lost; a reset or a close leaves
nothing behind.

**ksgpio driver.**  State: two GPIO descriptors.  Operations: `set_start`,
`set_reset`, `check_status`, `probe`, `remove`.  Correct when: it never uses a
descriptor that it has put back (after an unbind it may, see section 3).

**axi4s2dma driver.**  State: one context for everybody: pages, scatter table,
`is_mapped`, `is_running`, `len`, `transferred`.  Operations: `open`,
`release`, the ioctls `MAPBUF`, `UNMAPBUF`, `START`, `STOP`, the completion
callback, module init and exit.  Interaction: page pinning and dmaengine.  Hard:
error paths of `MAPBUF`, the callback beside `STOP`, a close while the engine
writes, a `MAPBUF` that reports a success it did not have, a `START` that asks
for no mapping.  Correct when: pages stay pinned while written and are given back
exactly once; `STOP` returns, with the bytes of the transfer it waited for.

**Counter and axi_irq1 driver.**  State: two halves of the start value, the
control register, a 64-bit counter, the interrupt line; `irq_set`.  Operations:
`open`, `write`, `read`, `release`, the handler, `probe`, `remove`; one clock
of the counter.  Hard: the control register is changed by read and write-back
from two contexts.  Correct when: `read` returns, and with a counter that has
expired; the control register is left as each owner believes it is.

**The other parts of that IP.**  The AXI4-Lite side of its registers, a master
that tests a memory (writes words, reads them back, reports an error), and an
interrupt controller, all derived from the vendor's templates.  State: the
registers of each handshake; the phase, indexes and verdict of the test; the
stages through which an interrupt and its acknowledgement travel.  Operations: a
clock edge, a reset.  The master is started by a bit of the register bank
and reports in its status register; no driver of the repository uses it, nor
the interrupt controller, whose output the block design leaves open.  Hard: all
registers change at once, every handshake has a partner of its own pace, the
report of a test and the request for the next one cross.  Correct when: an access
acts once, as a whole, and is answered; a report belongs to the test that was
started; an interrupt is raised, and does not come back once it is acknowledged.

**Bridge and IPbus slaves.**  State: the waiting flags, address and data of
the access under way, an answer that the master has not taken yet; in the slaves
their registers, the RAM, the LFSRs, registered acknowledges.  Operations: a
clock edge, a reset.  Hard: the three AXI request channels arrive in any order,
answers may be refused for any time, reads and writes compete, a strobe is
combinational and lasts several clocks.  Correct when: the master sees atomic
registers.

**Stream sources.**  `axi4s_src1` and `axi4s_src2` send three fixed packets at a
rising edge of `start`; `axi4s_src3` sends packets of random length while `start`
is high, one process asking for them by a timer and another sending them.  State:
the outputs, the word count, the packet's numbers, timer, request and
acknowledge.  Operations: a clock edge, a reset.  Hard: the receiver may stall
at any word, `tlast` is a register that must be set one word ahead, request and
acknowledge cross.  Correct when: words hold still until they are taken;
packets are whole, marked at their end, and come at a constant distance.

**axil2ipb driver.**  State: the mapping of the bridge's registers, the
character device.  Operations: `probe`, `remove`, `open`, `release`, `mmap`, by
which a process gets the registers into its own memory.

**multi-gpio driver.**  State: groups of GPIO descriptors, one attribute each.
Operations: `store` sets the lines of a group one by one, `show` reads them,
`probe`, `remove`.  Hard: any number of processes may store and show at once, a
group may be as wide as a `long`.  Correct when: a value shown is the one that
was stored last.

**Drivers' life cycle.**  All seven drivers: module init and exit, `probe`,
`remove`, with `open`, `close` and `mmap`.  State: static pointers for what was
taken.  A probe is a chain of up to eleven acquisitions, any of which may be
refused, with a way back that differs from driver to driver; the device is
announced before the chain is complete; `axi4s2dmov` depends on `ksgpio`, which
may be loaded without being ready.  Correct when: a driver without device
holds nothing but what its way back is known to leave, and does not give back
what is no longer its own; no call follows a pointer to what was given
back; `axi4s2dmov` never uses lines that are not held.

**Test bench.**  `ipbus_ctrl.vhd` and `cbus.py` replace the bridge in a
simulation: a master driven from Python through two pipes.

**Left out for good.**  The block designs, constraint files, device trees,
build scripts and kernel configurations have no behaviour; what they wire
together (which reset line reaches what, which interrupt lines are shared) is
read from them into the models.  `addr_dec.py` generates the decoder that is
modelled.

## 2. Modules

| Module | Models | Used by |
|---|---|---|
| `DmovDriver` | driver, FIFO, DataMover and generator of `axi_dma_prj2`, with its user | |
| `BufferRing` | what that driver promises: a bounded FIFO of packets | `DmovInvariant` |
| `DmovInvariant` | the inductive invariants of `DmovDriver`, refinement mapping to `BufferRing` | `MCDmov`, `DmovProofs` |
| `MCDmov` | runs | |
| `DmovProofs` | theorems about `DmovDriver`: ownership, order, refinement | |
| `IpbusSlaves` | address map and contents of the slaves, as functions | `Axil2Ipb`, `RegisterBus` |
| `Axil2Ipb` | bridge, fabric and slaves, clock by clock, with an AXI master; refinement mapping to `RegisterBus` | `MCBridge` |
| `RegisterBus` | what they promise: registers with atomic accesses | `Axil2Ipb` |
| `MCBridge` | runs | |
| `BridgeProofs` | theorems about `Axil2Ipb` | |
| `Axi4sDma` | the `axi4s2dma` driver, the DMA engine and its users | |
| `DmaProofs` | theorems about `Axi4sDma` | |
| `CounterRegisters` | the counter as its driver sees it: registers that act at once | `IrqTimer`, `TimerSlave` |
| `IrqTimer` | the counter and the `axi_irq1` driver | `MCDrivers` |
| `TimerProofs` | theorems about `IrqTimer` | |
| `PlatformDriver` | the life of all seven drivers: load, probe, use, remove, unload | `MCDrivers` |
| `PlatformProofs` | theorems about `PlatformDriver` | |
| `GpioGroups` | the attributes of `multi-gpio` | `MCDrivers` |
| `MCDrivers` | the timer, the modules and the attributes side by side | `DriversProofs` |
| `DriversProofs` | theorems about `GpioGroups`, and about `MCDrivers` from those about its parts | |
| `AxiLiteSlave` | the AXI4-Lite side of the IP's two register banks, with a master | `TimerSlave`, `IntrSlave` |
| `TimerSlave` | the register bank and the counter, clock by clock | `WzabIp` |
| `BurstMaster` | the master that tests a memory, clock by clock, with the memory | `WzabIp` |
| `MemoryTest` | what that master promises | `BurstMaster` |
| `WzabIp` | bank and master wired together, with software that starts tests | `MCIp` |
| `IntrSlave` | the interrupt controller, clock by clock | `MCIp` |
| `MCIp` | the whole IP | |
| `IpProofs` | theorems about `MCIp` | |
| `AxiStream` | what the stream sources share: outputs and word count | `FixedSource`, `RandomSource` |
| `FixedSource` | `axi4s_src2`, and `axi4s_src1` as the same without `tuser` | `MCStream` |
| `RandomSource` | `axi4s_src3` | `MCStream` |
| `PacketStream` | what a source promises: whole packets | `MCStream` |
| `MCStream` | both sources, refinement mapping to `PacketStream` | |
| `StreamProofs` | theorems about `MCStream` | |

An operator `Faulty...` is a fault seeded on purpose, in the place of the
definition that follows it; it shows that a property can fail and is used by no
specification.

### DmovDriver

A process is a label `pc[t]`; a call takes it through the labels of that call.
A step is one access, or a group of accesses that no other part can tell
apart, to a global or to a register.  `wait_event_interruptible` is two steps:
test, and sleep until `IsrWake` sends the sleepers back to the test.  (The
kernel puts a process on the queue before it tests, so a wake-up between the two
is not lost; the model makes test and sleep one step.)

| In the model | In the code |
|---|---|
| `cmds`, `dm_busy`, `stsq` | transmit FIFO and DataMover, receive FIFO |
| `ier`, `isr_rc` | bit 26 of `AF_IER`, `AF_ISR` |
| `mem[b]`, `src` | the packet in buffer `b`; the next packet of the stream |
| `IsrEnter` ... `IsrWake` | `tst1_irq`, one action per register access |
| `ResetAssert` ... `ReleaseIrq` | `tst1_ioctl`, `tst1_open`, `tst1_release` |
| `held`, `want` | what `GET` returned; history: the packet it has to be |

Abstractions: a packet is its number, and its length stands for it; four words
written by `transfer_buf` are one command; the two stores of `CONFIRM` that
clear `blen` and `bready` are one step, since the handler writes neither of that
buffer at the time.  Memory is sequentially consistent.  `mdelay(100)` outlasts
a handler that is running: `ResetRelease` waits for `isr = "idle"`.  `free_irq`
waits for a running handler, as the kernel promises.  `SharedLine` lets the
handler be called when another device on the line interrupts.  The reset line
clears FIFO, DataMover and generator, as `design_1.bd` wires it.

### Axil2Ipb

One step is one clock.  The combinational process `qq` is a set of operators
over the state (`IsWrite`, `IsRead`, `BusAddr`, `Ack`, `BValid`, ...), the
registers change in `Clock`.  The master posts address, data and read address in
separate steps, in any order, keeps them until they are taken, and in each clock
chooses whether it is ready for answers.  `wr`, `rd` and `last` are history:
the accesses accepted and the last answer taken.  Words are two bits and the
RAM two words long; the address map is the real one.  No slave of the
repository raises `ipb_err`.  `Reset` is a reset line held until the slaves'
acknowledges have fallen, as the board's reset generator does.

### Axi4sDma

`pages`, `sgl` name the process whose buffer they describe.  `MAPBUF` is three
steps (test, pin, map) with a way out at each, and not every way out says so:

| In the model | In the code |
|---|---|
| `MapRefused` | `-EBUSY`, `-EFAULT`, `-EINVAL`, before anything is taken |
| `MapNotPinned` | fewer pages than asked (`-EFAULT`), or an error of `get_user_pages_fast`, after which the call returns 0 (`axi4s2dma.c:237`) |
| `MapNoMemory` | a failed `kcalloc` (`:231`): 0 of 0 pages are pinned, and the call goes on to the table without a list of pages |
| `MapSgFailed` | no memory for the table, or no room in the mapping |
| `StartPrepare`, `StartSubmit` | `START` asks for neither `is_mapped` nor a table (`:278`); without one the engine gets a descriptor with no pages |
| `Oops` | a table is read that is not there: the process dies in the kernel, its descriptor is closed |

The engine completes descriptors in order with any residue, an empty one with
nothing written or never, and `a4s2d_callback` is three steps.  `broken` is
history: a process was interrupted in `STOP`, or closed the device, while its
transfer was running.  `StopReturns` leaves out, by name, a `STOP` that waits for
what was never submitted or has no pages (`EndComes`): the code sets `is_running`
before it submits (`:302`) and does not reset it.

### IrqTimer

One step is one access to a register of the counter; `fmem[0xC/4] &= ~2` is
two.  The counter is clocked between accesses (the bus is far slower), so a load
takes effect before the next access.  A register has two bits, the counter
four.  `Rearm` allows a second `write` before the `read`.  The registers are
those of `CounterRegisters`; that the logic behind them, with its AXI
handshakes and its load one clock late, is no different from this view is a
property of `TimerSlave` (`DriverView`).

### PlatformDriver

A driver is a row in a table: `Steps(d)` is what its probe takes, in order,
`WayBack(d, s)` what a refusal of step `s` gives back, `Removed(d)` what
`remove` gives back and `Forgotten(d)` the pointers it resets.  The actions are
the same for all.

| In the model | In the code and the kernel |
|---|---|
| `phase`, `todo` | where the module is; the rest of its probe, one acquisition a step |
| `pointers` | `my_pdev` (`"claim"`), `fmem`, `my_cdev`, `class_my_tst`, `my_dev` (`"region"`), `virt_buf[]`, the GPIO descriptors |
| `held` | what the kernel has really given: a pointer may be set without it, and the other way round |
| `leaked` | history: what refused probes left |
| `unowned` | history: drivers that gave back a number they no longer owned |
| `opened`, `mapped` | one descriptor, and its mappings, which may outlive it |

`Refuse` reports an error and the kernel frees what is managed (`devm_`);
`BindIncomplete` is the way back of a probe whose `res` is still 0 (`cdev_alloc`,
the DMA buffers), so that the device is bound all the same.  `device_create` is
not looked at, except in `multi-gpio`, so a node may be missing unnoticed.  In
`multi-gpio` an uninitialised `i` goes into the number of the node: a node of
another number is `"stray"`, and nothing finds it again.  `Retry` is a deferred
probe, or a bind through sysfs; it is refused as long as `my_pdev` is set.
A class that was left behind blocks the `class_create` of the next load.

Nobody resets `my_dev`, so after a refused probe it names a number that went
back.  Two things follow in `multi-gpio`, whose way back (`my_dev_cleanup`) is taken
at any step of `my_dev_create`.  A later probe that is refused its region gives that
number back a second time, from whoever has it now: `Refuse` records this in
`unowned`, and `GivenBack` says that no other driver does it.  A later probe that is
refused its class has an `ERR_PTR` in `my_class` (`multi-gpio.c:144`) and passes it
to `device_destroy`: the process dies in the probe (`Die`), the device stays
locked (`"stuck"`), and only `Reboot` gets it out.

`Unload` needs a driver that is not in use, which the kernel sees to (`Fops.owner`,
the symbols of `ksgpio`).  For `Unbind` neither the kernel nor a `remove` asks: it
happens at any time, also while a process has the device open and its memory
mapped, and the calls that follow meet what is left (`CloseNode` of `axi_irq1`, whose
`release` writes to registers that are gone, is the end of the process).  `NothingDangles` says
what saves the others: the pointers are NULL, and not left on what was given back.

The interrupt that `open` registers is in `IrqTimer` and `DmovDriver`.  `BUF_NUM`
is 2, a node is opened once at a time, each board has one device per driver, and a
GPIO driver is alone on its board, as in `axi_gpio_prj1` (`BoardsAssumption`).

### GpioGroups

One step is one line of a group.  `stored` is history: the numbers that a show
of a group may return; after two stores at once that is any.  `alone` tells
whether a store of the same group met the call.  A `long` has `LONG_BITS` bits
and the group `dout1` as many lines, so that its last line is the sign of
what is shown.  Storing to the inputs changes nothing, the inputs are driven
from outside, and `gpiod_get_value` may fail at any line.  A text that is no number
changes nothing, and is left out.

`MCDrivers` puts `IrqTimer`, `PlatformDriver` and `GpioGroups` into one run, as
`MCIp` does for the IP: `use` tells which of them a behaviour exercises, since a
life of a module and a call of its user meet only in `opened` and `mapped`.

### The counter's IP, clock by clock

One step is a rising edge; between edges a master raises its valid signals, in
any order, and at each edge every partner (the masters of the registers, the
memory) is ready or not.  A choice is offered where it matters: whether the
master is ready counts only while an answer waits.

* `AxiLiteSlave` keeps an access in `wcmd`, `rcmd` from its offer to its answer,
  one write and one read at a time, as the slave's comment asks for.  It is
  shared by both banks, whose processes are the same text.
* `TimerSlave` maps its state to `CounterRegisters`: between the edge that writes
  `load_enable` and the next one the counter counts as loaded already.
* `BurstMaster` names words and addresses by number.  The memory may take
  address and word in any order, answer when it likes, answer with an error,
  and return another word than it stored.  `nw`, `nr`, `bad` are history: what the
  memory has seen of the test.
* `WzabIp` adds software that raises the start bit only when it knows of no
  test that runs (a status that showed the end, or a reset).  Raised during a
  test, the bit would withdraw valid signals that were not accepted yet
  (`M00_AXI.vhd:258`); nothing in the repository does that, or says what then
  should happen.
* `IntrSlave` is one interrupt, level-sensitive and active high, the default
  generics; its counter gives one pulse after a reset.  `owed` is history: an
  interrupt came, and no acknowledgement after it.  `det_intr` looks at the
  acknowledgement first (`S_AXI_INTR.vhd:543-548`), so the code loses an interrupt
  that comes in the very clock in which `reg_intr_ack` stands, although what was
  acknowledged was an earlier one or none: `missed` records it, and the
  properties leave it out by name (`Standing`).  Without that exception
  `InterruptRaisesIrq` is false.

`MCIp` composes them; `use` tells which part a behaviour exercises, as the
interrupt controller has a port of its own, and the counter and the test of the
memory share only the status word.

### Stream sources

One step is a clock edge, with `tready` and the next `start` chosen freely, or
a reset.  The shift register of `p2` in `axi4s_src3` is a choice of the three
numbers it yields.  `out` is what the last edge transferred; `gap` and `steady`
are history for the distance between packets.  Lengths are scaled down, and the
timer with them: the shortest packet still outlasts it (`TimerAssumption`).
`tuser` of the third packet of `axi4s_src2` is never cleared
(`axi4s_src2.vhd:131`); as no text says what it should be, `PacketStream` does
not speak of it.

## 3. Runs

| Run | Instance | What it shows |
|---|---|---|
| `dmov_app` | ring of 3, stream of 4 packets, FIFO of 3, the application killed and restarted anywhere | ownership, order, integrity, no lost wake-up, refinement of `BufferRing`, the inductive invariant `OrderInv` |
| `dmov_free` | ring of 2, calls in any order, failing transfers | `RESET` leaves nothing |
| `dmov_stop` | the same with good transfers | finding: `CONFIRM` after `STOP` resubmits |
| `bridge_seq` | one access at a time; a register, an LFSR, the RAM; full and partial strobes | refinement of `RegisterBus`, error answers included; every access answered |
| `bridge_conc` | reads and writes at once | no answer lost, each write acts once |
| `bridge_read` | the same | finding: a write takes over a waiting read |
| `dma_app` | one process, two lengths, every failure with the calls that go on after it, killed or dying anywhere | pages stay pinned while written, unless the process gave up; all given back; `STOP` returns if what it waits for was submitted with pages |
| `dma_count` | the same | finding: `STOP` may return the previous count |
| `drivers` | the timer: three start values, `request_irq` may fail, killed anywhere | a read returns, and an expired counter; nothing stays enabled after close |
| | the modules: each driver by itself, and `axi4s2dmov` with `ksgpio`; every step refused, every order of load, probe, use, unbind, unload | what is given back and whose it was, that no pointer is left on it, also after an unbind in use, that the two lines are held |
| | the attributes: two processes, groups of 3, 2 and 1 lines | a show returns what was stored last |
| `timer_rearm` | a second write before the read | finding: the handler stops the new run |
| `stream` | both designs, packets of 2 to 7 words, any stalls, resets, changes of `start` | refinement of `PacketStream`, offers stand, constant distance, sending goes on |
| `ip_ports` | halves of one bit, three words of memory, one interrupt, any pace of every partner | the bank acts as its driver thinks, the memory is tested and the report is fresh, an interrupt raises `irq` unless it comes in the clock of an acknowledgement, and does not come back, everything ends |

**Bounds.**  A ring of three buffers wraps at both ends with statuses, ready
buffers and commands present together, which two would not; a cyclic stream of
four packets is longer than the ring, so that an old packet in a buffer is told
from a new one.  A FIFO of three holds every command of the ring and no more, so
that a fourth one would be lost and found missing.  `MAX_HANDLERS`, `MAX_DESC`
and `FIFO_DEPTH` cap what the code leaves unbounded; an action that would pass
them is disabled.  Two-bit words tell the data of two accesses, a fixed word
and a cleared register apart.  Two-bit registers give the counter a
carry between the halves, a start value of zero and a wrap below zero; in
`ip_ports`, where the handshakes are the subject, halves of one bit do.  A test
of three words has a first, a middle and a last one, and fits its index
registers, which a test of two does not (`BurstAssumption`).  The interrupt
controller's counter is shortened after its pulse only: the pulse comes as many
clocks after reset as in the code, so that it may find the interrupt disabled or
enabled in part, with accesses under way; enabled, raised and acknowledged
states follow in every order.
Packets of two words have their first beside their last; the other lengths
differ so that the numbers of one packet are not taken for those of another.

Two DMA buffers let the first be there and the second be refused.  A board
with one driver is enough where the drivers share nothing; the two that do are
together.  `Rebound` leaves `ksgpio` out: it keeps `my_pdev` and its descriptors
after `remove` (`ksgpio.c:40`), so that after an unbind `ksgpio_check_status`
passes on lines that are not held, and `LinesHeld` fails.  In the attributes one
number is negative and its digits differ, the other has its only digit set in
the first line.

**Fairness.**  The hardware goes on (`WF` on the DataMover, the engine, the
counter, the clock): it is clocked logic fed by a generator that never stops.
An asserted interrupt line runs the handler, and a handler that has begun ends.
A process inside a call is scheduled.  Nothing is assumed of the user, who may
stop calling at any time, or of the other devices on the interrupt line.  The
masters of the bridge and of the IP are assumed to take an answer they wait for
in the end, and the receiver of a stream to take a word.  In `ip_ports` there is
one such assumption for each handshake: while it waits, an edge at which all
partners are ready comes in the end.

**Deadlock** is checked in every run.

**The findings.**

* `dmov_stop`: "We stop resending the descriptors" (`axi4s2dmov.c:260`) is not
  what `ADM_STOP` does; the resending is in `CONFIRM`, which never looks at
  `is_started`.
* `bridge_read`: `axil2ipb.vhd:194` looks at a new write before a waiting read;
  the write replaces the stored address, and the read returns the register the
  write went to.  The processor's port can have both under way.
* `dma_count`: the callback reports the end (`axi4s2dma.c:125`) before it
  stores the count (`:128`).
* `timer_rearm`: the handler's write-back (`axi_irq1.c:139`) stops a run that
  was started after its test of the status.

The application programs of the repository, run once at a time, meet
`dma_count` only.

## 4. Proofs

Eight modules hold theorems.  Each is about the specification that a run
checks, for every value of the constants that satisfies the named `ASSUME`s;
fairness is not used.  `Drivers.cfg` runs three specifications side by side: the
theorems are about each of them, and `SideBySide` shows that a behaviour of all is
one of each, so that `DriversTypes` and `AlwaysDriversSafe` state the run's
invariants of the specification that the run checks.  Every invariant, every
action property and every refinement that a passing run checks is a theorem.

| Module | Theorem | Statement | Assumes |
|---|---|---|---|
| `DmovProofs` | `TypeCorrect` | `[]TypeOK` | nothing: any processes, any order of calls |
| | `Ownership` | `[]OneOwner` | `SingleUser` |
| | `Integrity` | `[]HeldIsIntact` | `SingleUser` |
| | `ResetSound` | `[]ResetQuiesces` | one process, any order of calls |
| | `OrderCorrect` | `[]OrderInv` | `SingleUser`, `Lossless` |
| | `OrderSound` | `[]InOrder` | `SingleUser`, `Lossless` |
| | `TagSound` | `[]ExpectedTag` | `SingleUser`, `Lossless` |
| | `Refinement` | `RefinesRing` | `SingleUser`, `Lossless` |
| | `ReleaseSound` | `[]Released` | one process, any order of calls |
| `DmaProofs` | `TypeCorrect` | `[]TypeOK` | nothing |
| | `PagesStay` | `[]PinnedWhileWritten` | one process |
| | `PagesReturn` | `[]Released` | one process, any of its calls failing or going on |
| `BridgeProofs` | `TypeCorrect` | `[]TypeOK` | nothing |
| | `LinkSound` | `[]NothingLost` | nothing |
| | `ActSound` | `ActsOnce` | nothing |
| | `AtomicSound` | `AtomicAccess` | `Concurrent = FALSE` |
| `TimerProofs` | `TypeCorrect` | `[]TypeOK` | nothing |
| | `ReleaseSound` | `[]Released` | one process |
| | `ExpirySound` | `[]ReadExpired` | one process, `Rearm = FALSE` |
| `PlatformProofs` | `AlwaysGivenBack` | `[]GivenBack` | nothing: any boards |
| | `AlwaysNothingDangles` | `[]NothingDangles` | nothing: unbound at any time |
| | `AlwaysLinesHeld` | `[]LinesHeld` | `ksgpio` is not unbound |
| | `AlwaysPlatformTypes` | `[]PlatformTypeOK` | nothing |
| `DriversProofs` | `AlwaysGroupTypes` | `[]GroupTypeOK` | nothing: any processes, widths and numbers |
| | `AlwaysShown` | `[]StoredIsShown` | nothing |
| | `SideBySide` | `Spec /\ PlatformSpec /\ GroupSpec` | `MCNumbers \subseteq Long` |
| | `DriversTypes` | `[]DriversTypeOK` | `MCNumbers \subseteq Long` |
| | `AlwaysDriversSafe` | `[]DriversSafe` | the same, one process, `Rearm = FALSE`, `ksgpio` is not unbound |
| `StreamProofs` | `TypeCorrect` | `[]TypeOK` | nothing |
| | `OfferSound` | `OfferStands` | nothing |
| | `GapSound` | `ConstantGap` | nothing |
| | `WholeSound` | `WholePackets` | nothing |
| `IpProofs` | `TypeCorrect` | `[]TypeOK` | nothing |
| | `AckSound` | `AckedStaysLow` | nothing |
| | `TestSound` | `TestsMemory` | a software that starts a test only when it knows of none that runs (part of the specification) |
| | `ReportSound` | `[]ReportIsFresh` | nothing |
| | `ViewSound` | `DriverView` | nothing |

### What is assumed

* `SingleUser` is one process that calls in the application's order
  (`a4s2d_app.c`) and may be interrupted, killed and started again.  Out of
  that order `OneOwner` is false: a `START` after `STOP` submits what the hardware
  still has.
* `Lossless`: transfers end well and the command FIFO takes a whole ring.
  After an error status the handler logs and does not go on to the next buffer
  (`axi4s2dmov.c:133`), so nothing about order holds; the FIFO of the design
  takes 512 words (`system.mss:47`), four to a command.
* "One process" is `\E u : Threads = {u}`.  The drivers' flags are not locked,
  and `open` lets a second process in: two callers both pass the test of `CONFIRM`
  (`axi4s2dmov.c:282`).
* `Rearm = FALSE`, `Concurrent = FALSE` and the unbinding of `ksgpio` are
  the subject of findings: without them the statements are false (`timer_rearm`,
  `bridge_read`, section 3).
* `TestSound` and `ReportSound` are about a start bit that is raised between
  tests.  The register bank would let it be raised during one; what the
  master then does (section 2) no theorem covers.
* The constants' assumptions are those of the code: sixteen buffers, as a tag has
  four bits; a packet longer than the timer (`TimerAssumption`); a test
  whose index fits its register (`BurstAssumption`).  `UINT_MAX` is the greatest
  value of an `unsigned int`.  Lines marked "arithmetic, for the provers" say that a
  power of two is a natural number, that the next one is twice as large, or that
  twice `Top` is `Half * Half`: they hold of any width, but are reached only by
  induction on an exponent, which the provers cannot do.  TLC evaluates them on
  each run.
* `MCNumbers \subseteq Long`: the two numbers that `MCDrivers` stores, 1 and
  `-LONG_BITS`, are numbers of a long, as they are when it has two bits or more.
  `AlwaysGroupTypes` and `AlwaysShown` are about `GroupSpec`, in which any number of
  a long is stored.

### The invariants

None of the properties is inductive.  Each module has a conjunction that is,
checked with TLC before it was proved (`OrderInv` is an invariant of
`dmov_app`), and one lemma per action.

*Ownership* (`IInv`).  `OneOwner` says a buffer is not in two hands; to keep that
through `START`, which submits all buffers, one must know that the hardware is
empty then: `Quiet` carries this from the reset, and `Starting` through the loop.
To keep it through `CONFIRM` one must know that the buffer in turn is ready and
not with the hardware: `Confirming`.  `HeldIsIntact` needs that length and memory
agree for every completed buffer, in FIFO, handler and ring: `Intact`.  What `RESET`
leaves needs no order of calls, only `Quiet`.

*Order* (`OrderInv`).  The ready buffers are a run round the ring from the
one to deliver next up to `exp_buf` (`ReadyRun`); from there follow the buffer in the
handler's hands, the statuses, the commands, each one place further (`Tags`); all
together they are the whole ring, but for what `START` has not submitted or
`CONFIRM` is moving (`Supplied`); and along this chain each packet is the
successor of the one before (`Packets`).  `Bookkeeping` ties the driver's flags
to the registered handler and the interrupt enable.  For `BufferRing`, a
delivery is the step of `CONFIRM` that clears the ready flag, an arrival that of
the handler that sets it; all other steps stutter.

*Pages* (`AppInv`).  The context says what is pinned, at each label of the
process, whichever call failed, went on or died before (`Mapping`); until a
process gives up, a transfer whose end the driver was not told has its process
waiting and `is_running` set (`Transferring`).

*Bridge* (`LinkInv`, `ActInv`, `SeqInv`).  An access that waits on IPbus has no
answer yet (`Apart`).  A write that waits is stored already, and went to a slave
for which storing twice is storing once; an LFSR answers at once (`Stored`): hence
a strobe of several clocks acts once.  With one access at a time only the slave of
that access acknowledges (`AckOwned`), and an answer under way is the answer to it
(`WriteHeld`, `ReadHeld`), which makes every access atomic.

*Counter* (`RelInv`, `ExpInv`).  Where the process is tells who has the
interrupt enabled, what a half-done update of the control register holds, and
that the counter has passed zero once the process goes on to read it.

*Sources* (`FixedInv`, `RandomInv`, `GapInv`).  The word offered is number
`wrd_count` of its packet, and `tlast` is set exactly if that is the length.  For
the distance: while `start` stays high the next request is there, or the timer
has counted as many edges as words were offered.

*The counter's IP* (`PipeInv`, `MasterInv`, `SoftInv`, `BankInv`).  An interrupt in
any stage was detected and not acknowledged, but for the last stage,
which the acknowledgement reaches one clock later; the one that was missed is in
none of them.  Each half of the memory test
is at rest, issued, offered or answered, and in each of these the indices, the
addresses and the memory's history agree (`WriteInv`, `ReadInv`); the phase
tells which half moves, and what went wrong is in a register or in an answer
not taken yet (`Verdict`).  A start bit on its way finds the master idle and the
software not free (`StartInv`), so that a status never mixes two tests.

*Life of the drivers* (`PlatformInv`, `LinesInv`).  `Due` says which steps of a probe
have been done when another one comes; it is read off each driver's steps, for all
seven (`Order`).  A probe holds what its steps took and has their pointers set
(`ProbingInv`), so that every way back, and `remove`, can be compared with it
(`RefusedLeaves`, `IncompleteLeaves`, `CompleteRemoved`); a bound driver's
pointers lead `remove` to all it holds, its number among it (`BoundInv`); in any
phase the pointers that calls follow lead to what is held (`PointersInv`), since
whatever gives a resource back resets its pointer, but for `my_dev` and those of the
GPIO drivers (`FollowedFacts`).  For the lines, `ksgpio` is ready from the end of
its probe on (`ReadyInv`), and is not unloaded while `axi4s2dmov` is (`CheckedInv`).
For the types, what a refused probe has left must never be given back later, or
`leaked` would name what is no longer held: the first thing left is the class (the
channel, for `axi4s2dma`), which the kernel does not give twice, so that every
later probe stops there and `remove`, which could reach the rest, is never called
again (`LeftInv`, `FirstFacts`).

*Attributes* (`GroupInv`).  A call that has come to line *i* without meeting a store
has set, or collected, the lowest *i* digits of one number (`StoringInv`,
`ShowingInv`), where `Lowest` counts the last digit of a long as its sign; between
calls the lines of a group show the number in `stored` (`SettledInv`).  One more line
is one more digit (`LowestNext`), so the loops of the code do the induction, and
whatever the lines are, the sum stays within a long (`Within`).

### What is only model-checked

* Liveness, and `ENABLED`: `GetReturns`, `StopReturns`, `AccessAnswered`,
  `ReadReturns`, `SendsOn`, `InterruptRaisesIrq`, `AllEnds`.  The provers
  installed do not reason about fairness.

That is all of it among the properties of the passing runs.

## 5. What is not covered

* Weak memory ordering between the cores, although the drivers' globals
  have no barriers.
* Two processes at once in one driver, except in the theorems about types and
  in `GpioGroups`.
* Transfers that fail, for liveness: after an error status a `GET` may wait for
  ever (`axi4s2dmov.c:133`).
* Addresses no slave decodes: the bridge waits for ever (`axil2ipb.vhd:295`).
* What the programs do with the data.
* What outlives an unbind without going through a pointer of the driver: pages
  of a freed DMA buffer that a process has mapped, and commands for such a buffer
  that the DataMover still has (`axi4s2dmov.c:203`).  `NothingDangles` says nothing
  of them, and the code does nothing about them.
* A call and `remove` step by step at once, such as a store of `multi-gpio` while
  its lines are put back (`multi-gpio.c:212`): an unbind comes between calls.
* A start of the memory test in the middle of a test, and two processes in
  `CONFIRM` at once (section 4).
* Edge-triggered and active-low variants of the interrupt controller.
* The test bench (`ipbus_ctrl.vhd`, `cbus.py`) and the generator `addr_dec.py`.

## 6. Plan

1. Core, done: `DmovDriver` and its proofs, bridge, DMA driver, counter.
2. Extension, done: the stream sources, the counter's IP clock by clock, the
   life of the drivers, the attributes of `multi-gpio`.
3. Proofs, done: every invariant and action property that a run checks, every
   refinement, and the drivers side by side.
4. Left: liveness, which stays with TLC.

Runs stay at one per question, so that each later module adds one passing run,
and a run that only shows a finding gives way to it where needed.
