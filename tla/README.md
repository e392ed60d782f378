# SGI Indy core: models, checks and proofs

TLA+ models of the parts of this core in which things happen at the same time:
the memory path between the CPU, two DMA engines and one DDR3 bridge, the disk
path between a SCSI target and the MiSTer host, the SCSI bus, the two DMA
engines, the timers, interrupts and keyboard, and the display's line cache. TLC
checks them on small instances; TLAPS proves what carries furthest - all safety
of the memory port, of the DDR3 mux and of the disk path, and three or more
properties each of the display, the interrupts, the DMA channel and the SCSI
bus - for every value of the constants. All paths below
are relative to `src/`.

- [1. The system](#1-the-system)
- [2. How the RTL is translated](#2-how-the-rtl-is-translated)
- [3. The modules](#3-the-modules)
- [4. The runs](#4-the-runs)
- [5. Fairness](#5-fairness)
- [6. The proofs](#6-the-proofs)
- [7. Disagreements found](#7-disagreements-found)
- [8. Not modelled](#8-not-modelled)
- [9. Plan](#9-plan)

## 1. The system

One clock (50 MHz) drives everything below, but for the serial ports' baud
clock; every register changes on its edge. `sgiindy.sv` is the top level.

| Part | State it keeps | Operations | What is hard about it |
|---|---|---|---|
| CPU memory stage, `rtl/cpu/r4300/cpu.vhd` 1971-2046, `cpu_datacache.vhd` 242-274 | one access at a time; the window a line fill is written through | issue, retire, write a beat of the fill | the beats come at any pace |
| CPU bridge, `rtl/cpu/r4300_bus.sv` | S_IDLE / S_BUSY / S_FILL, the beat, the request pulse | start an access or a fill, count beats, report done | a pulse that nobody may drop; a beat nobody may count twice |
| Arbiter, `rtl/sgi/ram_arb.sv` | whether a transaction is in flight and whose | grant, remember a CPU pulse, route answers | a request pulse in any clock of the other's transaction |
| DMA mux and response mux, `rtl/sgi/sgi_indy.sv` 453-616, 1122-1160 | owner tag, the registered answer for an address in no bank | choose between two engines, answer holes | the answer comes clocks after the choice |
| DDR3 mux, `rtl/mister/ddr3_mux.sv` | per master: latched request, in service; the command at the bridge; the queue of outstanding reads; a display burst cut in sub-bursts | latch, pick (rotation), present, line-write beats, give words out | seven masters, one wire of answers, held and pulsed requests |
| Display line fetch, `rtl/mister/fb_linecache.sv`, `fb_fetch_arb.sv` | two readers' fill engines, who owns the burst | ask, take, store words | ownership moves on while the words are on their way |
| SCSI block cache, `rtl/scsi/scsi_cache.sv` | per slot: window, valid and dirty bits; an engine at the targets' side, a channel at the platform's side, prefetcher, flusher | read, write, re-base, flush, prefetch, mount, bypass, reset | two sides share one store; write-behind; mounts and resets at any time |
| SCSI targets, `rtl/scsi/scsi.v` (vendored, seven instances in `sgi_scsi.sv`) | bus state, the double buffer, the block request | commands; asks the cache for a block, waits for the edge of its ack | a bus reset in the middle of a block |
| SCSI initiator, `rtl/scsi/wd33c93.sv` | register file, Select-and-Transfer sequencer, settle counters | commands, phases, REQ/ACK, DMA request, pause and resume | REQ is a level the target may withdraw |
| HPC3 SCSI DMA, `rtl/sgi/hpc3_scsi_dma.sv` | descriptor registers, 14-state engine, write-gathering and read-ahead words | fetch, move a byte, flush, end of chain, stop, flush, reset | register writes and the engine in one clock; early end of the data phase |
| MC and its GIO64 engine, `rtl/sgi/sgi_mc.sv`, `mc_gio_dma.sv` | registers; nine-state engine, translation cache | fill, memory to graphics and back, faults | page crossings, faults and restarts |
| HPC3 store, IOC/INT2, 8254, i8042, DS1386, EEPROM, SCC, HAL2 (`rtl/sgi/`) | register files, timers, queues | register access, interrupts, host events | an event in the clock of the access that clears it |
| Newport (`rtl/newport/`) | REX3's registers and drawing engine, held write and read, display bus; VC2, CMAP, XMAP9, Bt445 | drawing commands, host port, video timing | three clients of one engine |
| R4300 (`rtl/cpu/r4300/`, vendored N64 core with local changes) | pipeline, caches, TLBs, write FIFO | instructions | requests latched behind a victim's write-back |
| MiSTer framework (`sys/`, vendored) | hps_io, video, audio | disk transactions, mounts, OSD | of any pace |

How they interact: the CPU and the two DMA engines share main memory through
the arbiter; the arbiter's port, the PROM's reads, the PROM's download, the
rasteriser, the display and a debug beacon share the bridge through the DDR3
mux. All requests are either a pulse of one clock or a line held until the
acknowledgement, and which of the two is part of each contract. A disk read
goes target - cache - hps_io - target - initiator - DMA channel - arbiter, with
a handshake of its own at each step.

What makes each part correct:

- Memory port: the port is never asked while busy; every answer reaches the
  master it was read for with the word that master waits for; a fill is
  complete when it is reported; everybody is served.
- DDR3 mux: answers come in order to their askers, each request is served
  once, a line write stays in one piece, no queue overflows, nobody starves,
  and main memory's port does what the arbiter assumes of it.
- Disk path: a read returns what was written last; nothing written is lost;
  what is clean equals the image; the two sides of the cache stay apart; what
  goes to an image belongs to it; every request is answered, dirt leaves.
- SCSI DMA: each byte is where the chain says before the interrupt that says
  so; bytes out are the chain's and fresh; no interrupt is lost; a stop stops;
  held bytes are written; a chain ends.
- SCSI bus: bytes in order over look-ahead, settle counters, pauses and
  resumes, none taken or given twice; what the chip reports is true; no result
  overwritten before it is read; every session comes to its end.
- MC's DMA: memory, bus and fault are those of the loops the descriptor means,
  and a restart at the address written back leaves out no byte; the end is told
  when it is true, and comes.
- Interrupts: no expiry lost between counter and latch, no entry without one, a
  latched count read whole, what is typed is read in order beside the answers
  to commands, and the test program of the repository passes at any delay.
- Display: a flag never overlooks a write, a pixel is what memory holds, what
  is drawn appears and what is cleared is fetched no more.

The hazards behind these, with their lines, are in `PROJECT.json`.

## 2. How the RTL is translated

One edge of the clock is one step. A module of the RTL becomes a module here
with its registers as VARIABLES under the source's names and an operator
`Clock(inputs)` that says what all of them become, so that a system is the
conjunction of its parts' clocks, wired by operators that carry the wires'
names. Where a clocked block assigns a register several times the last
assignment wins, and the definitions keep that order. Combinational wires are
operators. What the RTL does not decide - when a memory answers, which request
a master raises - is a choice.

The modules of one system share its variables, so the parts are INSTANCEd
without renaming and the system's module declares all VARIABLES.

Data is what the properties tell apart: an address is a block or the name of a
descriptor, a word is the identity of its request and its index, a byte is a
number that says which byte it is. Byte lanes of the bus, and everything that
only reports to the debug beacon, are left out.

## 3. The modules

Seven groups. In each, one module per part of the RTL, one that wires them with
their environment, an `MC` module with the constants' values and, where liveness
needs it, the clock of section 5 (in a `...Live` module of its own where the
safety run goes without it), and where theorems are proved a `...Proofs` module.

### Memory port

| Module | Code |
|---|---|
| `CpuMemPort` | the memory stage's t_memstate machine and the data cache's fill window |
| `R4300Bus` | `r4300_bus.sv`, whole |
| `RamArb` | `ram_arb.sv`, whole |
| `RamPort` | the contract of the port behind the arbiter: one transaction, silently dropping what comes while it is busy; the behaviour of `verilator/sim_ram.v` and of the mux's main-memory master |
| `MemoryPort` | `sgi_indy.sv`'s wiring of these with the devices and the two engines |
| `MemoryService` | the abstract specification: a set of masters, each owed some words, main memory with one holder at a time |
| `MemoryPortProofs` | the theorems, and the refinement |

`Next` of `MemoryPort` is one clock of all parts. The CPU issues any access of
`Accesses` (a word, a fill of `LineFills` doublewords, a line write) to memory
or to a device; an engine asks whenever it may, in a bank or, if `ScsiHoles` or
`McHoles` allows it, in none. `ImplementsService` is the refinement: a master's
debt is the bridge's count of words to come, or the engine's request; the
holder is the arbiter's owner together with the mux's tag.

### DDR3 mux

`Ddr3Mux` is `ddr3_mux.sv`: `Latch` (requests), `Cand`/`Order`/`Pick` (the
rotation), `Load`/`Command` (what is put at the bridge), `WlCont` (line
writes), `ReadQueue`, `Display` (sub-bursts) and `Answer`. `FbFetch` is the
display's two fill engines as the mux sees them, and `fb_fetch_arb.sv`.
`DdrSystem` adds the masters as each raises its request - RAM and PROM pulse,
the rasteriser and the download hold, the beacon pulses and waits for nothing -
and the bridge. `RamContract` closes the circle with the memory port: main
memory's side of the mux implements `RamPort`, the module the memory port was
checked against. `DdrProofs` has the theorems.

### Display

| Module | Code |
|---|---|
| `LineCache` | `fb_linecache.sv` with `TRACK_ZERO`: the fill engine, the ring of buffers, the restart at the frame, the zero-line flags, the pixel read |
| `DisplayPath` | the display's timing, a rasteriser that writes a visible or a blank word into one line and marks it as `np_rex3.sv` does, and the bridge of `verilator/tb_linecache.cpp` |
| `DisplayProofs` | the flags, the pixels, no miss |

A word is its place and whether the display can see anything in it. `mark`
comes two clocks after the write is acknowledged at the earliest, as in the
rasteriser; a burst answers each word as memory held it when the burst was
issued or as it holds it now, which is all that the bridge's own pipelines
leave open.

### Disk path

`ScsiCache` is `scsi_cache.sv`: the channel (C_IDLE, C_REQ, C_XFER), the engine
(thirteen states), demand, prefetch, flusher, windows and store. `BlockPort` is
the target's request engine. `DiskPath` adds hps_io with the images, one
transaction at a time and at any pace, and the guest: a record `guest`, chosen
at the start from `Guests`, says which slots it uses, what it asks for and what
else happens (cache switch, exchange of the image, machine reset, bus reset).
One sector, `Watch`, is followed word by word with the version the guest wrote
last; every other sector of a slot holds that slot's constant, which is enough
to see a sector delivered for another or written to another image. The cache
treats all sectors alike. `DiskProofs` has the theorems.

### SCSI bus

| Module | Code |
|---|---|
| `Wd33c93` | `wd33c93.sv`, whole: a driver's accesses, every command, selection, the polled transfer, Select-and-Transfer state by state, settle, pause, selection and reset counters, look-ahead |
| `ScsiTarget` | `scsi.v`'s bus side: phases, CDB, byte counter, ring of sector halves, write halves, the read port the look-ahead borrows, flow control, aborts, CDB timeout |
| `ScsiBus` | `sgi_scsi.sv`'s wiring of the two with a DMA channel, a card of any pace and a driver that works through one of `Plans` |
| `ScsiBusProofs` | the result register under any plans; the bytes and the outcomes of Select-and-Transfers |

The clocked block of `wd33c93.sv` assigns its registers from four places - the
defaults, the channel's reset, the driver's access, the sequencer - and the
last one wins. Each is the record of what it assigns here, and they are merged
with `@@` in that order. What the driver does is `run_cdb()` of
`tests/scsiwr/scsiwr.c`, IRIX's resumption of a paused transfer, a polled
session, the boot PROM's scan of an empty ID and a reset; `chan` is the
channel's side of the byte handshake, whose other side is the next group's.

### SCSI DMA

`Hpc3ScsiDma` is `hpc3_scsi_dma.sv`: `Moves` names what the engine does in
each state, and `PioState`, `Sequencer`, `Descriptor`, `Bytes`, `Master`, `Int`
give the registers, the register write's assignments overridden by the
engine's as in the clocked block. `ScsiDmaPath` adds the driver (lays out a
chain, starts it, reads the control register, stops, flushes or resets),
main memory behind the arbiter, and the initiator's side of the byte
handshake, whose target may pause or end its data phase early.
`ScsiDmaProofs` proves all of its safety.

### MC DMA

`McGioDma` is `mc_gio_dma.sv`: nine states, beats of one or two accesses, the
translation cache of one entry, faults, the write-back of MEMADR.
`McDmaReference` is the abstract specification, translated from the loops of
`reference()` and `xl_ref()` in `verilator/tb_mcdma.cpp`: what bytes a
descriptor moves, where it faults and which address is left. `McDmaPath` adds
the registers of `sgi_mc.sv` (start, RUN, CAUSE, interrupt, the descriptor), a
CPU that programs, starts, retires the interrupt and writes MEMADR meanwhile,
and memory and graphics that answer when they like. The engine is not stepped
beside the reference: it computes its outcome (`Outcome`) when a transfer
starts, and the ends are compared: `MatchesReference` as the bench does, MEMADR
included, which a fault in the second half of a beat breaks (section 7), and
`RestartLosesNothing` with what holds of MEMADR there. `PathAssumption` has the
types of the descriptors, uTLB and page tables, and that the bound `FUEL` on the
steps of the reference's loops is enough for each descriptor (`Rounds`).
`McDmaProofs` proves how an end is told, and `RestartLosesNothing`.

### Interrupts

| Module | Code |
|---|---|
| `Pit8254` | `pit8254.sv`: counters, reload and one-shot modes, byte pairs, the latch command, the tick |
| `Int2` | the interrupt half of `sgi_ioc.sv`: timer latches, masks, the folds into L0 and L1, the CPU's lines |
| `I8042` | `i8042.sv`: output queue, the controller's and both devices' commands with staged answers, host events |
| `IntTest` | these with the CPU's write FIFO and interrupt lines, a bus of any delay, the host's keyboard (`verilator/sim_ps2.h`), and a program |
| `IntProofs` | the expiries, the count read through its latch, and the entries to the handler |

A program is a sequence of instructions such as store, load, `wait_exc` and
`check`. `Inttest` is `tests/int/inttest.c` from its first check to its last
with its handler; `Clocks` serves both periodic counters, `Calibrate` reads a
count as it runs, and `Post`, `Driver` and `Lazy` use the keyboard as the PROM,
an interrupt handler and a guest that does not read do.

## 4. The runs

| Run | What it asks | Distinct states |
|---|---|---|
| `port` | all safety of the memory port with SCSI descriptors that name holes, the refinement, everybody served | 117 thousand |
| `mux` | all safety of the mux under four loads, the contract of main memory's port, nobody starves | 80 thousand |
| `disk` | all safety of the disk path under five guests, requests answered, dirt flushed | 885 thousand |
| `disk_race` (violation) | a guest that asks while a prefetch starts | |
| `scsi_dma` | all safety and liveness of the channel | 220 thousand |
| `mc_dma` | every transfer does what the reference does, ends, and says so | 179 thousand |
| `mc_dma_fault` (violation) | the address written back on a fault, see section 7 | |
| `interrupts` | the test programs, no expiry lost, what is typed is read | 163 thousand |
| `display` | flags, pixels, no miss, what is drawn is shown | 471 thousand |
| `scsi_bus` | eight sessions of a driver, order and truth of the results, all end | 30 thousand |
| `scsi_bus_fill`, `scsi_bus_short` (violation) | see section 7 | |

Each run explores all of its instance. None has a deadlock, since a clock
always comes; deadlock is checked throughout.

Bounds, and why they are enough:

- `port`: `NumIds = 2`, ids tell an answer from the previous one's; an answer
  can be late by one transaction, never by two, since each requester waits.
  Fills of two and line writes of four words: the theorems hold for every
  length.
- `mux`: sub-bursts of one word instead of sixteen with `FBR_AHEAD = 2` as in
  the code; lines of three words in bursts of two give full and short last
  bursts, so that a sub-burst crosses each boundary the code tests. The read
  queue keeps its real depth, `RF = 8`. Two blocks tell a repeated request from
  a changed one. The four loads put the masters that can disturb each other
  together; the beacon's writes only take turns.
- `disk`: windows of four sectors in groups of two, images of five, so that the
  last group is short and the window has present and absent groups. Two words a
  sector: the first word may come in the clock of the acknowledgement, the
  second not. `PREFETCH = 2` and `FLUSH_IDLE = 2` instead of 16 and 4096: an
  exhausted counter and one that still runs. Sectors 0, 1 and 4 are the first
  group, the same group, and the short one outside the window. The bus reset is
  one clock instead of 256: with an hps_io of any pace it covers the longer
  one. The cache switch, the exchange and the resets come at most twice.
- `scsi_dma`: words of four lanes and two words of buffers: bytes that start,
  end and meet within a word. Five chains: a receive chain as the PROM builds
  it, one that starts in a link, a loop, two buffers apart and two in one word.
  Two commands, so that bytes of the first can be taken for the second's; one
  stop, flush or reset. `LINK_LIMIT = 2` and `FLUSH_IDLE = 2` instead of 16
  and 1024.
- `mc_dma`: doublewords of four bytes (`QW`), pages of two of them (`PAGE`),
  two pages to a uTLB entry (`SEG`), 48 bytes of addresses (`ASIZE`):
  transfers within a page, over its end, over the end of what is mapped, up and
  down, with zoom, stride and lines that end within a beat. Two starts
  (`RUNS`), so that a cached translation could survive into the second; one
  write while the first runs (`POKES`); an access waits a clock at most
  (`DELAY`). `FUEL` bounds the reference's loops above their longest count.
- `interrupts`: bytes of four values (`BYTE`), so that a count has two digits
  and carries between them; a tick of three clocks (`TICK_DIV`) against a bus
  delay of up to four (`DELAY`), so that an access falls in every phase of it;
  a write FIFO of three stores; `PERIOD = 13` and `SPINS = 90` keep inttest's
  proportion of period to waiting. The keyboard's queue has eleven places
  (`QDEPTH`), where the longest answers and an event just meet its limit;
  host events come `GAP = 12` clocks apart and from clock `START = 40`.
- `display`: five lines against the ring's four buffers, a frame of ten by nine
  clocks and lines, bursts of two in lines of three words of which two are
  visible; two writes, so that a line can be drawn and cleared within one
  fetch; a burst waits at most two clocks (`DELAY`), the slowest with which a
  line is still fetched in the time of a line, which is what
  `tb_linecache.cpp` asks of the bridge too.
- `scsi_bus`: sectors of four bytes (`BLOCK`), two in the ring, answers of
  three. The settle counters `DIN_SETTLE = 6` and `PIO_SETTLE = 12` are the
  code's own, since they race the target's look-ahead clock by clock;
  selection timeout, pause, reset hold and CDB wait are long enough to tell an
  expired counter from a running one (6, 4, 3 and 20). Segments end within a
  sector and with it; chains run out in a sector; one ID is empty.

Assumptions about the environment that keep a run clear of a disagreement of
section 7, so that everything else can be checked: the guests of `disk` ask
only when no prefetch is pending (`hasty = FALSE`); the driver of `scsi_dma`
writes the control register when the engine has nothing to do but wait
(`Hasty = FALSE`); the MC's engine is aimed at no hole (`McHoles = FALSE`);
no sector starts to come in while a byte settles (`FillsApart = TRUE`); the
drivers of `scsi_bus` reset the chip when it rests or waits for a channel
without room, and ask for no more than an answer has. The
bridge answers a read no sooner than the second clock after taking it, as
`verilator/tb_ddr3.cpp`'s does.

Each property has a mutant in `PROJECT.json`: a plausible error in one
definition, written next to it under "Mutant", that the run's property catches.

## 5. Fairness

A clock never stops. Where the environment may rest, weak fairness of `Next`
says something else: if the hardware rests too it asks for the environment's
next request, and where a clock leaves every register as it is it asks for
nothing. So `MCMemoryPort`, `MCDdrSystem`, `MCScsiDmaPath` and
`MCScsiBusLive` add a variable `edge` that each clock toggles and assume
`[]<>edge /\ []<>~edge`; a stuck design is then a behaviour in which nothing
else changes, and a liveness property fails on it. `MCDiskLive` has `rested`
instead, which toggles only in clocks that change nothing else: the same with
half the states. In `DisplayPath` and `IntTest` something moves in every clock
by itself - the beam, the tick - and no delay exceeds its bound, so weak
fairness of `Clock` says just that; in `McDmaPath` weak fairness of `Tick`, the
clock without a write of the CPU's.

Beyond that only the environment is fair:

- `MemoryPort`: the memory and the devices answer in the end (the mux's
  run shows that main memory does).
- `DdrSystem`: the bridge takes a command that stays and answers what it owes.
- `DiskPath`: hps_io goes on with a request or a transaction, since the
  framework's loop polls; the disks are mounted in the end. Nothing is assumed
  of the guest.
- `ScsiDmaPath`: memory grants and answers. The second part of
  `ChannelFinishes` assumes in addition, in its own text, that the target goes
  on with its data phase or ends it; the first, that held bytes are written,
  does not, since it is about a target that stops.
- `ScsiBus`: the card goes on with a sector it was asked for, the channel with
  a byte it has room for, the driver with a job it can go on with. Nothing is
  assumed of chip and target, which are clocked.

Two liveness properties are conditional because the code's priorities are.
`EveryoneServed` of the memory port promises the MC's engine an answer if the
SCSI channel stops asking, since that channel wins each tie; and that of the
mux promises PROM and rasteriser theirs where the display is off, see section
7.

## 6. The proofs

All for every value of the constants that their modules' assumptions admit, and
for memories, bridges and devices of any latency:

| Module | Theorem | Says | Assumes |
|---|---|---|---|
| `MemoryPortProofs` | `TypesHold` | `Spec => []TypeOK` | |
| | `NeverOverrun` | `Spec => []PortNeverOverrun` | |
| | `CpuAnswered` | `Spec => []CpuGetsItsWord` | |
| | `FillsAreComplete` | `Spec => []FillComplete` | |
| | `EnginesAnswered` | both engines' answers are their own | the MC's engine is aimed at no hole |
| | `PathIsService` | `Spec => ImplementsService`, the refinement | the MC's engine is aimed at no hole |
| `DdrProofs` | `AnswersMatchTheorem` | `Spec => []AnswersMatch` | |
| | `CommandsAreWantedTheorem` | `Spec => []CommandsAreWanted` | |
| | `LineWriteInOnePieceTheorem` | `Spec => []LineWriteInOnePiece` | |
| | `RamContractTheorem` | `Spec => RamContract`, the refinement | |
| `DiskProofs` | `SidesApartTheorem` | `[]SidesApart` | `[]~DemandRace`, `Calm` |
| | `ReadsLatestTheorem` | `[]ReadsLatest` | the same, and `Discs` |
| | `NothingLostTheorem` | `[]NothingLost` | the same |
| | `CleanMatchesImageTheorem` | `[]CleanMatchesImage` | the same |
| | `WritesBelongTheorem` | `[]WritesBelong` | the same |
| | `PatientTheorem` | `[]~DemandRace` | `Calm`, guests that ask when nothing is left to prefetch |
| | `PatientDataTheorem` | all five | `Calm`, `Discs`, such guests |
| `DisplayProofs` | `FlagsCover` | `Spec => []FlagCovers` | |
| | `PixelsAreMemory` | `Spec => []PixelIsMemory` | `FetchesInBlank`: a line is fetched between vertical sync and the first line |
| | `NoMisses` | `Spec => []NoMissAfterFirst` | `KeepsUp`: one is fetched in the time of a line, two in the blanking |
| `IntProofs` | `ExpiriesKept` | no expiry is lost | no counter runs on a count of zero |
| | `LatchedReadsWhole` | `Spec => []LatchedReadWhole` | `ReadsLatched`: programs that latch a count and read both its bytes next, or read none |
| | `EntriesAreNews` | `Spec => OneEntryPerExpiry` | `ReadsLatched`, and `ReadsBack`: clears have reached INT2 before an interrupt can be taken |
| `ScsiDmaProofs` | `InterruptsKept` | `Spec => []InterruptOwed` | |
| | `StoppedStays` | `Spec => []StopWins` | the driver waits for the engine to settle |
| | `BytesInPlaceTheorem` | `Spec => []BytesInPlace` | the same, and `InOrder` |
| | `DataBeforeInterruptTheorem` | `Spec => []DataBeforeInterrupt` | the same, and `InOrder` |
| `McDmaProofs` | `EndIsToldTheorem` | `Spec => []EndIsTold` | |
| | `RestartLosesNothingTheorem` | `Spec => []RestartLosesNothing` | drivers' descriptors are `Legal`, `FUEL` is enough |
| `ScsiBusProofs` | `ResultsKept` | `Spec => ResultKept` | |
| | `BytesKeepPlaces` | `Spec => []BytesInPlace` | `PlansAreSound`: jobs are Select-and-Transfers, disconnects and resets; `PAUSE >= 2` |
| | `OutcomesAreTrue` | `Spec => []OutcomeIsTrue` | the same |

**Memory port.** None of the properties is inductive: that an acknowledgement
is the CPU's own rests on where its request is. The inductive invariant `IInv`
says so:

- `StageInv`: the memory stage and the bridge agree on whether an access is
  under way;
- `BusInv`: the bridge's registers follow the access it serves;
- `WhereInv`: while the bridge waits its request is in exactly one of four
  places - on the wire, remembered by the arbiter, in the port, with a device -
  and in none when it does not;
- `PortInv`: the arbiter's `inflight` is the port's own idea of being busy;
- `CpuPortInv`: the transaction in the port, if the CPU's, is for the beat the
  bridge waits for.

Each part has a lemma for its step, the parts' clocks taken one at a time, and
`Inductive` combines them. `FillInv` adds that the words counted so far are in
their places in the window; `EngineInv` adds the same story for the two
engines: the owner tag names the engine whose request is in the port, whose
line is still up. `AnswerReachesItsMaster`, that no answer is lost, follows in
`EnginesAnswered` and is not run: with SCSI holes the MC's answer that comes in
the clock of the SCSI channel's zeros is dropped, its line stays up and it is
served once more, and the formula says just that.

**The refinement.** Under the mapping of `MemoryPort` (`Owed`, `Holder`) an
initial state is the service's, and `ServiceStep` shows for each master
that a clock leaves its debt, pays a word of it or borrows anew, and for the
holder that it is granted, released or kept; the three CPU cases follow the
bridge's states, the engines' their lines. `IInv` and `EngineInv` say who is
paid.

**DDR3 mux.** `IInv` of `DdrProofs` places every waiting master's request:

- `WhereInv`: it is on the master's line, latched in `p`, the command in front
  of the bridge, in the queue of reads, or answered; a master that waits for
  nothing has it nowhere. Each place says what the registers hold there, how
  many words the master has had and what the command is still to bring.
- `CmdInv`, `QueueInv`: the other way round, the command and every entry of the
  queue belong to a master in that place, and a master has one entry.
- `FetchInv`, `BurstInv`: the display has one burst at a time, in its line, and
  what the mux has taken of it, put in front of the bridge and still to put
  there adds up to what the display still wants.
- `StreamInv`: the words the bridge owes, the one on its port first, are the
  words of the queue's entries, entry after entry (`StreamOf`), and those of the
  display's entries are the next words of its burst (`ChainOf`). This is what
  lets a queue that holds only masters and counts tell whose word comes in, and
  why it is never too small or out of step: it is about all the sequences at
  once, so that its steps - a word leaves, a word reaches the port, a read is
  taken - are lemmas about the two sequences and their places.

A clock is cut the way the RTL is: first the bridge's word and what it does to
the queue (`Rest`), then the command that is taken, then the one that is loaded;
a lemma per master and place says where its request is after each. The four
theorems read off `IInv`. For `RamContractTheorem` the port's debt is the
`RamOwed` of `DdrSystem`, and `OwedFits` says what it is in each place: a clock
in which the RAM request is taken opens a transaction of `RamPort`, one in which
a word or an acknowledgement goes out pays it, any other leaves it alone.
`DdrSystem` assumes of `NoRequest` and `NoWord` only that they are no request
and no word.

**Disk path.** What the theorems leave out is what section 7 has against the
code, named as narrowly as it can be. `DemandRace` is one clock: a miss raises
its demand while the channel starts a prefetch of that very group. `Calm` says
that resets find no target at work, `Discs` that images are exchanged only for
a guest that writes to none. Everything else is free: any number of slots and
of writers, asking as fast as a target can, any window, group and sector, any
images, mounts, the cache switch, hps_io at any pace. So finding 1 is the only
way in which the two sides of the cache get in each other's way. `PatientTheorem`
shows that the first hypothesis is one that guests can keep - those of the
`disk` run that write do - and `PatientDataTheorem` needs none about the
behaviour.

`SidesApart` is not inductive, since nothing in it says why a demand is still
wanted when the channel takes it. `CInv` says who works for whom:

- `PortInv`, `EngineInv`: one target at a time is at work, and the engine has
  its sector; in each state of the engine, what the acknowledgement is.
- `DemandInv`: a demand is for the miss the engine waits on, its sector is
  still absent and its group free of dirt; a sector that passes the cache has
  its engine waiting for it.
- `HpsInv`: hps_io's session is the channel's transaction.
- `WindowInv`, `FetchInv`, `WriteInv`: what is dirty is valid, no fetch covers
  it, and no transaction covers what the engine writes or has just written.

It is `DemandInv` that the race breaks: a prefetch brings the sector and the
demand is for nothing any more. `DInv` then says where the data are:

- `ChannelInv`, `PassInv`, `GuestInv`: a transaction's sectors are those of the
  window it began in, inside the image, and a flush's stay dirty until it ends -
  a write that has just been answered is not in one that is already under way;
  a sector passes the cache only when its window is gone.
- `BufferInv`: what a target writes is in its buffer until it is answered, and
  in the store as far as the engine has come. `StoreInv`: every valid word of
  the store is the latest version if dirty, else the image's. `ImageInv`: what
  is not dirty is in the image.
- `TransferInv`: what hps_io has taken is in the image, what it has brought is
  in the store, word by word. `ReadInv`: so is what the engine has given to the
  target.

The store and the targets' buffers are read with the word that is on its way to
them (`Stored`, `Held`), and the latest version is the one of the write that is
done, though its target has not seen it yet (`Version`). `Steps` is a clock of
any kind; a lemma per state of the engine says where it leads, and each part of
the invariant has a lemma for its step.

**Display.** The flag of a line is dropped when a whole fetch of it saw only
zeros, and a write may fall on either side of the word that is fetched.
`IInv` is `FlagCovers` with two facts about a fetch under way: what memory
holds in the part already fetched has been seen (`FetchedInv`), and what it
holds in the burst was there when the burst was issued (`BurstInv`) - or the
line was marked meanwhile, or its mark is coming.

The pixels depend on how fast the bridge is. `DisplayPath` says it in clocks:
`LineTime` is what a line takes at most, every burst delayed by `DELAY`, and the
two hypotheses compare it with VC2's frame; the run's instance meets both (an
`ASSUME` of `MCDisplay`). The bench is built on the second
(`tb_linecache.cpp` 18-21 and 259), and without the first a fill that started
in a frame is still under way when the next is shown. `ClockGoes` puts a clock
as what the fill engine does in it (`GoStart`, `GoTake`, ...); `Rem` is how many
clocks its fill still takes and falls by one in each (`RemGoes`).

- `PixelsAreMemory`, by `FullInv`: the restart at vertical sync is over before
  the first line (`RestartInv`), so that what is shown was fetched in this
  frame's blanking or later. Every word held and every word of the fill is
  `Good`: its own line's, and as memory holds it, or for the line that is
  written as it has held it since the last frame was shown - unless it is of the
  frame before (`Old`), and only the restart, which empties the ring, takes a
  state from old to not. A line published as zeros without a fetch has nothing
  visible by `FlagCovers`, or was seen as zeros before the write whose mark is
  under way (`ZeroInv`).
- `NoMisses`, by `PacedInv`: from the restart on the ring holds the lines from the
  one on show to the one in hand, the fill in hand ends before its line begins
  (`Rem <= ToAt(fill_line, x, y)`), and an engine with room has a line's time for
  the next.

**Interrupts.** An expiry raises the output, an edge detector a clock later the
latch. `IInv` adds to `NoExpiryLost` that a counter about to expire has had its
output low (`CounterInv`), so that what expired last clock shows as an edge now
(`EdgeInv`). A counter that reloads zero expires in every tick and its output
never falls; `CountsArmed` excludes it, and no program of the repository does
it.

A count is read through its latch by three instructions, but the command waits
in the write FIFO, behind it may come what the handler stores, and the reads wait
for both. `Stage` follows the way: the FIFO holds what sets channels up
(`AllPlain`), then the command somewhere between that and stores that leave the
timer alone (`Pending`), then only the latter, while the channel holds the copy
(`Held`) and `got` has none of its bytes, the first, and both. `ReadsLatched` says
what a program must do for that, and is checked of the run's programs
(`CountsAreLatched`).

The handler is entered for news if nothing it has dealt with is still on a line
when interrupts can be taken. `EntryInv` says so of each place:

- `Served`: outside the handler, where something is latched something expired
  since the last entry that no clear has reached;
- `InHandler`: in it what was latched at the entry is still there until the
  clear (`found` clears what the load before it saw), then the clear is in the
  FIFO and leaves nothing old (`OnItsWay`), and the load behind it drains the
  FIFO, so that at `eret` no clear waits: one that did would drop news behind
  the handler's back, with the line up for a clock more;
- `MainClears`: a clear of main's, given with interrupts off, has behind it in
  the FIFO every store main gave since, so FIFO of them or one load carry it out
  before `Status` turns interrupts on (`Since` finds that instruction again
  while they are on);
- `LinesInv`: the lines are a clock behind, and still up only for news or for a
  byte that waits.

`ReadsBack` says what of this is the program's part, of main and handler apart;
a program without timers (`NoTimers`) is entered for bytes only. It is checked of
the run's programs (`ClearsAreReadBack`), and TLC confirmed `EntryInv` on the run
before it was proved.

**SCSI DMA.** `InterruptOwed` is inductive by itself, once each clock is split
by the engine's state. `StopWins` is inductive for a driver that comes when the
engine stays where it is, which is what the state's case has to show.

The bytes need to know where the cursor is. `InOrder` is about the chains the
driver lays out, not about the engine: descriptors are numbered in the order in
which the links lead through the buffers, with empty ones anywhere and links
back past empty ones, and no two bytes have one address; TLC evaluates it for
the run's chains. The chain's places are the buffers one after the other
(`PlacesOf`), and `Flattening` says where in them each buffer begins
(`Offsets`). That is a fact about a recursive definition for sequences of any
length, and is proved by induction: `NatSet`, a set of numbers with zero and
every successor has them all, follows from the well-foundedness of `<` and
takes the set as a constant, so no operator is passed to a theorem. `IInv` is
then:

- `MemInv`: the transaction in the memory is the one the engine waits for;
- `DrvInv`, `DevInv`: an engine is at work for a driver that runs it; an
  acknowledgement falls on a request that is up, and none is dropped before;
- `WalkInv`: the number of bytes acknowledged is that of the bytes before the
  descriptor, plus what its count has lost, plus the one the cursor has yet to
  pass - until the target has left;
- `HeldInv`: bytes are held only where they can still be written, and only in
  DATA IN;
- `RamInv`, `ReadInv`: what memory holds, and what the engine has read of it.

`NextPlace` follows: the cursor is at the place of the byte that moves next.
A clock has a lemma for each part and each kind of access, a running engine one
for each of its states.

**MC DMA.** `EndIsTold` joins the engine, which is in `S_IDLE` again a clock before
`sgi_mc` hears of it, to RUN, which is set a clock after the start. `ToldInv`
names the four phases this gives - `Resting`, `Starting`, `Working`, `Ending` -
and adds that RUN's copy of the cause is the cause's. A driver whose accesses
are two clocks apart never reads RUN in `Starting`; a write of DMA_CAUSE in the
clock of an end comes before it (`ToldClock`).

`RestartLosesNothing` compares a transfer of many clocks with the last value of a
loop. The proof follows the loop round by round (`Round`) beside the engine.
That the outcome is what the rounds come to is said with sets: `Leads(s)` when
every set of the reference's states that has `s` and is closed under `Round` has
the outcome `want`. Each round then passes `Leads` on (`OneRound`), `StartLeads`
has it for the first state by induction over the rounds with `NatSet` as above,
and `Terminates` shows with a measure of the three counts (`ToGo`, at first
below `Rounds`) that `FUEL` rounds come to an end - so the bound on the loops
cuts nothing off. `TransferInv` then goes by the four phases:

- `RestOk`, `StartOk`: the descriptor may be started, and after a start the
  reference's first state leads to `want`.
- `WorkOk`: the engine is `Running`: its counts were sampled from the registers
  (`Sampled`), the translation cache has what a walk of the tables would give
  (`CacheOk`), each state asks for what it should (`Asking`), and it stands
  `Beside` some state of the reference that leads to `want`. `Progress` says how
  much of the next beat is done there: nothing, the beat taken from the GIO bus,
  the half before a page boundary, or all of it. `Lays` is memory with the first
  bytes of a beat in it.
- `EndOk`: the outcome is `want`'s, but for MEMADR where the second half of a
  beat faulted: the reference's is where that half begins, the engine's where
  the beat does (`BeatFaults`).

A lemma per state of the engine (`CheckGoes`, `BeatGoes`, `GioGoes`, `PteGoes`,
`MemHalfGoes`, `StepGoes`) says which rounds it makes: none, one, or, in a fill
by doublewords, the reference's two words (`FillDone`). `Frame` shows that an
early write of MEMADR changes no round of the transfer under way. What a page
boundary does to a doubleword, modulo the size of the address space, is proved
first, by lemmas about quotients and remainders.

**SCSI bus.** The first half of `ScsiBusProofs` is about the chip alone, under any
bus: a result waits only while the sequencer rests, and a command that selects has `cip` up,
by which the chip refuses another (`ChipInv`). Its four sources of assignments
are merged in order, and lemmas say which fields each of them touches.
`PlainClock`, `CommandClock` and `ResetClock` say what a clock of each kind does
to `ChipInv` and to the result. The second half adds the driver: it resets only
a chip that rests or waits for a channel with no more room, and disconnects only
outside a polled transfer (`Relies`), which needs where it is in its jobs
(`DrvInv`).

The third part is about Select-and-Transfers. `PlansAreSound` says what the
driver gives: segments of any number, whose counts add up to what the command
moves (`Totals`); a chain with no more room than the count, and after one that
has less only the reset; writes of at most the model's four sectors; disconnects
and resets anywhere else. Seven of the eight plans of the run are such; the
eighth is the polled session. `PAUSE >= 2` is the pause counter outlasting the
two clocks in which the target has not yet advanced: the chip's has 4095.

Neither property is inductive: that a success is true rests on what the chip,
the target, the channel, the block device and the driver each have of the
transfer under way. `SatInv` says so with fourteen stages, `Free` to `Ended`,
one of which (`Stage`) the bus is always in:

- `ChipSat`, `Pipe`: which state raises which signal, and that ACK, the target's
  seeing it and its advance are three clocks of which no two overlap;
- `Given`, `Running`, `Fresh`: the registers and the channel are the job's, and
  `Sent` is the count of the segments given so far;
- `Counts`: the count register, the target's counter and the byte whose advance
  is on its way (`Late`) make `Sent`, and the channel has moved the same and the
  byte that is in the chip;
- `Sends`, `Writes`: a write's sectors are on the medium, or in one half that the
  device takes, or wait in the other; the address and each byte follow from
  that, so that no half is filled again before it is out;
- `Receives`: no sector is asked for that the command does not have, and no byte
  is taken before its sector came;
- `Stuck`, `Resetted`: a chain ran out, and the reset that follows finds the
  target and the device at rest. The driver's timeout is thus one that the bus
  has settled by (`TargetRests`): the reset of a target in the middle of a
  sector is not modelled;
- `Stray`: a selection that timed out in the clock in which the target took it;
- `Done`: what a success says, kept from the status byte on (`Statusing`,
  `Messaging`, `Leaving`, `Ended`).

TLC confirmed `SatInv` on the sound plans before it was proved. There is a lemma
for what each clock of the chip, of the target in each phase, and of the device
assigns, one for each stage, and `SatClock` joins them. The order of the bytes
read (`BytesInOrder`) is not part of it: as finding 2 says it needs fills and
look-ahead to be apart, which is an assumption about the device.

Only model-checked:

- all liveness: `ENABLED` and fairness are out of the prover's reach. `TestPasses`
  also speaks of the run's own programs, whose checks hold for its values only;
- `TypedIsRead`: it compares what was read with `SelectSeq` and `FlattenSeq` of
  what was typed, recursive over the data, and what those return for every
  sequence needs an induction the prover cannot make;
- `BytesInOrder`, for the reason above, and the polled sessions of the SCSI bus.

## 7. Disagreements found

The violation runs, each with a counterexample TLC prints; the quoted text and
the line are in `PROJECT.json`.

1. `disk_race`, `rtl/scsi/scsi_cache.sv:577`. A miss raises `dem_req` in the
   clock in which a prefetch of the same group starts; the prefetch satisfies
   the engine but not the demand, which is taken later, in the clock in which a
   write to one of its sectors is accepted. By `SidesApartTheorem` there is no
   other way.
2. `scsi_bus_fill`, `rtl/scsi/scsi.v:3433`. The look-ahead borrows the buffer's
   read port whenever a held address is written, not only after an advance of
   the counter as the initiator assumes; a sector that starts to come in just
   before a byte has settled puts another byte on the bus.
3. `scsi_bus_short`, `rtl/scsi/wd33c93.sv:1419`. An answer shorter than the
   transfer count: the target holds REQ past its last byte, the initiator
   starts one more, and the status byte goes to memory behind the answer.
4. `mc_dma_fault`, `rtl/sgi/mc_gio_dma.sv:471`. On a fault the address written
   back is that of the beat it happened in, also where the beat's first half
   was moved; the comment at 356-358 says it has to be the reference's, which
   is the faulting byte's. The bench compares the two (`tb_mcdma.cpp` 462-463),
   but its faults fall at the start of a beat. A handler that restarts there
   moves the half again, and a copy from the GIO bus with the bytes of another
   read. By `RestartLosesNothingTheorem` there is no other difference.

Others were met with these modules and have no run of their own; the constant
or guest that shows each is named.

- `rtl/sgi/sgi_indy.sv:611` (`McHoles = TRUE` violates `EngineGetsItsAnswer`).
  The zero answer for an address in no bank is registered a clock after its
  request, but steered by the mux of the current clock. If the SCSI channel
  raises its request in that clock it is given the MC engine's zeros.
- `rtl/sgi/hpc3_scsi_dma.sv:431` (`Hasty = TRUE` violates `StopWins`). Line 347
  says a register write simply wins any race; in a clock in which the engine
  moves, its assignment is the later one, and a stopped channel runs on.
- `rtl/scsi/scsi.v:1917` (guest `MCBusReset` violates `ReadsLatest`). A bus
  reset clears the target's request, not the cache's work on it; its
  acknowledgement answers the next request.
- `rtl/scsi/scsi_cache.sv:646` (guest `MCReset` violates `CleanMatchesImage`).
  A machine reset while the engine writes a valid sector leaves it valid, clean
  and half written.
- A mount of an image of another size while a flush waits in C_REQ writes the
  old image's sector to the new one; whether the framework can announce a mount
  there is outside this repository.
- `rtl/sgi/sgi_ioc.sv:268`: where one timer's latch is cleared in the clock of
  the other's edge, the edge's assignment is the later one and starts from the
  old latch: the clear is lost. No expiry is, as `IntProofs` shows; the handler
  meets one it has cleared once more, beside the new one.
- With a display that asks for line after line the rasteriser is never served:
  main memory and the display are in front of the rotation, and the argument in
  `ddr3_mux.sv` 286-295 is about one master alone. On the board the display
  rests between lines.
- `verilator/tb_linecache.cpp` 28-31 says that the flags reset to set and the
  first frame fetches every line; the code resets them to clear, and the
  bench's own check of the first frame's bursts agrees with the code.
- `rtl/scsi/wd33c93.sv`: `C_RESET` leaves `cip` up, so that a chip reset by the
  driver in the middle of a command refuses the next ones until the channel's
  reset; the channel's reset loses to what the sequencer assigns in the same
  clock; in a polled transfer of DATA OUT `DBR` is not raised, and a driver
  that polls it waits. No driver in the repository does any of the three.
- `tests/scsiwr/scsiwr.c` 456-459 says that a written block is not on the
  medium when the status byte lands; `scsi.v` 575-579 holds REQ in STATUS until
  the card has acknowledged it, and `OutcomeIsTrue` says that it is there.

## 8. Not modelled

- Instruction semantics, FPU, drawing arithmetic, palettes, video timing: data
  and fixed schedules rather than interaction.
- Vendored parts - the R4300 apart from its memory stage, `z8530_scc`, most of
  the SCSI command set, `sys/`, the simulator's user interface and waveform
  library - but for what the modelled parts see of them. They are most of the
  repository's lines; the core itself is the SystemVerilog and VHDL under
  `rtl/`.
- `ddr3_mux` is reset only with the PLL; the machine's reset is held for 65,535
  clocks, long enough for every transaction to end, and is not an action of
  `MemoryPort`. `dma_req` of the SCSI channel, which the reset leaves alone, is
  not either.
- The PROM download's missing `ioctl_wait`: the model's download waits.
- The DMA channel and the initiator in one model: the handshake between them is
  in both, with the other side at any pace, but its resets are not composed.
- SCSI DMA: writes of `R_CBP` and `R_BC`. A go fetches both from the
  descriptor, so that they matter only to a driver that writes them under a
  running channel; the drivers modelled do not.
- MC DMA: descriptors with a zoom count of zero, and a translated fill that
  splits a word at a page's end (`Legal`). A write of MEMADRDS in the clock of
  the end is overwritten by the write-back; a start written while busy,
  `S_DONE` included, is dropped although the comment at `sgi_mc.sv` 572 reads
  otherwise; `xl_clean` in S_MEMA is never reached; IE is read live, at the end.
- Keyboard: the mouse's resolution and rate, which nothing reads, and the
  status bit that tells the two ports apart. The drivers modelled wait for an
  answer before the next command of several bytes, and events come `GAP` clocks
  apart: a command within three clocks of a packet puts its answer inside it, a
  second staged answer overwrites the first, commands are not held back by a
  full queue, and two events of a device while its packet is sent are none.
- Display: the second reader shares the module (`FbFetch` has both); the
  statistics.
- SCSI: CD-ROM, Toolbox, pseudo-DMA word mode, a medium that leaves in the
  middle of a READ, seven targets at once. `Wd33c93` has the polled arms of
  Select-and-Transfer (the data phases without the DMA channel); no driver of
  the repository uses them and no plan does.
- MC's memory configuration, semaphores and RPSS; the address decode; the
  HPC3's store, DS1386, EEPROM, the audio stubs: register files with one
  client.
- REX3's host side and the CPU's write FIFO and write-back staging: next.

## 9. Plan

Done, in this order: the memory port with its service and proofs, the DDR3 mux,
the disk path, the SCSI DMA channel; then the MC's DMA, timers, interrupts and
keyboard, the line cache, the SCSI bus; and proofs in each group: of all safety
in the first four, of the MC's DMA and the line cache, of the interrupts, their
entries and latched counts, and of the bus's bytes and outcomes. Next:

1. The CPU's write FIFO and write-back staging (`cpu.vhd`, around 1773) in
   front of `CpuMemPort`: no read passes a write.
2. REX3's host side: held write, held read, the MC engine's beat.
3. `Hpc3ScsiDma` and `Wd33c93` in one system, with the channel's reset.
4. The EEPROM, the HPC3's store, DS1386's clock load.
5. Proofs: `BytesInOrder` of the bus, through the ring and the look-ahead.
