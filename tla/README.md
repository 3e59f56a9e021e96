# uid-atc: specifications of the network driver and its neighbours

The repository holds the board software for the BR UID board (Freescale
MPC8309, RTEMS): a driver for the QUICC Engine Ethernet controllers, the NAND
loader and its update, the device drivers of the MultiIO board, and a set of
demos. This directory holds TLA+ specifications of the parts where threads,
interrupt handlers and the hardware interact, the TLC runs that check them, and
proofs checked by TLAPS.

## Inventory

| Part | Files | State | Operations | Hard because |
|---|---|---|---|---|
| BD rings | `quicc/quicc-bd.c`, `quicc.h` | BD array shared with the controller, `per_bd_arg`, `current`, `first_in_frame`, `frame_fragments_available` | `tx_init`, `tx_submit_and_wait` (with compaction), `tx_can_submit`, `rx_init`, `rx_process` | the controller reads and writes BDs between any two stores; ownership of buffers; ring full within a frame |
| Ethernet driver | `quicc/quicc-uec-if.c` | mutex or network semaphore, OACTIVE, event per task, `if_snd`, UCCE/UCCM | `interface_start`, `tx_task`, `rx_task`, interrupt handler, `bd_wait`, watchdog, init, ioctl | senders and task share the ring; the lock is given up in the middle; lost wakeups |
| UEC setup | `quicc/quicc-uec.c` | parameter RAM, MAC registers, the heap and the mbufs of the BD rings | init, start, stop, configuration mode, MII access | stop handshake polled without limit in a register the interrupt handler writes, too |
| Engine core | `quicc/quicc.c` | `muram_offset`, `free_snum_bitfield`, command register | command, multi-user RAM and SNUM allocation | unsigned arithmetic at the bounds; nothing is ever given back |
| Interrupt controller | `quicc/quicc-irq.c` | handler table, masks | install, dispatch | order of install and enable |
| UCC fast, clocks | `quicc/quicc-ucf.c`, `quicc-ucc.c` | registers | init, enable, disable, clock routing | tables |
| Stage 1 update | `libuid/uid-stage-1-update.c` | NAND partition | write pages, skip bad blocks | bad block in the middle, reset in the middle |
| NAND loader | `nand-loader/stage-1-*.c` | load address, page | copy loop, boot from file system | must skip exactly what the writer skipped |
| MultiIO, SPI, LED, NCV7608 | `uid-demo/*.c` | reply buffers, driver contexts | exchange, read, write | an index beyond its array |
| ELF loader | `libdemo/load-elf.c` | state machine over pieces of a file | `process`, `final` | pieces end anywhere |
| Registers, microcode, demos, tests | `quicc/quicc-regs.h`, `quicc/quicc-microcode-*.h`, `libdemo/`, `demo*/`, `erl/` | data | | not modelled |

How they interact: a task of the network stack calls `uec_if_interface_start`,
which submits fragments to the transmit ring; when the ring is full it sets
OACTIVE and sends TX_START to the transmit task, which goes on until the queue
is empty. The receive task takes closed BDs in order, hands their mbufs to the
stack and refills the BDs. Both tasks wait for BDs by `uec_if_bd_wait`: the
controller sets a flag in UCCE, the handler masks it and sends an event.

What makes them correct, part by part:

* transmit ring: no part of a frame is visible to the controller; order and
  content are kept through compaction; every mbuf is freed once and not before
  the controller is done; nobody waits for a BD that is not going to be closed;
* receive ring: frames reach the stack in order, each once, and intact; no mbuf
  is in two places;
* waiting: no wakeup is lost;
* transmit path: packets are not mixed; a sender never blocks in the ring;
  OACTIVE is cleared once there is nothing left to send; no packet stays in the
  queue (while senders keep queueing, OACTIVE may stay set: the transmit task
  clears it only when it finds the queue empty);
* bringing the interface up: no region of the multi-user RAM and no SNUM is
  given out twice, whichever step fails and however often it is tried again; each
  return gives the lock back; it is known which assertions can fail and where a
  call may wait for ever;
* configuration mode: mode and filter are changed only while the controller
  rests, the controller ends up with the settings asked for and follows the
  link, and the mode is left again;
* stage 1: the board starts what the last complete update has written, whatever
  was interrupted before; ELF loader: the result does not depend on the pieces.

The list of hazards, each with its line and the properties about it, is in
`PROJECT.json`.

## Modules

| Module | What it is |
|---|---|
| `FrameQueue` | abstract specification of the transmit ring: a FIFO of frames, released as a whole, sent fragment by fragment |
| `BdTx` | the transmit ring, one BD store at a time, with `uec_if_bd_compact` and `uec_if_bd_wait_and_free`, against the controller |
| `BdTxRefines` | the refinement mapping from `BdTx` to `FrameQueue` |
| `BdTxProofs` | theorems about `BdTx`, its refinement of `FrameQueue` among them |
| `BdRx` | the receive ring with `uec_if_bd_process`, the mbuf pool and the controller |
| `BdWait` | `uec_if_bd_wait`, `uec_if_wait_for_event` and the interrupt handler on UCCE and UCCM, both tasks, the driver lock |
| `BdWaitProofs` | theorems about `BdWait` |
| `UecTx` | senders, the transmit task, OACTIVE, TX_START and the lock, for both network stacks; composes the submission (one step here), the ring and the controller |
| `UecTxProofs` | theorems about `UecTx` |
| `BdRxProofs` | theorems about `BdRx` |
| `UecInit` | `uec_if_interface_init`, called again and again by several tasks, with the allocators of the QUICC Engine, the heap and the fill of the BD rings |
| `UecInitProofs` | theorems about `UecInit` |
| `UecConfig` | configuration mode: watchdog, promiscuous mode and multicast groups, the graceful stop, the interrupt handler and the controller |
| `UecConfigProofs` | theorems about `UecConfig` |
| `StageStore` | abstract specification of update and loader: a store for one image that commits at once |
| `Stage1` | the stage 1 update and the copy loop of the loader on a NAND flash, with resets, failing erases and failing writes |
| `Stage1Proofs` | theorems about `Stage1`, its refinement of `StageStore` among them |
| `LoadElf` | the ELF loader with the read loop of `demo_loadelf`: a file, cut into pieces, through every state of `load_elf_process` |
| `LoadElfProofs` | theorems about `LoadElf` |
| `MCBdTx`, `MCBdRx`, `MCBdWait`, `MCLoadElf`, `MCStage1`, `MCUecInit`, `MCUecConfig` | symmetry and the allocator of the ring runs, the specification of `BdWait_wakeup`, the files of the ELF loader, image sizes, what an initialisation allocates, groups and links |

### State and steps

`BdTx`: `ready`, `last`, `wrap`, `buf` are the R, L and W bits and the buffer
pointers of the BDs; `arg` is `per_bd_arg`; `current`, `first`, `avail` are
the context of the ring. `pc` and `call` say how far a call has come and what
its locals hold. A call is a sequence of steps: `Submit` (the entry),
`Compact` (one turn of the loop), `Fill` (buffer store), `Status` (status
store), `Release` (ready bit of the first BD), `WaitAndFree`. The controller
is one action, `Close`. `content`, `tag`, `flen` and `wire` record what mbufs
carry and what was sent, so that order and content can be stated.

`BdRx`: the same for reception. `Wait`, `Input`, `Refill`, `StoreStatus` and
`StoreBuffer` are the parts of one turn of the receive task; the two stores are
steps of their own since the controller may fetch the BD between them. `frame`
and `late` are history: the frame a BD was closed for, and the BDs that were
fetched between the stores.

`BdWait`: BDs are reduced to a counter of closed ones per ring. Every access to
UCCE, UCCM and a BD is a step. The processor has one core, so a task makes no
step while the handler runs; the controller does.

`UecTx`: a submission up to its wait is one step. This is sound because the
lock is held throughout and the controller only closes BDs that are released,
which the submission does not touch (`RingInv` in `BdTx` says so). The waits
and the places where the lock is given up are steps. `pc = "stuck"` would be a
sender that waits for a BD.

`LoadElf`: each turn of the loop in `load_elf_process` is a step, named after
the function it calls. Of the file the model knows the program headers and the
length; a byte is its position, so memory says which byte of the file was
copied where. `Order` is what the insertion sort of the segments computes: the
one arrangement by `file_offset` in which equal ones stay as they were. The header bytes are not copied one by one: what
`program_header` holds follows from the position when it is evaluated. The gap
to the next segment is computed modulo `Word`, as `uintptr_t` does.

`UecInit`: `muramOffset`, `freeSnum` and `regions` are the state of the
allocators, `regions` being history. An allocation is a step (the engine has a
mutex of its own), and so are `init_spi`, `quicc_init`, `uec_if_phy_init` and
what follows it, since the function may return after each of them. `Request`
lists what `quicc_ucf_init` and `quicc_uec_init` allocate, in the order of the
code; `checked` marks those with an assertion behind them. `Fits` is the test of
`quicc_muram_allocate_offset` as it stands, modulo `Word`. A failed assertion
sets `aborted`, and no caller makes a step afterwards. `init_bd`, which comes
behind the first `Fifos` allocations, is `RxRing` (its assertions, the heap of
the receive ring and the assertions of `quicc_bd_rx_init`), `FillBd` (one mbuf
for one BD, waiting while there is none) and `TxRing`. `rxBdCount` and
`txBdCount` are what `uec_if_attach` makes of the configuration (`BdCount`).
`heap` counts bytes; how the heap is fragmented is left out. Of the mbufs the
model knows how many the receive rings have got (`inRings`) and how many the rest
of the stack holds (`others`); an mbuf and its cluster are one thing. How the
stack waits for an mbuf is outside the repository: the model keeps the lock
of the driver taken meanwhile, since the driver does not release it.

`UecConfig`: one variable per register the functions access, one step per
access that another party can come in front of. The driver lock is not a
variable: `pc` is the place of its holder. The engine accepts a command in
`Accept`; `RxStops` and `TxStops` are the graceful stops, which may be late.
The handler reads, acknowledges and masks in three steps. `BdWait` here is what
the two tasks do to UCCE and UCCM in module `BdWait`.

`Stage1`: a page is one item, page k of an image or `Junk`; the comparison of
pages is then a comparison of items. A turn of the loop in `get_empty_page`, a
page write with its read back, and a turn of the loader's loop are steps.
`Reset` may come before each of them and leaves the page or block that was in
progress torn (`Torn`); what the mark of a torn page reads as is open
(`MarkedBad`). `clean` is history: no erase has failed in this update. `stored`
is history, too: the image that is in the flash completely.

## Runs

| Run | Instance | Shows |
|---|---|---|
| `BdTx_ring` | N = 4, 6 mbufs, frames of up to 5 fragments, fragments numbered modulo 3 | type, `WholeFrames`, `MbufsOwnedOnce`, `OpenFrameKept`, `RingInv`; every call returns; the fair `FrameQueue` is implemented |
| `BdTx_assert` | as many fragments as BDs | **violated**: `NoWaitCycle` |
| `BdRx_ring` | N = 4, 5 mbufs, 6 frames | order, ownership, integrity |
| `BdWait_wakeup` | rings of 1 BD | no lost wakeup, the inductive invariant, and a waiting task is woken |
| `UecTx_semaphore` | N = 4, 2 senders, 3 packets of up to 4 mbufs, old stack | packets not mixed, one submitter, OACTIVE ends with the traffic, the queue is served |
| `UecTx_mutex` | 1 or 2 senders, 4 packets of up to 4, new stack | for one sender: packets not mixed, the BD submitted to is free; for both numbers: no sender waits, OACTIVE is served |
| `UecTx_lost` | 1 sender, 3 packets of up to 3, old stack | **violated**: `FramesArePackets` |
| `LoadElf_pieces` | tables of 0 to 3 headers, room for 2 segments, headers of 2 bytes, pieces of 1, 3 and all bytes in any order | memory is right, a file is started independent of the pieces, and then loaded completely; every call returns |
| `Stage1_update` | 3 blocks of 3 pages, an image that needs all of them and one that is too big | the board starts what was stored, `StageStore` is implemented, update and loader end |
| `Stage1_badblock` | the same | **violated**: `SkipsBadBlocks` |
| `UecInit_up` | the sizes of the code, 12 SNUMs, 16 KiB, 2 callers, both stacks, 32, 48 or 64 BDs, 4400 bytes of heap, 200 mbufs of which others hold 0 or 48 | regions apart, which assertions can fail, a call returns unless it starves for mbufs |
| `UecConfig_mode` | 2 groups with one filter bit, 2 links | changes only while the controller rests, settings as asked for, the mode is left, the link is followed |

Bounds. N = 4 is the smallest ring in which a frame can be compacted more than
once, leave free BDs and meet released frames, with the position going round;
`quicc_uec_init` wants a multiple of four anyway. Frames of 5 fragments
are compacted twice. Tags modulo 3 tell neighbours and their order apart while
at most N + 1 fragments are in flight. 6 mbufs are more than the BDs and the
call can hold, so the allocator never blocks; it takes the smallest free one
(`MCBdTx`), since a run with liveness cannot use symmetry; in `BdRx` 5 mbufs for
4 BDs let the pool run empty. 6 frames take the receive ring once around and half
around again. In `UecTx` a packet of 4 mbufs does not fit in a ring with one
BD held back, so it is compacted, and 3 or 4 packets make the ring fill in
the middle of a packet and fill again after that. In `LoadElf` the offsets 0,
6, 8 and 10 put a segment into the ELF header, the table, directly behind it and
behind another segment; two segments overlap in memory, so that their order
shows; the lengths cut a file in the table, in a segment, exactly behind one and
later. Three headers do not fit in the room for two segments. `MCBdWait` leaves
out the TXE flag and other users of the lock, which only add interruptions; a
ring of one BD is always empty or full, so the task waits as often as it can.

`Stage1` has three blocks, so that there is one the boot sequencer needs, one in
the middle and one at the end; the image of 7 pages ends in the last block, or
does not fit any more when a block is bad, and the image of 10 pages never fits.
Three pages per block are a first one, one behind the pages the boot sequencer
reads, and one more. `UecInit` has the sizes of `quicc-regs.h` and the MURAM and
SNUMs of the MPC8309; a `Word` of 2^30 stands for 2^32, which is beyond what
TLC computes with: the sizes are far from both. Heap and pool are small on
purpose, so that each of the ends is reached within a few initialisations: 32 BDs
use up the SNUMs in the fifth, 64 in both rings the heap in the third, and 64
receive BDs, or 32 while others hold 48, the mbufs; 48 fails at once.
`ActiveEnds` does not rest on `MaxPackets`: a behaviour that violates it queues no
packet from some point on, and the bound limits only what comes before that point.
`UecConfig` has no bounds; `UecConfig_mode` covers links of 100 Mbit/s, full and half
duplex, and a valid PHY address, that is, no switch.

Deadlock is not checked where the system may really stop: traffic is bounded
(`UecTx`, `BdRx`), a file ends (`LoadElf`), the program is aborted (`UecInit`),
or the board hangs in the loader's endless loop or an assertion and nobody
resets it (`Stage1`). The other runs check it.

Fairness. `BdTx`: a call that has begun goes on (it runs in a task that is not
starved) and the controller serves ready BDs; nothing makes the stack submit.
`BdWait`: a ready task runs, although the handler stops it again and again
(strong fairness); the handler is called for an enabled flag and returns; a
flag that is due is set; the lock is handed over to its waiters, RTEMS
semaphores and mutexes do that (strong fairness), and it is given up at times:
a frame without error is received, the queue gets empty. `UecTx`: the same,
with the controller. No environment is assumed to send or
receive. `LoadElf`: the loop goes on. `Stage1`: the program that runs goes on;
nobody has to update, boot or reset. `UecInit`: a task goes on while it has the
lock and the lock is handed over to its waiters (strong fairness, since others
may take it in between); a task that waits for an mbuf gets one if there are some
again and again (strong fairness); nobody has to call or to give mbufs back.
`UecConfig`: the holder of the lock and the handler go on; the engine accepts
commands and stops when told to; the watchdog gets the lock (strong fairness), its
timer being a callout or a timeout of the stack that does not get lost. The link
is not assumed to stay, nor are BDs closed.

## Findings

* `quicc-bd.c:84` asserts `bd_count >= frame_fragments_max`. With equality an
  open frame may take all BDs, and the position comes round to its own first BD.
  This BD is held back, its ready bit is clear: `uec_if_bd_wait` returns at once
  and `uec_if_bd_wait_and_free` frees the first mbuf of the frame, which has not
  been sent and to which BD and `per_bd_arg` still point. With the next fragment
  comes a compaction of one turn (`discard`, `first_in_frame` and `current` are the
  same BD), which puts this fragment in place of the freed one; then the call waits
  for the second BD of its own frame, which is ready, while the controller stands at
  the first, which is not. This last state is where the trace of `BdTx_assert` ends.
  The correct assertion is `>`. The driver passes -1 and gets `bd_count - 1`,
  which is the value the theorems admit.
* `quicc-uec-if.c:1141-1161` forgets the rest of a packet when the ring gets
  full in the middle of it: those mbufs leak and the next packet is appended to
  the frame that was begun.

* `uid-stage-1-update.c:93`: `nand-loader/README.txt:71` describes the partition
  as sequential with skip of bad blocks. When the erase of a block fails, the
  search goes on with the second page of this block and the update writes
  there; the loader skips the whole block, so these pages are missing in what it
  starts. `BootsStored` and the theorem about it therefore speak of updates
  without a failed erase; with one, `Stage1` does not promise anything.

Seen in `UecInit`, without a line in the repository that promises otherwise:
the bound test of the MURAM allocator (`quicc.c:186`) compares the size with
`aligned_free - muram_size`, which wraps round while there is room, so it
accepts whatever is asked for and would refuse only what is behind the end.
`RegionsRight` holds in spite of it because each initialisation takes three
SNUMs and the fifth one finds none: the assertion on the SNUM
(`quicc-uec.c:407` and below) fails before the memory ends. So four PHY failures
in a row make the fifth attempt stop the board, unless it ends earlier:

* each initialisation allocates both BD rings from the heap and none of them is
  ever freed; a heap that is too small fails the assertions of `quicc-bd.c:35-36`
  and `:81-82`;
* each initialisation takes an mbuf with a cluster for each receive BD
  (`quicc-uec-if.c:260-284`) while it holds the lock, and when the PHY fails they are
  not given back. When the pool is empty the call waits, with the lock, until
  somebody returns an mbuf (`Starved`), and everybody else waits for the lock.

With the old stack, setting the address of a running interface ends in the
assertion on the task (`quicc-uec-if.c:854`), and a configured number of BDs above
32 that is not a power of two, 48 for example, in the one of `quicc-bd.c:38` or `:85`.
`AssertsHold` states that no other assertion fails, of those on the allocations,
SNUMs, BD counts, heap and tasks. RTEMS services (semaphores, SPI libraries,
interrupts) are taken to succeed where the code asserts that they do. `InitReturns` states that a call
returns, or the program is aborted, or a task is `Starved` for ever.

Observed with other instances, not runs of their own since nothing in the
repository promises otherwise: with the new stack and two senders
`NotMixed`, `OneSubmitter` and `CurrentIsFree` fail (both have seen OACTIVE
clear, the second submits while the task waits within a packet);
with the new stack `QueueServed` fails even for one sender (a packet that is
queued between the last dequeue and the clearing of OACTIVE waits for the next
packet). In the receive ring the BD is made empty before its new buffer is
stored (`quicc-uec-if.c:328-329`); the exception `late` in `InputIntact` and
`StackDataKept` is exactly this case: without it both fail. The ELF loader
does not start a file that ends with the last byte of its last segment
(`load-elf.c:226` leaves the loop before `NEXT_SEGMENT` sees that all is
loaded), nor one with a segment that overlaps the headers or another one in the
file: `Loadable` and `Long` in `LoadElf` say exactly which files are started.
Files with section headers behind the segments are not affected.

## Proofs

`BdTxProofs` proves, for every N, every set of mbufs and every fragment limit
with `RoomForFirst` (`FragMax \in 1..(N - 1)`; the first finding shows why the
upper bound is needed):

* `RingAlways`: `RingInv`, the inductive invariant of the ring. Seen from
  `first`, the ring holds the BDs of the frame in the making, of which only
  the first is held back, then free BDs, then the released frames up to the
  one before `first` (`ReadyBds`). `Room` keeps the two ends apart,
  `Available` ties `avail` to the distance, `FrameEnds` says that the released
  part ends with a last bit, `WrapKept` keeps the controller in the ring and
  `Compaction` gives the loop its bounds.
* `WholeFramesAlways` and `NoWaitCycleAlways` follow from it: neither is
  inductive, since both speak of the ready bits only. (`NoWaitCycle` is what
  `BdTx_assert` violates without `RoomForFirst`.)
* `MbufsAlwaysOwnedOnce`: `MbufInv` adds where each live mbuf is, that the BDs
  of the open frame keep theirs, and what the call has in hand.
  `OpenFrameAlwaysKept` is another part of it.
* `TypeAlwaysOK`: the type invariant. `ControlOK` is part of `RingInv`, since
  `hw \in Slot` needs the wrap bits.

* `RingImplementsFrameQueue`: the safety part of the refinement of `FrameQueue`,
  for rings of any size. The mapping of `BdTxRefines` counts BDs back from the end
  of what they hold: `Frames` cuts the fragments of the released BDs into frames
  where a BD has the last bit (`Cut`), `OpenFrame` joins those of the frame in the
  making (`Join`), of which a call may have some in hand. With this numbering a
  close takes the BD with the highest number away (`CloseStep`) and a release
  puts BDs behind all others (`ReleaseStep`, by `CutMore`). `CompactStep` shows
  that a turn of the compaction loop moves a fragment from its BD into the hand of
  the call and leaves the open frame as it is. `QueueInv` adds to `RingInv` and
  `MbufInv` that exactly the live mbufs carry something (`Carry`: a frame in the
  FIFO is never empty) and that no BD of the open frame has a last bit
  (`NoneLast`: a release adds one frame, not several); TLC checked both on
  the instance of `BdTx_ring`.

There is one lemma per action, and lemmas on distances in the ring
(`DistSucc`, `DistMove`, `DistInj`, `BackMove`) keep the modular arithmetic out of
them. For `Join` and `Cut`, `JoinRule` and `CutRule` prove the equations of
their recursion; all else about them follows from the equations.

`BdWaitProofs` proves `WaitAlways` and `NoWakeupIsLost` for rings of any size.
`NoLostWakeup` speaks of a sleeping task; `WaitInv` extends it to the steps
before: from the check on a close is `Noted`, from the enabling on the
interrupt stays `Enabled` until it is on its way.

`BdRxProofs` proves all five properties of `BdRx_ring` for rings and pools of
any size and any number of frames. `RxInv` adds to them that the task has a
closed BD in hand (`TaskInv`), that no two BDs have the same buffer, not even
one that is about to be replaced (`BufInv`), and what the controller may have
fetched (`FetchInv`): its own buffer, unless it came between the two stores of
the refill, and then a buffer no closed BD relies on.

`UecTxProofs` proves for any ring, number of senders, and length of packets:

* `SenderWaitsNever`, for both stacks: `OpenFrame` bounds the position by what
  is left of `avail`, so the BD behind the one submitted to is the one
  `quicc_bd_tx_can_submit` has seen free, or, after a compaction, one of the BDs
  given back (`SubmitMoves`);
* `ActiveAlwaysServed`, for both stacks;
* `CurrentAlwaysFree`, while the senders are kept apart (`Exclusive`), and
  `AlwaysOneSubmitter` for the old stack. Both follow from `Handover`: a task
  that is awake or has TX_START pending implies OACTIVE, and a sender that goes
  on has seen it clear. This is the protocol nobody wrote down: the lock alone
  does not keep a sender out while the task waits.

`UecInitProofs` proves `RegionsAlwaysRight` and `AssertsAlwaysHold` for any sizes
and alignments, BD counts, heap and pool under `RoomAssumption`: the SNUMs run out
before the memory. `Counts` says what is configured, and `RingAsserts` why that is
enough for the assertions of `init_bd`: a power of two from 32 on is a multiple of
four (`MultipleOfFour`), and the default is one (`DefaultCount`). `UecInv` says how many initialisations have been run (`Used`), that all regions
are below `muramOffset` (`Below`), and that only the holder of the lock is on its
way. `AlignedFreeRight` and `AllocateRight` do the arithmetic modulo `Word`; the
assumption is what the code relies on without saying so.

`UecConfigProofs` proves `SettingsAlwaysRight` and `ConfigAlwaysStopped` for any
groups, hash and links. `ConfigInv` says for every place of the holder what the
receiver and the transmitter are doing (`RxInv`, `TxInv`), in particular that an
acknowledge that is set is one of this stop: RXGSTPACK and GRA are cleared
before the commands. `FilterInv` follows the groups from the emptied filter to
the last command.

`Stage1Proofs` proves `StageAlways` (`StageInv` is inductive), `StoredAlwaysBoots`
and `StoreIsImplemented` for any geometry with at least two pages per block and
any images of at least two pages. The argument: as long as no erase has failed,
page k of the image goes to page k of the partition (`PositionKept`), it is still
erased when it is written (`ErasedAhead`), and no block up to it is bad
(`GoodSoFar`); so the loader, which skips bad blocks only, reads the same pages
(`LoadKept`).

`UecTxProofs` proves `TypeAlwaysOK` and `NeverMixed` as well, for any ring and
packets of any length, as long as the senders are kept apart:

* `Typed` strengthens the type invariant by what keeps `avail` and the positions
  in their ranges; that `FlattenSeq` returns a sequence of fragments is an
  induction over its argument (`FlattenType`);
* `RingOK` says which BDs are ready, seen from the controller: the released ones
  (`Released`), then the frame in the making, of which all but the first are,
  then free ones. The BDs of `Stream` are those up to `current`;
* `SubmitStream`: a submission appends its fragment to `Stream`, whether the
  frame is compacted or not, since the first BD then holds the fragments of all
  the others. `CloseStream`: the controller takes away the finished frame at
  the front, or nothing;
* `OrderInv`: `Stream`, followed by what the thread has dequeued and not submitted,
  is in order, and every packet in the queue is later than all of it. That holds
  for one thread at a time (`OneAtRing`), which is where `Exclusive` is needed.

`NotMixed` alone is not inductive: it says nothing of the fragments that have left
the queue and are not in the ring yet, and does not know which BDs are sent.

`LoadElfProofs` proves `LoaderAlways` (`LoaderInv` is inductive) and from it
`MemoryAlwaysRight`, `StartedAlwaysLoaded` and `StartedAlwaysIffLong`, for files,
pieces, tables and room for segments of any size. `FileAssumption` says that
offsets and length are numbers below 2^32 (`Word`) and that the segments are
inside of the memory there is; it says nothing of the order of segments, and
nothing of how they overlap. The argument:

* `Position`: what was read is what the loader has passed plus the rest of the
  piece, until a final state;
* `TableInv`: in the table, `offset` is the place of entry `Evaluated(index)` plus
  what the copy under way has done, so the bytes in `program_header` are those
  of one entry (`HeaderCopied`); the segments so far are the PT_LOAD headers in
  the order of the table (`Gathered`);
* `SortedInOrder`: the sort turns this into the order of the file (`InOrder`).
  `Arranged` shows that there is such an order for every table;
* `SegmentInv`: up to segment `index` no gap was negative (`Chained`), and all
  bytes are in memory (`Loaded`). A negative gap is a skip of almost 2^32 bytes
  (`SkipForward`), with which a file of less than that ends;
* `DoneIsLong`, `HeadersLeft` and `SegmentsLeft` compare the last state of the
  loader with the file: a loader that stops anywhere else has met a file that is
  too short, malformed or not in order.

`LoaderInv`, and `RingOK` with `OrderInv` under `Exclusive`, were checked by TLC as
invariants of the instances of `LoadElf_pieces`, `UecTx_semaphore` and
`UecTx_mutex` before they were proved.

Induction over the length of a sequence or a number of BDs is done by the least
counterexample (`Least` in `UecTxProofs` and `BdTxProofs`, `LeastIndex` in
`LoadElfProofs`), which needs of the library only that `<` is well founded on the
naturals. The induction theorems that take an operator, and recursive operators,
are not usable. This is how the proofs know what `FlattenSeq` computes (`FlattenIs`,
`FlattenAppend`, `FlattenConcat`). `LoadElf` states the sort by what it returns and `FlattenSeq` is a
recursive function.

Only model-checked: liveness, in all modules (the prover does not handle fairness
and ENABLED). This includes the fair part of `ImplementsFairQueue`; the theorem
`RingImplementsFrameQueue` is about `ImplementsFrameQueue`, which the fair property
implies.

## Not modelled, and why

* Statistics counters, lengths in the status words, pin set-up and the access to
  the PHY do not influence the control modelled here.
* MultiIO, SPI, LED and NCV7608: a shell task makes one exchange at a time and
  both bus drivers are synchronous; there is nothing to interleave. The index
  beyond `read_buf` (`multiio.c:91`) is visible from the declarations.
* Interrupt controller: one handler is installed once, before its vector is
  enabled; the handler itself is in `BdWait` and `UecConfig`.
* `stage-1-init.c`, board initialisation, tests, demos: sequences of calls of
  RTEMS services. Clock routing, registers and microcode (10255 lines of it):
  data. They are most of the lines of the repository.
* That both tasks of a running interface need mbufs from the same pool while they
  hold the driver mutex (the fill of the receive ring is modelled, a compaction
  that waits is not), that the watchdog and the ioctls access UCCE between accesses
  of the tasks (modelled in `UecConfig`, without a property about the flags of the
  tasks), that frames are lost between the emptied filter and the last group, and
  what the stack calls on an interface that is not up are hazards listed in
  `PROJECT.json`; the pool and the callers belong to the network stack, and
  frames may be lost on Ethernet.

## Plan

Done in this order: transmit ring with refinement and proofs, wait for a BD,
receive ring, transmit path, ELF loader, stage 1 with the loader, initialisation
with the allocators, configuration mode, proofs of all of them. Every invariant
of a run that passes is a theorem, and so is the safety part of both refinements.
What is left would be:

1. the new stack with two senders: with a lock around the test of OACTIVE,
   `NotMixed` could be stated without `Exclusive`;
2. an update that goes on with the next block after a failed erase: `BootsStored`
   could then be stated for every complete update.
