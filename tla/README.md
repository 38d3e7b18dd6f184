# TLA+ models of the OPAE AFU Simulation Environment (ASE)

ASE lets an application written against the OPAE C library run against an AFU
(accelerator) in an RTL simulator instead of an FPGA. This directory holds TLA+
modules of the parts of ASE in which several processes, threads and the
simulator's clock meet, the TLC configurations that check them on small
instances, and TLAPS proofs of the properties that should hold on every one.
Paths are relative to the repository's `ase/` directory (`src/ase/` in
`PROJECT.json`). `PROJECT.json` maps every definition to the lines it models.

## 1. The system

Two operating system processes talk through 16 named pipes (`sw/mqueue_ops.c`)
in `ASE_WORKDIR`:

* the **application**, linked with the ASE plugin: `api/src/*` implements the
  OPAE calls, `sw/app_backend.c` the session, MMIO and the threads that serve
  DMA, `sw/ase_host_memory.c` the pinned memory, `sw/preload/mmap_hooks.c` the
  `munmap` hook;
* the **simulator**: an RTL simulator with the AFU and an emulator of its host
  interface. `sw/protocol_backend.c` (`ase_listener`, called by the clock)
  serves the pipes; `sw/pcie_ss_tlp/` with `rtl/pcie_ss_tlp/` turns pipe
  messages into TLP beats and back, as `sw/axis_pcie_tlp/` does for the EA
  release; `rtl/ase_sim_pkg.sv` has the reset state machine. A thread per
  session serves the event socket.

Nothing is shared but the pipes, a few shared memory regions and two files
(`.app_lock.pid`, `.ase_timestamp`). Threads of the application: the callers of
the API, `mmio_response_watcher`, `membus_rd_watcher`, `membus_wr_watcher`,
interrupt, PCIe message and UMsg watchers.

### Inventory

| Component | State | Operations | What is hard | Correct when |
|---|---|---|---|---|
| MMIO port (`app_backend.c`, `pcie_ss_tlp_stream.c`) | scoreboard `mmio_table`, `glbl_mmio_tid`, port lock, request list, `mmio_read_state` | `mmio_read*`, `mmio_write*`, the watcher, request list, completion | lines are given back without the lock, two flags in two stores; responses are found by id | a read returns its own data; lines are neither shared nor lost; order of requests; every read returns |
| PCIe SS DMA (`pcie_ss_tlp_stream.c`, `ase_pcie_ss_emulator.sv`) | `dma_read_state` with a free list threaded through it, completion list, counters of pending requests, the states of the two streams | beats in both directions, `pcie_receive_dma_reads`, `pcie_complete_dma_writes`, tready, soft reset | random reordering, splitting and refusal; tags released before their data is sent; two pipes to two threads | every word of every read arrives once, in a well-framed packet, with the data of that read; the clock does not hang |
| Pinned memory (`ase_host_memory.c`, `buffer.c`) | two page tables per AFU, 8-bit reference counts, IOVA pool, `ase_pt_lock` | Prepare/Release/Pin/UnpinBuffer, translation, munmap hook, ATS, open and close | a mutex held across a memory access and a pipe write, cancelled threads, IOVA reuse between free and unpin | DMA reaches the page that is pinned, while it is mapped; counts are exact; the mutex is returned |
| Session (`app_backend.c`, `protocol_backend.c`, `ase_shbuf.c`) | lock file, shared buffers, port control pipes, mode and test counter, reset state machine | `session_init`, `session_deinit`, `ase_listener`, `send_simkill`, reset | applications die anywhere; pipes and lists outlive them; answers carry no tag | one session at a time, answers meet requests, nothing is left behind, the simulator ends as its mode says |
| Event socket server (`protocol_backend.c`, `event.c`) | `intr_event_fds`, `sockserver_kill`, a server thread per session, a socket named after the time stamp | `register_event`, `unregister_event`, `start_socket_srv`, `read_fd`, `ase_interrupt_generator` | nobody waits for a server to end; descriptors get new numbers on their way | an event is signalled from its registration to its unregistration |
| ATS (`ase_pcie_ats.c`, `app_backend.c`, `mmap_hooks.c`) | `itag_busy_vec` and a state per tag, `err_check_cycle`, two locks, the message pipe | `ase_mem_unmap_hook`, allocate, complete, age check, send | tags are released and used again while two watchers look at them without the lock; unsigned ages; two messages that belong together | no translation survives its unmapping; completions are never refused; no false timeout |
| AXI-S TLP emulator, EA (`pcie_tlp_stream.c`, `axis_pcie_tlp_emulator.sv`) | read states and buffers under the AFU's tags, completion list, interrupt list linked by ids, MMIO list, one packet state for all channels | a beat per channel in both directions, completion splitting, interrupts, reset | packets over channels and clocks, byte counts under byte enables, random order and refusal | framing, data, offsets and counts of every completion; one answer per MMIO request; interrupts answered in order |
| UMsg | UMAS region, watcher | mode, hints | watcher cancelled, not joined | only the region and the mode (in `Session`) |
| Message queues (`mqueue_ops.c`) | pipes | open, send, recv | length and body are written separately | whole messages; framing planned |
| CCI-P emulator, HSSI | SystemVerilog channels; Ethernet streams | | | not modelled |
| Enumeration, plugin, management API; configuration and clean-up; logging; header packing; local memory; build | little or none | | sequential, I/O, encodings or vendored | not modelled |

How they interact: a session must be open (`Session`) before MMIO
(`MmioScoreboard`) and DMA (`PcieSsStream`) have pipes; the AFU's DMA requests,
made through `PcieSsStream`, are translated by the watchers in `HostMemory`;
MMIO requests and DMA completions share the stream to the AFU; the soft reset
begins in `Session` and ends in `PcieSsStream`. `ase_mem_unmap_hook` sends
invalidations (`AtsTags`) and then drops entries of the inverse page table
(`HostMemory`). `AxisStream` takes the place of `PcieSsStream` on EA boards; its
interrupts end in the table of `EventServer`.

## 2. Modules

| Module | Contents |
|---|---|
| `MmioScoreboard` | the MMIO port, both sides |
| `MmioInvariant` | its inductive invariants `IInv`, `CreditInv` and `OrderInv`, in named parts |
| `MmioProofs` | the theorems about it |
| `PcieSsStream` | DMA through the PCIe SS emulator, with MMIO and messages on the same stream |
| `PcieSsProofs` | the theorems about it, the refinement of `DmaReads` among them |
| `AxisStream` | the EA emulator: DMA, MMIO and interrupts on several channels |
| `AxisProofs` | the theorems about it, the refinement of `DmaReads` among them |
| `DmaReads` | the read service both emulators implement, in order where completions are ordered |
| `AtsTags` | invalidation tags, the munmap hook's messages, the age check |
| `AtsProofs` | the theorems about it |
| `EventServer` | event registration over the socket, across sessions |
| `HostMemory` | page tables, IOVA pool, buffer calls, watchers, ATS, close |
| `HostMemoryProofs` | the theorems about it |
| `Session` | lock file, handshakes, listener, modes, reset |
| `SessionProofs` | the theorems about the lock file |
| `SessionCallProofs` | the theorems about the calls of a session and what it leaves |
| `MCMmio`, `MCPcieSs`, `MCAxis`, `MCHostMemory`, `MCAts`, `MCSession` | constants for TLC |

Definitions named `X_something` next to a definition `X`, introduced as faulty
or as mutants, are plausible bugs of `X`; each shows that a property notices
one.

### MmioScoreboard

One variable per field of `mmio_table` and of `mmio_read_state`, one for each
of the two pipes, the request list, the port lock, and a program counter with
the local variables of each calling thread and of the watcher. A step is one
shared access: the lock, the test in the spin loop of `generate_mmio_tid`, the
choice of a line in `mmio_request_put`, the send, and then, outside the lock,
the poll of `rx_flag` and the separate stores that clear `tx_flag` and
`rx_flag`. The watcher takes a response, looks for its line by transaction id
and stores the id, the data, `tx_flag` and `rx_flag` one after the other. Only
`FindSlot` is coarser than single accesses: the scan of `mmio_request_put` and
the setting of the two flags are one step. The port lock keeps every other scan
out, and a line that a reader gives back during the scan is one the code may or
may not see; the step allows both, as it may come before or after. The emulator moves requests from
the pipe to the list, gives one to the AFU, records reads in `mmio_read_state`
and sends a completion as a response; the AFU may complete its reads in any
order. A request for a port the emulator does not have, which only the
enumeration makes, is answered with all ones. Address and payload are
abstracted to the number of the request, which no code reads.

Ids wrap: `TidSpace` is smaller than `MaxReqs`. `IdsRecent` says that no request
is unfinished while `TidSpace` others have been made since; it is the constraint
of `mmio_threads`, whose liveness properties are then about behaviours in which it
always holds, and the hypothesis of the theorems. Without it `TidUnique` is
violated (section 5).

Named bounds: `MaxReqs` requests; `NumSlots` stands for `MMIO_MAX_OUTSTANDING`
(64), `TidSpace` for 2^`MMIO_TID_BITWIDTH` (512).

### PcieSsStream and DmaReads

One clock of the emulator is five phases in the order of the SystemVerilog:
complete the writes, receive the reads (which polls until all are answered, the
reason why a lost answer stops the clock), one beat to the AFU, one beat from
the AFU, the next `tready`. The application's two watchers run at their own
pace. The read states, with the free list threaded through `start_cycle`, are
modelled field by field, with and without the tag mapper, because the field is
used for two purposes. A response is cut into completions at multiples of the
request completion boundary, at most `MaxChunks`, and each is inserted at any
place of the list the code may choose. Beats carry `BeatDw` double words, the
first `SopDw` after a header. Addresses are left out: memory is the number of
writes performed, so the data of a read says how many writes it saw. The AFU
obeys the protocol; the branches that end in `pcie_tlp_a2h_error_and_kill`
because of a malformed packet are not modelled, the two about tags are.

The emulator is built in three configurations: several ports use the tag mapper
and reorder completions (`dma_mapped`); one port without reordering hardware has
no tag mapper and reorders (`dma_reset`); one port with it uses the tag mapper and
keeps completions in order, sending those of data mover requests whole. The third
is covered by the theorems, which are for both values of both constants, and not
by a run.

`DmaReads` is the abstract service: a read asks for a number of words and gets
exactly those, never more, and, where completions are configured to be ordered,
no word before all earlier reads are finished. `ImplementsDmaReads` checks that
the emulator, its pipes and its watchers implement it, with the lengths of the
AFU's reads for `want` and the words it received for `got`.

### AxisStream

The clock of `axis_pcie_tlp_emulator.sv`: writes are completed and reads
received in the call for channel 0, then each channel may carry a beat to the
AFU, an interrupt may be answered, each channel may carry a beat from the AFU,
and `tready` is chosen. `phase` and `ch` say where in this sequence the clock
is. The module follows the code where it differs from its sibling: the AFU's
tags index the read states and the response buffers, so a buffer remembers which
read filled it last; all channels share one packet state; the byte count of a
completion is what `pcie_cpl_byte_count` leaves of the request, with masks as
numbers below 16; interrupts are linked by `interrupt_state[].next`. The AFU
computes offset and count of a completion from the set of bytes it asked for
(`Enabled`, `ExpectedBytes`), not with the formula of the code. A fence brings
no data. An MMIO request arrives with the line of the application's table: a read whose
line is out of range or busy is an error (`SlotError`); a read of another function
is answered with all ones, a write to it is dropped without an answer. The delays of the code (63, 200 and 250 cycles) are of any length.
`MaxOps` bounds requests, interrupts, MMIO and resets together.

### AtsTags

Application threads in `ase_mem_unmap_hook`, the two memory watchers in
`ase_pcie_ats_itag_cycle`, `pcie_msg_watcher` and the simulator. `itag_alloc` is
two steps, the stamp and, after the barrier, the busy bit. The age check takes a
snapshot of the busy vector, adds to the cycle, and compares for each tag two
words it loads in either order, as the compiler is free to do. A release is one
step under `ase_itag_lock`; the count of completions is learnt from the first,
and 0 in the header means the most. The hook's chunks are computed as in the
code (`ilog2_ceil`, alignment down and up); the AFU decodes the length from the
low bits of the address, so address 0 loses it. The AFU answers an invalidation
with one or two completions and may combine tags in one message. A page is
translated for one of two AFUs (`AfuOfPage`), and an invalidation goes to the AFU
its header names, which is always the first (`InvalAfu`). `Wrap` stands
for 2^64, `Limit` for 10000; `count` and `MaxTraffic` bound hooks and traffic.

### EventServer

Sessions, one server thread each, the connections waiting for it, and the table
of descriptors. A received descriptor is a new number for the event it stands
for. The timeout of the first `select` has uninitialized seconds, which may make
it fail (`SelectError`) or wait for ever (no `Poll`).

### HostMemory

A function of `ase_host_memory.c` that locks `ase_pt_lock`, works and unlocks is
one step; a watcher keeps the lock from the translation to the end of its
access, which is two steps, and between the functions an API call makes other
handles may run. An address is a huge frame and the set of the index bits that
are 1, so that `|` and `^` of the code are exact. Two of four levels are kept: a
frame is a huge page or a table of 4KB pages, the case in which the code
deletes and rebuilds tables. Counts are modulo 256. Errors the code has are
actions: failed allocations, refused pins, a wrong length, cancelled watchers,
assertions. Constants turn features on: `Kinds` of buffers, `Ats`, `BadLength`
(an unpin of a length that is no page), `NoMemory` (no page for a table),
`CloseBusy` (a close during an access).

`ase_open_afus_by_tok_idx` has a bit for an AFU and not for a handle, as in
`close.c`: closing one of two handles clears it, deletes the table and may end
the session. Calls on a handle whose session has ended that way are not modelled;
one token per AFU is assumed. An access remembers who made it and what it should
reach (`acc`): `OwnerReached` compares for DMA by IOVA and for translated 4KB
pages, `RightMemory` for every access. `check_mapped_page` is the test of page
sizes of a preallocated buffer; that it stops testing after 200 pages is left out.
The length of a page is exact: the cache of `ase_host_memory_va_page_len`
(`ase_host_memory.c:271`) is cleared by every unlock, and its one reader without
the lock (`app_backend.c:2046`) serves page requests, which are not modelled.

### Session

An application is its place (`idle`, `checked`, `init`, `up`, `deinit`,
`signal`), the calls it has still to make and its regions. `InitScript` and
`DeinitScript` are the calls of `session_init` and `session_deinit` that wait
for an answer. The listener's three parts are three actions; a reset is answered
by the state machine of `ase_sim_pkg.sv`, which reacts to edges of
`app_reset_trig`. `SimKill` has a disjunct for each mode. A write with no reader
ends the simulator, a write with no simulator ends the application. `Signal` is
CTRL-C (`send_simkill`), `Kill` the end of a process anywhere. `disturbed`
records that an application ended where the simulator cannot notice.

Nothing in the code keeps two applications apart between the check and the
creation of the lock file. The variable `raced` remembers that one looked for the
lock file while another was in between. Two sessions are the result (`OneSession`,
section 5), and `ExclusiveUnlessRaced` says that this is the only way to get them.
`session` does not follow a race further (`NoRace`); the theorem does.
What the other properties say is said up to the first race or unnoticed end of an
application (`disturbed`).

## 3. Runs

`tlc -config <run>.cfg <module>`; states are distinct states.

| Run | Module | Instance | Checks |
|---|---|---|---|
| `mmio_threads` | MCMmio | 2 threads, 2 lines, 3 ids, 5 requests, while `IdsRecent`; 284 thousand states | `ReadReturnsOwnData`, `NeverLosesTrack`, `NoCreditLeak`, `SlotOwnedOnce`, `DeliveredInOrder`, `ReadReturns`, `LockReleased` |
| `mmio_full_table` | MCMmio | 2 threads, 2 lines, 4 ids, 4 requests | **violated:** `AlwaysFindsSlot` |
| `dma_mapped` | MCPcieSs | several ports: tag mapper, reordered completions; no payload beside a header; 3 reads of 3 DW, fences or atomics, 2 tags, 1 MMIO; 191 thousand | `FreeListSound`, `ReadAlwaysAccepted`, `CplStateLive`, `ReadDataCorrect`, `ReadCompletes` |
| `dma_reset` | MCPcieSs | one port without reordering hardware: no tag mapper, reordered completions; 2 reads of 2 DW, 1 write, 1 MMIO, 1 message, 1 soft reset; 1.9 million | `EveryWordOnce`, `WellFramed`, `PendingMatchesPipes`, `ImplementsDmaReads` |
| `axis` | MCAxis | 2 channels, 2 tags, 2 interrupt ids; 3 requests of any kind (reads with byte enables, a fence, writes, MMIO for this and another function, interrupts, a reset); 1.9 million | `WellFramed`, `ReadDataCorrect`, `IrqListSound`, `MmioAnsweredOnce`, `LegalAfuAccepted`, `ImplementsDmaReads` |
| `ats` | MCAts | 2 threads, 2 watchers, 2 tags, 1 or 2 completions, 2 memory requests, unaligned ranges; 3.7 million | `CompletionsAccepted`, `MsgFramed`, `StaleDropped` |
| `events_unregister` | EventServer | 2 vectors, 2 events, 2 sessions, 3 calls | **violated:** `UnregisteredSilent` |
| `mem_pin` | MCHostMemory | 2 handles on 2 AFUs, 2 buffers, both sizes, one reopen; 280 thousand | `DmaMemoryMapped`, `AllocatedIovaPins` |
| `mem_shared` | MCHostMemory | 2 handles on one AFU, 3 buffers of 4KB, ATS of any page; 206 thousand | `OwnerReached`, `OwnedReachable` |
| `mem_faults` | MCHostMemory | 1 handle, three kinds of buffers, both sizes, ATS of any page, wrong lengths, no memory for tables, cancelled watchers, a second session; 536 thousand | `RefcountExact`, `PaPinnedOnce` |
| `session` | MCSession | 2 processes, 3 sessions, 4 modes, 2 tests, 1 CTRL-C or kill, up to the first race; 111 thousand | `ExclusiveUnlessRaced`, `EndsAsConfigured`, `AnswersMatch`, `CleanBetweenSessions`, `SessionProgress` |
| `session_stale` | MCSession | 2 processes, 2 sessions, regression mode, 1 CTRL-C | **violated:** `DeallocatesOwn` |

Why the bounds are enough. *MMIO*: with two lines and five requests the table
fills, `generate_mmio_tid` spins, lines are reused while an older read is still
giving one back, and three ids come round; a third thread adds no new pair of
accesses. *DMA*: two
tags and three reads make a state go round the free list; 3 DW is more than a
beat and more than one completion, so packets have a middle. *EA emulator*: with
two channels of one DW a packet of two DW fills a clock or runs over two, and
three requests are two reads that reorder and one thing that comes between them,
or a tag or interrupt id used, freed and used again. *ATS*: with two threads and
two tags the threads wait for tags, and a tag is released and taken again inside
one age check; one and a half pages (pages have two bytes) at an odd page need
two chunks. *Memory*: one index bit gives
a huge frame two pages, enough for "same page", "other page, same table" and
"huge page over both"; two buffers are the old and the new owner of an IOVA.
*Session*: with three sessions a process has a successor and a second session of
its own, and the second test of two ends a regression.

`mem_shared`, `mem_faults`, the session runs and `events_unregister` do not check
deadlock: in the first two the application may have died or hung on the
mutex, in the others everybody may have ended, and an application whose
deallocation names an unknown index waits for ever. The other runs check it. When
all requests of the MMIO bound are made and every thread is back the model
stutters (`Finished`); a fatal error also stops it there. The clock of
`PcieSsStream` polls without an end while reads are pending (`PollReads`), so a
hang there is caught by `ReadCompletes` and not as a deadlock.

The type invariants are not properties of the runs: those of `MmioScoreboard`
and `HostMemory` are proved; those of `PcieSsStream` and `Session` hold on the
instances `dma_reset` and `session`, and what the proofs need of the types is part
of their invariants.

### What the violations show

* `mmio_full_table`: `generate_mmio_tid` waits for a `tx_flag`, but
  `mmio_request_put` wants a line with both flags clear. A reader clears
  `tx_flag`, another thread stops waiting, finds no line and raises SIGABRT
  (`app_backend.c:907`).
* `events_unregister`: `read_fd` says it locates the vector of an event, but
  compares entry 0 with a descriptor number that is always new
  (`protocol_backend.c:720`): the event stays registered and is signalled.
* `session_stale`: in regression mode CTRL-C leaves regions in the simulator's
  list; the next session's deallocation, which names an index counted from 0,
  removes the old region and keeps its own.

### Fairness

* MMIO: weak fairness of every step of a thread inside a call, of the listener
  (`NewRequest`), of the hand-over to the AFU, of the completion of every read
  and of the watcher: threads are scheduled, the clock runs, the AFU answers.
  Starting a call is not fair.
* DMA: weak fairness of the watchers and of the clock's phases; strong fairness
  of the three kinds of beats to the AFU, each of which the code refuses at
  random, independently of the past, in a cycle in which it could be sent.
* Memory, ATS and the EA emulator: no fairness; that hooks do not wait for ever is the
  absence of deadlock, because every wait of the hook (a tag, two locks) is a
  guard.
* Session: weak fairness of each application inside its calls, of the three
  parts of the listener and of the reset state machine. Starting, closing and
  faults are not fair.

## 4. Proofs

`tlapm <module>.tla` for the seven modules whose name ends in `Proofs`. Every
safety invariant and action property of the passing runs, and the refinement
`ImplementsDmaReads` of both emulators, is a theorem, for every value of the
constants that the named assumptions of the modules allow. Where a theorem has a
hypothesis the property is false without it or the code gives no reason for it;
each is discussed below. The invariants were checked by TLC on the instances of
the runs before they were proved. Steps are proved action by action, and in each
the parts the action can disturb.

| Theorem | States | Hypothesis |
|---|---|---|
| `MmioProofs!TypeCorrect` | `Spec => []TypeOK` | |
| `MmioProofs!RequestsInOrder` | `Spec => DeliveredInOrder` | |
| `ReadsCorrect`, `TrackKept`, `OwnersDiffer`, `CreditsKept` | `ReadReturnsOwnData`, `NeverLosesTrack`, `SlotOwnedOnce`, `NoCreditLeak` | `[]IdsRecent` |
| `PcieSsProofs!EmulatorImplementsReads` | `Spec => ImplementsDmaReads` | |
| `CompletionsFindTheirState`, `WordsSentOnce`, `ReadDataIsCorrect` | `CplStateLive`, `EveryWordOnce`, `ReadDataCorrect` | |
| `FreeListIsSound`, `ReadsAreAccepted`, `CountsMatchPipes`, `PacketsWellFramed` | `FreeListSound`, `ReadAlwaysAccepted`, `PendingMatchesPipes`, `WellFramed` | |
| `AxisProofs!EmulatorImplementsReads` | `Spec => ImplementsDmaReads` | |
| `ReadDataIsCorrect`, `PacketsWellFramed`, `LegalRequestsAccepted`, `InterruptListSound`, `MmioAnswers` | `ReadDataCorrect`, `WellFramed`, `LegalAfuAccepted`, `IrqListSound`, `MmioAnsweredOnce` | |
| `AtsProofs!CompletionsAlwaysAccepted`, `MessagesFramed`, `FalseTimeoutsExplained` | `CompletionsAccepted`, `MsgFramed`, `FalseTimeoutOnlyOnReuse` | |
| `AtsProofs!StaleTranslationsDropped` | `StaleDropped` | `RangesHigh`, `OneAfu` |
| `HostMemoryProofs!TypeInvariance`, `TranslationsEnteredOnce` | `TypeOK`, `PaPinnedOnce` | |
| `ReferenceCounts`, `OwnedStayReachable`, `DmaReachesItsPage` | `RefcountExact`, `OwnedReachable`, `OwnerReached` | `Apart`, `FewBufs`, `CloseAlone` |
| `AllocatedPagesPin` | `AllocatedIovaPins` | the same, `~NoMemory` |
| `NoCallCrashes` | `NoCrash` | the same, `~Ats` |
| `DmaPageMapped` | `DmaMemoryMapped` | `OneHandlePerAfu`, `FewBufs`, `~Ats`, `Steady` |
| `SessionProofs!OnlyRaceSharesPipes` | `Spec => []ExclusiveUnlessRaced` | |
| `SessionCallProofs!SimulatorEndsAsConfigured`, `EveryAnswerMatches`, `NothingLeftBetween` | `EndsAsConfigured`, `AnswersMatch`, `CleanBetweenSessions` | |

### MMIO

From `SlotsAssumption`, `TidAssumption`, `ReqsAssumption`, `NoThreadAssumption`.
`ReadReturnsOwnData` is about a thread at the end of its call, so the invariant
follows a request through its life. `LockInv`: a thread is in the critical
section exactly when it holds the lock; with `RoomToGenerate` (it took the lock
only when it may make a request) and the types this is `TInv`, inductive on its
own. `OnePlace`: a request is in one of the request pipe, the list, the AFU, the
response pipe and the watcher. `LineWaits`: the line of a request in flight is in
use, unanswered and has its id. `TableTids`: ids in the table differ, apart from
the 0 the table starts with, which is why the first request must get line 0
(`Newest`, `NothingYet`). `ReadLine`: a read's line has its id, and once `rx_flag`
is set the data is the answer to this read. `RightAnswer`, `SimKnows`: packets on
the line of a read are that read or its answer, and `mmio_read_state` knows the
reads the emulator has and only those. `WatcherInv`: the line the watcher found
by id is the one the response names, which the code does not test.

`NoCreditLeak` needs the converse of `LineWaits`: a line in use belongs to a
request in flight or to a call that will free it (`LineClaimed`), and a read in
flight has a caller (`ReaderWaits`); together they are `CreditInv`. Order needs
only `OrderInv`: request numbers ascend through the pipe and the list.

Ids are a counter modulo 512 and nothing tests that an id is free again when it
comes round. `IdsRecent` says of a state that every request in flight or in a call
is one of the last `TidSpace`; a behaviour in which it always holds may make any
number of requests and use every id again and again. It is a hypothesis about the
speed of answers that the code does not enforce and that is needed: without it
`TidUnique` is violated (section 5). `RequestsInOrder` and `TypeCorrect` hold without it.

### PCIe SS emulator

From the assumptions on tags, modes, widths, lengths and bounds, for both
settings of the tag mapper and of the order of completions. A read passes through
the request and response pipes, the response that is being cut up and the list of
completions. `ReadInv` says that the numbers of the reads in these places ascend
(`Fifo`), so that a state taken from the free list or given back is that of one
place only; that each place has a live state with the header of its own read
(`FlyingLive`, `SplitLive`, `CplStateLive`); and that the completions of a read
cover its words from what the AFU has to the end, without gap and overlap
(`FromNext`, `NoGap`, `NoOverlap`, `ToEnd`, `Accounted`). The refinement follows:
every beat extends the words of one read, within its length and, when completions
are ordered, only if all earlier reads are complete (`InOrder`). `TagInv` says that
the free list, threaded through a field with another use, visits exactly the idle
states: the witness is a rank that falls along the list. `FrameInv` says which
counter is not 0 between two beats. `PendingInv` adds the types of the pipes.

### EA emulator

From `SizeAssumption`, `ReqAssumption` (every request obeys the byte enable rules
of PCIe, `Legal`) and `AxisBoundAssumption`. `ReadInv` has the structure of its
sibling, but a tag is the AFU's and is free only after its last word, which makes
the tag name its read everywhere (`Owners`), and the head of the list may be half
sent (`HalfSent`). That offset and byte count are right is arithmetic: lemmas give
what `pcie_cpl_byte_count` leaves for every one of the 16 masks at either end.
`IrqInv`: the ids linked by `next` are those raised and not answered, in order.
`MmioInv`: a request is on the list, with the AFU, or answered. `FrameInv` as
above. `LegalInv`: before a reset the emulator's tags are tags the AFU knows to be
in use. `OpsInv` has the types of the bounded counters.

### ATS

From `AtsAssumption` and `FreeAssumption`. `TagInv`: a tag that
a thread, an invalidation in the pipe or the AFU has is busy and is had by one of
them only (`HeldTags`, `PipeTags`, `OwedTags`), the two halves of an invalidation follow each other because of
`pcie_msg_tx_lock` (`Paired`), and the counts of the state are what the AFU has
sent (`OwedTags`). `AgeInv`: what a watcher loaded is the current stamp, or the
tag was released since (`Stamped`, `Loaded`), whichever word is loaded first.
`StaleInv`: the pages of a range that no invalidation has reached are in the
chunks the hook has still to send or in the pipe (`ChunksLeft`, `OldCarried`); it uses
`pcie_atc_active` being set before the first translation leaves (`FlagFirst`).
`RangesHigh` says that ranges lie above their own size, rounded up to a power of
two of pages. It is needed: a chunk at address 0 loses its length (section 5).
`OneAfu`: all translations are of the AFU that invalidations are for
(section 5). `RangesHigh` also states that `Pow2Ceil`, a recursive function, rounds up, which would take
an induction over its argument; TLC evaluates it for the ranges of `ats`.

### Pinned memory

From `AfuAssumption`, `FrameAssumption`, `KindAssumption`. `BaseInv`: types, which
buffers may be in which step of a call, and that an entry is a page exactly while
its count is not 0. `AllocInv`, `PinInv`: two buffers with an IOVA do not overlap,
apart from a page pinned twice. `CountInv`: every count is the number of buffers
that pin the page. `VaInv`: an entry leads to the memory of the buffer that owns
its IOVA. `PaVaInv`: a simulated physical address leads back to the address it was
made from. `MapInv`: memory is mapped as long as a buffer has it, and what a
watcher uses is pinned by a buffer that is not in the middle of its release.

The hypotheses, all about how the library is used:

* `Apart`: one handle per AFU, or one page size. Otherwise an IOVA given back before
  its page is unpinned is taken for a buffer of the other size: the pin may be
  refused, and the unpin ends in a fault (`UnpinReturns`, section 5).
* `CloseAlone`: no handle is closed while another one is open on its AFU
  (`OpenAfusTracked`, section 5). With one handle per AFU it is a lemma.
* `FewBufs`: fewer buffers than the 8 bits of a count have values; 256 pins of one
  page end in an assertion.
* `~NoMemory` for `AllocatedIovaPins`: pages for the tables can be allocated.
* `~Ats` for `NoCrash`: `AssertsHold` is violated with translations (section 5).
* `OneHandlePerAfu` for `DmaMemoryMapped`: one handle gives an IOVA back, another
  takes it, pins, unpins and unmaps its page while the first one's pin still keeps
  the entry: a DMA request then finds an unmapped page. `~Ats` for the same
  theorem: a translation between the hook and its munmap (`PaEntryMapped`).
* `Steady`: a handle is not closed and opened again while an access goes on, so
  that callers' own memory is not unmapped under it: there is one handle, or no
  handle is reopened (`MaxOpens = 0`), or callers map no regions of their own.

### Sessions

From `SessionAssumption`, in every mode, with no hypothesis about how applications
are started. `LockInv` holds until the first race: a process with the pipes open
has the lock (`HoldsLock`); one that has checked the lock file will create it, so
nobody may have the pipes open then (`CheckedAlone`), which only another process
that was past the check could break; and a process that waits for an answer, after
which the lock file is removed, must be the one that has it (`CallsWhenOpen`).
`Shape` says that `app` is a function to records, which the updates need.

`SessInv` names the ten calls of `session_init`, `session_deinit` and
`send_simkill`, and for each the regions the process and the simulator have
before and after it and the level of the reset (`Calls`). While the simulator is
up the process with the pipes open is in one of these calls, in one of four places:
it has to send the request (`Calling`), the request is in its pipe (`Asked`), the
reset state machine has it (`Resetting`), or the answer is in its pipe
(`Answered`); everything else in the pipes, the list and the state machine follows
from that (`UpInv`). `NextCall` is the lemma that each call finds what the one
before it leaves. After the end of the simulator at most the last answer is left
(`DownInv`); `CountInv` keeps the test counter below `ASE_NUM_TESTS`. All three
properties are about `~disturbed` states: an application that dies in a handshake
does leave messages and regions behind (sections 3 and 5), and two that share the
pipes take each other's answers.

### Only model-checked

The liveness properties `ReadReturns`, `LockReleased`, `ReadCompletes` and
`SessionProgress`: fairness and `ENABLED` are outside what the prover does. The
three violations, which are counterexamples. `EventServer`, whose
one property is among them. `TypeOK` of `PcieSsStream` and `Session`.

## 5. Observations

Properties kept in the modules that the model violates in instances other than
those of the runs, and what else was met while reading. They are not counted as
checked.

| Property | Instance | Meaning |
|---|---|---|
| `TidUnique` | `TidSpace` smaller than `MaxReqs`, two threads, no constraint | a read that stays unanswered while `TidSpace` more requests are made has the id of the last; `ase_common.h:351` calls the id unique |
| `FenceOrdersWrites` | `Ordered = TRUE`, `MaxWrites = 1` | a fence or read overtakes a write: they travel on different pipes to different threads (`pcie_ss_tlp_stream.c:757`) |
| `ResetWaits` | any with `MaxResets = 1` | the listener and `ase_reset_fsm` say the reset waits until channels are clear (`protocol_backend.c:888`); the PCIe SS emulator ties `system_is_idle` to 1 (`ase_pcie_ss_emulator.sv:222`). `dma_reset` shows what still holds |
| `TimeoutIsLate` | `Limit = 4`, `MaxCC = 1`, `AfuCC = {1}` | a watcher loads the cycle, the other one increments it, the tag is released, taken again and stamped with the newer cycle: the unsigned difference is huge and the application is aborted for a fresh invalidation. "locking isn't required here" (`ase_pcie_ats.c:181-182`) is right for a tag that stays busy, which is what `FalseTimeoutsExplained` proves |
| `InvalOnlyToCaching` | `AfuOfPage` is 1 for every page | invalidations are for `afu_idx` 0, also when only another AFU has translations (`app_backend.c:2111`; the comment at `:2162` says they go only to AFUs that cache translations) |
| `AssertsHold` | `Ats = TRUE`, `Kinds = {"user"}`, 4KB | translate, unmap, map and unmap again: a 4KB entry keeps its terminal bit when its count drops to 0 (`ase_host_memory.c:885`), the next hook decrements 0 and the assertion of line 598 fails |
| `UnpinReturns` | two handles on one AFU, both sizes, two frames of memory | an unpin of a 4KB page inside what is now a huge page walks into the page as if it were a table (`ase_host_memory.c:859`) |
| `NoLockLeft` | `CloseBusy = TRUE`; `BadLength = TRUE`; `NoMemory = TRUE`; or `Ats = TRUE` where a pin deletes a table | `session_deinit` cancels `membus_rd_watcher`, perhaps inside `mqueue_send` with `ase_pt_lock` held (`app_backend.c:1857`), and then waits for it in `ase_host_memory_terminate`; error returns with the mutex held (`ase_host_memory.c:194`, `:141`); the munmap hook called with the mutex held (`:727`) |
| `PaEntryMapped` | `Ats = TRUE` | a translation between the hook and its munmap leaves an entry for an unmapped page (`mmap_hooks.c:111`) |
| `RightMemory` | `Ats = TRUE`, `AtsIdx <- AllIdx`, huge pages | an entry of a huge page holds the address of its first request instead of the page's base (`ase_host_memory.c:377`) |
| `OpenAfusTracked` | two handles on one AFU, `MaxOpens = 1` | closing one of two handles clears the bit of the AFU and deletes its table under the other; if no other AFU is open the session ends (`close.c:52`) |
| `OneSession` | two processes, no constraint | two applications that both look for the lock file before either has created it both get the session (`app_backend.c:404`) |
| `AllocatedIovaPins` | two handles on one AFU, both sizes | a 4KB page is refused inside a huge page that has still to be unpinned (`ase_host_memory.c:808`) |
| `DmaMemoryMapped` | two handles on one AFU | an IOVA is given back, taken, pinned, unpinned and unmapped by another handle while the first one's pin keeps the entry |

* An application that dies in a handshake ends a daemon-mode simulator through
  the failing write (`mqueue_ops.c:332`); in regression mode the error path
  writes to the same pipe again, recursively.
* CTRL-C with a UMAS allocation pending makes `update_fme_dfh` write through a
  pointer into a region that is gone.
* An application killed between the rising and the falling reset leaves
  `app_reset_trig` high; the next `session_init` makes no edge and waits for ever.
* Modes 2 and 4 keep the buffers of a session ended by CTRL-C.
* `ASE_SIMKILL` in mode 3 closes the pipes before it answers.
* `glbl_session_id` is freed with every SIMKILL but allocated with `ASE_INIT`.
* A deallocation of an unknown index gets no answer (`ase_shbuf.c:149`).
* `mqueue_send` writes length and body separately, without a lock
  (`mqueue_ops.c:325`).
* `umsg_watcher` is cancelled but not joined before its region is unmapped
  (`app_backend.c:728`).
* `pcie_tlp_a2h_cpld` refuses tags greater than the limit, the table ends one
  before (`pcie_ss_tlp_stream.c:343`, `.h:430`).
* `send_swreset` tests the MMIO table without the port lock (`app_backend.c:340`).
* An invalidation of a chunk at address 0 loses its length
  (`ase_pcie_ats.c:56`): the AFU drops one page.
* The event server: nobody waits for it, and the last to end clears
  `sockserver_kill` for all; an application that is killed sends no SIMKILL and
  its server stays; a client that connects and sends nothing ends the server,
  and the SIMKILL that follows leaves `sockserver_kill` set for the next one; a
  server that accepted nothing closes descriptor 0 (`protocol_backend.c:814`);
  `tv.tv_sec` is not initialized (`:779`).
* The FIFO of the HSSI loopback plugin is not tested for room
  (`loopback_plugin.c:97`).

## 6. Not modelled

Addresses and payloads beyond what the properties tell apart; malformed TLPs of
the AFU; calls on a handle whose session was ended by the close of another one; interrupts of the PCIe SS emulator, which are one call of
`ase_interrupt_generator`; page requests of the AFU and the page length cache
they read; two of the four page table
levels; BindSVA, `mremap` and fixed `mmap`; the queries of the buffer API; UMsg
hints; pipe framing; the CCI-P emulator; HSSI; enumeration and management calls;
header packing, printing, configuration and build. `PROJECT.json` gives the
reason for each.

## 7. Plan

Done: the four core modules, both TLP emulators with one abstract read service,
the ATS tags, the event server, and a theorem for every safety property of the
runs (section 4). Next:

1. An abstract MMIO port (each request answered once, with its own data, in
   order of posting) and the refinement of `MmioScoreboard` to it.
2. `DmaPageMapped` with several handles on one AFU, for AFUs that make no request
   to an IOVA they were told is released.
3. Invariants of `EventServer` that hold (what the table may contain and which
   server may write it).
4. `Session` composed with `PcieSsStream`: the end of a session with reads
   pending.
5. Pipe framing (length, then body, several senders) refining the FIFO queues of
   the other modules; HSSI.
