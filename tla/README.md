# Verification of the thermal placement flow

Models, model-checking runs and proofs for the program part of this
repository: the scripts that turn a Gemmini design into a waveform, an
activity table and a thermal simulation, and the C++ that stands around the
simulated design: its memories, its JTAG server, its console and its host.
`PROJECT.json` holds the machine-readable inventory: runs, mutants, the map from
definitions to source lines, findings, hazards, theorems.

## 1. The system

| Part | State it keeps | Operations | Works with |
| --- | --- | --- | --- |
| smoke flow driver, `scripts/run_thermal_smoke_flow.sh`, `build_thermal_smoke_binary.sh` | files named by `RUN_TAG`, `CONFIG` or both; the simulator process | build binary, build simulator, simulate, extract, export, HotSpot, summary | all parts, through files and exit codes |
| VCD extractor, `scripts/extract_vcd_activity.py` | scope stack, signal dictionary, time steps, bucket and signal tables | header lines, time stamps, value changes, classification, tables | reads the waveform and `hierarchy_map.yaml`, writes two CSVs |
| hierarchy inspector, `scripts/inspect_gemmini_hierarchy.py` | modules by bucket | categorise modules, write map and inventory | reads exported RTL, writes `hierarchy_map.yaml` |
| HotSpot exporter, `scripts/export_smoke_hotspot_inputs.py` | rows, stripes, powers | read and sort, floorplan, power trace | reads the bucket CSV, writes HotSpot's inputs |
| environment file, `tools/env_gemmini_thermal.sh` | `TP_MAX_JOBS`, `MAKE_JOBS`, paths | sourcing | every script |
| DRAMSim2-backed memory, `gen-collateral/mm_dramsim2.cc` | backing array, read queue, requests by address, busy ids, responses | `tick`, `read_complete`, `write_complete` | the design's AXI port above, DRAMSim2 below |
| magic memory, `mm.h`, `mm.cc` | backing array, burst being stored, responses | `tick` | the same port, without `+dramsim` |
| SimDRAM bridge, `SimDRAM.v/.cc` | memories by chip and base address; the port's registers | `memory_init`, `memory_tick` | the design and either memory |
| JTAG remote bitbang server, `remote_bitbang.cc/.h`, `SimJTAG.cc` | sockets, pins, TDO, quit | `tick` (`accept`, `execute_command`) | a debugger, the design's TAP |
| UART bridge, `uart.cc/.h`, `SimUART.cc` | input and output descriptors, pending ctrl-C; registers of `SimUART.v` | `tick`, `sighand` | the terminal, the queues of `UARTAdapter.sv` |
| TSI and HTIF bridges, `testchip_tsi.cc/.h`, `testchip_htif.cc/.h`, `SimTSI.cc` | what the host has to send, the word on offer, the exit code | `load_program`, `reset`, `tsi_tick` | fesvr's host, the design's memory and hart 0 |
| RTL generation, workload build and run, `scripts/run_gemmini_*.sh`, `build_gemmini_workloads.sh` | exported RTL, manifest, binaries, copied waveforms | make, rsync, copy, inspect | inspector, simulator |
| environment checks, `check_environment.sh`, `check_python_env.py` | none | look-ups | none |
| generated Verilog, workload C, recorded artefacts | | | |

What is hard, and what makes each part correct:

* **Driver.** Several invocations may be under way, any command may fail, the
  operator may interrupt a run. `timeout` puts the simulator in a process group
  of its own, so it survives an interrupted shell: it opens the waveform and reads
  the binary by name whenever it gets there, and goes on writing. Nothing
  but file names keeps runs apart, and only the waveform and the logs are removed
  before a rerun. Correct: the artefacts of a passed run are its own, and a
  rerun cannot present what an earlier run left behind.
* **Extractor.** The waveform may end anywhere (`timeout`), nets are declared
  many times under one code, values come without leading zeros. Correct: every
  net under its first path, toggle counts those of the waveform, activity at most
  1, buckets account for every reported net once.
* **Inspector and extractor** each have keywords of their own; a signal's bucket
  is decided by the first hit. Correct: a map refines the defaults.
* **Exporter.** The table comes in any order, with other buckets than last time,
  and perhaps cut off. Correct: power trace and floorplan agree in names and order.
* **DRAMSim2 memory.** The timing model completes in any order, ids and addresses collide,
  writes are filed under an address that moves. Correct: the design sees an AXI memory.
* **Magic memory and bridge.** Strobes of narrow beats are masked and moved to
  lanes; design and memory decide on a handshake by different copies of the port,
  a register apart. Correct: every byte where AXI puts it, neither side takes what
  the other does not, and the same AXI memory as above.
* **JTAG.** Pins and TDO travel through calls and clocks, the debugger may be
  slow, silent or dead. Correct: commands act one by one with every edge seen;
  the simulation should not depend on the debugger, and does (finding 2).
* **UART.** A signal handler runs between any two instructions of the tick;
  characters are a clock behind in registers. Correct: nothing lost or doubled.
* **Boot.** Channels and host leave reset in any order, channels share memories or
  have their own, two parties can load the program, and one of them does not look
  where it writes. Correct: a memory holds what was stored to it, hart 0 never
  starts in one without the program, and its exit code is what the simulation reports.
* **Job limits.** Sourced many times, nested, over any user setting.

Section 7 says what is not modelled. The hazards, each at its line and with the
properties aimed at it, are listed in `PROJECT.json`.

## 2. Modules

| Module | Role |
| --- | --- |
| `SmokeFlow` | the driver as concurrent runs; `SmokeFlow_proofs` proves about it, `MCSmokeFlow` instantiates it |
| `TaggedResults` | what the driver promises per tag |
| `HierarchyTerms` | buckets of modules and paths: inspector and extractor; its theorems are in `VcdActivity_proofs` |
| `VcdActivity` | the extractor, on top of `HierarchyTerms`; `VcdActivity_proofs`, `MCVcdActivity` |
| `Orders` | sorting and filtering for the extractor and the exporter, as definitions the provers can use |
| `HotspotExport` | the exporter; `Scripts_proofs`, `MCHotspotExport` |
| `JobLimits` | the job limits; `Scripts_proofs`, `MCJobLimits` |
| `AxiMemory` | what the memory promises the design |
| `DramMemory` | the DRAMSim2-backed memory, shown to implement `AxiMemory`; `DramMemory_proofs`, `MCDramMemory` |
| `MagicMemory` | the magic memory with the registers of the bridge, shown to implement `AxiMemory`; `MagicMemory_proofs`, `MCMagicMemory` |
| `JtagCommands` | what the JTAG server promises a debugger |
| `RemoteBitbang` | the JTAG server with its debugger and TAP, shown to implement `JtagCommands`; `RemoteBitbang_proofs`, `MCRemoteBitbang` |
| `Uart` | the console of UART 0; `Uart_proofs` |
| `Boot` | `memory_init` of all channels, composed with the TSI host; `Boot_proofs`, `MCBoot` |

Definitions commented `Fault:` are not part of a specification. Each is a
plausible bug of the definition below it, used to see that a property notices.

### SmokeFlow

One variable per kind of file, indexed by what its name depends on: `binary` and
`simulator` by config, `dump` by config and tag, `out` and `summary` by tag. A
file's content is the set of runs whose simulation contributed to it. The
waveform is an inode: `rm -f` removes the name, a live simulator keeps its file
descriptor (`fd`), `bytes` says who wrote into an inode. `pc` is the stage of a
run's shell; each command is an action of its own, a file written by a stage is
truncated by one action (`OpenFile`) and filled by a later one (`WriteFile`).
If another run has filled it in between, either or both contents may remain.
`StageFails` is `set -e`, for every command but those the script exempts;
`SimEnds` goes on to the check whatever the exit status, as under `set +e`.
`Interrupt` kills the shell in any stage. `latest` is a history
variable. The summary is written in one step: nothing reads it.

The simulator has steps of its own. `Launch` only forks it (`starting`). `OpenDump`
opens and truncates the waveform by name, at any time after that; `Load` reads the
binary by name, as often as fesvr does while the clock runs, and remembers whether
it was ever half linked; `Dump` writes; `SimEnds` ends it, before its waveform is
opened or later. A kill of the shell between any two of them leaves an orphan that
takes the remaining steps while later runs go on.

Two constants say what the operator does, since the script has no lock. `Excludes`
are the runs whose shells never overlap. `Awaits` are the runs that are not started
while the other's simulator, perhaps an orphan, has still to open its waveform.
What is shown of a tag's artefacts is shown under
`SameTag \subseteq Excludes \cap Awaits`: without turn-taking the script promises
nothing, and without the wait an orphan that opens the name after the next run's
`rm -f` truncates that run's waveform and mixes its own data in. An orphan that has
its waveform open may go on writing for as long as it likes. `TagIsolation`
needs neither, and `LoadsWholeBinary` needs turn-taking between the runs of one
config, whatever their tags: the binary is linked again in place by each of them.
It speaks of the runs that were not killed: an orphan can read the binary while the
next run links it, and its waveform is then nobody's result.

### HierarchyTerms

Names are words, and the only fact about words is the relation `Occurs`
(substring), which is transitive (`OccursAssumption`). `CategoryFor` and
`WriteMap` are the inspector, `Terms` and `Classify` the extractor, with the
keyword tables of the source.

### VcdActivity

The file is generated as it is read, a line per action; `header` and `body` are
history variables that hold the file, so that properties can be stated from the
file without the reader. Guards state what Verilator's dumps have in common:
variables inside scopes, a time stamp first, a code at most once per time step.
`CutChange` and `CutTime` end the file inside a line. `WriteOutputs` is
`write_outputs`. Activities are in units of `1 / (Scale * time_steps)`.

The sort and the filter are `Ordered` and `Picked` of `Orders`, and the sums
`SumFunction`: what the library's `SortSeq`, `SelectSeq` and `MapThenSumSet` give
here, in a form that proofs can unfold. A negative `--top-signals` is that of 0.

### HotspotExport

Lengths in nanometres and powers in microwatts are the last digits the exporter
prints, and `Rounded` is what its formats do. `float()` fails after the
floorplan has been rewritten and before the power trace is opened, as in the source.

### JobLimits

The test operators are those of bash: false when an operand is beyond `MaxInt`.
Its specification is `JobsSpec`, so that one module can prove about both scripts.

### DramMemory

A tick is a sequence of actions, `phase` their position: sample the port and
issue one read (`Tick`), the five channels in the order of the code, then the
callbacks in any order (`update()`), then `EndTick`. A channel whose valid or
ready is low is skipped. DRAMSim2 is external: it accepts while it has fewer than
`Depth` transactions and completes any it holds; `addTransaction` is not refused,
as the code does not test its result. Two asserts of the callbacks are
`CallbacksFindRequests`. The AXI master of the model keeps bursts inside the memory.

### MagicMemory

The same ticks and phases, on bytes. A beat is a function of lanes, the strobes
a set of lanes; `Mask` is the shift and mask of `mm_t::write`, and `written`, a
history variable, says by AXI's own rule (byte `b` travels in lane
`b % word_size`) what memory should hold. `port` is what `SimDRAM.v`'s registers
show the design; `ready` is what the memory decided at the start of the tick. Each
side decides on a handshake by its own copy: an action of a channel is enabled when
either does, the memory's queues change by `ready`, and `due`, the design's account
of beats to come, beats to send and acknowledgements to come, changes by `port`.
`SidesAgree` says that the account always agrees with the queues, so that no
handshake is seen by one side only. In the first clock out of reset the copies do
differ (the memory is ready, the registers are not): a design raises no valid in it,
which is a rule of AXI, and `up` says so. The bursts are those the asserts of the code
admit: aligned, inside the memory, and full beats in bursts of more than one.

### RemoteBitbang

One call of `jtag_tick` is `Tick`, then `accept` or `execute_command`, then
`Return`, which moves the pins to the design (`wires`) and clocks its TAP, an
arbitrary machine (`Rise`, `Tdo`). The loops of the code are actions that are
not enabled while there is nothing to read: a call that loops is a `pc` that does
not move. The debugger connects, sends, reads and closes with no fairness at all.
`execute_command` takes a `Q` and stops; a failing `write` aborts.

### Uart

A clock edge is `Edge` (the adapter's queues sampled), `Input`, `Clear`,
`Output`, `End`; `sighand` can come between any two. Characters are numbered, so
that loss, doubling and reordering show. The three descriptors the constructor
can set up are `use_pty`, `print_file` and `shared_tty` (standard input and output
are one open file, so `O_NONBLOCK` on the one is on the other).

### Boot

`memory_init` is an action per channel, at that channel's first clock out of
reset; `backing` is `backing_mem_data`, by chip and masked base, and a memory is a
function of offsets. A channel joins the memory of its key, or maps one and, with
`+loadmem`, copies the whole program into it at `taddr - start`, which the code does
not check: a memory that begins above the program's first byte or ends before its
last one is left by the copy (`OutOfBounds`). What that does depends on where the host has
mapped the others: it ends the simulation, or goes unnoticed, or writes into another
memory some distance (`Gaps`) away; `fault` remembers it. A channel that disagrees
on the size of its memory ends the simulation (the assertion).
What is said of hart 0 and of the memories is said until then. The host's messages, one word each, are
computed from the options: `Plan` is what `load_program` and `reset` send,
`Poll` the polling of `tohost` after it. They pass through `in_data` (fesvr's
queue) and `in_reg` (`SimTSI.v`'s register). The design's side is external: it
takes a word when it has finished the one before, and its accesses wait for the
channel that serves the address. Hart 0 may store anywhere but in the program. An
init write may patch the program, and the program may have `tohost` in it:
`WokenReady` leaves these bytes out, and requires every other one. `StoresKept`
compares the memory of every channel that is up, by chip and base, with the stores
made to the addresses it serves, through any of its channels, and with what was
loaded into it elsewhere.

## 3. Runs

| Run | Question | Bounds |
| --- | --- | --- |
| `smoke_exclusive` | are a passed run's artefacts its own, is a half-linked binary ever loaded, does the flow implement `TaggedResults`, and does every run and every orphaned simulator end? | 3 runs of one tag: two reruns with one config and one with another, `Awaits` all pairs |
| `smoke_two_tags` | do overlapping runs of different tags stay apart? | 3 runs of one config, two of one tag, one of another, `Awaits` no pair |
| `smoke_accept` | do present outputs mean a validated run? No. | as `smoke_exclusive` |
| `vcd_tables` | does a net's path follow the header's nesting, does a map only move signals forward, are counts those of the waveform, activities at most 1, and do the tables account for every reported net? | 5 header lines or 3 and 6 body lines, 2 codes, 2 scope names, 2 net names, 3 maps, widths 1 and 2, unknown and shortened values, cuts, one row in the signal table, clocks excluded |
| `jobs_limits` | are the limits kept, by any sequence of settings and sourcings? | cap 4, integers up to 20: below, at and above every limit, and 0 |
| `hotspot_export` | do floorplan and power trace agree? | tables of up to 3 buckets in any order, with cuts, and of 6 to 8 |
| `dram_axi` | is the memory an AXI memory, and is every request answered? | 2 ids, 2 words, 2 values, bursts of 1 and 2, 3 requests (at most 2 writes), room for 2 |
| `magic_axi` | are bytes where AXI puts them, do both sides of the bridge account for the same beats and acknowledgements, is the memory an AXI memory? | 2 ids, 2 words of 2 bytes, beats of 1 and 2 bytes with any strobes, bursts of 1 and 2, 1 read, 2 writes, any initial contents |
| `jtag_commands` | do commands act one by one, with every edge and an up to date TDO, and is every command at hand executed? | a TAP of 4 states, 3 commands of any kind, room for 1 reply |
| `jtag_silent` | does a call return when the debugger is silent? No. | the same, 2 commands |
| `uart_console` | do characters pass once and in order both ways, and is a ctrl-C ever lost? | queues of 3, 4 characters typed, 2 sent, 2 ctrl-C, output with room for 1, all 8 configurations |
| `boot` | does hart 0 wake in a loaded memory, are stores kept when a channel comes up late, is the exit code reported? | 5 channels: 2 stripes of one memory, a second memory of the chip, 2 channels of another chip that differ in size and whose memory begins inside the program; 8 addresses in blocks of 2; 2 program chunks; 4 choices of init accesses; all options |

Why these bounds are enough to be worth anything:

* three runs are the fewest in which an orphaned simulator, the rerun that
  removes its waveform, and a later rerun are all about; the proofs remove the
  bound for the properties that are proved;
* five header lines hold scope, variable, upscope, scope and the variable again,
  which is an alias in a sibling scope; six body lines hold three time steps with
  a change each, so a value that was remembered wrongly is compared with. The
  constraint `RichInOnePart` of `MCVcdActivity` keeps long headers and dumps
  apart: the body sees of a header only the first path of each code, and three
  lines give both codes one, in either order;
* 6 and 7 buckets do not divide the chip, 8 do: both roundings occur;
* three reads on two ids make one id wait behind itself, overtaken by the other;
  with room for two, a write's transaction is added when reads have taken the room;
* two words of two bytes have a neighbour on either side of every lane, and two
  writes overlap; the proofs cover every width and size;
* three commands and one reply in the socket suffice for a rising edge, a reply
  after it and a full socket;
* queues of three leave two places and the one `UARTAdapter.sv` keeps back;
  two ctrl-C meet in the handler, one while the other is taken;
* the chunks of `boot` fill, share and cross cache blocks, its init accesses touch
  the program and other bytes. The two stripes have one base, once as it is and once
  sign-extended; the second memory holds other addresses and the program again; the
  two channels of the other chip meet the assertion and, with `+loadmem`, copy
  out of bounds, into a memory 7 below, or into none (20 away);
* the runs end (`CHECK_DEADLOCK FALSE`) where the program ends or an external
  party may stop: all runs done, the file read, the debugger gone, the bounds of
  the user reached, the exit code returned. `hotspot_export`, `jobs_limits` and
  both memory runs check for deadlock.

Every property of a passing run has a mutant: a bug put into one definition,
under which the run reports the property violated.

Fairness.

* `smoke_exclusive`: weak fairness of a shell's next command, since the commands
  other than the simulator end by themselves, and of the simulator's end, since
  `timeout` sends a signal after `SMOKE_TIMEOUT_SECS` and is not killed with the
  shell.
* `dram_axi`: weak fairness of the clock's tick; strong fairness of the completion
  of some transaction (DRAMSim2 completes what it holds within some number of
  updates, though not in any given one) and of the design sending the beats of a
  write it has announced and taking responses, each of which is possible in every
  tick but in no phase of it for long. Requests are bounded, so fairness of some
  completion is fairness of every one.
* `jtag_commands`, `jtag_silent`: weak fairness of the simulator's own steps; none
  of the debugger.
* `uart_console`: weak fairness of the clock edge and of whoever reads the output;
  strong fairness of the design taking characters, which is possible between edges only.
  None of the user. It is enough for the ctrl-C to be passed on that the design
  goes on reading, as the signal handler's flag waits for room in the adapter.
* `boot`: weak fairness of the release of the resets of the channels that serve an
  address, of the clock and of the design's service of the host; the program itself
  need not end, and the other chip's channels need not come up.

## 4. Findings

1. `smoke_accept`: the handoff document takes the presence of VCD, activity CSV
   and HotSpot output as the sign of a validated flow; a rerun that is interrupted
   after its simulation leaves its own waveform beside the CSVs and temperatures
   of the run before. The summary, which names one run, is no such sign either
   when it is an old one.
2. `jtag_silent`: the comment in `execute_command` says that a read without data
   is tried again on the next call; the loop tries again in the same call, so the
   simulated clock stops until the debugger sends something. When the debugger has
   closed without a `Q`, `read` returns 0 and the call never ends. `accept` waits
   in the same way for the first client.

Also met while modelling, and visible in the models without a run of their own:

* A simulator whose shell is killed between `timeout` and `$dumpfile` opens the
  waveform of the next run with its tag. With `Awaits <- NoPairs` in
  `smoke_exclusive.cfg`, `NoMixedDump`, `PassedResultsAreOwn` and
  `OneRunPerThermalRun` are each violated: a passed run whose waveform holds two
  simulations. `rm -f` helps against an orphan that has the file open, not against
  one that is about to open it; a waveform name of each run's own would.
* `SimDRAM.cc:16-17` says that striped memory across channels is not handled properly
  and that the full range is duplicated across each channel. For channels that pass one
  base and size this is not so: they share one memory by chip and masked base (line
  59), and `StoresKept` holds; what the comment describes is the mutant
  `memory_init_anew`, under which it fails. For stripes with bases of their own the
  comment is right in that each maps a memory and loads the whole program into it: the
  bytes of other stripes take room there and are not read, as long as they fit.
  Nothing checks that they do (line 69).
* Activity is said to be aggregated by `hierarchy_map.yaml`
  (`docs/gemmini_thermal_handoff.md:194`), but the default keyword `gemmini` of
  `pe_array` is tried first: the bucket `gemmini_other` never gets a signal
  (theorem `GemminiOtherIsNeverHit`). The recorded
  `sim/activity/thermal_smoke_region_activity.csv` agrees: 0 signals.
* A `MAKE_JOBS` beyond 2^63 - 1 is not brought down to 128, although
  `docs/gemmini_thermal_issue_log.md:277` says that larger values are: `[ -gt ]`
  fails on it. `JobsLimited` speaks of the numbers the shell can represent.
* `uart.cc:47` installs the handler "so ctrl-c doesn't kill simulation". A ctrl-C
  that interrupts a blocked write of the console (`EINTR`, no `SA_RESTART`) does
  end it, as does a full output that line 91 has made non-blocking (`EAGAIN`). Both
  are exits in `sighand` and `Output`; the properties hold up to such an exit.
* A debugger that does not read its replies fills the socket, and the server
  aborts the simulation (`Reply`).

## 5. Proofs

Checked by TLAPS for every value of the constants that satisfies the modules'
assumptions.

| Theorem | States | Needs |
| --- | --- | --- |
| `SmokeTypeCorrect` | `[]TypeOK` of `SmokeFlow` | |
| `SmokeInvariant` | `[]Inv` | turn-taking and waiting, `SameTag \subseteq Excludes \cap Awaits` |
| `NoMixedDumpEver`, `PassedResultsStayOwn`, `OneRunPerThermalRunEver` | the properties of `smoke_exclusive` | turn-taking and waiting |
| `WholeBinaryLoaded` | `[]LoadsWholeBinary` | turn-taking of the runs of one config, `SameConfig \subseteq Excludes` |
| `TagsAlwaysIsolated` | `[]TagIsolation` | nothing: for any overlapping of runs, and any orphans |
| `SmokeRefinement` | `SmokeFlow` implements `TaggedResults` | turn-taking and waiting |
| `PeArrayComesFirst`, `MapOnlyMovesForward`, `GemminiOtherIsNeverHit` | classification, for every path, map and word relation | `OccursAssumption` |
| `MapsMoveSignalsForward` | `[]MapMovesForward` of `VcdActivity` | |
| `ExtractorTypeCorrect`, `ActivityAlwaysBounded` | `[]TypeOK`, `[]ActivityBounded` of `VcdActivity` | `VcdAssumption`: values no longer than their signal is wide |
| `PathsAlwaysMatchHeader` | `[]PathsMatchHeader`, for a header of any length and nesting | `VcdAssumption` |
| `WaveformsAlwaysCounted`, `TotalsAlwaysMatchDump`, `BusiestAlwaysListed` | what the tables say of a dump of any length, cut or not | `VcdAssumption` |
| `ColumnsAlwaysMatchBlocks`, `ColumnsAlwaysCanonical`, `StripesAlwaysMeet`, `PowerAlwaysFollows` | the invariants of `hotspot_export`, for any tables, chip and powers | `ExportAssumption`: a bucket has one row, activities are at most 1 |
| `JobsAlwaysLimited`, `SourcingAlwaysSettles` | the limits and their stability | `Representable`: the numbers fit the shell's integers |
| `MemoryInvariant` | `[]Inv` of `DramMemory` | `DramAssumption`: finitely many words, numbered from 0 |
| `CallbacksAlwaysFindRequests`, `MemoryTypeCorrect` | `[]CallbacksFindRequests`, `[]TypeOK` of `DramMemory` | `DramAssumption` |
| `BusyAlwaysMeansIssued` | `[]BusyMeansIssued` of `DramMemory` | `DramAssumption` |
| `DramRefinement` | `DramMemory` implements `AxiMemory` | `DramAssumption` |
| `MagicTypeCorrect`, `BytesAlwaysAsWritten`, `SidesAlwaysAgree` | the invariants of `magic_axi` | `MagicAssumption`: beat sizes divide the bus |
| `MagicRefinement` | `MagicMemory` implements `AxiMemory` | `MagicAssumption`, `IdleAssumption` |
| `ServerInvariant`, `ServerTypeCorrect`, `CommandsFindSettledPins` | `[]Inv`, `[]TypeOK`, `[]Settled` of `RemoteBitbang` | `JtagAssumption`: a TAP of any kind |
| `JtagRefinement` | `RemoteBitbang` implements `JtagCommands` | `JtagAssumption` |
| `ConsoleInvariant` | `[]Inv` of `Uart` | `UartAssumption`: queues of any size that leave the adapter its place |
| `TypedAlwaysInOrder`, `PrintedAlwaysOnce` | `[]TypedInOrder`, `[]PrintedOnce` | `UartAssumption` |
| `BootInvariant` | `[]Inv` of `Boot` | `BootAssumption`: any program, accesses, channels, bases, sizes and block size |
| `AccessesAlwaysFlushed`, `WokenAlwaysReady`, `StoresAlwaysKept` | the other invariants of `boot` | `BootAssumption` |
| `NoFaultWhenMemoriesFit` | `[](Fits => fault = "none")` of `Boot` | `BootAssumption`; `Fits`: channels of one key agree on the size, and with `+loadmem` the program lies in every memory |

`PassedResultsAreOwn` is not inductive: it speaks of the end of a run, and says
nothing of the steps towards it. `Inv` says what holds on the way.

* `Turns`: the live run of a tag is the one started last, and so is the run whose
  simulator is still to open its waveform, so no other can touch the tag's names.
* `OwnInodes`: an inode is written only by the run that created it. This needs
  `pc = "launch" \/ starting => dump = None`: from the `rm -f` until its simulator
  opens the waveform a run has none under its name, because no other live run of the
  tag is there to create one and no orphan is about to, by the operator's wait. An
  orphan that has its waveform open keeps writing to an inode that lost its name.
* `OwnDump`, `OwnFiles`: by stage, the files produced so far hold data of this
  run only, and nothing else. `CheckPasses` is where the emptiness test matters:
  a waveform that passes has bytes, and they are the run's own.
* `Ended`: a simulator outlives its stage only as an orphan of an interrupted
  run, and a summary names a run that passed; so a passed run's files are final.

Each conjunct is a lemma (`TurnsStep`, `OwnInodesStep`, ...) with one step per
action. The refinement maps every action: `Start` begins, `Clean`, `OpenFile` and
the like withdraw the result or leave it, `Report` publishes, a failure or an
interrupt abandons, everything else stutters.

`LoadsWholeBinary` needs `BinaryKept`: of one config one run is live, and from the
end of its link to the end of its simulation the binary is whole, since nobody else
links it; so whatever its simulator reads, and whenever, is whole.
`TagIsolation` needs no turns, only that everything a run can read from was
written under its own key: `KeysKept` follows a name to its inode, an inode to
its writers, descriptors and what a stage holds in memory, and each file of a tag.

The classification theorems rest on `MapAddsHits` (a map adds hits and removes
none) and `MinIsLeast`; `GemminiOtherIsNeverHit` on the transitivity of
`Occurs`: a module in `gemmini_other` contains `gemmini`, so a path that contains
the module contains the keyword of the first bucket.

`ActivityBounded` compares toggles, which grow with the changes, with the time
stamps. `TogglesPaced` links them: a signal has no value yet, or has changed since
the last time stamp, or has a whole time step to spare (`Paced`), and a change comes
only in the last case or the first. `DeltaBounded` bounds one change by the width.
All of it is under `~cut`: a line cut inside its code gives a narrow signal the
value of a wide one, or changes it twice in a step, and there the bound may fail.

`PathsMatchHeader` compares the reader's scope stack, which is all it remembers,
with the nesting of the whole header. `PathsKept` says that the stack is the names of
the scope lines that are open (`OpenAt`), in order, and that every code's path is that
of its first declaration. A line more leaves the paths of the lines before it as
they were (`PathAtKept`); a scope line opens itself, an `upscope` closes the last
line that is open (`StackAfterUpscope`), a declaration changes nothing.

Sorted tables and filtered lines are described by uniqueness: a finite set has one
enumeration in a strict order (`OrderedParts`, `OrderedUnique`), so `Picked` of one
line more is `Picked` with one element more or the same. Sums are taken in whatever
order `CHOOSE` gives: `SumsTakeAny` shows, from the smallest set on which it would
fail, that any element may be taken first.

`WaveformCounted` counts the wrong signals, and a reader that goes on from a wrong
count stays wrong. `WaveKept` therefore says that all signals but one have the last
value and the counts of their waveform (`Right`), and that there is no exception
while the dump is not cut; a cut line is the last. `DeltaIsDistance` compares
`value_toggle_delta`, which pads both values on the left, with the bits by weight:
position `i` of the padded value has weight `w + 1 - i`. `TotalsAccount` adds that
the buckets are those of the paths and the sums those of the counts.

`ExportKept` says which rows each file is of. `StripesMeet` is arithmetic:
the roundings of two parts and of their sum differ by at most one digit
(`RoundedSum`); `RoundedOrder`, that rounding keeps order, gives the powers.

`CallbacksFindRequests` of `DramMemory` is not inductive either: a beat that is
served when no burst is being stored would file nothing sensible. The port decides
at the start of a tick, the channels are served later, and `PortKept` says that
what it decided is still possible then. Its key conjunct is that `aw` and `w` are
never ready together, so a burst accepted in a tick cannot be hit by a beat of
that tick. Each action has a lemma (`TickStep`, `WriteBeatStep`, ...);
`IssuedIsQueued` shows that the read issued is one of the queued ones.

`DramRefinement` maps the reads an id waits for to the one the timing model has and
those queued for it, in order, and the writes not acknowledged to those under way.
The collection of an id's reads is a recursive function over the queue;
`Collects` states it for every prefix, and its values are found through the
smallest prefix on which it would fail. Issuing a read moves it from the
queue to the timing model and changes nothing of the abstraction, because
`BusyMeansIssued` says that no other read of the id was there: the reads issued
of an id are one exactly while it is busy. A read is answered, abstractly, when
its callback copies the burst out of memory, and a write takes effect beat by beat.

`BytesAsWritten` needs `PortKept` for the same reason, and arithmetic: `Division`
gives every address one word and lane, `LaneUnique` says that two addresses of one
word with the same lane are the same, `Multiples` that a beat whose size divides
the bus and its address never leaves its word (`BeatInWord`). Together they show
that the lanes `Mask` keeps are those AXI names, so one beat changes `data` and
`written` alike (`BytesPlaced`). `BurstParts` and `RestIsBurst` keep the address
of a burst aligned and inside the memory from beat to beat. `SidesAgree`
is inductive with them and `RegistersKept`: during a tick the registers show what the
memory decided at its start, between ticks what it will decide, because `memory_tick`
copies the port after the tick, and before the first clock nothing is there to decide
on. So both copies lead to the same handshakes (`ReadAccepted`, `WriteAccepted`,
`BeatSent`, `AckTaken`, `BeatTaken`), and `due` and the queues change together.

`MagicRefinement` maps bytes to words. A read waits only from its acceptance to
`Read`, in the same tick, which is the abstract answer; a write is unacknowledged
from its last beat to `EndWrite`. A beat changes one abstract word, as its lanes
never leave it (`BeatInWord`).

`JtagRefinement` maps the pins to those the server has set, not to those the
design has seen, and the TAP to the state it will have once it has seen them
(`After(tap, wires, pins)`). `execute_command` is then the abstract step and
`Return` a stutter. `Settled` makes the mapping agree with TDO: a command is only
executed when pins and wires are equal and the TDO at hand is the TAP's. `QuitEnds`
rules out a command after the quit.

`TypedInOrder` and `PrintedOnce` of `Uart` follow the characters through queue,
register and descriptor, and are inductive together with `Inv`: `EdgeKept` says that
the adapter has a place for what was read and something to print where it announced
it, and that the register shows what was read, so no character is lost or counted
twice when it moves on. A ctrl-C passed in between takes a place among the
characters and none of their numbers (`InOrder`).

In `Boot` the script is what the host has to send, and `done` what the design has
carried out. `WordsKept` says that `done` and what is left are the script and then
polls, message by message; `FlushesKept` that in what is left every access comes after
flushes of its blocks with no access in between (`Guarded`), a property of the
plan (`ScriptKept` and the flushes `Plan` puts before an access) that taking the
first message keeps; `MemoryKept` that the memories are those of the channels that are
up, each of its size and, while there was no fault, with its stores and what was loaded; `ProgramKept` that a byte of the program whose write was carried
out, or which `memory_init` loaded, is still there; `HartKept` that the wake-up is
last. The lists of chunks are flattened by a recursive function of the library,
unfolded here by the shortest prefix on which it would differ. The prover knows
nothing of `^`: that a power of 2 is a positive number is an assumption, which
TLC evaluates.

## 6. Model-checked only

All invariants of the passing runs, their action property and their refinements are
theorems. Liveness (`EveryRunEnds`, `EveryReadAnswered`, `EveryWriteAcknowledged`,
`CommandsExecuted`, `InterruptDelivered`, `ExitReported`) is out of the prover's reach,
and so is what a definition by recursion computes for every input where only the
library's induction would show it: where a proof needed it, the smallest
counterexample stands in for the induction.

The assumptions of section 5 are those of the modules, which TLC evaluates on the
instances, and turn-taking, which is the operator's.

## 7. Not modelled

* Generated Verilog, `thermal_smoke.c`, recorded data: not the program. Of the
  harness, the registers of `SimDRAM.v`, `SimUART.v`, `SimJTAG.v` and `SimTSI.v`
  and one line of `UARTAdapter.sv` are in the models, because the C++ relies on them.
* DRAMSim2, fesvr, Verilator's VCD writer, HotSpot, the debugger: outside the
  repository, modelled only as far as the code here depends on them.
* RTL generation and the workload scripts: straight lines of make, rsync and cp
  over a Chipyard installation that is not in the repository and whose make files
  decide what is rebuilt. Their hazards are listed.
* The inspector's search for modules, its walk of the hierarchy JSON and its
  Markdown: text in, text out. Its categories and its map are modelled.
* `last_time_ps`, column order and formats of the CSVs: copied to the output.
* Byte strobes and beat sizes in `DramMemory` (they are in `MagicMemory`, which
  shares `mm_t::write`), the cycle counters and the reset branches of the
  memories. `SimDRAM.v` does not call the memory under reset.
* The set-up of the JTAG server's listening socket, `TRSTn`, which never changes,
  UARTs other than UART 0, the PTY's symbolic link, argument parsing.
* The words of a TSI message and the hart's instructions.
* The environment checks: no state. The paths set by the environment file.
* HotSpot exiting with 0 without writing its output.

## 8. Plan

The modules planned are written, and every safety property that a run checks is
proved. What is left:

1. That no ctrl-C reaches the design more often than it was pressed (`Uart`).
2. That `Classify` and the inspector's `CategoryFor` agree on the modules of a map.
3. Theorems about the findings: under which debugger a call of `jtag_tick` returns.
