------------------------------ MODULE SmokeFlow ------------------------------
(***************************************************************************)
(* scripts/run_thermal_smoke_flow.sh as a set of concurrent invocations.    *)
(*                                                                          *)
(* Every invocation ("run") is one shell under `set -euo pipefail` that     *)
(* builds the bare-metal binary, builds the debug simulator when there is   *)
(* none, simulates under `timeout`, extracts activity from the waveform,    *)
(* exports HotSpot inputs, runs HotSpot and writes a summary.  All hand-    *)
(* over between the stages is through files whose names depend on RUN_TAG   *)
(* (activity, floorplan, power, temperature, summary), on CONFIG (binary,   *)
(* simulator) or on both (waveform).  Runs that share a name share a file.  *)
(*                                                                          *)
(* The simulator is a process of its own, which timeout has put in a process *)
(* group of its own: it opens its waveform by name and reads the binary by   *)
(* name at some time after the shell has forked it, and it survives a kill   *)
(* of the run's group, even when it has done neither yet.                    *)
(*                                                                          *)
(* A file's content is abstracted to where it came from: the set of runs    *)
(* whose simulation contributed data to it.                                 *)
(***************************************************************************)
EXTENDS Naturals

CONSTANTS
    Runs,       \* invocations of the script
    Tags,       \* values of RUN_TAG
    Configs,    \* values of CONFIG
    TagOf,      \* RUN_TAG of each run
    ConfigOf,   \* CONFIG of each run
    Excludes,   \* pairs of runs whose shells the operator never lets overlap
    Awaits,     \* pairs of runs where the first is not started while the second
                \* has left a simulator that is still to open its waveform
    None        \* no run, no file

ASSUME SmokeAssumption ==
    /\ None \notin Runs
    /\ TagOf \in [Runs -> Tags]
    /\ ConfigOf \in [Runs -> Configs]
    /\ Excludes \subseteq Runs \X Runs
    /\ Awaits \subseteq Runs \X Runs

VARIABLES
    pc,         \* stage of each run's shell
    opened,     \* has the stage truncated the file it is writing?
    held,       \* provenance of the data the current Python or HotSpot process holds
    binary,     \* per config: sim/binaries/$CONFIG/thermal_smoke-baremetal
    loaded,     \* per run: the worst state of the binary its simulator has read
    simulator,  \* per config: is there an executable debug simulator?
    dump,       \* per config and tag: the inode $RUN_TAG.vcd names (inodes are named by the creating run)
    bytes,      \* per inode: the runs whose simulators have data in it
    starting,   \* per run: has its simulator been forked but not opened its waveform yet?
    fd,         \* per run: inode its simulator has open as its waveform, else None
    out,        \* per tag: the files the Python and HotSpot stages leave
    summary,    \* per tag: the run the summary reports on
    latest      \* per tag: the run started last (history)

shell == <<pc, opened, held>>
tools == <<binary, loaded, simulator>>
wave  == <<dump, bytes, starting, fd>>
vars  == <<shell, tools, wave, out, summary, latest>>

-----------------------------------------------------------------------------
\* The files written by redirection or open(.., "w"), each by a stage of its own.
Files == {"signal", "region", "flp", "ptrace", "ttrace"}

\* The stage that follows the stage writing a file.
After == [signal |-> "region", region |-> "export", flp |-> "ptrace",
          ptrace |-> "hotspot", ttrace |-> "verify"]

Stages == Files \cup {"compile", "link", "simcheck", "simbuild", "clean", "launch",
                      "simulate", "check", "extract", "export", "hotspot",
                      "verify", "report"}

\* The stages that are a command whose failure ends the script (set -e).  The
\* simulator is run under set +e; tests and rm -f do not fail.
CanFail == Stages \ {"simcheck", "clean", "launch", "simulate", "check", "verify"}

\* A file is unwritten (absent or empty) or holds data derived from some simulations.
Empty   == [written |-> FALSE, from |-> {}]
Data(S) == [written |-> TRUE, from |-> S]

Live(r)      == pc[r] \in Stages
SimAlive(r)  == starting[r] \/ fd[r] # None

\* Fault: a waveform path without RUN_TAG.
KeyWithoutTag(r) == <<ConfigOf[r], CHOOSE t \in Tags : TRUE>>

KeyOf(r) == <<ConfigOf[r], TagOf[r]>>

\* What the operator promises: no run is started while one it must not overlap is
\* live, nor while a simulator that one has left behind is about to open a waveform.
MayStart(r) ==
    \A q \in Runs :
        /\ <<r, q>> \in Excludes => ~Live(q)
        /\ <<r, q>> \in Awaits => ~starting[q]

Init ==
    /\ pc = [r \in Runs |-> "idle"]
    /\ opened = [r \in Runs |-> FALSE]
    /\ held = [r \in Runs |-> {}]
    /\ binary = [c \in Configs |-> "absent"]
    /\ loaded = [r \in Runs |-> "absent"]
    /\ simulator = [c \in Configs |-> FALSE]
    /\ dump = [k \in Configs \X Tags |-> None]
    /\ bytes = [r \in Runs |-> {}]
    /\ starting = [r \in Runs |-> FALSE]
    /\ fd = [r \in Runs |-> None]
    /\ out = [t \in Tags |-> [f \in Files |-> Empty]]
    /\ summary = [t \in Tags |-> None]
    /\ latest = [t \in Tags |-> None]

Goto(r, stage) == pc' = [pc EXCEPT ![r] = stage]
-----------------------------------------------------------------------------
(* The shell: building.                                                     *)

Start(r) ==
    /\ pc[r] = "idle"
    /\ MayStart(r)
    /\ Goto(r, "compile")
    /\ latest' = [latest EXCEPT ![TagOf[r]] = r]
    /\ UNCHANGED <<opened, held, tools, wave, out, summary>>

\* Fault: build only when there is no binary yet, as is done for the simulator.
CompileIfMissing(r) ==
    /\ pc[r] = "compile"
    /\ IF binary[ConfigOf[r]] = "absent"
       THEN Goto(r, "link") /\ binary' = [binary EXCEPT ![ConfigOf[r]] = "partial"]
       ELSE Goto(r, "simcheck") /\ binary' = binary
    /\ UNCHANGED <<opened, held, loaded, simulator, wave, out, summary, latest>>

\* gcc -o OUT: the linker creates the output before it has filled it.
Compile(r) ==
    /\ pc[r] = "compile"
    /\ Goto(r, "link")
    /\ binary' = [binary EXCEPT ![ConfigOf[r]] = "partial"]
    /\ UNCHANGED <<opened, held, loaded, simulator, wave, out, summary, latest>>

Link(r) ==
    /\ pc[r] = "link"
    /\ Goto(r, "simcheck")
    /\ binary' = [binary EXCEPT ![ConfigOf[r]] = "whole"]
    /\ UNCHANGED <<opened, held, loaded, simulator, wave, out, summary, latest>>

SimCheck(r) ==
    /\ pc[r] = "simcheck"
    /\ Goto(r, IF simulator[ConfigOf[r]] THEN "clean" ELSE "simbuild")
    /\ UNCHANGED <<opened, held, tools, wave, out, summary, latest>>

SimBuild(r) ==
    /\ pc[r] = "simbuild"
    /\ Goto(r, "clean")
    /\ simulator' = [simulator EXCEPT ![ConfigOf[r]] = TRUE]
    /\ UNCHANGED <<opened, held, binary, loaded, wave, out, summary, latest>>
-----------------------------------------------------------------------------
(* The shell: simulating.                                                   *)

\* Fault: the old waveform is left for the simulator to overwrite.
CleanNothing(r) ==
    /\ pc[r] = "clean"
    /\ Goto(r, "launch")
    /\ UNCHANGED <<opened, held, tools, wave, out, summary, latest>>

\* rm -f takes the name away; a simulator that still has the file open keeps its inode.
Clean(r) ==
    /\ pc[r] = "clean"
    /\ Goto(r, "launch")
    /\ dump' = [dump EXCEPT ![KeyOf(r)] = None]
    /\ UNCHANGED <<opened, held, tools, bytes, starting, fd, out, summary, latest>>

\* The shell forks timeout, which starts the simulator, and waits for it.
Launch(r) ==
    /\ pc[r] = "launch"
    /\ Goto(r, "simulate")
    /\ starting' = [starting EXCEPT ![r] = TRUE]
    /\ UNCHANGED <<opened, held, tools, dump, bytes, fd, out, summary, latest>>
-----------------------------------------------------------------------------
(* The simulator, whether its shell still waits for it or is gone.           *)

\* $dumpfile, before the first clock edge: a new inode, or the one that has the
\* name by now, truncated.
OpenDump(r) ==
    LET old  == dump[KeyOf(r)]
        node == IF old = None THEN r ELSE old
    IN  /\ starting[r]
        /\ starting' = [starting EXCEPT ![r] = FALSE]
        /\ dump' = [dump EXCEPT ![KeyOf(r)] = node]
        /\ bytes' = [bytes EXCEPT ![node] = {}]
        /\ fd' = [fd EXCEPT ![r] = node]
        /\ UNCHANGED <<shell, tools, out, summary, latest>>

\* The host thread reads the binary, now and then, while the clock runs.
Load(r) ==
    /\ fd[r] # None
    /\ loaded' = [loaded EXCEPT ![r] = IF @ = "partial" THEN @ ELSE binary[ConfigOf[r]]]
    /\ UNCHANGED <<shell, binary, simulator, wave, out, summary, latest>>

Dump(r) ==
    /\ fd[r] # None
    /\ bytes' = [bytes EXCEPT ![fd[r]] = @ \cup {r}]
    /\ UNCHANGED <<shell, tools, dump, starting, fd, out, summary, latest>>

\* Fault: the shell itself keeps the time, so an orphaned simulator is not ended.
SimEndsByShell(r) ==
    /\ pc[r] = "simulate"
    /\ starting' = [starting EXCEPT ![r] = FALSE]
    /\ fd' = [fd EXCEPT ![r] = None]
    /\ Goto(r, "check")
    /\ UNCHANGED <<opened, held, tools, dump, bytes, out, summary, latest>>

\* The simulator stops by itself (it cannot be started, $finish, or $fatal at
\* +max-cycles) or is killed by timeout, at any time; its shell, if there still is
\* one, goes on whatever the exit status.
SimEnds(r) ==
    /\ SimAlive(r)
    /\ starting' = [starting EXCEPT ![r] = FALSE]
    /\ fd' = [fd EXCEPT ![r] = None]
    /\ pc' = IF pc[r] = "simulate" THEN [pc EXCEPT ![r] = "check"] ELSE pc
    /\ UNCHANGED <<opened, held, tools, dump, bytes, out, summary, latest>>
-----------------------------------------------------------------------------
(* The shell: looking at the waveform.                                      *)

\* Fault: a waveform that exists is good enough ([ -e ] for [ -s ]).
CheckExists(r) ==
    /\ pc[r] = "check"
    /\ Goto(r, IF dump[KeyOf(r)] # None THEN "extract" ELSE "failed")
    /\ UNCHANGED <<opened, held, tools, wave, out, summary, latest>>

Check(r) ==
    LET node == dump[KeyOf(r)]
    IN  /\ pc[r] = "check"
        /\ Goto(r, IF node # None /\ bytes[node] # {} THEN "extract" ELSE "failed")
        /\ UNCHANGED <<opened, held, tools, wave, out, summary, latest>>
-----------------------------------------------------------------------------
(* The Python stages and HotSpot.                                           *)

Fails(r) ==
    /\ Goto(r, "failed")
    /\ opened' = [opened EXCEPT ![r] = FALSE]
    /\ UNCHANGED <<held, tools, wave, out, summary, latest>>

\* A reading stage: fail when the input is not there, else hold its provenance.
Reads(r, readable, from, next) ==
    IF readable
    THEN /\ Goto(r, next)
         /\ held' = [held EXCEPT ![r] = from]
         /\ UNCHANGED <<opened, tools, wave, out, summary, latest>>
    ELSE Fails(r)

\* iter_vcd.
ReadDump(r) ==
    LET node == dump[KeyOf(r)]
    IN  /\ pc[r] = "extract"
        /\ Reads(r, node # None, IF node = None THEN {} ELSE bytes[node], "signal")

\* read_regions: a file without rows ends the exporter.
ReadRegions(r) ==
    /\ pc[r] = "export"
    /\ LET region == out[TagOf[r]].region
       IN  Reads(r, region.written, region.from, "flp")

\* HotSpot reads the floorplan and the power trace the script names.
ReadThermalInputs(r) ==
    /\ pc[r] = "hotspot"
    /\ LET files == out[TagOf[r]]
       IN  Reads(r, files.flp.written /\ files.ptrace.written,
                 files.flp.from \cup files.ptrace.from, "ttrace")

SetOut(r, f, content) == out' = [out EXCEPT ![TagOf[r]][f] = content]

\* Fault: open(.., "a") keeps what an earlier run wrote.
OpenAppends(r) ==
    /\ pc[r] \in Files
    /\ ~opened[r]
    /\ opened' = [opened EXCEPT ![r] = TRUE]
    /\ UNCHANGED <<pc, held, tools, wave, out, summary, latest>>

\* open(.., "w") truncates ...
OpenFile(r) ==
    /\ pc[r] \in Files
    /\ ~opened[r]
    /\ opened' = [opened EXCEPT ![r] = TRUE]
    /\ SetOut(r, pc[r], Empty)
    /\ UNCHANGED <<pc, held, tools, wave, summary, latest>>

\* ... and the data follows.  If another process wrote the file in between, its
\* data may show behind what is written over it.
WriteFile(r) ==
    /\ pc[r] \in Files
    /\ opened[r]
    /\ opened' = [opened EXCEPT ![r] = FALSE]
    /\ Goto(r, After[pc[r]])
    /\ \E rest \in {{}, out[TagOf[r]][pc[r]].from} :
          SetOut(r, pc[r], Data(held[r] \cup rest))
    /\ UNCHANGED <<held, tools, wave, summary, latest>>

\* Fault: the summary is written before the output is looked at.
VerifyAfterReport(r) ==
    /\ pc[r] = "verify"
    /\ summary' = [summary EXCEPT ![TagOf[r]] = r]
    /\ Goto(r, IF out[TagOf[r]].ttrace.written THEN "report" ELSE "failed")
    /\ UNCHANGED <<opened, held, tools, wave, out, latest>>

Verify(r) ==
    /\ pc[r] = "verify"
    /\ Goto(r, IF out[TagOf[r]].ttrace.written THEN "report" ELSE "failed")
    /\ UNCHANGED <<opened, held, tools, wave, out, summary, latest>>

Report(r) ==
    /\ pc[r] = "report"
    /\ Goto(r, "passed")
    /\ summary' = [summary EXCEPT ![TagOf[r]] = r]
    /\ UNCHANGED <<opened, held, tools, wave, out, latest>>
-----------------------------------------------------------------------------
(* What may go wrong.                                                       *)

\* Fault: set -e is not restored after the simulation, so the flow goes on after
\* a failed extraction.
StageFailsUnnoticed(r) ==
    /\ pc[r] \in {"extract", "signal", "region"}
    /\ Goto(r, "export")
    /\ opened' = [opened EXCEPT ![r] = FALSE]
    /\ UNCHANGED <<held, tools, wave, out, summary, latest>>

\* A command of the stage exits with an error, leaving its files as they are.
StageFails(r) == pc[r] \in CanFail /\ Fails(r)

\* The run's process group is killed.  timeout has put the simulator in a group
\* of its own, so the simulator survives its shell, whatever it has opened so far.
Interrupt(r) ==
    /\ Live(r)
    /\ Goto(r, "killed")
    /\ opened' = [opened EXCEPT ![r] = FALSE]
    /\ UNCHANGED <<held, tools, wave, out, summary, latest>>

\* The steps of the shell and of the commands it waits for.
Progress(r) ==
    \/ Compile(r) \/ Link(r) \/ SimCheck(r) \/ SimBuild(r)
    \/ Clean(r) \/ Launch(r) \/ Check(r)
    \/ ReadDump(r) \/ ReadRegions(r) \/ ReadThermalInputs(r)
    \/ OpenFile(r) \/ WriteFile(r) \/ Verify(r) \/ Report(r)

Next == \E r \in Runs :
    \/ Start(r) \/ Progress(r)
    \/ OpenDump(r) \/ Load(r) \/ Dump(r) \/ SimEnds(r)
    \/ StageFails(r) \/ Interrupt(r)

Spec == Init /\ [][Next]_vars

\* The commands other than the simulator terminate by themselves; the simulator
\* need not, but timeout ends it.
Fairness == \A r \in Runs : WF_vars(Progress(r)) /\ WF_vars(SimEnds(r))

FairSpec == Spec /\ Fairness
-----------------------------------------------------------------------------
(* Properties.                                                              *)

Content == [written : BOOLEAN, from : SUBSET Runs]

\* Every variable has its type.
TypeOK ==
    /\ pc \in [Runs -> Stages \cup {"idle", "passed", "failed", "killed"}]
    /\ opened \in [Runs -> BOOLEAN]
    /\ held \in [Runs -> SUBSET Runs]
    /\ binary \in [Configs -> {"absent", "partial", "whole"}]
    /\ loaded \in [Runs -> {"absent", "partial", "whole"}]
    /\ simulator \in [Configs -> BOOLEAN]
    /\ dump \in [Configs \X Tags -> Runs \cup {None}]
    /\ bytes \in [Runs -> SUBSET Runs]
    /\ starting \in [Runs -> BOOLEAN]
    /\ fd \in [Runs -> Runs \cup {None}]
    /\ out \in [Tags -> [Files -> Content]]
    /\ summary \in [Tags -> Runs \cup {None}]
    /\ latest \in [Tags -> Runs \cup {None}]

\* Pairs of runs that share all the tag-named files, or the per-config tools.
SameTag    == {p \in Runs \X Runs : TagOf[p[1]] = TagOf[p[2]]}
SameConfig == {p \in Runs \X Runs : ConfigOf[p[1]] = ConfigOf[p[2]]}

\* No waveform ever holds data of two simulations, even though an interrupted
\* run leaves a simulator writing while the next run with its tag proceeds: that
\* is what the rm -f before the simulation is for.  It does not help against a
\* simulator that opens the name later, which only the operator can wait for.
\* (For runs with one tag taking turns: SameTag \subseteq Excludes \cap Awaits.)
NoMixedDump == \A r \in Runs : bytes[r] \subseteq {r}

\* The artefacts of a tag are all derived from the simulation of run r.
DerivedFrom(t, r) ==
    /\ dump[<<ConfigOf[r], t>>] = r
    /\ bytes[r] = {r}
    /\ out[t] = [f \in Files |-> Data({r})]

\* After a run has passed and until the next one with its tag starts, the
\* waveform, both CSVs, the HotSpot inputs and its output are of that run's own
\* simulation and the summary names it: nothing an earlier, failed or interrupted
\* run left behind has slipped in.  (SameTag \subseteq Excludes \cap Awaits.)
PassedResultsAreOwn ==
    \A t \in Tags : \A r \in Runs :
        latest[t] = r /\ pc[r] = "passed" => summary[t] = r /\ DerivedFrom(t, r)

\* HotSpot never combines the floorplan of one run with the power of another.
\* (SameTag \subseteq Excludes \cap Awaits.)
OneRunPerThermalRun ==
    \A r \in Runs : pc[r] = "ttrace" => \E q \in Runs : held[r] = {q}

\* No simulator whose shell has not been killed reads a half-linked binary, although
\* every run of a config links it again in place and an interrupted link leaves half
\* a file.  An orphan may, while the next run links; its waveform is no one's result.
\* (For runs of one config taking turns: SameConfig \subseteq Excludes.)
LoadsWholeBinary == \A r \in Runs : pc[r] # "killed" => loaded[r] # "partial"

\* However runs overlap, fail and are killed, and however late a simulator opens its
\* waveform, no file of a tag ever has data of a run with another tag: the tag in
\* every file name keeps the runs apart.
TagIsolation ==
    \A t \in Tags :
        /\ \A f \in Files : \A r \in out[t][f].from : TagOf[r] = t
        /\ \A c \in Configs : dump[<<c, t>>] # None =>
              \A r \in bytes[dump[<<c, t>>]] : TagOf[r] = t /\ ConfigOf[r] = c

\* Every run that is started ends, and so does its simulator when it outlives the
\* shell: the only command that may not end by itself is under timeout.
EveryRunEnds == \A r \in Runs : (Live(r) \/ SimAlive(r)) ~> (~Live(r) /\ ~SimAlive(r))

\* The inductive invariant behind the three properties above, for runs with one
\* tag taking turns.  The live run of a tag is the one started last, and so is the
\* one whose simulator is still to open a waveform; an inode is written by its
\* creator only, and a simulator that opens its waveform finds none under its name;
\* what a run has produced so far is from its own simulation, and stays so after it
\* has passed.
Past == [signal |-> {"region", "export", "flp", "ptrace", "hotspot", "ttrace", "verify", "report"},
         region |-> {"export", "flp", "ptrace", "hotspot", "ttrace", "verify", "report"},
         flp    |-> {"ptrace", "hotspot", "ttrace", "verify", "report"},
         ptrace |-> {"hotspot", "ttrace", "verify", "report"},
         ttrace |-> {"verify", "report"}]

Simulated == {"extract", "signal", "region", "export", "flp", "ptrace", "hotspot",
              "ttrace", "verify", "report"}

Turns ==
    /\ \A r \in Runs : Live(r) \/ starting[r] => latest[TagOf[r]] = r
    /\ \A t \in Tags : latest[t] # None => TagOf[latest[t]] = t

OwnInodes ==
    /\ \A r \in Runs : fd[r] \in {None, r}
    /\ NoMixedDump
    /\ \A r \in Runs : pc[r] = "launch" \/ starting[r] => dump[KeyOf(r)] = None

OwnDump ==
    \A r \in Runs :
        /\ pc[r] \in {"simulate", "check"} => dump[KeyOf(r)] \in {None, r}
        /\ pc[r] \in Simulated =>
              dump[KeyOf(r)] = r /\ bytes[r] = {r}

OwnFiles ==
    \A r \in Runs :
        /\ pc[r] \in Files => held[r] = {r}
        /\ opened[r] => pc[r] \in Files /\ out[TagOf[r]][pc[r]] = Empty
        /\ \A f \in Files : pc[r] \in Past[f] => out[TagOf[r]][f] = Data({r})

\* A simulator has a shell that waits for it or is an orphan, and a summary names a
\* run that has passed.
Ended ==
    /\ \A r \in Runs : SimAlive(r) => pc[r] \in {"simulate", "killed"}
    /\ \A t \in Tags : summary[t] # None => pc[summary[t]] = "passed"

Inv == Turns /\ OwnInodes /\ OwnDump /\ OwnFiles /\ Ended /\ PassedResultsAreOwn

\* The flow implements TaggedResults: under a tag the summary and the artefacts
\* agree on one run, or the tag has no result.  A rerun withdraws the old result
\* before it can be mistaken for its own, and only its last step publishes.
\* (SameTag \subseteq Excludes \cap Awaits.)
ResultOf(t) == IF summary[t] # None /\ DerivedFrom(t, summary[t]) THEN summary[t] ELSE None
ActiveOn(t) == IF latest[t] # None /\ Live(latest[t]) THEN latest[t] ELSE None

Results == INSTANCE TaggedResults WITH
    result <- [t \in Tags |-> ResultOf(t)],
    active <- [t \in Tags |-> ActiveOn(t)]

ImplementsTaggedResults == Results!Spec

=============================================================================
