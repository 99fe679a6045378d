--------------------------- MODULE SmokeFlow_proofs ---------------------------
(* Proofs about SmokeFlow for any number of runs, tags and configs. *)
EXTENDS SmokeFlow, TLAPS

\* A reading stage keeps the types when what it holds is a set of runs.
LEMMA ReadsType ==
    ASSUME NEW r \in Runs, NEW readable \in BOOLEAN, NEW from \in SUBSET Runs,
           NEW next \in Stages, TypeOK, Reads(r, readable, from, next)
    PROVE  TypeOK'
  BY ZenonT(30) DEF Reads, Fails, Goto, TypeOK, tools, wave

\* Every variable of the smoke flow keeps its type.
THEOREM SmokeTypeCorrect == Spec => []TypeOK
<1>1. Init => TypeOK
  BY SmokeAssumption DEF Init, TypeOK, Content, Empty, Files, Stages
<1>2. TypeOK /\ [Next]_vars => TypeOK'
  <2> SUFFICES ASSUME TypeOK, [Next]_vars PROVE TypeOK'
    OBVIOUS
  <2> USE SmokeAssumption DEF TypeOK, shell, tools, wave, Goto, Stages, Files, KeyOf
  <2>1. CASE UNCHANGED vars
    BY <2>1 DEF vars
  <2>2. ASSUME NEW r \in Runs, Start(r) PROVE TypeOK'
    BY <2>2 DEF Start
  <2>3. ASSUME NEW r \in Runs, Compile(r) PROVE TypeOK'
    BY <2>3 DEF Compile
  <2>4. ASSUME NEW r \in Runs, Link(r) PROVE TypeOK'
    BY <2>4 DEF Link
  <2>5. ASSUME NEW r \in Runs, SimCheck(r) PROVE TypeOK'
    BY <2>5 DEF SimCheck
  <2>6. ASSUME NEW r \in Runs, SimBuild(r) PROVE TypeOK'
    BY <2>6 DEF SimBuild
  <2>7. ASSUME NEW r \in Runs, Clean(r) PROVE TypeOK'
    BY <2>7 DEF Clean
  <2>8. ASSUME NEW r \in Runs, Launch(r) PROVE TypeOK'
    BY <2>8 DEF Launch
  <2>9. ASSUME NEW r \in Runs, Load(r) PROVE TypeOK'
    BY <2>9 DEF Load
  <2>open. ASSUME NEW r \in Runs, OpenDump(r) PROVE TypeOK'
    BY <2>open DEF OpenDump
  <2>10. ASSUME NEW r \in Runs, Check(r) PROVE TypeOK'
    BY <2>10 DEF Check
  <2>11. ASSUME NEW r \in Runs, ReadDump(r) PROVE TypeOK'
    <3> DEFINE node == dump[KeyOf(r)]
    <3>1. KeyOf(r) \in Configs \X Tags
      OBVIOUS
    <3>2. node \in Runs \cup {None}
      BY <3>1
    <3>3. (IF node = None THEN {} ELSE bytes[node]) \in SUBSET Runs
      BY <3>2
    <3>4. QED
      BY <2>11, <3>3, ReadsType DEF ReadDump
  <2>12. ASSUME NEW r \in Runs, ReadRegions(r) PROVE TypeOK'
    <3>1. out[TagOf[r]].region \in Content
      OBVIOUS
    <3>2. QED
      BY <2>12, <3>1, ReadsType DEF ReadRegions, Content
  <2>13. ASSUME NEW r \in Runs, ReadThermalInputs(r) PROVE TypeOK'
    <3>1. out[TagOf[r]].flp \in Content /\ out[TagOf[r]].ptrace \in Content
      OBVIOUS
    <3>2. QED
      BY <2>13, <3>1, ReadsType DEF ReadThermalInputs, Content
  <2>14. ASSUME NEW r \in Runs, OpenFile(r) PROVE TypeOK'
    BY <2>14 DEF OpenFile, SetOut, Empty, Content
  <2>15. ASSUME NEW r \in Runs, WriteFile(r) PROVE TypeOK'
    BY <2>15 DEF WriteFile, SetOut, Data, Content, After
  <2>16. ASSUME NEW r \in Runs, Verify(r) PROVE TypeOK'
    BY <2>16 DEF Verify
  <2>17. ASSUME NEW r \in Runs, Report(r) PROVE TypeOK'
    BY <2>17 DEF Report
  <2>18. ASSUME NEW r \in Runs, Dump(r) PROVE TypeOK'
    BY <2>18 DEF Dump
  <2>19. ASSUME NEW r \in Runs, SimEnds(r) PROVE TypeOK'
    BY <2>19 DEF SimEnds
  <2>20. ASSUME NEW r \in Runs, StageFails(r) PROVE TypeOK'
    BY <2>20 DEF StageFails, Fails
  <2>21. ASSUME NEW r \in Runs, Interrupt(r) PROVE TypeOK'
    BY <2>21 DEF Interrupt
  <2>22. QED
    BY <2>1, <2>2, <2>3, <2>4, <2>5, <2>6, <2>7, <2>8, <2>9, <2>10, <2>11, <2>12,
       <2>13, <2>14, <2>15, <2>16, <2>17, <2>18, <2>19, <2>20, <2>21, <2>open DEF Next, Progress
<1>3. QED
  BY <1>1, <1>2, PTL DEF Spec
-----------------------------------------------------------------------------
(* Runs that share a tag.                                                   *)

\* A run starts only when no run it excludes is live, so the live run of a tag is the latest.
LEMMA TurnsStep ==
    ASSUME SameTag \subseteq Excludes \cap Awaits, TypeOK, Inv, [Next]_vars
    PROVE  Turns'
  <1> USE SmokeAssumption DEF shell, tools, wave, Goto, Stages, Files, KeyOf, Live, TypeOK, Inv, Turns, MayStart, SameTag
  <1>1. CASE UNCHANGED vars
    BY <1>1 DEF vars
  <1>2. ASSUME NEW r \in Runs, Start(r) PROVE Turns'
    BY <1>2 DEF Start
  <1>3. ASSUME NEW r \in Runs, Compile(r) PROVE Turns'
    BY <1>3 DEF Compile
  <1>4. ASSUME NEW r \in Runs, Link(r) PROVE Turns'
    BY <1>4 DEF Link
  <1>5. ASSUME NEW r \in Runs, SimCheck(r) PROVE Turns'
    BY <1>5 DEF SimCheck
  <1>6. ASSUME NEW r \in Runs, SimBuild(r) PROVE Turns'
    BY <1>6 DEF SimBuild
  <1>7. ASSUME NEW r \in Runs, Clean(r) PROVE Turns'
    BY <1>7 DEF Clean
  <1>8. ASSUME NEW r \in Runs, Launch(r) PROVE Turns'
    BY <1>8 DEF Launch
  <1>9. ASSUME NEW r \in Runs, Load(r) PROVE Turns'
    BY <1>9 DEF Load
  <1>open. ASSUME NEW r \in Runs, OpenDump(r) PROVE Turns'
    BY <1>open DEF OpenDump
  <1>10. ASSUME NEW r \in Runs, Check(r) PROVE Turns'
    BY <1>10 DEF Check
  <1>11. ASSUME NEW r \in Runs, ReadDump(r) PROVE Turns'
    BY <1>11 DEF ReadDump, Reads, Fails
  <1>12. ASSUME NEW r \in Runs, ReadRegions(r) PROVE Turns'
    BY <1>12 DEF ReadRegions, Reads, Fails
  <1>13. ASSUME NEW r \in Runs, ReadThermalInputs(r) PROVE Turns'
    BY <1>13 DEF ReadThermalInputs, Reads, Fails
  <1>14. ASSUME NEW r \in Runs, OpenFile(r) PROVE Turns'
    BY <1>14 DEF OpenFile, SetOut, Empty, Past
  <1>15. ASSUME NEW r \in Runs, WriteFile(r) PROVE Turns'
    BY <1>15 DEF WriteFile, SetOut, Data, After, Past
  <1>16. ASSUME NEW r \in Runs, Verify(r) PROVE Turns'
    BY <1>16 DEF Verify
  <1>17. ASSUME NEW r \in Runs, Report(r) PROVE Turns'
    BY <1>17 DEF Report
  <1>18. ASSUME NEW r \in Runs, Dump(r) PROVE Turns'
    BY <1>18 DEF Dump
  <1>19. ASSUME NEW r \in Runs, SimEnds(r) PROVE Turns'
    BY <1>19 DEF SimEnds
  <1>20. ASSUME NEW r \in Runs, StageFails(r) PROVE Turns'
    BY <1>20 DEF StageFails, Fails
  <1>21. ASSUME NEW r \in Runs, Interrupt(r) PROVE Turns'
    BY <1>21 DEF Interrupt
  <1>22. QED
    BY <1>1, <1>2, <1>3, <1>4, <1>5, <1>6, <1>7, <1>8, <1>9, <1>10, <1>11, <1>12, <1>13, <1>14, <1>15, <1>16, <1>17, <1>18, <1>19, <1>20, <1>21, <1>open DEF Next, Progress

\* rm -f has removed the name before the simulator opens its waveform, so each
\* simulator gets an inode of its own.
LEMMA OwnInodesStep ==
    ASSUME SameTag \subseteq Excludes \cap Awaits, TypeOK, Inv, [Next]_vars
    PROVE  OwnInodes'
  <1> USE SmokeAssumption DEF shell, tools, wave, Goto, Stages, Files, KeyOf, Live, TypeOK, Inv, Turns, OwnInodes, NoMixedDump, SameTag
  <1>1. CASE UNCHANGED vars
    BY <1>1 DEF vars
  <1>2. ASSUME NEW r \in Runs, Start(r) PROVE OwnInodes'
    BY <1>2 DEF Start
  <1>3. ASSUME NEW r \in Runs, Compile(r) PROVE OwnInodes'
    BY <1>3 DEF Compile
  <1>4. ASSUME NEW r \in Runs, Link(r) PROVE OwnInodes'
    BY <1>4 DEF Link
  <1>5. ASSUME NEW r \in Runs, SimCheck(r) PROVE OwnInodes'
    BY <1>5 DEF SimCheck
  <1>6. ASSUME NEW r \in Runs, SimBuild(r) PROVE OwnInodes'
    BY <1>6 DEF SimBuild
  <1>7. ASSUME NEW r \in Runs, Clean(r) PROVE OwnInodes'
    BY <1>7 DEF Clean
  <1>8. ASSUME NEW r \in Runs, Launch(r) PROVE OwnInodes'
    BY <1>8 DEF Launch
  <1>9. ASSUME NEW r \in Runs, Load(r) PROVE OwnInodes'
    BY <1>9 DEF Load
  <1>open. ASSUME NEW r \in Runs, OpenDump(r) PROVE OwnInodes'
    <2>1. dump[KeyOf(r)] = None /\ latest[TagOf[r]] = r /\ pc[r] \in {"simulate", "killed"}
      BY <1>open DEF Ended, OpenDump, SimAlive
    <2>2. /\ dump' = [dump EXCEPT ![KeyOf(r)] = r] /\ bytes' = [bytes EXCEPT ![r] = {}]
          /\ fd' = [fd EXCEPT ![r] = r] /\ starting' = [starting EXCEPT ![r] = FALSE]
          /\ pc' = pc
      BY <1>open, <2>1 DEF OpenDump
    <2>3. \A q \in Runs \ {r} : pc[q] = "launch" \/ starting[q] => KeyOf(q) # KeyOf(r)
      BY <2>1
    <2>4. QED
      BY <2>1, <2>2, <2>3
  <1>10. ASSUME NEW r \in Runs, Check(r) PROVE OwnInodes'
    BY <1>10 DEF Check
  <1>11. ASSUME NEW r \in Runs, ReadDump(r) PROVE OwnInodes'
    BY <1>11 DEF ReadDump, Reads, Fails
  <1>12. ASSUME NEW r \in Runs, ReadRegions(r) PROVE OwnInodes'
    BY <1>12 DEF ReadRegions, Reads, Fails
  <1>13. ASSUME NEW r \in Runs, ReadThermalInputs(r) PROVE OwnInodes'
    BY <1>13 DEF ReadThermalInputs, Reads, Fails
  <1>14. ASSUME NEW r \in Runs, OpenFile(r) PROVE OwnInodes'
    BY <1>14 DEF OpenFile, SetOut, Empty, Past
  <1>15. ASSUME NEW r \in Runs, WriteFile(r) PROVE OwnInodes'
    BY <1>15 DEF WriteFile, SetOut, Data, After, Past
  <1>16. ASSUME NEW r \in Runs, Verify(r) PROVE OwnInodes'
    BY <1>16 DEF Verify
  <1>17. ASSUME NEW r \in Runs, Report(r) PROVE OwnInodes'
    BY <1>17 DEF Report
  <1>18. ASSUME NEW r \in Runs, Dump(r) PROVE OwnInodes'
    BY <1>18 DEF Dump
  <1>19. ASSUME NEW r \in Runs, SimEnds(r) PROVE OwnInodes'
    BY <1>19 DEF SimEnds
  <1>20. ASSUME NEW r \in Runs, StageFails(r) PROVE OwnInodes'
    BY <1>20 DEF StageFails, Fails
  <1>21. ASSUME NEW r \in Runs, Interrupt(r) PROVE OwnInodes'
    BY <1>21 DEF Interrupt
  <1>22. QED
    BY <1>1, <1>2, <1>3, <1>4, <1>5, <1>6, <1>7, <1>8, <1>9, <1>10, <1>11, <1>12, <1>13, <1>14, <1>15, <1>16, <1>17, <1>18, <1>19, <1>20, <1>21, <1>open DEF Next, Progress

\* The shell goes on to the extraction only with a waveform that holds data.
LEMMA CheckPasses ==
    ASSUME TypeOK, NEW r \in Runs, Check(r), pc'[r] = "extract"
    PROVE  dump[KeyOf(r)] # None /\ bytes[dump[KeyOf(r)]] # {}
  BY DEF TypeOK, Check, Goto

\* From the simulation on, the waveform of a run stays its own.
LEMMA OwnDumpStep ==
    ASSUME SameTag \subseteq Excludes \cap Awaits, TypeOK, Inv, [Next]_vars
    PROVE  OwnDump'
  <1> USE SmokeAssumption DEF shell, tools, wave, Goto, Stages, Files, KeyOf, Live, TypeOK, Inv, Turns, OwnInodes, NoMixedDump, OwnDump, Simulated
  <1>1. CASE UNCHANGED vars
    BY <1>1 DEF vars
  <1>2. ASSUME NEW r \in Runs, Start(r) PROVE OwnDump'
    BY <1>2 DEF Start
  <1>3. ASSUME NEW r \in Runs, Compile(r) PROVE OwnDump'
    BY <1>3 DEF Compile
  <1>4. ASSUME NEW r \in Runs, Link(r) PROVE OwnDump'
    BY <1>4 DEF Link
  <1>5. ASSUME NEW r \in Runs, SimCheck(r) PROVE OwnDump'
    BY <1>5 DEF SimCheck
  <1>6. ASSUME NEW r \in Runs, SimBuild(r) PROVE OwnDump'
    BY <1>6 DEF SimBuild
  <1>7. ASSUME NEW r \in Runs, Clean(r) PROVE OwnDump'
    BY <1>7 DEF Clean
  <1>8. ASSUME NEW r \in Runs, Launch(r) PROVE OwnDump'
    BY <1>8 DEF Launch
  <1>9. ASSUME NEW r \in Runs, Load(r) PROVE OwnDump'
    BY <1>9 DEF Load
  <1>open. ASSUME NEW r \in Runs, OpenDump(r) PROVE OwnDump'
    BY <1>open DEF OpenDump
  <1>10. ASSUME NEW r \in Runs, Check(r) PROVE OwnDump'
    <2>1. bytes[r] \subseteq {r} /\ dump[KeyOf(r)] \in {None, r}
      BY <1>10 DEF Check
    <2>2. pc'[r] = "extract" => dump[KeyOf(r)] = r /\ bytes[r] = {r}
      BY <1>10, <2>1, CheckPasses
    <2>3. pc'[r] \in {"extract", "failed"} /\ \A q \in Runs \ {r} : pc'[q] = pc[q]
      BY <1>10 DEF Check
    <2>4. UNCHANGED <<dump, bytes>>
      BY <1>10 DEF Check
    <2>5. QED
      BY <2>2, <2>3, <2>4, ZenonT(30)
  <1>11. ASSUME NEW r \in Runs, ReadDump(r) PROVE OwnDump'
    BY <1>11 DEF ReadDump, Reads, Fails
  <1>12. ASSUME NEW r \in Runs, ReadRegions(r) PROVE OwnDump'
    BY <1>12 DEF ReadRegions, Reads, Fails
  <1>13. ASSUME NEW r \in Runs, ReadThermalInputs(r) PROVE OwnDump'
    BY <1>13 DEF ReadThermalInputs, Reads, Fails
  <1>14. ASSUME NEW r \in Runs, OpenFile(r) PROVE OwnDump'
    BY <1>14 DEF OpenFile, SetOut, Empty, Past
  <1>15. ASSUME NEW r \in Runs, WriteFile(r) PROVE OwnDump'
    BY <1>15 DEF WriteFile, SetOut, Data, After, Past
  <1>16. ASSUME NEW r \in Runs, Verify(r) PROVE OwnDump'
    BY <1>16 DEF Verify
  <1>17. ASSUME NEW r \in Runs, Report(r) PROVE OwnDump'
    BY <1>17 DEF Report
  <1>18. ASSUME NEW r \in Runs, Dump(r) PROVE OwnDump'
    BY <1>18 DEF Dump
  <1>19. ASSUME NEW r \in Runs, SimEnds(r) PROVE OwnDump'
    BY <1>19 DEF SimEnds
  <1>20. ASSUME NEW r \in Runs, StageFails(r) PROVE OwnDump'
    BY <1>20 DEF StageFails, Fails
  <1>21. ASSUME NEW r \in Runs, Interrupt(r) PROVE OwnDump'
    BY <1>21 DEF Interrupt
  <1>22. QED
    BY <1>1, <1>2, <1>3, <1>4, <1>5, <1>6, <1>7, <1>8, <1>9, <1>10, <1>11, <1>12, <1>13, <1>14, <1>15, <1>16, <1>17, <1>18, <1>19, <1>20, <1>21, <1>open DEF Next, Progress

\* A stage is past a file when the stage before it wrote or was past that file.
LEMMA PastAfter ==
    \A f, g \in Files : After[g] \in Past[f] => f = g \/ g \in Past[f]
  BY DEF Files, After, Past

LEMMA PastStages ==
    \A f \in Files : Past[f] \subseteq Stages
  BY DEF Files, Past, Stages

\* A run reads what it wrote: nobody else writes the files of its tag meanwhile.
LEMMA OwnFilesStep ==
    ASSUME SameTag \subseteq Excludes \cap Awaits, TypeOK, Inv, [Next]_vars
    PROVE  OwnFiles'
  <1> USE SmokeAssumption DEF shell, tools, wave, Goto, Stages, Files, KeyOf, Live, TypeOK, Inv, Turns, OwnInodes, NoMixedDump, OwnDump, OwnFiles, Past, Simulated
  <1>1. CASE UNCHANGED vars
    BY <1>1 DEF vars
  <1>2. ASSUME NEW r \in Runs, Start(r) PROVE OwnFiles'
    BY <1>2 DEF Start
  <1>3. ASSUME NEW r \in Runs, Compile(r) PROVE OwnFiles'
    BY <1>3 DEF Compile
  <1>4. ASSUME NEW r \in Runs, Link(r) PROVE OwnFiles'
    BY <1>4 DEF Link
  <1>5. ASSUME NEW r \in Runs, SimCheck(r) PROVE OwnFiles'
    BY <1>5 DEF SimCheck
  <1>6. ASSUME NEW r \in Runs, SimBuild(r) PROVE OwnFiles'
    BY <1>6 DEF SimBuild
  <1>7. ASSUME NEW r \in Runs, Clean(r) PROVE OwnFiles'
    BY <1>7 DEF Clean
  <1>8. ASSUME NEW r \in Runs, Launch(r) PROVE OwnFiles'
    BY <1>8 DEF Launch
  <1>9. ASSUME NEW r \in Runs, Load(r) PROVE OwnFiles'
    BY <1>9 DEF Load
  <1>open. ASSUME NEW r \in Runs, OpenDump(r) PROVE OwnFiles'
    BY <1>open DEF OpenDump
  <1>10. ASSUME NEW r \in Runs, Check(r) PROVE OwnFiles'
    BY <1>10 DEF Check
  <1>11. ASSUME NEW r \in Runs, ReadDump(r) PROVE OwnFiles'
    BY <1>11, SMTT(60) DEF ReadDump, Reads, Fails
  <1>12. ASSUME NEW r \in Runs, ReadRegions(r) PROVE OwnFiles'
    <2>1. CASE Fails(r)
      BY <1>12, <2>1 DEF ReadRegions, Fails
    <2>2. CASE ~Fails(r)
      <3>1. out[TagOf[r]].region.from = {r}
        <4>1. pc[r] \in Past["region"]
          BY <1>12 DEF ReadRegions
        <4>2. out[TagOf[r]]["region"] = Data({r})
          BY <4>1
        <4>3. QED
          BY <4>2 DEF Data
      <3>2. /\ pc' = [pc EXCEPT ![r] = "flp"]
            /\ held' = [held EXCEPT ![r] = {r}]
            /\ UNCHANGED <<opened, out>>
        BY <1>12, <2>2, <3>1 DEF ReadRegions, Reads
      <3>3. QED
        BY <1>12, <3>2 DEF ReadRegions
    <2>3. QED
      BY <2>1, <2>2
  <1>13. ASSUME NEW r \in Runs, ReadThermalInputs(r) PROVE OwnFiles'
    <2>1. CASE Fails(r)
      BY <1>13, <2>1 DEF ReadThermalInputs, Fails
    <2>2. CASE ~Fails(r)
      <3>1. out[TagOf[r]].flp.from \cup out[TagOf[r]].ptrace.from = {r}
        <4>1. pc[r] \in Past["flp"] /\ pc[r] \in Past["ptrace"]
          BY <1>13 DEF ReadThermalInputs
        <4>2. out[TagOf[r]]["flp"] = Data({r}) /\ out[TagOf[r]]["ptrace"] = Data({r})
          BY <4>1
        <4>3. QED
          BY <4>2 DEF Data
      <3>2. /\ pc' = [pc EXCEPT ![r] = "ttrace"]
            /\ held' = [held EXCEPT ![r] = {r}]
            /\ UNCHANGED <<opened, out>>
        BY <1>13, <2>2, <3>1 DEF ReadThermalInputs, Reads
      <3>3. QED
        BY <1>13, <3>2 DEF ReadThermalInputs
    <2>3. QED
      BY <2>1, <2>2
  <1>14. ASSUME NEW r \in Runs, OpenFile(r) PROVE OwnFiles'
    BY <1>14 DEF OpenFile, SetOut, Empty
  <1>15. ASSUME NEW r \in Runs, WriteFile(r) PROVE OwnFiles'
    <2>1. pc[r] \in Files /\ opened[r] /\ held[r] = {r} /\ out[TagOf[r]][pc[r]] = Empty
      BY <1>15 DEF WriteFile
    <2>2. out' = [out EXCEPT ![TagOf[r]][pc[r]] = Data({r})]
      <3>1. PICK rest \in {{}, out[TagOf[r]][pc[r]].from} :
               out' = [out EXCEPT ![TagOf[r]][pc[r]] = Data(held[r] \cup rest)]
        BY <1>15 DEF WriteFile, SetOut
      <3>2. rest = {}
        BY <2>1, <3>1 DEF Empty
      <3>3. QED
        BY <2>1, <3>1, <3>2
    <2>3. /\ pc' = [pc EXCEPT ![r] = After[pc[r]]]
          /\ opened' = [opened EXCEPT ![r] = FALSE]
          /\ held' = held
      BY <1>15 DEF WriteFile
    <2> SUFFICES ASSUME NEW q \in Runs
                 PROVE  /\ pc'[q] \in Files => held'[q] = {q}
                        /\ opened'[q] => pc'[q] \in Files /\ out'[TagOf[q]][pc'[q]] = Empty
                        /\ \A f \in Files : pc'[q] \in Past[f] => out'[TagOf[q]][f] = Data({q})
      BY DEF OwnFiles
    <2>4. CASE q = r
      <3>1. \A f \in Files : After[pc[r]] \in Past[f] => f = pc[r] \/ pc[r] \in Past[f]
        BY <2>1, PastAfter
      <3>2. \A f \in Files : f # pc[r] => out'[TagOf[r]][f] = out[TagOf[r]][f]
        BY <2>2
      <3>3. out'[TagOf[r]][pc[r]] = Data({r})
        BY <2>1, <2>2
      <3>4. pc'[r] = After[pc[r]] /\ ~opened'[r] /\ held'[r] = {r}
        BY <2>1, <2>3
      <3>5. \A f \in Files : pc[r] \in Past[f] => out[TagOf[r]][f] = Data({r})
        BY DEF OwnFiles
      <3>6. QED
        BY ONLY <2>4, <3>1, <3>2, <3>3, <3>4, <3>5
    <2>5. CASE q # r
      <3>1. pc'[q] = pc[q] /\ opened'[q] = opened[q] /\ held'[q] = held[q]
        BY <2>3, <2>5
      <3>2. Live(q) => out'[TagOf[q]] = out[TagOf[q]]
        BY <2>1, <2>2, <2>5
      <3>3. /\ pc[q] \in Files => held[q] = {q}
            /\ opened[q] => pc[q] \in Files /\ out[TagOf[q]][pc[q]] = Empty
            /\ \A f \in Files : pc[q] \in Past[f] => out[TagOf[q]][f] = Data({q})
        BY DEF OwnFiles
      <3>4. pc[q] \in Files => Live(q)
        OBVIOUS
      <3>5. \A f \in Files : pc[q] \in Past[f] => Live(q)
        BY PastStages
      <3>6. QED
        BY ONLY <3>1, <3>2, <3>3, <3>4, <3>5
    <2>6. QED
      BY <2>4, <2>5
  <1>16. ASSUME NEW r \in Runs, Verify(r) PROVE OwnFiles'
    BY <1>16 DEF Verify
  <1>17. ASSUME NEW r \in Runs, Report(r) PROVE OwnFiles'
    BY <1>17 DEF Report
  <1>18. ASSUME NEW r \in Runs, Dump(r) PROVE OwnFiles'
    BY <1>18 DEF Dump
  <1>19. ASSUME NEW r \in Runs, SimEnds(r) PROVE OwnFiles'
    BY <1>19 DEF SimEnds
  <1>20. ASSUME NEW r \in Runs, StageFails(r) PROVE OwnFiles'
    BY <1>20 DEF StageFails, Fails
  <1>21. ASSUME NEW r \in Runs, Interrupt(r) PROVE OwnFiles'
    BY <1>21 DEF Interrupt
  <1>22. QED
    BY <1>1, <1>2, <1>3, <1>4, <1>5, <1>6, <1>7, <1>8, <1>9, <1>10, <1>11, <1>12, <1>13, <1>14, <1>15, <1>16, <1>17, <1>18, <1>19, <1>20, <1>21, <1>open DEF Next, Progress

\* Whether it can read its input or not, a reading stage changes nothing but its run.
LEMMA ReadsLocal ==
    ASSUME NEW r \in Runs, TypeOK, ReadDump(r) \/ ReadRegions(r) \/ ReadThermalInputs(r)
    PROVE  /\ pc[r] \in {"extract", "export", "hotspot"}
           /\ pc'[r] \in {"signal", "flp", "ttrace", "failed"}
           /\ \A q \in Runs \ {r} : pc'[q] = pc[q]
           /\ UNCHANGED <<tools, wave, out, summary, latest>>
  <1> DEFINE Local ==
        /\ pc'[r] \in {"signal", "flp", "ttrace", "failed"}
        /\ \A q \in Runs \ {r} : pc'[q] = pc[q]
        /\ UNCHANGED <<tools, wave, out, summary, latest>>
  <1>1. ASSUME NEW ok, NEW from, NEW next \in {"signal", "flp", "ttrace"}, Reads(r, ok, from, next)
        PROVE  Local
    BY <1>1 DEF Reads, Fails, Goto, TypeOK
  <1>2. CASE ReadDump(r)
    BY <1>1, <1>2 DEF ReadDump
  <1>3. CASE ReadRegions(r)
    BY <1>1, <1>3 DEF ReadRegions
  <1>4. CASE ReadThermalInputs(r)
    BY <1>1, <1>4 DEF ReadThermalInputs
  <1>5. QED
    BY <1>2, <1>3, <1>4

\* A simulator never outlives the end of its run other than as an orphan.
LEMMA EndedStep ==
    ASSUME SameTag \subseteq Excludes \cap Awaits, TypeOK, Inv, [Next]_vars
    PROVE  Ended'
  <1> USE SmokeAssumption DEF shell, tools, wave, Goto, Stages, Files, Live, SimAlive, TypeOK, Inv, Ended
  <1>1. CASE UNCHANGED vars
    BY <1>1 DEF vars
  <1>2. ASSUME NEW r \in Runs, Start(r) PROVE Ended'
    BY <1>2 DEF Start
  <1>3. ASSUME NEW r \in Runs, Compile(r) PROVE Ended'
    BY <1>3 DEF Compile
  <1>4. ASSUME NEW r \in Runs, Link(r) PROVE Ended'
    BY <1>4 DEF Link
  <1>5. ASSUME NEW r \in Runs, SimCheck(r) PROVE Ended'
    BY <1>5 DEF SimCheck
  <1>6. ASSUME NEW r \in Runs, SimBuild(r) PROVE Ended'
    BY <1>6 DEF SimBuild
  <1>7. ASSUME NEW r \in Runs, Clean(r) PROVE Ended'
    BY <1>7 DEF Clean
  <1>8. ASSUME NEW r \in Runs, Launch(r) PROVE Ended'
    BY <1>8 DEF Launch
  <1>9. ASSUME NEW r \in Runs, Load(r) PROVE Ended'
    BY <1>9 DEF Load
  <1>open. ASSUME NEW r \in Runs, OpenDump(r) PROVE Ended'
    BY <1>open DEF OpenDump
  <1>10. ASSUME NEW r \in Runs, Check(r) PROVE Ended'
    BY <1>10 DEF Check
  <1>11. ASSUME NEW r \in Runs, ReadDump(r) \/ ReadRegions(r) \/ ReadThermalInputs(r)
         PROVE  Ended'
    <2>1. /\ pc[r] \in {"extract", "export", "hotspot"}
          /\ \A q \in Runs \ {r} : pc'[q] = pc[q]
          /\ UNCHANGED <<starting, fd, summary>>
      BY <1>11, ReadsLocal
    <2>2. /\ \A q \in Runs : SimAlive(q) => pc[q] \in {"simulate", "killed"}
          /\ \A t \in Tags : summary[t] # None => summary[t] \in Runs /\ pc[summary[t]] = "passed"
      OBVIOUS
    <2>3. QED
      BY ONLY <2>1, <2>2 DEF Ended, SimAlive
  <1>12. ASSUME NEW r \in Runs, OpenFile(r) PROVE Ended'
    BY <1>12 DEF OpenFile, SetOut, Empty
  <1>13. ASSUME NEW r \in Runs, WriteFile(r) PROVE Ended'
    BY <1>13 DEF WriteFile, SetOut, Data, After
  <1>14. ASSUME NEW r \in Runs, Verify(r) PROVE Ended'
    BY <1>14 DEF Verify
  <1>15. ASSUME NEW r \in Runs, Report(r) PROVE Ended'
    BY <1>15 DEF Report
  <1>16. ASSUME NEW r \in Runs, Dump(r) PROVE Ended'
    BY <1>16 DEF Dump
  <1>17. ASSUME NEW r \in Runs, SimEnds(r) PROVE Ended'
    BY <1>17 DEF SimEnds
  <1>18. ASSUME NEW r \in Runs, StageFails(r) PROVE Ended'
    BY <1>18 DEF StageFails, Fails, CanFail
  <1>19. ASSUME NEW r \in Runs, Interrupt(r) PROVE Ended'
    BY <1>19 DEF Interrupt
  <1>20. QED
    BY <1>1, <1>2, <1>3, <1>4, <1>5, <1>6, <1>7, <1>8, <1>9, <1>10, <1>11, <1>12, <1>13, <1>14, <1>15, <1>16, <1>17, <1>18, <1>19, <1>open DEF Next, Progress

\* What a run has passed with is not touched before the next run with its tag
\* starts: whoever writes a file of a tag is the run of that tag started last.
LEMMA PassedStep ==
    ASSUME SameTag \subseteq Excludes \cap Awaits, TypeOK, Inv, [Next]_vars
    PROVE  PassedResultsAreOwn'
  <1> SUFFICES ASSUME NEW t \in Tags, NEW q \in Runs, latest'[t] = q, pc'[q] = "passed"
               PROVE  summary'[t] = q /\ DerivedFrom(t, q)'
    BY DEF PassedResultsAreOwn
  <1> DEFINE key == <<ConfigOf[q], t>>
             Kept == /\ latest[t] = q /\ pc[q] = "passed"
                     /\ summary'[t] = summary[t] /\ out'[t] = out[t]
                     /\ dump'[key] = dump[key] /\ bytes'[q] = bytes[q]
  <1>a. ASSUME Kept PROVE summary'[t] = q /\ DerivedFrom(t, q)'
    BY <1>a DEF Inv, PassedResultsAreOwn, DerivedFrom
  <1>b. \A r \in Runs : latest[t] = q /\ pc[q] = "passed" /\ Live(r) => r # q /\ TagOf[r] # t
    BY DEF Inv, Turns, Live, Stages, Files
  <1> USE SmokeAssumption DEF TypeOK, shell, tools, wave, Goto, KeyOf
  <1>1. CASE UNCHANGED vars
    BY <1>1, <1>a DEF vars
  <1>2. ASSUME NEW r \in Runs, Start(r) PROVE summary'[t] = q /\ DerivedFrom(t, q)'
    BY <1>2, <1>a, <1>b DEF Start, Live, Stages, Files
  <1>3. ASSUME NEW r \in Runs, Compile(r) PROVE summary'[t] = q /\ DerivedFrom(t, q)'
    BY <1>3, <1>a, <1>b DEF Compile, Live, Stages, Files
  <1>4. ASSUME NEW r \in Runs, Link(r) PROVE summary'[t] = q /\ DerivedFrom(t, q)'
    BY <1>4, <1>a, <1>b DEF Link, Live, Stages, Files
  <1>5. ASSUME NEW r \in Runs, SimCheck(r) PROVE summary'[t] = q /\ DerivedFrom(t, q)'
    BY <1>5, <1>a, <1>b DEF SimCheck, Live, Stages, Files
  <1>6. ASSUME NEW r \in Runs, SimBuild(r) PROVE summary'[t] = q /\ DerivedFrom(t, q)'
    BY <1>6, <1>a, <1>b DEF SimBuild, Live, Stages, Files
  <1>7. ASSUME NEW r \in Runs, Clean(r) PROVE summary'[t] = q /\ DerivedFrom(t, q)'
    BY <1>7, <1>a, <1>b DEF Clean, Live, Stages, Files
  <1>8. ASSUME NEW r \in Runs, Launch(r) PROVE summary'[t] = q /\ DerivedFrom(t, q)'
    BY <1>8, <1>a, <1>b DEF Launch, Live, Stages, Files
  <1>9. ASSUME NEW r \in Runs, Load(r) PROVE summary'[t] = q /\ DerivedFrom(t, q)'
    BY <1>9, <1>a, <1>b DEF Load, Live, Stages, Files
  <1>open. ASSUME NEW r \in Runs, OpenDump(r) PROVE summary'[t] = q /\ DerivedFrom(t, q)'
    <2>1. dump[KeyOf(r)] = None /\ latest[TagOf[r]] = r /\ pc[r] \in {"simulate", "killed"}
      BY <1>open DEF Inv, Turns, OwnInodes, Ended, OpenDump, SimAlive
    <2>2. dump' = [dump EXCEPT ![KeyOf(r)] = r] /\ bytes' = [bytes EXCEPT ![r] = {}]
      BY <1>open, <2>1 DEF OpenDump
    <2>3. latest[t] = q /\ pc[q] = "passed"
      BY <1>open DEF OpenDump
    <2>4. r # q /\ KeyOf(r) # key
      BY <2>1, <2>3
    <2>5. QED
      BY <1>open, <1>a, <2>2, <2>3, <2>4 DEF OpenDump
  <1>10. ASSUME NEW r \in Runs, Check(r) PROVE summary'[t] = q /\ DerivedFrom(t, q)'
    BY <1>10, <1>a, <1>b DEF Check, Live, Stages, Files
  <1>11. ASSUME NEW r \in Runs, ReadDump(r) PROVE summary'[t] = q /\ DerivedFrom(t, q)'
    BY <1>11, <1>a, <1>b DEF ReadDump, Reads, Fails, Live, Stages, Files
  <1>12. ASSUME NEW r \in Runs, ReadRegions(r) PROVE summary'[t] = q /\ DerivedFrom(t, q)'
    BY <1>12, <1>a, <1>b DEF ReadRegions, Reads, Fails, Live, Stages, Files
  <1>13. ASSUME NEW r \in Runs, ReadThermalInputs(r) PROVE summary'[t] = q /\ DerivedFrom(t, q)'
    BY <1>13, <1>a, <1>b DEF ReadThermalInputs, Reads, Fails, Live, Stages, Files
  <1>14. ASSUME NEW r \in Runs, OpenFile(r) PROVE summary'[t] = q /\ DerivedFrom(t, q)'
    BY <1>14, <1>a, <1>b DEF OpenFile, SetOut, Live, Stages, Files
  <1>15. ASSUME NEW r \in Runs, WriteFile(r) PROVE summary'[t] = q /\ DerivedFrom(t, q)'
    BY <1>15, <1>a, <1>b DEF WriteFile, SetOut, After, Live, Stages, Files
  <1>16. ASSUME NEW r \in Runs, Verify(r) PROVE summary'[t] = q /\ DerivedFrom(t, q)'
    BY <1>16, <1>a, <1>b DEF Verify, Live, Stages, Files
  <1>17. ASSUME NEW r \in Runs, Report(r) PROVE summary'[t] = q /\ DerivedFrom(t, q)'
    <2>1. CASE r = q
      <3>1. TagOf[q] = t
        BY <1>17 DEF Report, Inv, Turns
      <3>2. DerivedFrom(t, q)
        <4>1. dump[key] = q /\ bytes[q] = {q}
          BY <1>17, <2>1, <3>1 DEF Report, Inv, OwnDump, Simulated
        <4>2. \A f \in Files : out[t][f] = Data({q})
          BY <1>17, <2>1, <3>1 DEF Report, Inv, OwnFiles, Past, Files
        <4>3. out[t] = [f \in Files |-> Data({q})]
          BY <4>2
        <4>4. QED
          BY <4>1, <4>3 DEF DerivedFrom
      <3>3. QED
        BY <1>17, <2>1, <3>1, <3>2 DEF Report, DerivedFrom
    <2>2. CASE r # q
      BY <1>17, <1>a, <1>b, <2>2 DEF Report, Live, Stages, Files
    <2>3. QED
      BY <2>1, <2>2
  <1>18. ASSUME NEW r \in Runs, Dump(r) PROVE summary'[t] = q /\ DerivedFrom(t, q)'
    <2>1. bytes' = [bytes EXCEPT ![r] = @ \cup {r}]
      BY <1>18 DEF Dump, Inv, OwnInodes
    <2>2. bytes[q] = {q}
      BY <1>18 DEF Dump, Inv, PassedResultsAreOwn, DerivedFrom
    <2>3. QED
      BY <1>18, <1>a, <2>1, <2>2 DEF Dump
  <1>19. ASSUME NEW r \in Runs, SimEnds(r) PROVE summary'[t] = q /\ DerivedFrom(t, q)'
    BY <1>19, <1>a, <1>b DEF SimEnds, Live, Stages, Files
  <1>20. ASSUME NEW r \in Runs, StageFails(r) PROVE summary'[t] = q /\ DerivedFrom(t, q)'
    BY <1>20, <1>a, <1>b DEF StageFails, Fails, Live, Stages, Files
  <1>21. ASSUME NEW r \in Runs, Interrupt(r) PROVE summary'[t] = q /\ DerivedFrom(t, q)'
    BY <1>21, <1>a, <1>b DEF Interrupt, Live, Stages, Files
  <1>22. QED
    BY <1>1, <1>2, <1>3, <1>4, <1>5, <1>6, <1>7, <1>8, <1>9, <1>10, <1>11, <1>12, <1>13, <1>14, <1>15, <1>16, <1>17, <1>18, <1>19, <1>20, <1>21, <1>open DEF Next, Progress

\* Runs with one tag that take turns, and wait for an orphan to open its waveform, keep
\* the inductive invariant, however they fail or are interrupted.
THEOREM SmokeInvariant ==
    ASSUME SameTag \subseteq Excludes \cap Awaits
    PROVE  Spec => []Inv
<1>1. Init => Inv
  <2> SUFFICES ASSUME Init PROVE Inv
    OBVIOUS
  <2>1. \A r \in Runs : pc[r] = "idle" /\ ~opened[r] /\ ~SimAlive(r) /\ bytes[r] = {}
    BY DEF Init, SimAlive
  <2>2. Turns
    BY <2>1, SmokeAssumption DEF Init, Turns, SimAlive, Live, Stages, Files
  <2>3. OwnInodes
    BY <2>1 DEF Init, SimAlive, OwnInodes, NoMixedDump
  <2>4. OwnDump
    BY <2>1 DEF OwnDump, Simulated
  <2>5. OwnFiles
    <3>1. "idle" \notin Stages /\ "idle" \notin Files
      BY DEF Stages, Files
    <3>2. \A f \in Files : "idle" \notin Past[f]
      BY <3>1, PastStages
    <3>3. QED
      BY <2>1, <3>1, <3>2 DEF OwnFiles
  <2>6. PassedResultsAreOwn
    <3>1. \A r \in Runs : pc[r] # "passed"
      BY <2>1
    <3>2. QED
      BY <3>1 DEF PassedResultsAreOwn
  <2>7. Ended
    BY <2>1 DEF Init, Ended
  <2>8. QED
    BY <2>2, <2>3, <2>4, <2>5, <2>6, <2>7 DEF Inv
<1>2. TypeOK /\ Inv /\ [Next]_vars => Inv'
  BY TurnsStep, OwnInodesStep, OwnDumpStep, OwnFilesStep, EndedStep, PassedStep DEF Inv
<1>3. QED
  BY <1>1, <1>2, SmokeTypeCorrect, PTL DEF Spec

\* No waveform ever holds the data of two simulations, if runs with one tag take turns
\* and wait for an orphan to open its waveform; it may write for as long as it likes.
THEOREM NoMixedDumpEver ==
    ASSUME SameTag \subseteq Excludes \cap Awaits
    PROVE  Spec => []NoMixedDump
<1>1. Inv => NoMixedDump
  BY DEF Inv, OwnInodes
<1>2. QED
  BY <1>1, SmokeInvariant, PTL

\* A passed run's artefacts are of its own simulation and stay so until its tag is rerun,
\* under the same conditions.
THEOREM PassedResultsStayOwn ==
    ASSUME SameTag \subseteq Excludes \cap Awaits
    PROVE  Spec => []PassedResultsAreOwn
<1>1. Inv => PassedResultsAreOwn
  BY DEF Inv
<1>2. QED
  BY <1>1, SmokeInvariant, PTL

\* HotSpot combines the floorplan and the power of one simulation only, under the same
\* conditions.
THEOREM OneRunPerThermalRunEver ==
    ASSUME SameTag \subseteq Excludes \cap Awaits
    PROVE  Spec => []OneRunPerThermalRun
<1>1. Inv => OneRunPerThermalRun
  BY DEF Inv, OwnFiles, OneRunPerThermalRun, Files
<1>2. QED
  BY <1>1, SmokeInvariant, PTL
-----------------------------------------------------------------------------
(* The binary of a config.                                                  *)

Linked == {"simcheck", "simbuild", "clean", "launch", "simulate"}

\* Runs of one config that take turns: from its link on, a live run finds the binary
\* whole, for no other run has linked it again; a simulator whose shell is not live
\* belongs to a run that has been killed.
BinaryKept ==
    /\ \A r, q \in Runs : Live(r) /\ Live(q) /\ ConfigOf[r] = ConfigOf[q] => r = q
    /\ \A r \in Runs : pc[r] \in Linked => binary[ConfigOf[r]] = "whole"
    /\ \A r \in Runs : SimAlive(r) => pc[r] \in {"simulate", "killed"}
    /\ LoadsWholeBinary

\* A step of a live run that leaves the binaries alone and does not skip the link.
LEMMA BinaryUntouched ==
    ASSUME BinaryKept, NEW r \in Runs, Live(r) \/ ~Live(r)',
           \A q \in Runs \ {r} : pc'[q] = pc[q] /\ (SimAlive(q)' => SimAlive(q)),
           pc'[r] \in Linked => pc[r] \in Linked,
           pc[r] = "killed" => pc'[r] = "killed",
           SimAlive(r)' => pc'[r] \in {"simulate", "killed"},
           UNCHANGED <<binary, loaded>>
    PROVE  BinaryKept'
  <1>1. \A q \in Runs : /\ Live(q)' => Live(q)
                        /\ pc'[q] \in Linked => pc[q] \in Linked
                        /\ pc[q] = "killed" => pc'[q] = "killed"
                        /\ SimAlive(q)' => pc'[q] \in {"simulate", "killed"}
    BY DEF Live, BinaryKept
  <1>2. LoadsWholeBinary'
    BY <1>1 DEF BinaryKept, LoadsWholeBinary
  <1>3. QED
    BY <1>1, <1>2 DEF BinaryKept

\* A step of a stage of the shell that has no simulator, or that kills the run.
LEMMA BinaryUntouchedByShell ==
    ASSUME BinaryKept, NEW r \in Runs, Live(r),
           pc[r] # "simulate" \/ pc'[r] = "killed",
           \A q \in Runs \ {r} : pc'[q] = pc[q],
           pc'[r] \in Linked => pc[r] \in Linked,
           UNCHANGED <<binary, loaded, starting, fd>>
    PROVE  BinaryKept'
  <1>1. \A q \in Runs : SimAlive(q)' = SimAlive(q)
    BY DEF SimAlive
  <1>2. SimAlive(r)' => pc'[r] \in {"simulate", "killed"}
    BY <1>1 DEF BinaryKept, Live, Stages, Files
  <1>3. pc[r] # "killed"
    BY DEF Live, Stages, Files
  <1>4. QED
    BY <1>1, <1>2, <1>3, BinaryUntouched

LEMMA BinaryStep ==
    ASSUME SameConfig \subseteq Excludes, TypeOK, BinaryKept, [Next]_vars
    PROVE  BinaryKept'
  <1> USE SmokeAssumption DEF TypeOK, Linked, Stages, Files, Goto
  <1>1. CASE UNCHANGED vars
    BY <1>1 DEF vars, shell, tools, wave, BinaryKept, LoadsWholeBinary, Live, SimAlive
  <1>2. ASSUME NEW r \in Runs, Start(r) PROVE BinaryKept'
    <2>1. \A q \in Runs : ConfigOf[q] = ConfigOf[r] => ~Live(q)
      BY <1>2 DEF Start, MayStart, SameConfig
    <2>2. \A q \in Runs \ {r} : pc'[q] = pc[q]
      BY <1>2 DEF Start
    <2>3. /\ pc[r] = "idle" /\ pc'[r] \notin Linked /\ pc'[r] # "killed"
          /\ UNCHANGED <<binary, loaded, starting, fd>>
      BY <1>2 DEF Start, tools, wave
    <2>4. ASSUME NEW p \in Runs, NEW q \in Runs, Live(p)', Live(q)', ConfigOf[p] = ConfigOf[q]
          PROVE  p = q
      <3>1. CASE p # r /\ q # r
        BY <2>2, <2>4, <3>1 DEF BinaryKept, Live
      <3>2. CASE p = r /\ q # r
        BY <2>1, <2>2, <2>4, <3>2 DEF Live
      <3>3. CASE p # r /\ q = r
        BY <2>1, <2>2, <2>4, <3>3 DEF Live
      <3>4. QED
        BY <3>1, <3>2, <3>3
    <2>5. \A q \in Runs : pc'[q] \in Linked => binary'[ConfigOf[q]] = "whole"
      BY <2>2, <2>3 DEF BinaryKept
    <2>6. \A q \in Runs : SimAlive(q)' => pc'[q] \in {"simulate", "killed"}
      <3>1. \A q \in Runs : SimAlive(q)' = SimAlive(q)
        BY <2>3 DEF SimAlive
      <3>2. QED
        BY <2>2, <2>3, <3>1 DEF BinaryKept
    <2>7. LoadsWholeBinary'
      BY <2>2, <2>3 DEF BinaryKept, LoadsWholeBinary
    <2>8. QED
      BY <2>4, <2>5, <2>6, <2>7 DEF BinaryKept
  <1>3. ASSUME NEW r \in Runs, Compile(r) \/ Link(r) PROVE BinaryKept'
    <2>1. (pc[r] = "compile" /\ pc'[r] = "link") \/ (pc[r] = "link" /\ pc'[r] = "simcheck")
      <3>1. CASE Compile(r)
        BY <3>1 DEF Compile
      <3>2. CASE Link(r)
        BY <3>2 DEF Link
      <3>3. QED
        BY <1>3, <3>1, <3>2
    <2>2. \A q \in Runs \ {r} : pc'[q] = pc[q]
      BY <1>3 DEF Compile, Link
    <2>3. \A c \in Configs : binary'[c] = IF c # ConfigOf[r] THEN binary[c]
                                          ELSE IF pc[r] = "compile" THEN "partial" ELSE "whole"
      BY <1>3 DEF Compile, Link
    <2>4. UNCHANGED <<loaded, starting, fd>>
      BY <1>3 DEF Compile, Link, wave
    <2>5. \A q \in Runs : Live(q)' => Live(q)
      BY <2>1, <2>2 DEF Live
    <2>6. ASSUME NEW q \in Runs, pc'[q] \in Linked PROVE binary'[ConfigOf[q]] = "whole"
      <3>1. CASE q = r
        BY <2>1, <2>3, <2>6, <3>1
      <3>2. CASE q # r
        <4>1. pc[q] \in Linked /\ Live(q) /\ Live(r)
          BY <2>1, <2>2, <2>6, <3>2 DEF Live
        <4>2. ConfigOf[q] # ConfigOf[r]
          BY <3>2, <4>1 DEF BinaryKept
        <4>3. QED
          BY <2>3, <4>1, <4>2 DEF BinaryKept
      <3>3. QED
        BY <3>1, <3>2
    <2>7. \A q \in Runs : SimAlive(q)' => pc'[q] \in {"simulate", "killed"}
      <3>1. \A q \in Runs : SimAlive(q)' = SimAlive(q)
        BY <2>4 DEF SimAlive
      <3>2. QED
        BY <2>1, <2>2, <3>1 DEF BinaryKept
    <2>8. LoadsWholeBinary'
      BY <2>1, <2>2, <2>4 DEF BinaryKept, LoadsWholeBinary
    <2>9. QED
      BY <2>5, <2>6, <2>7, <2>8 DEF BinaryKept
  <1>4. ASSUME NEW r \in Runs, SimCheck(r) \/ SimBuild(r) \/ Clean(r) PROVE BinaryKept'
    BY <1>4, BinaryUntouchedByShell DEF SimCheck, SimBuild, Clean, tools, wave, Live
  <1>5. ASSUME NEW r \in Runs, Launch(r) PROVE BinaryKept'
    <2>1. /\ pc[r] = "launch" /\ pc'[r] = "simulate" /\ UNCHANGED <<binary, loaded, fd>>
          /\ \A q \in Runs \ {r} : pc'[q] = pc[q] /\ starting'[q] = starting[q]
      BY <1>5 DEF Launch, tools
    <2>2. \A q \in Runs \ {r} : SimAlive(q)' => SimAlive(q)
      BY <2>1 DEF SimAlive
    <2>3. QED
      BY <2>1, <2>2, BinaryUntouched DEF Live
  <1>6. ASSUME NEW r \in Runs, Check(r) PROVE BinaryKept'
    BY <1>6, BinaryUntouchedByShell DEF Check, tools, wave, Live
  <1>7. ASSUME NEW r \in Runs, ReadDump(r) \/ ReadRegions(r) \/ ReadThermalInputs(r)
        PROVE  BinaryKept'
    <2>1. /\ pc[r] \in Stages \ {"simulate"} /\ pc'[r] \in {"signal", "flp", "ttrace", "failed"}
          /\ \A q \in Runs \ {r} : pc'[q] = pc[q]
          /\ UNCHANGED <<tools, wave>>
      BY <1>7, ReadsLocal
    <2>2. QED
      BY <2>1, BinaryUntouchedByShell DEF tools, wave, Live
  <1>8. ASSUME NEW r \in Runs, OpenFile(r) PROVE BinaryKept'
    BY <1>8, BinaryUntouchedByShell DEF OpenFile, tools, wave, Live
  <1>9. ASSUME NEW r \in Runs, WriteFile(r) PROVE BinaryKept'
    <2>1. pc[r] \in Files /\ pc'[r] \in {"region", "export", "ptrace", "hotspot", "verify"}
      BY <1>9 DEF WriteFile, After
    <2>2. UNCHANGED <<tools, wave>> /\ \A q \in Runs \ {r} : pc'[q] = pc[q]
      BY <1>9 DEF WriteFile
    <2>3. QED
      BY <2>1, <2>2, BinaryUntouchedByShell DEF tools, wave, Live
  <1>10. ASSUME NEW r \in Runs, Verify(r) \/ Report(r) PROVE BinaryKept'
    <2>1. pc[r] \in {"verify", "report"} /\ pc'[r] \in {"report", "failed", "passed"}
      BY <1>10 DEF Verify, Report
    <2>2. UNCHANGED <<tools, wave>> /\ \A q \in Runs \ {r} : pc'[q] = pc[q]
      BY <1>10 DEF Verify, Report
    <2>3. QED
      BY <2>1, <2>2, BinaryUntouchedByShell DEF tools, wave, Live
  <1>11. ASSUME NEW r \in Runs, OpenDump(r) \/ Dump(r) \/ SimEnds(r) PROVE BinaryKept'
    <2>1. pc[r] \in {"simulate", "killed"}
      BY <1>11 DEF OpenDump, Dump, SimEnds, SimAlive, BinaryKept
    <2>2. UNCHANGED <<binary, loaded>>
      BY <1>11 DEF OpenDump, Dump, SimEnds, tools
    <2>3. /\ \A q \in Runs \ {r} : UNCHANGED <<pc[q], starting[q], fd[q]>>
          /\ \/ pc'[r] = pc[r]
             \/ pc[r] = "simulate" /\ pc'[r] = "check" /\ ~starting'[r] /\ fd'[r] = None
      <3>1. CASE OpenDump(r)
        BY <3>1 DEF OpenDump, shell
      <3>2. CASE Dump(r)
        BY <3>2 DEF Dump, shell
      <3>3. CASE SimEnds(r)
        BY <3>3 DEF SimEnds
      <3>4. QED
        BY <1>11, <3>1, <3>2, <3>3
    <2>4. \A q \in Runs \ {r} : pc'[q] = pc[q] /\ (SimAlive(q)' => SimAlive(q))
      BY <2>3 DEF SimAlive
    <2>5. SimAlive(r)' => pc'[r] \in {"simulate", "killed"}
      BY <2>1, <2>3 DEF SimAlive
    <2>6. QED
      BY <2>1, <2>2, <2>3, <2>4, <2>5, BinaryUntouched DEF Live
  <1>12. ASSUME NEW r \in Runs, Load(r) PROVE BinaryKept'
    <2>1. /\ pc[r] \in {"simulate", "killed"}
          /\ pc[r] = "simulate" => binary[ConfigOf[r]] = "whole" /\ loaded[r] # "partial"
      BY <1>12 DEF Load, SimAlive, BinaryKept, LoadsWholeBinary
    <2>2. UNCHANGED <<pc, binary, starting, fd>>
      BY <1>12 DEF Load, shell, wave
    <2>3. loaded' = [loaded EXCEPT ![r] = IF @ = "partial" THEN @ ELSE binary[ConfigOf[r]]]
      BY <1>12 DEF Load
    <2>4. LoadsWholeBinary'
      BY <2>1, <2>2, <2>3 DEF BinaryKept, LoadsWholeBinary
    <2>5. \A q \in Runs : SimAlive(q)' = SimAlive(q) /\ Live(q)' = Live(q)
      BY <2>2 DEF SimAlive, Live
    <2>6. QED
      BY <2>2, <2>4, <2>5 DEF BinaryKept
  <1>13. ASSUME NEW r \in Runs, StageFails(r) \/ Interrupt(r) PROVE BinaryKept'
    <2>1. /\ pc[r] \in Stages /\ pc'[r] \in {"failed", "killed"}
          /\ \A q \in Runs \ {r} : pc'[q] = pc[q]
          /\ pc[r] # "simulate" \/ pc'[r] = "killed"
      BY <1>13 DEF StageFails, Fails, Interrupt, CanFail, Live
    <2>2. UNCHANGED <<tools, wave>>
      BY <1>13 DEF StageFails, Fails, Interrupt
    <2>3. QED
      BY <2>1, <2>2, BinaryUntouchedByShell DEF tools, wave, Live
  <1>14. QED
    BY <1>1, <1>2, <1>3, <1>4, <1>5, <1>6, <1>7, <1>8, <1>9, <1>10, <1>11, <1>12, <1>13 DEF Next, Progress

\* No simulator but the orphan of a killed run reads half a binary, although every
\* run links it again in place.
THEOREM WholeBinaryLoaded ==
    ASSUME SameConfig \subseteq Excludes
    PROVE  Spec => []LoadsWholeBinary
<1>1. Init => BinaryKept
  BY DEF Init, BinaryKept, LoadsWholeBinary, Live, SimAlive, Linked, Stages, Files
<1>2. BinaryKept => LoadsWholeBinary
  BY DEF BinaryKept
<1>3. QED
  BY <1>1, <1>2, BinaryStep, SmokeTypeCorrect, PTL DEF Spec
-----------------------------------------------------------------------------
(* The tag in the names of the files.                                       *)

\* An inode has the config and the tag of the run that created it, and holds data of
\* runs with the same; what a run holds and what a tag's files hold is of that tag.
KeysKept ==
    /\ \A k \in Configs \X Tags : dump[k] # None => KeyOf(dump[k]) = k
    /\ \A r \in Runs : fd[r] # None => KeyOf(fd[r]) = KeyOf(r)
    /\ \A n \in Runs : \A r \in bytes[n] : KeyOf(r) = KeyOf(n)
    /\ \A r \in Runs : \A q \in held[r] : TagOf[q] = TagOf[r]
    /\ \A t \in Tags : \A f \in Files : \A r \in out[t][f].from : TagOf[r] = t

LEMMA KeyParts ==
    ASSUME NEW r \in Runs
    PROVE  /\ KeyOf(r) \in Configs \X Tags /\ TagOf[r] \in Tags /\ ConfigOf[r] \in Configs
           /\ \A q \in Runs : KeyOf(q) = KeyOf(r) => TagOf[q] = TagOf[r] /\ ConfigOf[q] = ConfigOf[r]
  BY SmokeAssumption DEF KeyOf

\* What a reading stage holds is of its tag.
LEMMA ReadsKeepKeys ==
    ASSUME TypeOK, KeysKept, NEW r \in Runs, NEW readable, NEW next,
           NEW from, \A q \in from : TagOf[q] = TagOf[r],
           Reads(r, readable, from, next)
    PROVE  KeysKept'
<1>1. UNCHANGED <<wave, out>> /\ (held' = held \/ held' = [held EXCEPT ![r] = from])
  BY DEF Reads, Fails
<1>2. QED
  BY <1>1, SMTT(30) DEF KeysKept, TypeOK, wave

LEMMA KeysStep ==
    ASSUME TypeOK, KeysKept, [Next]_vars
    PROVE  KeysKept'
  <1>1. ASSUME UNCHANGED <<held, wave, out>> PROVE KeysKept'
    BY <1>1 DEF KeysKept, wave
  <1>2. CASE UNCHANGED vars
    BY <1>1, <1>2 DEF vars, shell
  <1>3. ASSUME NEW r \in Runs,
               \/ Start(r) \/ Compile(r) \/ Link(r) \/ SimCheck(r) \/ SimBuild(r)
               \/ Load(r) \/ Check(r) \/ Verify(r) \/ Report(r)
               \/ StageFails(r) \/ Interrupt(r)
        PROVE  KeysKept'
    BY <1>1, <1>3 DEF shell, Start, Compile, Link, SimCheck, SimBuild, Load, Check,
       Verify, Report, StageFails, Fails, Interrupt
  <1>4. ASSUME NEW r \in Runs, Clean(r) PROVE KeysKept'
    BY <1>4, KeyParts DEF Clean, KeysKept, TypeOK
  <1>5. ASSUME NEW r \in Runs, OpenDump(r) PROVE KeysKept'
    <2>1. PICK node \in Runs : /\ KeyOf(node) = KeyOf(r)
                               /\ dump' = [dump EXCEPT ![KeyOf(r)] = node]
                               /\ bytes' = [bytes EXCEPT ![node] = {}]
                               /\ fd' = [fd EXCEPT ![r] = node]
      <3>1. dump[KeyOf(r)] \in Runs \cup {None} /\ (dump[KeyOf(r)] # None => KeyOf(dump[KeyOf(r)]) = KeyOf(r))
        BY KeyParts DEF TypeOK, KeysKept
      <3>2. QED
        BY <1>5, <3>1 DEF OpenDump
    <2>2. UNCHANGED <<held, out>>
      BY <1>5 DEF OpenDump, shell
    <2>3. QED
      BY <2>1, <2>2, KeyParts DEF KeysKept, TypeOK
  <1>6. ASSUME NEW r \in Runs, Dump(r) PROVE KeysKept'
    <2>1. fd[r] \in Runs /\ KeyOf(fd[r]) = KeyOf(r) /\ bytes' = [bytes EXCEPT ![fd[r]] = @ \cup {r}]
      BY <1>6 DEF Dump, TypeOK, KeysKept
    <2>2. UNCHANGED <<held, out, dump, fd>>
      BY <1>6 DEF Dump, shell
    <2>3. QED
      BY <2>1, <2>2 DEF KeysKept, TypeOK
  <1>7. ASSUME NEW r \in Runs, Launch(r) \/ SimEnds(r) PROVE KeysKept'
    BY <1>7 DEF Launch, SimEnds, KeysKept, TypeOK
  <1>8. ASSUME NEW r \in Runs, ReadDump(r) PROVE KeysKept'
    <2> DEFINE node == dump[KeyOf(r)]
               from == IF node = None THEN {} ELSE bytes[node]
    <2>1. node # None => node \in Runs /\ KeyOf(node) = KeyOf(r) /\ bytes[node] \subseteq Runs
      BY KeyParts DEF TypeOK, KeysKept
    <2>2. \A q \in from : TagOf[q] = TagOf[r]
      BY <2>1, KeyParts DEF KeysKept
    <2>3. Reads(r, node # None, from, "signal")
      BY <1>8 DEF ReadDump
    <2>4. QED
      BY <2>2, <2>3, ReadsKeepKeys
  <1>9. ASSUME NEW r \in Runs, ReadRegions(r) PROVE KeysKept'
    <2>1. \A q \in out[TagOf[r]].region.from : TagOf[q] = TagOf[r]
      BY KeyParts DEF KeysKept, Files
    <2>2. QED
      BY <1>9, <2>1, ReadsKeepKeys DEF ReadRegions
  <1>10. ASSUME NEW r \in Runs, ReadThermalInputs(r) PROVE KeysKept'
    <2>1. \A q \in out[TagOf[r]].flp.from \cup out[TagOf[r]].ptrace.from : TagOf[q] = TagOf[r]
      BY KeyParts DEF KeysKept, Files
    <2>2. QED
      BY <1>10, <2>1, ReadsKeepKeys DEF ReadThermalInputs
  <1>11. ASSUME NEW r \in Runs, OpenFile(r) \/ WriteFile(r) PROVE KeysKept'
    <2>1. PICK content : /\ out' = [out EXCEPT ![TagOf[r]][pc[r]] = content]
                         /\ content.from \subseteq held[r] \cup out[TagOf[r]][pc[r]].from
      <3>1. CASE OpenFile(r)
        <4>1. out' = [out EXCEPT ![TagOf[r]][pc[r]] = Empty] /\ Empty.from = {}
          BY <3>1 DEF OpenFile, SetOut, Empty
        <4>2. QED
          BY <4>1
      <3>2. CASE WriteFile(r)
        <4>1. PICK rest \in {{}, out[TagOf[r]][pc[r]].from} :
                 out' = [out EXCEPT ![TagOf[r]][pc[r]] = Data(held[r] \cup rest)]
          BY <3>2 DEF WriteFile, SetOut
        <4>2. Data(held[r] \cup rest).from \subseteq held[r] \cup out[TagOf[r]][pc[r]].from
          BY DEF Data
        <4>3. QED
          BY <4>1, <4>2
      <3>3. QED
        BY <1>11, <3>1, <3>2
    <2>2. pc[r] \in Files /\ UNCHANGED <<held, wave>>
      BY <1>11 DEF OpenFile, WriteFile
    <2>3. \A q \in content.from : TagOf[q] = TagOf[r]
      BY <2>1, <2>2, KeyParts DEF KeysKept
    <2>4. \A t \in Tags : \A f \in Files :
            out'[t][f] = IF t = TagOf[r] /\ f = pc[r] THEN content ELSE out[t][f]
      BY <2>1, <2>2, KeyParts DEF TypeOK
    <2>5. QED
      BY <2>2, <2>3, <2>4 DEF KeysKept, wave
  <1>12. QED
    BY <1>2, <1>3, <1>4, <1>5, <1>6, <1>7, <1>8, <1>9, <1>10, <1>11 DEF Next, Progress

\* However runs overlap, fail and are killed, a tag's files hold data of its own runs.
THEOREM TagsAlwaysIsolated == Spec => []TagIsolation
<1>1. Init => KeysKept
  BY DEF Init, KeysKept, Empty
<1>2. TypeOK /\ KeysKept => TagIsolation
  <2> SUFFICES ASSUME TypeOK, KeysKept, NEW t \in Tags, NEW c \in Configs, dump[<<c, t>>] # None,
                      NEW r \in bytes[dump[<<c, t>>]]
               PROVE  TagOf[r] = t /\ ConfigOf[r] = c
    BY DEF TagIsolation, KeysKept
  <2>1. dump[<<c, t>>] \in Runs /\ KeyOf(dump[<<c, t>>]) = <<c, t>>
    BY DEF TypeOK, KeysKept
  <2>2. KeyOf(r) = <<c, t>>
    BY <2>1 DEF KeysKept
  <2>3. QED
    BY <2>2 DEF KeyOf
<1>3. QED
  BY <1>1, <1>2, KeysStep, SmokeTypeCorrect, PTL DEF Spec
-----------------------------------------------------------------------------
(* Runs with one tag that take turns implement TaggedResults: every step of *)
(* the flow begins, withdraws, publishes or abandons, or changes nothing    *)
(* the user of the results sees.                                            *)

res == [t \in Tags |-> ResultOf(t)]
act == [t \in Tags |-> ActiveOn(t)]

\* A step of run r alone: the other runs' stages and every tag's latest run stay.
OnlyMoves(r) ==
    /\ \A q \in Runs \ {r} : pc'[q] = pc[q]
    /\ latest' = latest

\* The step reaches no other tag's files and no other run's waveform.
OnlyTouches(r) ==
    /\ \A t \in Tags \ {TagOf[r]} :
          /\ summary'[t] = summary[t] /\ out'[t] = out[t]
          /\ \A c \in Configs : dump'[<<c, t>>] = dump[<<c, t>>]
    /\ \A q \in Runs \ {r} : bytes'[q] = bytes[q]

\* A tag keeps its result when nothing the result depends on changes.
LEMMA KeptResult ==
    ASSUME NEW t \in Tags, UNCHANGED <<summary[t], out[t]>>,
           summary[t] # None =>
              UNCHANGED <<dump[<<ConfigOf[summary[t]], t>>], bytes[summary[t]]>>
    PROVE  ResultOf(t)' = ResultOf(t)
  BY DEF ResultOf, DerivedFrom

\* The run a summary names has passed: it is not live and has no simulator.
LEMMA SummaryPassed ==
    ASSUME TypeOK, Inv, NEW t \in Tags, summary[t] # None
    PROVE  /\ summary[t] \in Runs
           /\ pc[summary[t]] = "passed"
           /\ ~Live(summary[t])
           /\ ~SimAlive(summary[t])
  BY DEF TypeOK, Inv, Ended, Live, Stages, Files

\* The results of the other tags are out of reach of a step of run r.
LEMMA OtherResults ==
    ASSUME SmokeAssumption, TypeOK, Inv, NEW r \in Runs, pc[r] # "passed", OnlyTouches(r)
    PROVE  \A t \in Tags \ {TagOf[r]} : ResultOf(t)' = ResultOf(t)
  <1> TAKE t \in Tags \ {TagOf[r]}
  <1>1. summary[t] # None => summary[t] \in Runs \ {r} /\ ConfigOf[summary[t]] \in Configs
    BY SummaryPassed DEF SmokeAssumption
  <1>2. QED
    BY <1>1, KeptResult, ZenonT(30) DEF OnlyTouches

\* While run r is live it is the one active on its tag.
LEMMA LiveIsActive ==
    ASSUME SmokeAssumption, TypeOK, Inv, NEW r \in Runs, Live(r)
    PROVE  ActiveOn(TagOf[r]) = r
  BY DEF ActiveOn, Inv, Turns, SmokeAssumption

\* A step of run r alone does not change who is active on the other tags.
LEMMA OtherActive ==
    ASSUME SmokeAssumption, TypeOK, Inv, NEW r \in Runs, OnlyMoves(r)
    PROVE  \A t \in Tags \ {TagOf[r]} : ActiveOn(t)' = ActiveOn(t)
  <1> TAKE t \in Tags \ {TagOf[r]}
  <1>1. latest[t] # None => latest[t] \in Runs \ {r}
    BY DEF TypeOK, Inv, Turns
  <1>2. QED
    BY <1>1 DEF ActiveOn, OnlyMoves, Live

\* A step within a live run that keeps or spoils the result of its tag.
LEMMA WithdrawStep ==
    ASSUME SmokeAssumption, TypeOK, Inv, TypeOK', Inv',
           NEW r \in Runs, Live(r), Live(r)', OnlyMoves(r), OnlyTouches(r),
           ResultOf(TagOf[r])' \in {ResultOf(TagOf[r]), None}
    PROVE  [Results!Next]_<<res, act>>
  <1>1. TagOf[r] \in Tags
    BY DEF SmokeAssumption
  <1>2. act' = act /\ act[TagOf[r]] = r
    <2>1. ActiveOn(TagOf[r]) = r /\ ActiveOn(TagOf[r])' = r
      BY LiveIsActive DEF OnlyMoves, ActiveOn, Inv, Turns, SmokeAssumption
    <2>2. \A t \in Tags : ActiveOn(t)' = ActiveOn(t)
      BY <2>1, OtherActive
    <2>3. QED
      BY <1>1, <2>1, <2>2 DEF act
  <1>3. \A t \in Tags \ {TagOf[r]} : ResultOf(t)' = ResultOf(t)
    <2>1. pc[r] # "passed"
      BY DEF Live, Stages, Files
    <2>2. QED
      BY <2>1, OtherResults
  <1>4. CASE ResultOf(TagOf[r])' = ResultOf(TagOf[r])
    <2>1. \A t \in Tags : ResultOf(t)' = ResultOf(t)
      BY <1>3, <1>4
    <2>2. res' = res
      BY <2>1 DEF res
    <2>3. QED
      BY <1>2, <2>2
  <1>5. CASE ResultOf(TagOf[r])' = None
    <2>1. res' = [res EXCEPT ![TagOf[r]] = None]
      BY <1>1, <1>3, <1>5 DEF res
    <2>2. Results!Withdraw(r)
      BY <1>2, <2>1 DEF Results!Withdraw, res, act
    <2>3. QED
      BY <2>2 DEF Results!Next
  <1>6. QED
    BY <1>4, <1>5

\* A live run that ends without a summary.
LEMMA AbandonStep ==
    ASSUME SmokeAssumption, TypeOK, Inv, NEW r \in Runs, Live(r), ~Live(r)', OnlyMoves(r),
           UNCHANGED <<out, summary, dump, bytes>>
    PROVE  [Results!Next]_<<res, act>>
  <1>1. TagOf[r] \in Tags
    BY DEF SmokeAssumption
  <1>2. res' = res
    BY KeptResult DEF res
  <1>3. ActiveOn(TagOf[r]) = r /\ ActiveOn(TagOf[r])' = None
    BY LiveIsActive DEF OnlyMoves, ActiveOn, Inv, Turns
  <1>4. act' = [act EXCEPT ![TagOf[r]] = None]
    BY <1>1, <1>3, OtherActive DEF act
  <1>5. Results!Abandon(r)
    BY <1>1, <1>2, <1>3, <1>4 DEF Results!Abandon, res, act
  <1>6. QED
    BY <1>5 DEF Results!Next

\* Starting: nobody else is active on the tag.
LEMMA BeginStep ==
    ASSUME SmokeAssumption, SameTag \subseteq Excludes \cap Awaits, TypeOK, Inv, NEW r \in Runs, Start(r)
    PROVE  [Results!Next]_<<res, act>>
  <1>1. TagOf[r] \in Tags
    BY DEF SmokeAssumption
  <1>2. res' = res
    BY KeptResult DEF Start, wave, res
  <1>3. ActiveOn(TagOf[r]) = None
    <2>1. ASSUME latest[TagOf[r]] # None PROVE ~Live(latest[TagOf[r]])
      <3>1. latest[TagOf[r]] \in Runs /\ TagOf[latest[TagOf[r]]] = TagOf[r]
        BY <1>1, <2>1 DEF TypeOK, Inv, Turns
      <3>2. <<r, latest[TagOf[r]]>> \in Excludes
        BY <3>1 DEF SameTag
      <3>3. QED
        BY <3>1, <3>2 DEF Start, MayStart
    <2>2. QED
      BY <2>1 DEF ActiveOn
  <1>4. ActiveOn(TagOf[r])' = r
    BY <1>1 DEF Start, Goto, TypeOK, ActiveOn, Live, Stages, SmokeAssumption
  <1>5. \A t \in Tags \ {TagOf[r]} : ActiveOn(t)' = ActiveOn(t)
    <2> TAKE t \in Tags \ {TagOf[r]}
    <2>1. latest'[t] = latest[t]
      BY DEF Start, TypeOK
    <2>2. latest[t] # None => latest[t] \in Runs \ {r}
      BY DEF TypeOK, Inv, Turns
    <2>3. \A q \in Runs \ {r} : pc'[q] = pc[q]
      BY DEF Start, Goto, TypeOK
    <2>4. QED
      BY <2>1, <2>2, <2>3 DEF ActiveOn, Live
  <1>6. act' = [act EXCEPT ![TagOf[r]] = r]
    BY <1>1, <1>4, <1>5 DEF act
  <1>7. Results!Begin(r)
    BY <1>1, <1>2, <1>3, <1>6 DEF Results!Begin, res, act
  <1>8. QED
    BY <1>7 DEF Results!Next

\* Reporting: what the run has written so far is all its own.
LEMMA PublishStep ==
    ASSUME SmokeAssumption, TypeOK, Inv, TypeOK', Inv', NEW r \in Runs, Report(r)
    PROVE  [Results!Next]_<<res, act>>
  <1>1. TagOf[r] \in Tags /\ Live(r) /\ ~Live(r)' /\ pc'[r] = "passed" /\ latest' = latest
    BY DEF SmokeAssumption, Report, Goto, TypeOK, Live, Stages, Files
  <1>2. OnlyMoves(r) /\ OnlyTouches(r)
    BY DEF Report, Goto, TypeOK, OnlyMoves, OnlyTouches, wave, SmokeAssumption
  <1>3. latest'[TagOf[r]] = r
    BY <1>1 DEF Inv, Turns
  <1>4. ResultOf(TagOf[r])' = r
    BY <1>1, <1>3 DEF Inv, PassedResultsAreOwn, ResultOf, SmokeAssumption
  <1>5. ActiveOn(TagOf[r]) = r /\ ActiveOn(TagOf[r])' = None
    BY <1>1, <1>3, LiveIsActive DEF ActiveOn
  <1>6. \A t \in Tags \ {TagOf[r]} : ResultOf(t)' = ResultOf(t) /\ ActiveOn(t)' = ActiveOn(t)
    <2>1. pc[r] # "passed"
      BY DEF Report
    <2>2. QED
      BY <1>2, <2>1, OtherResults, OtherActive
  <1>7. res' = [res EXCEPT ![TagOf[r]] = r] /\ act' = [act EXCEPT ![TagOf[r]] = None]
    BY <1>1, <1>4, <1>5, <1>6 DEF res, act
  <1>8. Results!Publish(r)
    BY <1>1, <1>5, <1>7 DEF Results!Publish, res, act
  <1>9. QED
    BY <1>8 DEF Results!Next

\* A step of a live run that leaves the files and waveforms as they are.
LEMMA QuietStep ==
    ASSUME SmokeAssumption, TypeOK, Inv, TypeOK', Inv', NEW r \in Runs, Live(r), OnlyMoves(r),
           UNCHANGED <<out, summary, dump, bytes>>
    PROVE  [Results!Next]_<<res, act>>
  <1>1. CASE Live(r)'
    <2>1. ResultOf(TagOf[r])' = ResultOf(TagOf[r])
      BY KeptResult DEF SmokeAssumption
    <2>2. OnlyTouches(r)
      BY DEF OnlyTouches
    <2>3. QED
      BY <1>1, <2>1, <2>2, WithdrawStep
  <1>2. CASE ~Live(r)'
    BY <1>2, AbandonStep
  <1>3. QED
    BY <1>1, <1>2

\* rm -f takes the waveform of the old result away.
LEMMA CleanStep ==
    ASSUME SmokeAssumption, TypeOK, Inv, TypeOK', Inv', NEW r \in Runs, Clean(r)
    PROVE  [Results!Next]_<<res, act>>
  <1> DEFINE t == TagOf[r]
  <1>1. Live(r) /\ Live(r)' /\ OnlyMoves(r) /\ OnlyTouches(r) /\ t \in Tags
    BY DEF Clean, Goto, TypeOK, Live, Stages, OnlyMoves, OnlyTouches, KeyOf, SmokeAssumption
  <1>2. UNCHANGED <<summary[t], out[t], bytes>>
    BY DEF Clean
  <1>3. ASSUME summary[t] # None, ConfigOf[summary[t]] = ConfigOf[r]
        PROVE  ResultOf(t)' = None
    <2>1. summary[t] \in Runs /\ dump'[<<ConfigOf[summary[t]], t>>] = None
      BY <1>1, <1>3 DEF Clean, KeyOf, TypeOK, SmokeAssumption
    <2>2. QED
      BY <1>2, <1>3, <2>1 DEF ResultOf, DerivedFrom
  <1>4. ASSUME summary[t] # None => ConfigOf[summary[t]] # ConfigOf[r]
        PROVE  ResultOf(t)' = ResultOf(t)
    <2>1. summary[t] # None =>
             dump'[<<ConfigOf[summary[t]], t>>] = dump[<<ConfigOf[summary[t]], t>>]
      BY <1>1, <1>4 DEF Clean, KeyOf, TypeOK, SmokeAssumption
    <2>2. QED
      BY <1>1, <1>2, <2>1, KeptResult
  <1>5. QED
    BY <1>1, <1>3, <1>4, WithdrawStep

\* Truncating or rewriting a file of the tag spoils the old result.
LEMMA OpenStep ==
    ASSUME SmokeAssumption, TypeOK, Inv, TypeOK', Inv', NEW r \in Runs, OpenFile(r)
    PROVE  [Results!Next]_<<res, act>>
  <1> DEFINE t == TagOf[r]
  <1>1. Live(r) /\ Live(r)' /\ OnlyMoves(r) /\ OnlyTouches(r) /\ t \in Tags
    BY DEF OpenFile, SetOut, TypeOK, Live, Stages, OnlyMoves, OnlyTouches, wave, SmokeAssumption
  <1>2. pc[r] \in Files /\ out'[t][pc[r]] = Empty
    BY <1>1 DEF OpenFile, SetOut, TypeOK
  <1>3. \A s : out'[t] # [f \in Files |-> Data({s})]
    BY <1>2 DEF Empty, Data
  <1>4. ResultOf(t)' = None
    BY <1>3 DEF ResultOf, DerivedFrom
  <1>5. QED
    BY <1>1, <1>4, WithdrawStep

LEMMA WriteStep ==
    ASSUME SmokeAssumption, TypeOK, Inv, TypeOK', Inv', NEW r \in Runs, WriteFile(r)
    PROVE  [Results!Next]_<<res, act>>
  <1> DEFINE t == TagOf[r]
             s == summary[t]
  <1>1. pc[r] \in Files /\ pc'[r] = After[pc[r]] /\ t \in Tags
    BY DEF WriteFile, Goto, TypeOK, SmokeAssumption
  <1>2. Live(r) /\ Live(r)'
    BY <1>1 DEF Live, Stages, Files, After
  <1>3. OnlyMoves(r) /\ OnlyTouches(r)
    BY <1>1 DEF WriteFile, SetOut, Goto, TypeOK, OnlyMoves, OnlyTouches, wave, SmokeAssumption
  <1>4. out'[t][pc[r]] = Data({r})
    <2>1. pc'[r] \in Past[pc[r]]
      BY <1>1 DEF Files, After, Past
    <2>2. QED
      BY <1>1, <2>1 DEF Inv, OwnFiles
  <1>5. summary' = summary /\ (s # None => s \in Runs \ {r})
    BY <1>1, <1>2, SummaryPassed DEF WriteFile
  <1>6. s # None => out'[t] # [f \in Files |-> Data({s})]
    <2>1. s # None => Data({r}) # Data({s})
      BY <1>5 DEF Data
    <2>2. QED
      BY <1>1, <1>4, <2>1
  <1>7. ResultOf(t)' = None
    BY <1>5, <1>6 DEF ResultOf, DerivedFrom
  <1>8. QED
    BY <1>1, <1>2, <1>3, <1>7, WithdrawStep

\* A simulator, orphaned or not, opens its waveform where there was none and where a
\* result of its config has been withdrawn.
LEMMA OpenDumpKeeps ==
    ASSUME SmokeAssumption, TypeOK, Inv, NEW r \in Runs, OpenDump(r), NEW t \in Tags
    PROVE  ResultOf(t)' = ResultOf(t)
  <1> DEFINE s == summary[t]
             key == <<ConfigOf[s], t>>
  <1>1. dump[KeyOf(r)] = None /\ pc[r] \in {"simulate", "killed"}
    BY DEF OpenDump, Inv, OwnInodes, Ended, SimAlive
  <1>2. /\ dump' = [dump EXCEPT ![KeyOf(r)] = r] /\ bytes' = [bytes EXCEPT ![r] = {}]
        /\ UNCHANGED <<out, summary>>
    BY <1>1 DEF OpenDump
  <1>3. s # None => s \in Runs \ {r} /\ key \in Configs \X Tags
    BY <1>1, SummaryPassed DEF SmokeAssumption
  <1>4. CASE s # None /\ key = KeyOf(r)
    <2>1. dump[key] # s /\ dump'[key] # s
      BY <1>1, <1>2, <1>3, <1>4 DEF TypeOK
    <2>2. QED
      BY <1>2, <1>4, <2>1 DEF ResultOf, DerivedFrom
  <1>5. CASE s # None => key # KeyOf(r)
    <2>1. s # None => UNCHANGED <<dump[key], bytes[s]>>
      BY <1>2, <1>3, <1>5 DEF TypeOK
    <2>2. QED
      BY <1>2, <2>1, KeptResult
  <1>6. QED
    BY <1>4, <1>5

\* A simulator, orphaned or not, writes to no waveform that belongs to a result.
LEMMA SimulatorStep ==
    ASSUME SmokeAssumption, TypeOK, Inv, TypeOK', Inv', NEW r \in Runs,
           OpenDump(r) \/ Load(r) \/ Dump(r) \/ SimEnds(r)
    PROVE  [Results!Next]_<<res, act>>
  <1>1. pc[r] \in {"simulate", "killed"} /\ fd[r] \in {None, r}
    BY DEF OpenDump, Load, Dump, SimEnds, SimAlive, Inv, OwnInodes, Ended
  <1>2. ASSUME Load(r) \/ Dump(r) \/ SimEnds(r), NEW t \in Tags
        PROVE  ResultOf(t)' = ResultOf(t)
    <2>1. UNCHANGED <<out, summary, dump>> /\ \A q \in Runs \ {r} : bytes'[q] = bytes[q]
      BY <1>1, <1>2 DEF Load, Dump, SimEnds, wave, TypeOK
    <2>2. summary[t] # None => summary[t] \in Runs \ {r}
      BY <1>1, SummaryPassed
    <2>3. QED
      BY <2>1, <2>2, KeptResult
  <1>3. res' = res
    BY <1>2, OpenDumpKeeps DEF res
  <1>4. act' = act
    <2>1. \A q \in Runs : Live(q)' = Live(q)
      <3>1. /\ \A q \in Runs \ {r} : pc'[q] = pc[q]
            /\ pc'[r] = pc[r] \/ (pc[r] = "simulate" /\ pc'[r] = "check")
        <4>1. CASE OpenDump(r) \/ Load(r) \/ Dump(r)
          BY <4>1 DEF OpenDump, Load, Dump, shell
        <4>2. CASE SimEnds(r)
          BY <4>2 DEF SimEnds, TypeOK
        <4>3. QED
          BY <4>1, <4>2
      <3>2. QED
        BY <3>1 DEF Live, Stages
    <2>2. latest' = latest /\ \A t \in Tags : latest[t] # None => latest[t] \in Runs
      BY DEF OpenDump, Load, Dump, SimEnds, TypeOK
    <2>3. \A t \in Tags : ActiveOn(t)' = ActiveOn(t)
      BY <2>1, <2>2 DEF ActiveOn
    <2>4. QED
      BY <2>3 DEF act
  <1>5. QED
    BY <1>3, <1>4

\* The remaining steps of a live run touch no file, no waveform and no summary.
LEMMA OtherSteps ==
    ASSUME SmokeAssumption, TypeOK, NEW r \in Runs,
           \/ Compile(r) \/ Link(r) \/ SimCheck(r) \/ SimBuild(r) \/ Launch(r) \/ Check(r)
           \/ ReadDump(r) \/ ReadRegions(r) \/ ReadThermalInputs(r) \/ Verify(r)
           \/ StageFails(r) \/ Interrupt(r)
    PROVE  Live(r) /\ OnlyMoves(r) /\ UNCHANGED <<out, summary, dump, bytes>>
  <1> USE DEF Goto, TypeOK, Live, Stages, Files, OnlyMoves, wave
  <1>1. CASE Compile(r) \/ Link(r) \/ SimCheck(r) \/ SimBuild(r) \/ Launch(r)
    BY <1>1 DEF Compile, Link, SimCheck, SimBuild, Launch
  <1>2. CASE Check(r) \/ Verify(r)
    BY <1>2 DEF Check, Verify
  <1>3. CASE ReadDump(r) \/ ReadRegions(r) \/ ReadThermalInputs(r)
    BY <1>3, ReadsLocal
  <1>4. CASE StageFails(r) \/ Interrupt(r)
    BY <1>4 DEF StageFails, Fails, CanFail, Interrupt
  <1>5. QED
    BY <1>1, <1>2, <1>3, <1>4

\* Runs with one tag that take turns, and wait for an orphan to open its waveform,
\* implement the abstract specification.
THEOREM SmokeRefinement ==
    ASSUME SameTag \subseteq Excludes \cap Awaits
    PROVE  Spec => ImplementsTaggedResults
<1>1. Init => Results!Init
  BY SmokeAssumption DEF Init, Results!Init, ResultOf, ActiveOn
<1>2. TypeOK /\ Inv /\ TypeOK' /\ Inv' /\ [Next]_vars => [Results!Next]_<<res, act>>
  <2> SUFFICES ASSUME TypeOK, Inv, TypeOK', Inv', [Next]_vars
               PROVE  [Results!Next]_<<res, act>>
    OBVIOUS
  <2>1. CASE UNCHANGED vars
    <3>1. UNCHANGED <<summary, out, dump, bytes, latest, pc>>
      BY <2>1 DEF vars, shell, wave
    <3>2. res' = res
      BY <3>1, KeptResult DEF res
    <3>3. act' = act
      BY <3>1 DEF act, ActiveOn, Live
    <3>4. QED
      BY <3>2, <3>3
  <2>2. ASSUME NEW r \in Runs,
               \/ Start(r) \/ Progress(r)
               \/ OpenDump(r) \/ Load(r) \/ Dump(r) \/ SimEnds(r)
               \/ StageFails(r) \/ Interrupt(r)
        PROVE  [Results!Next]_<<res, act>>
    <3>1. CASE Start(r)
      BY <3>1, SmokeAssumption, BeginStep
    <3>2. CASE Clean(r)
      BY <3>2, SmokeAssumption, CleanStep
    <3>3. CASE OpenFile(r) \/ WriteFile(r)
      BY <3>3, SmokeAssumption, OpenStep, WriteStep
    <3>4. CASE Report(r)
      BY <3>4, SmokeAssumption, PublishStep
    <3>5. CASE OpenDump(r) \/ Load(r) \/ Dump(r) \/ SimEnds(r)
      BY <3>5, SmokeAssumption, SimulatorStep
    <3>6. CASE \/ Compile(r) \/ Link(r) \/ SimCheck(r) \/ SimBuild(r) \/ Launch(r) \/ Check(r)
               \/ ReadDump(r) \/ ReadRegions(r) \/ ReadThermalInputs(r) \/ Verify(r)
               \/ StageFails(r) \/ Interrupt(r)
      <4>1. Live(r) /\ OnlyMoves(r) /\ UNCHANGED <<out, summary, dump, bytes>>
        BY <3>6, SmokeAssumption, OtherSteps
      <4>2. QED
        BY <4>1, SmokeAssumption, QuietStep
    <3>7. QED
      BY <2>2, <3>1, <3>2, <3>3, <3>4, <3>5, <3>6 DEF Progress
  <2>3. QED
    BY <2>1, <2>2 DEF Next
<1>3. QED
  BY <1>1, <1>2, SmokeTypeCorrect, SmokeInvariant, PTL
     DEF Spec, ImplementsTaggedResults, Results!Spec, res, act
=============================================================================
