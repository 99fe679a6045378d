---------------------------- MODULE HotspotExport ----------------------------
(***************************************************************************)
(* scripts/export_smoke_hotspot_inputs.py: the bucket table becomes a       *)
(* floorplan and a power trace, which HotSpot reads together.               *)
(*                                                                          *)
(* The table is written again by later extractions, with other buckets and  *)
(* other activities, and one may be cut off while it is read.  Lengths are  *)
(* nanometres and powers microwatts, the last digits of %.9f and %.6f.      *)
(***************************************************************************)
EXTENDS SequencesExt, Integers, Orders

CONSTANTS
    Names,          \* bucket names, in alphabetical order (sequence)
    Tables,         \* bucket tables: sequences of rows [region, activity]
    ActivityUnit,   \* how many parts make an avg_normalized_activity of 1
    ChipSize,       \* 4 mm
    BasePower,      \* --base-power
    DynamicScale,   \* --dynamic-scale
    Missing         \* the activity of a row that is cut off before it

\* A table has at most one row for a bucket, in any order, and only its last row
\* may be cut off.
ASSUME ExportAssumption ==
    /\ ActivityUnit \in Nat \ {0} /\ ChipSize \in Nat
    /\ BasePower \in Nat /\ DynamicScale \in Nat
    /\ Names \in Seq(Range(Names))
    /\ Tables \subseteq Seq([region : Range(Names), activity : 0..ActivityUnit \cup {Missing}])
    /\ \A t \in Tables : \A i, j \in DOMAIN t :
        /\ t[i].region = t[j].region => i = j
        /\ t[i].activity = Missing => i = Len(t)

VARIABLES
    table,      \* the bucket table
    pc,         \* where the script is
    rows,       \* the rows it has read, sorted
    floorplan,  \* the floorplan file: a sequence of [name, width, left]
    ptrace      \* the power trace file: [names, powers]

vars == <<table, pc, rows, floorplan, ptrace>>

\* The place of a bucket in the alphabet.
Rank(name) == CHOOSE i \in DOMAIN Names : Names[i] = name

\* Fault: the rows are used in the order of the table.
AsRead(t) == t

\* rows.sort(key=region)
Sorted(t) ==
    LET before == {p \in (DOMAIN t) \X (DOMAIN t) : Rank(t[p[1]].region) < Rank(t[p[2]].region)}
        place == Ordered(DOMAIN t, before)
    IN [k \in DOMAIN t |-> t[place[k]]]

\* A quotient rounded to the nearest whole number, as the decimal formats do.
Rounded(n, d) == (2 * n + d) \div (2 * d)

\* Fault: every stripe starts at a multiple of the printed width.
StripesOfPrintedWidth(rs) ==
    LET w == Rounded(ChipSize, Len(rs))
    IN [i \in DOMAIN rs |-> [name |-> rs[i].region, width |-> w, left |-> (i - 1) * w]]

Stripes(rs) ==
    [i \in DOMAIN rs |-> [name  |-> rs[i].region,
                          width |-> Rounded(ChipSize, Len(rs)),
                          left  |-> Rounded((i - 1) * ChipSize, Len(rs))]]

Power(activity) == Rounded(BasePower * ActivityUnit + DynamicScale * activity, ActivityUnit)

Init ==
    /\ table = <<>>
    /\ pc = "idle"
    /\ rows = <<>>
    /\ floorplan = <<>>
    /\ ptrace = [names |-> <<>>, powers |-> <<>>]

\* A later extraction replaces the table between two exports.
NewTable(t) ==
    /\ pc \in {"idle", "done", "failed"}
    /\ table' = t
    /\ pc' = "start"
    /\ UNCHANGED <<rows, floorplan, ptrace>>

\* read_regions, and the exit when there is nothing in the table.
ReadRegions ==
    /\ pc = "start"
    /\ rows' = Sorted(table)
    /\ pc' = IF table = <<>> THEN "failed" ELSE "floorplan"
    /\ UNCHANGED <<table, floorplan, ptrace>>

WriteFloorplan ==
    /\ pc = "floorplan"
    /\ floorplan' = Stripes(rows)
    /\ pc' = "powers"
    /\ UNCHANGED <<table, rows, ptrace>>

\* Fault: the rows that have no activity are left out of the power trace.
PowersOfWholeRows ==
    /\ pc = "powers"
    /\ LET whole == SelectSeq(rows, LAMBDA r : r.activity # Missing)
       IN ptrace' = [names  |-> [i \in DOMAIN whole |-> whole[i].region],
                     powers |-> [i \in DOMAIN whole |-> Power(whole[i].activity)]]
    /\ pc' = "done"
    /\ UNCHANGED <<table, rows, floorplan>>

\* Fault: the powers are computed from the table as it was read.
PowersInTableOrder ==
    /\ pc = "powers"
    /\ IF \E i \in DOMAIN rows : rows[i].activity = Missing
       THEN pc' = "failed" /\ UNCHANGED ptrace
       ELSE /\ pc' = "done"
            /\ ptrace' = [names  |-> [i \in DOMAIN rows |-> rows[i].region],
                          powers |-> [i \in DOMAIN rows |-> Power(table[i].activity)]]
    /\ UNCHANGED <<table, rows, floorplan>>

\* float() of every activity, then the power trace in one go; a row without an
\* activity ends the script before it has opened the file.
WritePowers ==
    /\ pc = "powers"
    /\ IF \E i \in DOMAIN rows : rows[i].activity = Missing
       THEN pc' = "failed" /\ UNCHANGED ptrace
       ELSE /\ pc' = "done"
            /\ ptrace' = [names  |-> [i \in DOMAIN rows |-> rows[i].region],
                          powers |-> [i \in DOMAIN rows |-> Power(rows[i].activity)]]
    /\ UNCHANGED <<table, rows, floorplan>>

Next ==
    \/ \E t \in Tables : NewTable(t)
    \/ ReadRegions
    \/ WriteFloorplan
    \/ WritePowers

Spec == Init /\ [][Next]_vars
-----------------------------------------------------------------------------
(* Properties.                                                              *)

\* After a successful export the two files are of one table: the power trace has
\* a column for every block of the floorplan, in the same order, whatever the
\* earlier table had and whatever order the rows came in.
ColumnsMatchBlocks ==
    pc = "done" =>
        /\ Len(ptrace.names) = Len(floorplan) /\ Len(ptrace.powers) = Len(floorplan)
        /\ \A i \in DOMAIN floorplan : ptrace.names[i] = floorplan[i].name

\* Two exports of the same buckets have the same columns, so that workloads can be
\* compared column by column: the order of the rows in the table does not matter.
ColumnsAreCanonical ==
    pc = "done" =>
        \A i, j \in DOMAIN ptrace.names : i < j => Rank(ptrace.names[i]) < Rank(ptrace.names[j])

\* The stripes cover the chip from edge to edge: a stripe ends where the next one
\* begins, and the last one at the chip's edge, within the last printed digit.
StripesMeet ==
    LET Right(i) == floorplan[i].left + floorplan[i].width
        Edge(i) == IF i = Len(floorplan) THEN ChipSize ELSE floorplan[i + 1].left
    IN \A i \in DOMAIN floorplan : Right(i) - Edge(i) \in -1..1

\* A bucket never gets less power than one with less activity, and each is
\* between the base power and the power of a bucket that always toggles.
PowerFollowsActivity ==
    pc = "done" =>
        \A i \in DOMAIN rows :
            /\ ptrace.powers[i] \in BasePower..(BasePower + DynamicScale)
            /\ \A j \in DOMAIN rows :
                rows[i].activity < rows[j].activity => ptrace.powers[i] <= ptrace.powers[j]
=============================================================================
