----------------------------- MODULE MCSmokeFlow -----------------------------
(* Instances of SmokeFlow for TLC: three runs, and who shares a name with whom. *)
EXTENDS SmokeFlow

CONSTANTS r1, r2, r3, a, b, c1, c2

ThreeRuns == {r1, r2, r3}
MCTags    == {a, b}
MCConfigs == {c1, c2}

\* r1 and r2 are reruns; r3 uses their tag with another config.
OneTag      == [r \in ThreeRuns |-> a]
TwoConfigs  == [r \in ThreeRuns |-> IF r = r3 THEN c2 ELSE c1]

\* r1 and r3 are reruns; r2 uses their config with another tag.
TwoTags     == [r \in ThreeRuns |-> IF r = r2 THEN b ELSE a]
OneConfig   == [r \in ThreeRuns |-> c1]

\* What the operator keeps apart and waits for.
ByTag    == SameTag
NoPairs  == {}
=============================================================================
