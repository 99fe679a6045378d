---------------------------- MODULE TaggedResults ----------------------------
(***************************************************************************)
(* What the smoke flow promises its user, one tag at a time: the results    *)
(* under a tag can be trusted as a whole or not at all.                     *)
(*                                                                          *)
(* One run at a time is active on a tag.  The result of a tag is the run    *)
(* whose simulation every artefact of the tag comes from and which the      *)
(* summary names, or None.  An active run first withdraws the result it     *)
(* replaces and publishes its own in a single, last step; a run that is     *)
(* abandoned publishes nothing.                                             *)
(***************************************************************************)
CONSTANTS Runs, Tags, TagOf, None

VARIABLES
    result,  \* per tag: the run its artefacts and its summary agree on
    active   \* per tag: the run that is under way

Init ==
    /\ result = [t \in Tags |-> None]
    /\ active = [t \in Tags |-> None]

Begin(r) ==
    /\ active[TagOf[r]] = None
    /\ active' = [active EXCEPT ![TagOf[r]] = r]
    /\ UNCHANGED result

Withdraw(r) ==
    /\ active[TagOf[r]] = r
    /\ result' = [result EXCEPT ![TagOf[r]] = None]
    /\ UNCHANGED active

Publish(r) ==
    /\ active[TagOf[r]] = r
    /\ result' = [result EXCEPT ![TagOf[r]] = r]
    /\ active' = [active EXCEPT ![TagOf[r]] = None]

Abandon(r) ==
    /\ active[TagOf[r]] = r
    /\ active' = [active EXCEPT ![TagOf[r]] = None]
    /\ UNCHANGED result

Next == \E r \in Runs : Begin(r) \/ Withdraw(r) \/ Publish(r) \/ Abandon(r)

Spec == Init /\ [][Next]_<<result, active>>
=============================================================================
