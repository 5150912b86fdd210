------------------------------ MODULE QueueSpec ------------------------------
(***************************************************************************)
(* What the work queue promises its clients, with every operation one      *)
(* indivisible step: an item has one place, at most one item is claimed,   *)
(* and a completed item never comes back.  The file-level module           *)
(* WorkQueue implements it.                                                *)
(***************************************************************************)
CONSTANTS Items,    \* the deterministic item ids
          MayLose   \* TRUE iff a move may be cut in two by a crash

VARIABLE where

Places == {"absent", "pending", "claimed", "completed", "failed"}

TypeOK == where \in [Items -> Places]

Init == where = [i \in Items |-> "absent"]

(* The deduplication looks at pending, claimed and completed, not at failed. *)
Add(i) ==
    /\ where[i] \in {"absent", "failed"}
    /\ where' = [where EXCEPT ![i] = "pending"]

Take(i) ==
    /\ where[i] = "pending"
    /\ \A j \in Items : where[j] # "claimed"
    /\ where' = [where EXCEPT ![i] = "claimed"]

Finish(i) ==
    /\ where[i] = "claimed"
    /\ \E outcome \in {"completed", "failed"} :
          where' = [where EXCEPT ![i] = outcome]

Reclaim(i) ==
    /\ where[i] = "claimed"
    /\ where' = [where EXCEPT ![i] = "pending"]

(* A crash between the two writes of a move leaves the item in neither file; *)
(* an older failure of the same item stays on record.                        *)
Drop(i) ==
    /\ MayLose
    /\ where[i] \in {"pending", "claimed"}
    /\ \E left \in {"absent", "failed"} : where' = [where EXCEPT ![i] = left]

Next == \E i \in Items : Add(i) \/ Take(i) \/ Finish(i) \/ Reclaim(i) \/ Drop(i)

Spec == Init /\ [][Next]_where

(* The single-Director rule of work_queue.claim: one item claimed at a time. *)
OneClaimed ==
    \A i, j \in Items : where[i] = "claimed" /\ where[j] = "claimed" => i = j
=============================================================================
