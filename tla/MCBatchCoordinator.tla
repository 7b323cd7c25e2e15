------------------------- MODULE MCBatchCoordinator -------------------------
(* Small instances of BatchCoordinator for TLC. *)
EXTENDS BatchCoordinator

CONSTANTS r1, r2

\* No leg depends on another.
MC_Independent == [l \in Legs |-> {}]

\* One client calls everything but cancel, the other one cancels.
MC_Ops ==
    [r \in Requests |-> IF r = r1 THEN {"create", "execute", "prepare", "commit"} ELSE {"cancel"}]

\* One client executes, the other one cancels.
MC_ExecuteCancel ==
    [r \in Requests |-> IF r = r1 THEN {"create", "execute"} ELSE {"cancel"}]

\* A committed batch has every leg that was due, and an EXECUTED leg took effect,
\* whatever overlaps, fails or crashes (executeBatch, commitBatch, cancelBatch).
BatchIsAtomic == TypeOK /\ CommittedIsComplete /\ ExecutedTookEffect
=============================================================================
