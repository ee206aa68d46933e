---------------------------- MODULE MCCheckpoint ----------------------------
(* A small pool of MCTwocrypto whose state is exported and resumed.        *)
EXTENDS Checkpoint, MCTwocrypto

MCCheckpointInit == MCInit /\ checkpoint = NotTaken

(* CheckpointNext with its calls counted.                                  *)
MCCheckpointNext ==
  \/ MCNext /\ UNCHANGED checkpoint
  \/ Export /\ Count
  \/ \E start_ts \in StartTimes : Resume(start_ts) /\ Count

MCCheckpointSpec ==
  MCCheckpointInit /\ [][MCCheckpointNext]_<<MCVars, checkpoint>>
=============================================================================
