------------------------------ MODULE ParityRun ------------------------------
(***************************************************************************)
(* What the benchmark harness promises of one action sequence run on many  *)
(* pools: each pool is reported once, with the states it would go through  *)
(* if it ran alone and every failed action had never been tried.           *)
(***************************************************************************)
EXTENDS Naturals

CONSTANTS
  NPools,       (* pool configurations in the pools file *)
  NActions,     (* actions of the sequence *)
  Cadences      (* values of SNAPSHOT_EVERY to try; 0 keeps the last only *)

Pools == 1 .. NPools
Actions == 1 .. NActions

VARIABLES
  readable,         (* pools whose configuration parses and can be built *)
  succeeds,         (* the actions that succeed on each pool *)
  sequence_ok,      (* the sequence has no parse_error *)
  snapshot_every,
  results,          (* one slot per pool, in the order of the pools file *)
  output            (* the results as written, or Unwritten *)

inputVars == <<readable, succeeds, sequence_ok, snapshot_every>>
vars == <<inputVars, results, output>>

Pending == [kind |-> "pending"]
Failed == [kind |-> "failed"]
Unwritten == <<>>

Least(a, b) == IF a <= b THEN a ELSE b

(* A pool is as its successful actions left it.                            *)
StateAfter(i, k) ==
  [pool |-> succeeds[i] \cap 1 .. k,
   success |-> k = 0 \/ k \in succeeds[i]]

(* The actions after which the state is kept: the last alone, or none,     *)
(* every n-th and the last.                                                *)
Kept ==
  IF snapshot_every = 0 THEN <<NActions>>
  ELSE [n \in 1 .. (NActions + snapshot_every - 1) \div snapshot_every + 1 |->
          Least((n - 1) * snapshot_every, NActions)]

Outcome(i) ==
  IF i \in readable /\ sequence_ok
    THEN [kind |-> "ran",
          success |-> succeeds[i] = Actions,
          states |-> [n \in DOMAIN Kept |-> StateAfter(i, Kept[n])]]
    ELSE Failed

Inputs ==
  /\ readable \in SUBSET Pools
  /\ succeeds \in [Pools -> SUBSET Actions]
  /\ \A i \in Pools \ readable : succeeds[i] = {}
  /\ sequence_ok \in BOOLEAN
  /\ snapshot_every \in Cadences

Init ==
  /\ Inputs
  /\ results = [i \in Pools |-> Pending]
  /\ output = Unwritten

Report(i) ==
  /\ results[i] = Pending
  /\ results' = [results EXCEPT ![i] = Outcome(i)]
  /\ UNCHANGED <<inputVars, output>>

Write ==
  /\ output = Unwritten
  /\ \A i \in Pools : results[i] # Pending
  /\ output' = results
  /\ UNCHANGED <<inputVars, results>>

Next == (\E i \in Pools : Report(i)) \/ Write

Safety == Init /\ [][Next]_vars
Spec == Safety /\ WF_vars(Next)
=============================================================================
