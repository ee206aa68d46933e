--------------------------- MODULE BenchmarkHarness ---------------------------
(***************************************************************************)
(* benchmark_harness.cpp: worker threads take pools off a shared counter,  *)
(* run the sequence on each and fill in one slot of the results.  A pool   *)
(* is the set of actions that have written to it.                          *)
(***************************************************************************)
EXTENDS Naturals, FiniteSets, Sequences

CONSTANTS
  Workers,      (* the threads *)
  NPools, NActions, Cadences

ASSUME HarnessAssumption ==
  /\ IsFiniteSet(Workers) /\ Workers # {}
  /\ NPools \in Nat \ {0} /\ NActions \in Nat /\ Cadences \subseteq Nat

Pools == 1 .. NPools
Actions == 1 .. NActions

VARIABLES
  readable, succeeds, sequence_ok, snapshot_every,  (* the inputs *)
  next,         (* the atomic counter of pools taken, from 0 *)
  job,          (* what each worker is doing *)
  results, output

inputVars == <<readable, succeeds, sequence_ok, snapshot_every>>
vars == <<inputVars, next, job, results, output>>

Promise == INSTANCE ParityRun

Pending == Promise!Pending
Failed == Promise!Failed

(* run_one_pool's locals, and where it is.                                 *)
Idle(at) ==
  [at |-> at, index |-> 0, done |-> 0, pool |-> {}, saved |-> {},
   success |-> TRUE, all_success |-> TRUE, states |-> <<>>]

Init ==
  /\ Promise!Inputs
  /\ next = 0
  /\ job = [w \in Workers |-> Idle("claim")]
  /\ results = [i \in Pools |-> Pending]
  /\ output = Promise!Unwritten

Becomes(w, j) == job' = [job EXCEPT ![w] = j]

ClaimOwnCount(w) ==                                (* Mutant: not shared    *)
  /\ job[w].at = "claim"
  /\ next' = next + 1
  /\ Becomes(w, IF job[w].index < NPools
                  THEN [Idle("start") EXCEPT !.index = job[w].index + 1]
                  ELSE Idle("exit"))
  /\ UNCHANGED <<inputVars, results, output>>

(* fetch_add: every worker overshoots the last pool once, and stops.       *)
Claim(w) ==
  /\ job[w].at = "claim"
  /\ next' = next + 1
  /\ Becomes(w, IF next < NPools
                  THEN [Idle("start") EXCEPT !.index = next + 1]
                  ELSE Idle("exit"))
  /\ UNCHANGED <<inputVars, results, output>>

Put(w, result) ==
  /\ results' = [results EXCEPT ![job[w].index] = result]
  /\ Becomes(w, Idle("claim"))

(* parse_pool_config and make_pool, then the sequence's own parse error.   *)
Start(w) ==
  /\ job[w].at = "start"
  /\ UNCHANGED <<inputVars, next, output>>
  /\ IF job[w].index \in readable /\ sequence_ok
       THEN /\ Becomes(w, [job[w] EXCEPT
                 !.at = "act",
                 !.states = IF snapshot_every = 0 THEN <<>>
                            ELSE <<[pool |-> {}, success |-> TRUE]>>])
            /\ UNCHANGED results
       ELSE Put(w, Failed)

(* The next action, on a snapshot of the pool.  One that throws may have   *)
(* written before it did.                                                  *)
Act(w) ==
  LET k == job[w].done + 1
  IN  /\ job[w].at = "act" /\ k <= NActions
      /\ UNCHANGED <<inputVars, next, results, output>>
      /\ \/ /\ k \in succeeds[job[w].index]
            /\ Becomes(w, [job[w] EXCEPT
                 !.at = "keep", !.done = k, !.saved = job[w].pool,
                 !.success = TRUE, !.pool = @ \cup {k}])
         \/ /\ k \notin succeeds[job[w].index]
            /\ \E written \in SUBSET {k} :
                 Becomes(w, [job[w] EXCEPT
                   !.at = "catch", !.done = k, !.saved = job[w].pool,
                   !.pool = @ \cup written])

CatchOnly(w) ==                                    (* Mutant: not restored  *)
  /\ job[w].at = "catch"
  /\ Becomes(w, [job[w] EXCEPT !.at = "keep", !.success = FALSE])
  /\ UNCHANGED <<inputVars, next, results, output>>

(* The handler restores the snapshot.                                      *)
Catch(w) ==
  /\ job[w].at = "catch"
  /\ Becomes(w, [job[w] EXCEPT
       !.at = "keep", !.success = FALSE, !.pool = job[w].saved])
  /\ UNCHANGED <<inputVars, next, results, output>>

CurrentState(j) == [pool |-> j.pool, success |-> j.success]

(* Whether the state after an action is kept.                              *)
Due(j) ==
  /\ snapshot_every # 0
  /\ \/ snapshot_every = 1
     \/ j.done % snapshot_every = 0
     \/ j.done = NActions

KeepState(w) ==
  /\ job[w].at = "keep"
  /\ Becomes(w, [job[w] EXCEPT
       !.at = "act",
       !.all_success = @ /\ job[w].success,
       !.states = IF Due(job[w]) THEN Append(@, CurrentState(job[w])) ELSE @])
  /\ UNCHANGED <<inputVars, next, results, output>>

(* With no cadence the final state is taken from the locals.               *)
Finish(w) ==
  /\ job[w].at = "act" /\ job[w].done = NActions
  /\ Put(w, [kind |-> "ran",
             success |-> job[w].all_success,
             states |-> IF snapshot_every = 0 THEN <<CurrentState(job[w])>>
                        ELSE job[w].states])
  /\ UNCHANGED <<inputVars, next, output>>

Step(w) ==
  Claim(w) \/ Start(w) \/ Act(w) \/ Catch(w) \/ KeepState(w) \/ Finish(w)

(* The main thread joins every worker and writes the results in order.     *)
Join ==
  /\ output = Promise!Unwritten
  /\ \A w \in Workers : job[w].at = "exit"
  /\ output' = results
  /\ UNCHANGED <<inputVars, next, job, results>>

Next == (\E w \in Workers : Step(w)) \/ Join

(* A thread that can run does, in the end.                                 *)
Spec ==
  /\ Init /\ [][Next]_vars
  /\ \A w \in Workers : WF_vars(Step(w))
  /\ WF_vars(Join)

-----------------------------------------------------------------------------
(* Properties.                                                             *)

(* No two workers are ever at the same pool, nor at one already reported:  *)
(* the unlocked writes to the results go to different slots.               *)
SlotsAreExclusive ==
  \A w \in Workers : job[w].at \notin {"claim", "exit"} =>
    /\ results[job[w].index] = Pending
    /\ \A v \in Workers \ {w} : job[v].index # job[w].index

(* Whatever the threads' order, the harness reports for each pool what a   *)
(* run of it alone leads to, in the order of the file, and does report it. *)
KeepsItsPromise == Promise!Spec
=============================================================================
