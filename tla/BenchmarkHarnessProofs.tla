----------------------- MODULE BenchmarkHarnessProofs -----------------------
(***************************************************************************)
(* The harness for any number of threads, pools and actions: no two        *)
(* workers share a slot, and what is written is what a run of each pool    *)
(* alone would give (BenchmarkHarness implements ParityRun).               *)
(***************************************************************************)
EXTENDS BenchmarkHarness, PoolArithmetic, SequenceTheorems

State == [pool : SUBSET Actions, success : BOOLEAN]

Job ==
  [at : {"claim", "start", "act", "catch", "keep", "exit"},
   index : 0 .. NPools, done : 0 .. NActions,
   pool : SUBSET Actions, saved : SUBSET Actions,
   success : BOOLEAN, all_success : BOOLEAN, states : Seq(State)]

AtWork(j) == j.at \notin {"claim", "exit"}

InputsTyped ==
  /\ succeeds \in [Pools -> SUBSET Actions]
  /\ snapshot_every \in Nat

(* How many states are kept once k actions are through, and which.         *)
Count(k) ==
  IF k = NActions THEN (NActions + snapshot_every - 1) \div snapshot_every + 1
  ELSE k \div snapshot_every + 1

StatesAfter(i, k) ==
  IF snapshot_every = 0 THEN <<>>
  ELSE [n \in 1 .. Count(k) |->
          Promise!StateAfter(i, Promise!Least((n - 1) * snapshot_every,
                                              NActions))]

Succeeded(i, k) == succeeds[i] \cap 1 .. k

(* j has been through k actions as if each failure had never been tried.   *)
StandsAfter(j, k) ==
  /\ j.pool = Succeeded(j.index, k)
  /\ j.success <=> k = 0 \/ k \in succeeds[j.index]

RecordedTo(j, k) ==
  /\ j.all_success <=> Succeeded(j.index, k) = 1 .. k
  /\ j.states = StatesAfter(j.index, k)

Parsed(j) == j.index \in readable /\ sequence_ok

(* The job of a worker, wherever it is.                                    *)
RunsAlone(j) ==
  /\ AtWork(j) => j.index \in Pools
  /\ j.at = "start" =>
       j.done = 0 /\ j.pool = {} /\ j.success = TRUE /\ j.all_success = TRUE
  /\ j.at = "act" =>
       Parsed(j) /\ StandsAfter(j, j.done) /\ RecordedTo(j, j.done)
  /\ j.at = "keep" =>
       /\ Parsed(j) /\ j.done # 0
       /\ StandsAfter(j, j.done) /\ RecordedTo(j, j.done - 1)
  /\ j.at = "catch" =>
       /\ Parsed(j) /\ j.done # 0 /\ j.done \notin succeeds[j.index]
       /\ j.saved = Succeeded(j.index, j.done)
       /\ RecordedTo(j, j.done - 1)

(* Every pool taken is either some worker's, and pending, or reported.     *)
Taken ==
  /\ next \in Nat
  /\ \A w \in Workers : AtWork(job[w]) => job[w].index <= next
  /\ \A w, v \in Workers :
       AtWork(job[w]) /\ AtWork(job[v]) /\ job[w].index = job[v].index => w = v
  /\ \A w \in Workers : AtWork(job[w]) => results[job[w].index] = Pending
  /\ \A w \in Workers : ~AtWork(job[w]) => job[w].index = 0
  /\ \A w \in Workers : job[w].at = "exit" => next >= NPools

Reported ==
  /\ DOMAIN results = Pools
  /\ \A i \in Pools : next < i => results[i] = Pending
  /\ \A i \in Pools :
       \/ next < i
       \/ \E w \in Workers : AtWork(job[w]) /\ job[w].index = i
       \/ results[i] = Promise!Outcome(i)

Inv ==
  /\ InputsTyped
  /\ job \in [Workers -> Job]
  /\ \A w \in Workers : RunsAlone(job[w])
  /\ Taken
  /\ Reported

-----------------------------------------------------------------------------
(* Which states are kept.                                                  *)

(* The quotient is the number that satisfies its two inequalities.         *)
LEMMA Quotient ==
  ASSUME NEW a \in Nat, NEW c \in Nat \ {0}, NEW q \in Nat,
         q * c <= a, a < (q + 1) * c
  PROVE  a \div c = q
<1>1. q <= a \div c
  BY DivAtLeast
<1>2. a \div c < q + 1
  BY DivBelow
<1>3. a \div c \in Nat
  BY DivNat
<1> QED BY <1>1, <1>2, <1>3

(* An action moves the count by one when its state is due, else not, and   *)
(* a state that is due is the one its place in the sequence calls for.     *)
LEMMA CountMoves ==
  ASSUME NEW k \in 1 .. NActions, snapshot_every \in Nat \ {0}
  PROVE  /\ Count(k - 1) \in Nat /\ Count(k) \in Nat
         /\ (k % snapshot_every = 0 \/ k = NActions) =>
              /\ Count(k) = Count(k - 1) + 1
              /\ Promise!Least(Count(k - 1) * snapshot_every, NActions) = k
         /\ ~(k % snapshot_every = 0 \/ k = NActions) =>
              Count(k) = Count(k - 1)
<1> DEFINE c == snapshot_every
           q == (k - 1) \div c
<1>0. NActions \in Nat /\ k \in Nat \ {0} /\ k <= NActions /\ c \in Nat \ {0}
      /\ k - 1 \in Nat
  BY HarnessAssumption
<1>1. q \in Nat /\ c * q <= k - 1 /\ k - 1 < c * q + c
  BY <1>0, DivNat
<1>2. Count(k - 1) = q + 1
  BY <1>0 DEF Count
<1>3. k % c = k - c * (k \div c) /\ k % c \in 0 .. c - 1 /\ k \div c \in Nat
  BY <1>0
<1> HIDE DEF q, c
<1>4. (q + 1) * c = c * q + c /\ q * c = c * q /\ (q + 2) * c = c * q + 2 * c
      /\ c * q \in Nat
  BY <1>0, <1>1
<1>5. CASE k = c * q + c
  <2>1. k \div c = q + 1
    BY <1>0, <1>1, <1>4, <1>5, Quotient
  <2>2. (k + c - 1) \div c = q + 1
    BY <1>0, <1>1, <1>4, <1>5, Quotient
  <2>3. k % c = 0
    BY <1>0, <1>1, <1>3, <1>4, <1>5, <2>1
  <2>4. Count(k) = q + 2
    BY <1>0, <1>1, <2>1, <2>2 DEF Count, c
  <2>5. Promise!Least((q + 1) * c, NActions) = k
    BY <1>0, <1>1, <1>4, <1>5 DEF Promise!Least
  <2> QED BY <1>1, <1>2, <2>3, <2>4, <2>5 DEF c
<1>6. CASE k < c * q + c
  <2>1. k \div c = q
    BY <1>0, <1>1, <1>4, <1>6, Quotient
  <2>2. (k + c - 1) \div c = q + 1
    BY <1>0, <1>1, <1>4, <1>6, Quotient
  <2>3. k % c # 0
    BY <1>0, <1>1, <1>3, <1>4, <1>6, <2>1
  <2>4. Count(k) = IF k = NActions THEN q + 2 ELSE q + 1
    BY <1>0, <1>1, <2>1, <2>2 DEF Count, c
  <2>5. k = NActions => Promise!Least((q + 1) * c, NActions) = k
    BY <1>0, <1>1, <1>4, <1>6 DEF Promise!Least
  <2> QED BY <1>1, <1>2, <2>3, <2>4, <2>5 DEF c
<1> QED BY <1>0, <1>1, <1>4, <1>5, <1>6

LEMMA StateAfterTyped ==
  ASSUME InputsTyped, NEW i \in Pools, NEW k \in 0 .. NActions
  PROVE  Promise!StateAfter(i, k) \in State
<1>1. succeeds[i] \subseteq Actions
  BY DEF InputsTyped
<1>2. succeeds[i] \cap 1 .. k \in SUBSET Actions
  BY <1>1
<1>3. (k = 0 \/ k \in succeeds[i]) \in BOOLEAN
  OBVIOUS
<1> QED BY <1>2, <1>3 DEF Promise!StateAfter, State

LEMMA StatesTyped ==
  ASSUME InputsTyped, NEW i \in Pools, NEW k \in 0 .. NActions
  PROVE  StatesAfter(i, k) \in Seq(State)
<1>1. CASE snapshot_every = 0
  BY <1>1, EmptySeq DEF StatesAfter
<1>2. CASE snapshot_every # 0
  <2> DEFINE c == snapshot_every
             place(n) == Promise!Least((n - 1) * c, NActions)
  <2>0. c \in Nat \ {0} /\ NActions \in Nat
    BY <1>2, HarnessAssumption DEF InputsTyped
  <2>1. Count(k) \in Nat
    <3>1. (NActions + c - 1) \div c \in Nat /\ k \div c \in Nat
      BY <2>0, DivNat
    <3> QED BY <3>1 DEF Count
  <2>2. \A n \in 1 .. Count(k) : Promise!StateAfter(i, place(n)) \in State
    <3> TAKE n \in 1 .. Count(k)
    <3>1. (n - 1) * c \in Nat
      BY <2>0, <2>1, MulNat
    <3>2. place(n) \in 0 .. NActions
      BY <2>0, <3>1 DEF Promise!Least
    <3> QED BY <3>2, StateAfterTyped
  <2> HIDE DEF place, c
  <2>3. [n \in 1 .. Count(k) |-> Promise!StateAfter(i, place(n))] \in Seq(State)
    BY <2>1, <2>2
  <2> QED BY <1>2, <2>3 DEF StatesAfter, place, c
<1> QED BY <1>1, <1>2

(* KeepState appends the state after the action when it is due.            *)
LEMMA StatesMove ==
  ASSUME InputsTyped, NEW i \in Pools, NEW j \in Job,
         j.done \in 1 .. NActions
  PROVE  StatesAfter(i, j.done)
           = IF Due(j) THEN Append(StatesAfter(i, j.done - 1),
                                   Promise!StateAfter(i, j.done))
             ELSE StatesAfter(i, j.done - 1)
<1> DEFINE k == j.done
           c == snapshot_every
           old == StatesAfter(i, k - 1)
           state == Promise!StateAfter(i, k)
<1>0. k \in 1 .. NActions /\ NActions \in Nat /\ k - 1 \in 0 .. NActions
  BY HarnessAssumption
<1>1. CASE c = 0
  BY <1>1 DEF StatesAfter, Due
<1>2. CASE c # 0
  <2>0. c \in Nat \ {0}
    BY <1>2 DEF InputsTyped
  <2>1. /\ Count(k - 1) \in Nat /\ Count(k) \in Nat
        /\ (k % c = 0 \/ k = NActions) =>
             /\ Count(k) = Count(k - 1) + 1
             /\ Promise!Least(Count(k - 1) * c, NActions) = k
        /\ ~(k % c = 0 \/ k = NActions) => Count(k) = Count(k - 1)
    BY <1>0, <2>0, CountMoves
  <2>2. Due(j) <=> k % c = 0 \/ k = NActions
    BY <1>0, <2>0 DEF Due
  <2>3. old = [n \in 1 .. Count(k - 1) |->
                 Promise!StateAfter(i, Promise!Least((n - 1) * c, NActions))]
    BY <1>2 DEF StatesAfter
  <2>4. StatesAfter(i, k)
          = [n \in 1 .. Count(k) |->
               Promise!StateAfter(i, Promise!Least((n - 1) * c, NActions))]
    BY <1>2 DEF StatesAfter
  <2>5. CASE ~Due(j)
    BY <2>1, <2>2, <2>3, <2>4, <2>5
  <2>6. CASE Due(j)
    <3> DEFINE new == StatesAfter(i, k)
    <3>1. old \in Seq(State) /\ state \in State /\ new \in Seq(State)
      BY <1>0, StatesTyped, StateAfterTyped
    <3>2. Len(old) = Count(k - 1) /\ Len(new) = Count(k - 1) + 1
      BY <2>1, <2>2, <2>3, <2>4, <2>6, <3>1
    <3>3. Append(old, state) \in Seq(State)
          /\ Len(Append(old, state)) = Count(k - 1) + 1
      BY <3>1, <3>2
    <3>4. ASSUME NEW n \in 1 .. Count(k - 1) + 1
          PROVE  new[n] = Append(old, state)[n]
      <4>1. new[n] = Promise!StateAfter(i, Promise!Least((n - 1) * c, NActions))
        BY <2>1, <2>2, <2>4, <2>6
      <4>2. CASE n = Count(k - 1) + 1
        <5>1. n - 1 = Count(k - 1)
          BY <2>1, <4>2
        <5>2. new[n] = state
          BY <2>1, <2>2, <2>6, <4>1, <5>1
        <5>3. Append(old, state)[n] = state
          BY <3>1, <3>2, <4>2
        <5> QED BY <5>2, <5>3
      <4>3. CASE n \in 1 .. Count(k - 1)
        <5>1. old[n] = new[n]
          BY <2>3, <4>1, <4>3
        <5>2. Append(old, state)[n] = old[n]
          BY <3>1, <3>2, <4>3
        <5> QED BY <5>1, <5>2
      <4>4. n = Count(k - 1) + 1 \/ n \in 1 .. Count(k - 1)
        BY <2>1
      <4> QED BY <4>2, <4>3, <4>4
    <3> HIDE DEF old, new, state
    <3>5. new = Append(old, state)
      BY <2>1, <3>1, <3>2, <3>3, <3>4, SeqEqual
    <3> QED BY <2>6, <3>5 DEF old, new, state
  <2> QED BY <2>5, <2>6
<1> QED BY <1>1, <1>2

(* Before the first action the state is kept if there is a cadence.        *)
LEMMA StatesStart ==
  ASSUME InputsTyped, NEW i \in Pools
  PROVE  StatesAfter(i, 0) = IF snapshot_every = 0 THEN <<>>
                             ELSE <<[pool |-> {}, success |-> TRUE]>>
<1>1. CASE snapshot_every = 0
  BY <1>1 DEF StatesAfter
<1>2. CASE snapshot_every # 0
  <2> DEFINE c == snapshot_every
  <2>0. c \in Nat \ {0} /\ NActions \in Nat
    BY <1>2, HarnessAssumption DEF InputsTyped
  <2>1. (c - 1) \div c = 0 /\ 0 \div c = 0
    BY <2>0, Quotient
  <2>2. Count(0) = 1
    BY <2>0, <2>1 DEF Count
  <2>3. Promise!Least(0 * c, NActions) = 0
    BY <2>0 DEF Promise!Least
  <2>4. Promise!StateAfter(i, 0) = [pool |-> {}, success |-> TRUE]
    <3>1. succeeds[i] \cap 1 .. 0 = {}
      OBVIOUS
    <3>2. (0 = 0 \/ 0 \in succeeds[i]) = TRUE
      OBVIOUS
    <3> QED BY <3>1, <3>2 DEF Promise!StateAfter
  <2>5. StatesAfter(i, 0)
          = [n \in 1 .. 1 |->
               Promise!StateAfter(i, Promise!Least((n - 1) * c, NActions))]
    BY <1>2, <2>2 DEF StatesAfter
  <2>6. \A n \in 1 .. 1 :
          Promise!StateAfter(i, Promise!Least((n - 1) * c, NActions))
            = [pool |-> {}, success |-> TRUE]
    <3> TAKE n \in 1 .. 1
    <3>1. n - 1 = 0
      OBVIOUS
    <3> QED BY <2>3, <2>4, <3>1
  <2>7. StatesAfter(i, 0) = [n \in 1 .. 1 |-> [pool |-> {}, success |-> TRUE]]
    BY <2>5, <2>6
  <2> QED BY <1>2, <2>7
<1> QED BY <1>1, <1>2

(* After the last one the states are those of a run alone.                 *)
LEMMA StatesEnd ==
  ASSUME InputsTyped, NEW i \in Pools
  PROVE  [n \in DOMAIN Promise!Kept |->
            Promise!StateAfter(i, Promise!Kept[n])]
           = IF snapshot_every = 0 THEN <<Promise!StateAfter(i, NActions)>>
             ELSE StatesAfter(i, NActions)
<1>1. CASE snapshot_every = 0
  BY <1>1 DEF Promise!Kept
<1>2. CASE snapshot_every # 0
  <2> DEFINE c == snapshot_every
  <2>1. Promise!Kept = [n \in 1 .. Count(NActions) |->
                          Promise!Least((n - 1) * c, NActions)]
    BY <1>2 DEF Promise!Kept, Count
  <2> QED BY <1>2, <2>1 DEF StatesAfter
<1> QED BY <1>1, <1>2

-----------------------------------------------------------------------------
(* Steps.                                                                  *)

LEMMA SameInputsSameRun ==
  ASSUME UNCHANGED inputVars, NEW j
  PROVE  /\ RunsAlone(j)' <=> RunsAlone(j)
         /\ \A i : Promise!Outcome(i)' = Promise!Outcome(i)
<1>1. ASSUME NEW i, NEW k PROVE StatesAfter(i, k)' = StatesAfter(i, k)
  BY DEF inputVars, StatesAfter, Count, Promise!StateAfter
<1>2. RunsAlone(j)' <=> RunsAlone(j)
  BY <1>1 DEF inputVars, RunsAlone, Parsed, StandsAfter, RecordedTo, Succeeded
<1>3. ASSUME NEW i PROVE Promise!Outcome(i)' = Promise!Outcome(i)
  BY DEF inputVars, Promise!Outcome, Promise!Kept, Promise!StateAfter
<1> QED BY <1>2, <1>3

(* A step that goes on with the same pool.                                 *)
LEMMA GoesOn ==
  ASSUME Inv, NEW w \in Workers, NEW j \in Job, Becomes(w, j),
         AtWork(job[w]), AtWork(j), j.index = job[w].index, RunsAlone(j),
         UNCHANGED <<inputVars, next, results>>
  PROVE  Inv'
<1>1. job' \in [Workers -> Job]
  BY DEF Inv, Becomes
<1>2. job'[w] = j /\ \A v \in Workers \ {w} : job'[v] = job[v]
  BY DEF Inv, Becomes
<1>3. \A v \in Workers : RunsAlone(job[v])'
  <2> TAKE v \in Workers
  <2>1. RunsAlone(job'[v])
    BY <1>2 DEF Inv
  <2> QED BY <2>1, SameInputsSameRun
<1>4. \A v \in Workers :
        AtWork(job'[v]) = AtWork(job[v]) /\ job'[v].index = job[v].index
  BY <1>2 DEF AtWork
<1>5. Taken'
  <2>1. \A v \in Workers : job'[v].at = "exit" => job[v].at = "exit"
    BY <1>2 DEF AtWork
  <2> QED BY <1>4, <2>1 DEF Inv, Taken, AtWork, Pending, Promise!Pending
<1>6. Reported'
  <2>1. \A k : Promise!Outcome(k)' = Promise!Outcome(k)
    BY SameInputsSameRun
  <2> QED BY <1>4, <2>1 DEF Inv, Reported, AtWork, Pending, Promise!Pending
<1> QED BY <1>1, <1>3, <1>5, <1>6 DEF Inv, InputsTyped, inputVars

(* The pool is reported as it would run alone, and the worker is free.     *)
LEMMA PutSound ==
  ASSUME Inv, NEW w \in Workers, NEW i, i = job[w].index, AtWork(job[w]),
         Put(w, Promise!Outcome(i)), UNCHANGED <<inputVars, next, output>>
  PROVE  Inv' /\ Promise!Report(i)
<1>1. i \in Pools /\ results[i] = Pending /\ i <= next /\ i \in Nat
  BY DEF Inv, RunsAlone, Taken, Pools
<1>2. results' = [results EXCEPT ![i] = Promise!Outcome(i)]
      /\ job' = [job EXCEPT ![w] = Idle("claim")]
  BY DEF Put, Becomes
<1>3. Promise!Report(i)
  BY <1>1, <1>2
     DEF Promise!Report, Pending, Promise!inputVars, inputVars
<1>4. Idle("claim") \in Job /\ ~AtWork(Idle("claim")) /\ RunsAlone(Idle("claim"))
      /\ Idle("claim").index = 0 /\ Idle("claim").at = "claim"
  BY HarnessAssumption, EmptySeq DEF Idle, Job, AtWork, RunsAlone
<1> DEFINE free == Idle("claim")
<1> HIDE DEF free
<1>5. job' \in [Workers -> Job] /\ job'[w] = free
      /\ \A v \in Workers \ {w} : job'[v] = job[v]
  BY <1>2, <1>4 DEF Inv, free
<1>6. \A v \in Workers : RunsAlone(job[v])'
  <2> TAKE v \in Workers
  <2>1. RunsAlone(job'[v])
    BY <1>4, <1>5 DEF Inv, free
  <2> QED BY <2>1, SameInputsSameRun
<1>7. \A v \in Workers : AtWork(job'[v]) => v # w /\ job'[v] = job[v]
  BY <1>4, <1>5 DEF free
<1>8. /\ DOMAIN results' = Pools
      /\ \A k \in Pools :
           results'[k] = IF k = i THEN Promise!Outcome(i) ELSE results[k]
  BY <1>1, <1>2 DEF Inv, Reported
<1>9. Taken'
  <2>1. \A v \in Workers : AtWork(job'[v]) =>
          results'[job'[v].index] = Pending
    <3> TAKE v \in Workers
    <3> HAVE AtWork(job'[v])
    <3>1. job'[v] = job[v] /\ v # w /\ AtWork(job[v])
      BY <1>7
    <3>2. job[v].index # i /\ job[v].index \in Pools
      BY <3>1 DEF Inv, Taken, RunsAlone
    <3> QED BY <1>8, <3>1, <3>2 DEF Inv, Taken
  <2>2. \A v \in Workers : ~AtWork(job'[v]) => job'[v].index = 0
    BY <1>4, <1>5 DEF free, Inv, Taken
  <2>3. \A v \in Workers : job'[v].at = "exit" => next >= NPools
    BY <1>4, <1>5 DEF free, Inv, Taken
  <2>4. next' = next
    OBVIOUS
  <2>5. \A u, v \in Workers :
          AtWork(job'[u]) /\ AtWork(job'[v]) /\ job'[u].index = job'[v].index
            => u = v
    BY <1>7 DEF Inv, Taken
  <2>6. \A v \in Workers : AtWork(job'[v]) => job'[v].index <= next
    BY <1>7 DEF Inv, Taken
  <2> QED BY <2>1, <2>2, <2>3, <2>4, <2>5, <2>6
          DEF Inv, Taken, AtWork, Pending, Promise!Pending
<1>10. Reported'
  <2>1. ASSUME NEW k \in Pools
        PROVE  \/ next < k
               \/ \E v \in Workers : AtWork(job'[v]) /\ job'[v].index = k
               \/ results'[k] = Promise!Outcome(k)
    <3>1. CASE k = i
      BY <1>8, <3>1
    <3>2. CASE k # i
      <4>1. ASSUME NEW v \in Workers, AtWork(job[v]), job[v].index = k
            PROVE  AtWork(job'[v]) /\ job'[v].index = k
        BY <1>5, <3>2, <4>1
      <4> QED BY <1>8, <3>2, <4>1 DEF Inv, Reported
    <3> QED BY <3>1, <3>2
  <2>2. \A k \in Pools : next < k => results'[k] = Pending
    BY <1>1, <1>8 DEF Inv, Reported, Taken, Pools
  <2>3. \A k \in Pools : Promise!Outcome(k)' = Promise!Outcome(k)
    BY SameInputsSameRun
  <2> QED BY <1>8, <2>1, <2>2, <2>3
          DEF Reported, AtWork, Pending, Promise!Pending
<1> QED BY <1>3, <1>5, <1>6, <1>9, <1>10 DEF Inv, InputsTyped, inputVars

LEMMA StartStep ==
  ASSUME Inv, NEW w \in Workers, Start(w)
  PROVE  Inv' /\ [Promise!Next]_(Promise!vars)
<1> DEFINE i == job[w].index
<1>1. job[w] \in Job /\ AtWork(job[w]) /\ i \in Pools /\ RunsAlone(job[w])
  BY DEF Inv, Start, AtWork, RunsAlone
<1>2. CASE i \in readable /\ sequence_ok
  <2> DEFINE states == IF snapshot_every = 0 THEN <<>>
                       ELSE <<[pool |-> {}, success |-> TRUE]>>
             j == [job[w] EXCEPT !.at = "act", !.states = states]
  <2>1. Becomes(w, j) /\ UNCHANGED <<inputVars, next, results, output>>
    BY <1>2 DEF Start
  <2>2. states = StatesAfter(i, 0)
    BY <1>1, StatesStart DEF Inv
  <2>3. states \in Seq(State)
    <3>1. 0 \in 0 .. NActions
      BY HarnessAssumption
    <3> QED BY <1>1, <2>2, <3>1, StatesTyped DEF Inv
  <2> HIDE DEF states
  <2>4. j \in Job /\ j.index = i /\ j.at = "act" /\ j.done = 0 /\ j.pool = {}
        /\ j.success = TRUE /\ j.all_success = TRUE /\ j.states = states
    BY <1>1, <2>3 DEF Job, RunsAlone, Start
  <2> HIDE DEF j
  <2>5. Succeeded(i, 0) = {} /\ 1 .. 0 = {}
    BY DEF Succeeded
  <2>6. StandsAfter(j, 0) /\ RecordedTo(j, 0)
    BY <2>2, <2>4, <2>5 DEF StandsAfter, RecordedTo
  <2>7. RunsAlone(j) /\ AtWork(j)
    BY <1>1, <1>2, <2>4, <2>6 DEF RunsAlone, Parsed, AtWork
  <2>8. Inv'
    BY <1>1, <2>1, <2>4, <2>7, GoesOn
  <2> QED BY <2>1, <2>8 DEF Promise!vars, Promise!inputVars, inputVars
<1>3. CASE ~(i \in readable /\ sequence_ok)
  <2>1. Promise!Outcome(i) = Failed
    BY <1>3 DEF Promise!Outcome, Failed
  <2>2. Put(w, Promise!Outcome(i)) /\ UNCHANGED <<inputVars, next, output>>
    BY <1>3, <2>1 DEF Start
  <2> QED BY <1>1, <2>2, PutSound DEF Promise!Next, Promise!Pools, Pools
<1> QED BY <1>2, <1>3

(* A failed action may have written; whether it succeeds is an input.      *)
LEMMA SucceededGrows ==
  ASSUME NEW i, NEW k \in Nat \ {0}
  PROVE  /\ k \in succeeds[i] => Succeeded(i, k) = Succeeded(i, k - 1) \cup {k}
         /\ k \notin succeeds[i] => Succeeded(i, k) = Succeeded(i, k - 1)
         /\ Succeeded(i, k) = 1 .. k
              <=> Succeeded(i, k - 1) = 1 .. k - 1 /\ k \in succeeds[i]
<1>1. 1 .. k = (1 .. k - 1) \cup {k} /\ k \notin 1 .. k - 1
  OBVIOUS
<1> QED BY <1>1 DEF Succeeded

LEMMA ActStep ==
  ASSUME Inv, NEW w \in Workers, Act(w)
  PROVE  Inv' /\ UNCHANGED Promise!vars
<1> DEFINE old == job[w]
           i == old.index
           k == old.done + 1
<1>1. old \in Job /\ old.at = "act" /\ k <= NActions
      /\ UNCHANGED <<inputVars, next, results, output>>
  BY DEF Inv, Act
<1>2. i \in Pools /\ Parsed(old) /\ StandsAfter(old, old.done)
      /\ RecordedTo(old, old.done) /\ AtWork(old)
  BY <1>1 DEF Inv, RunsAlone, AtWork
<1>3. k \in Actions /\ k - 1 = old.done /\ k \in Nat \ {0} /\ k \in 0 .. NActions
  BY <1>1, HarnessAssumption DEF Job, Actions
<1>4. CASE k \in succeeds[i]
  <2> DEFINE j == [old EXCEPT !.at = "keep", !.done = k, !.saved = old.pool,
                              !.success = TRUE, !.pool = @ \cup {k}]
  <2>1. Becomes(w, j)
    BY <1>4 DEF Act
  <2>2. /\ j \in Job /\ j.at = "keep" /\ j.done = k /\ j.index = i
        /\ j.success = TRUE /\ j.pool = old.pool \cup {k}
        /\ j.states = old.states /\ j.all_success = old.all_success
    BY <1>1, <1>3 DEF Job
  <2> HIDE DEF j
  <2>3. StandsAfter(j, k)
    BY <1>2, <1>3, <1>4, <2>2, SucceededGrows DEF StandsAfter
  <2>4. RecordedTo(j, k - 1)
    BY <1>2, <1>3, <2>2 DEF RecordedTo
  <2>5. RunsAlone(j) /\ AtWork(j)
    BY <1>2, <1>3, <2>2, <2>3, <2>4 DEF RunsAlone, AtWork, Parsed
  <2> QED BY <1>1, <1>2, <2>1, <2>2, <2>5, GoesOn
          DEF Promise!vars, Promise!inputVars, inputVars
<1>5. CASE k \notin succeeds[i]
  <2>1. PICK written \in SUBSET {k} :
          Becomes(w, [old EXCEPT !.at = "catch", !.done = k, !.saved = old.pool,
                                 !.pool = @ \cup written])
    BY <1>5 DEF Act
  <2> DEFINE j == [old EXCEPT !.at = "catch", !.done = k, !.saved = old.pool,
                              !.pool = @ \cup written]
  <2>2. /\ j \in Job /\ j.at = "catch" /\ j.done = k /\ j.index = i
        /\ j.saved = old.pool
        /\ j.states = old.states /\ j.all_success = old.all_success
    BY <1>1, <1>3, <2>1 DEF Job
  <2>3. Becomes(w, j)
    BY <2>1
  <2> HIDE DEF j
  <2>4. j.saved = Succeeded(i, k)
    BY <1>2, <1>3, <1>5, <2>2, SucceededGrows DEF StandsAfter
  <2>5. RecordedTo(j, k - 1)
    BY <1>2, <1>3, <2>2 DEF RecordedTo
  <2>6. RunsAlone(j) /\ AtWork(j)
    BY <1>2, <1>3, <1>5, <2>2, <2>4, <2>5 DEF RunsAlone, AtWork, Parsed
  <2> QED BY <1>1, <1>2, <2>2, <2>3, <2>6, GoesOn
          DEF Promise!vars, Promise!inputVars, inputVars
<1> QED BY <1>4, <1>5

LEMMA CatchStep ==
  ASSUME Inv, NEW w \in Workers, Catch(w)
  PROVE  Inv' /\ UNCHANGED Promise!vars
<1> DEFINE old == job[w]
           j == [old EXCEPT !.at = "keep", !.success = FALSE, !.pool = old.saved]
<1>1. old \in Job /\ old.at = "catch" /\ Becomes(w, j)
      /\ UNCHANGED <<inputVars, next, results, output>>
  BY DEF Inv, Catch
<1>2. /\ old.index \in Pools /\ Parsed(old) /\ old.done # 0 /\ AtWork(old)
      /\ old.done \notin succeeds[old.index]
      /\ old.saved = Succeeded(old.index, old.done)
      /\ RecordedTo(old, old.done - 1)
  BY <1>1 DEF Inv, RunsAlone, AtWork
<1>3. /\ j \in Job /\ j.at = "keep" /\ j.done = old.done /\ j.index = old.index
      /\ j.pool = old.saved /\ j.success = FALSE
      /\ j.states = old.states /\ j.all_success = old.all_success
  BY <1>1 DEF Job
<1> HIDE DEF j
<1>4. RunsAlone(j) /\ AtWork(j)
  BY <1>2, <1>3 DEF RunsAlone, AtWork, Parsed, StandsAfter, RecordedTo
<1> QED BY <1>1, <1>2, <1>3, <1>4, GoesOn
        DEF Promise!vars, Promise!inputVars, inputVars

(* What run_one_pool records is the state of a pool run alone.             *)
LEMMA CurrentIsAlone ==
  ASSUME NEW j \in Job, StandsAfter(j, j.done)
  PROVE  CurrentState(j) = Promise!StateAfter(j.index, j.done)
<1>1. j.success = (j.done = 0 \/ j.done \in succeeds[j.index])
  BY DEF StandsAfter, Job
<1> QED BY <1>1 DEF CurrentState, Promise!StateAfter, StandsAfter, Succeeded

LEMMA KeepStateStep ==
  ASSUME Inv, NEW w \in Workers, KeepState(w)
  PROVE  Inv' /\ UNCHANGED Promise!vars
<1> DEFINE old == job[w]
           i == old.index
           k == old.done
           states == IF Due(old) THEN Append(old.states, CurrentState(old))
                     ELSE old.states
           all == old.all_success /\ old.success
           j == [old EXCEPT !.at = "act", !.all_success = all,
                            !.states = states]
<1>1. old \in Job /\ old.at = "keep" /\ Becomes(w, j)
      /\ UNCHANGED <<inputVars, next, results, output>>
  BY DEF Inv, KeepState
<1>2. /\ i \in Pools /\ Parsed(old) /\ k # 0 /\ AtWork(old)
      /\ StandsAfter(old, k) /\ RecordedTo(old, k - 1)
  BY <1>1 DEF Inv, RunsAlone, AtWork
<1>3. k \in 1 .. NActions /\ k \in Nat \ {0} /\ k \in 0 .. NActions
  BY <1>1, <1>2, HarnessAssumption DEF Job
<1>4. states = StatesAfter(i, k)
  <2>1. CurrentState(old) = Promise!StateAfter(i, k)
    BY <1>1, <1>2, CurrentIsAlone
  <2>2. old.states = StatesAfter(i, k - 1)
    BY <1>2 DEF RecordedTo
  <2> QED BY <1>1, <1>2, <1>3, <2>1, <2>2, StatesMove DEF Inv
<1>5. states \in Seq(State)
  BY <1>2, <1>3, <1>4, StatesTyped DEF Inv
<1>6. all \in BOOLEAN /\ (all <=> Succeeded(i, k) = 1 .. k)
  <2>1. old.success <=> k \in succeeds[i]
    BY <1>2 DEF StandsAfter
  <2>2. old.all_success <=> Succeeded(i, k - 1) = 1 .. k - 1
    BY <1>2 DEF RecordedTo
  <2> QED BY <1>3, <2>1, <2>2, SucceededGrows
<1> HIDE DEF states, all
<1>7. /\ j \in Job /\ j.at = "act" /\ j.done = k /\ j.index = i
      /\ j.pool = old.pool /\ j.success = old.success
      /\ j.states = states /\ j.all_success = all
  BY <1>1, <1>5, <1>6 DEF Job
<1> HIDE DEF j
<1>8. RunsAlone(j) /\ AtWork(j)
  BY <1>2, <1>4, <1>6, <1>7
     DEF RunsAlone, AtWork, Parsed, StandsAfter, RecordedTo
<1> QED BY <1>1, <1>2, <1>7, <1>8, GoesOn
        DEF Promise!vars, Promise!inputVars, inputVars

LEMMA FinishStep ==
  ASSUME Inv, NEW w \in Workers, Finish(w)
  PROVE  Inv' /\ [Promise!Next]_(Promise!vars)
<1> DEFINE j == job[w]
           i == j.index
<1>1. j \in Job /\ j.at = "act" /\ j.done = NActions
      /\ UNCHANGED <<inputVars, next, output>>
  BY DEF Inv, Finish
<1>2. /\ i \in Pools /\ Parsed(j) /\ AtWork(j)
      /\ StandsAfter(j, NActions) /\ RecordedTo(j, NActions)
  BY <1>1 DEF Inv, RunsAlone, AtWork
<1>3. CurrentState(j) = Promise!StateAfter(i, NActions)
  BY <1>1, <1>2, CurrentIsAlone
<1>4. j.all_success = (succeeds[i] = Promise!Actions)
  <2>1. succeeds[i] \subseteq 1 .. NActions
    BY <1>2 DEF Inv, InputsTyped, Actions
  <2> QED BY <1>1, <1>2, <2>1 DEF RecordedTo, Succeeded, Job, Promise!Actions
<1> DEFINE states == IF snapshot_every = 0 THEN <<CurrentState(j)>>
                     ELSE j.states
<1>5. states = [n \in DOMAIN Promise!Kept |->
                  Promise!StateAfter(i, Promise!Kept[n])]
  BY <1>2, <1>3, StatesEnd DEF Inv, RecordedTo
<1>6. [kind |-> "ran", success |-> j.all_success, states |-> states]
        = Promise!Outcome(i)
  <2> HIDE DEF states
  <2> QED BY <1>2, <1>4, <1>5 DEF Promise!Outcome, Parsed
<1>7. Put(w, Promise!Outcome(i))
  BY <1>6 DEF Finish
<1> QED BY <1>1, <1>2, <1>7, PutSound DEF Promise!Next, Promise!Pools, Pools

(* Every worker gets a number of its own off the shared counter.           *)
LEMMA ClaimStep ==
  ASSUME Inv, NEW w \in Workers, Claim(w)
  PROVE  Inv' /\ UNCHANGED Promise!vars
<1> DEFINE j == IF next < NPools THEN [Idle("start") EXCEPT !.index = next + 1]
                ELSE Idle("exit")
<1>1. next \in Nat /\ NPools \in Nat /\ Becomes(w, j) /\ next' = next + 1
      /\ UNCHANGED <<inputVars, results, output>> /\ ~AtWork(job[w])
  BY HarnessAssumption DEF Inv, Taken, Claim, AtWork
<1>2. j \in Job
  <2>1. Idle("exit") \in Job /\ Idle("start") \in Job
    BY HarnessAssumption, EmptySeq DEF Idle, Job
  <2>2. next < NPools => [Idle("start") EXCEPT !.index = next + 1] \in Job
    <3>1. next < NPools => next + 1 \in 0 .. NPools
      BY <1>1
    <3> QED BY <2>1, <3>1 DEF Job
  <2> QED BY <2>1, <2>2
<1>3. RunsAlone(j) /\ (AtWork(j) <=> next < NPools)
      /\ (j.at = "exit" => next >= NPools)
      /\ j.index = IF next < NPools THEN next + 1 ELSE 0
  BY <1>1 DEF Idle, RunsAlone, AtWork, Pools
<1> HIDE DEF j
<1>4. job' \in [Workers -> Job] /\ job'[w] = j
      /\ \A v \in Workers \ {w} : job'[v] = job[v]
  BY <1>1, <1>2 DEF Inv, Becomes
<1>5. \A v \in Workers : RunsAlone(job[v])'
  <2> TAKE v \in Workers
  <2>1. RunsAlone(job'[v])
    BY <1>3, <1>4 DEF Inv
  <2> QED BY <1>1, <2>1, SameInputsSameRun
<1>6. \A v \in Workers : job'[v].index \in Nat /\ job[v].index \in Nat
  <2>1. \A k \in Job : k.index \in Nat
    BY HarnessAssumption DEF Job
  <2>2. \A v \in Workers : job'[v] \in Job /\ job[v] \in Job
    BY <1>4 DEF Inv
  <2> QED BY <2>1, <2>2
<1>7. Taken'
  <2>1. \A v \in Workers : AtWork(job'[v]) => job'[v].index <= next + 1
    BY <1>1, <1>3, <1>4, <1>6 DEF Inv, Taken
  <2>2. \A u, v \in Workers :
          AtWork(job'[u]) /\ AtWork(job'[v]) /\ job'[u].index = job'[v].index
            => u = v
    <3>1. ASSUME NEW v \in Workers, v # w, AtWork(job'[v])
          PROVE  job'[v].index <= next
      BY <1>4, <3>1 DEF Inv, Taken
    <3>2. AtWork(job'[w]) => job'[w].index = next + 1
      BY <1>3, <1>4
    <3>3. ASSUME NEW v \in Workers, v # w, AtWork(job'[v]), AtWork(job'[w])
          PROVE  job'[v].index # job'[w].index
      BY <1>1, <1>6, <3>1, <3>2, <3>3
    <3>4. \A u, v \in Workers \ {w} :
            AtWork(job'[u]) /\ AtWork(job'[v])
              /\ job'[u].index = job'[v].index => u = v
      BY <1>4 DEF Inv, Taken
    <3> QED BY <3>3, <3>4
  <2>3. \A v \in Workers : AtWork(job'[v]) => results[job'[v].index] = Pending
    <3>1. next < NPools => results[next + 1] = Pending
      BY <1>1 DEF Inv, Reported, Pools
    <3> QED BY <1>3, <1>4, <3>1 DEF Inv, Taken
  <2>4. \A v \in Workers : ~AtWork(job'[v]) => job'[v].index = 0
    BY <1>3, <1>4 DEF Inv, Taken
  <2>5. \A v \in Workers : job'[v].at = "exit" => next + 1 >= NPools
    BY <1>1, <1>3, <1>4 DEF Inv, Taken
  <2> QED BY <1>1, <2>1, <2>2, <2>3, <2>4, <2>5
          DEF Taken, AtWork, Pending, Promise!Pending
<1>8. Reported'
  <2>1. ASSUME NEW i \in Pools
        PROVE  \/ next + 1 < i
               \/ \E v \in Workers : AtWork(job'[v]) /\ job'[v].index = i
               \/ results[i] = Promise!Outcome(i)
    <3>1. ASSUME NEW v \in Workers, AtWork(job[v]), job[v].index = i
          PROVE  AtWork(job'[v]) /\ job'[v].index = i
      BY <1>1, <1>4, <3>1
    <3>2. CASE i = next + 1
      <4>1. AtWork(job'[w]) /\ job'[w].index = i
        BY <1>1, <1>3, <1>4, <3>2 DEF Pools
      <4> QED BY <4>1
    <3>3. CASE i # next + 1
      BY <1>1, <3>1, <3>3 DEF Inv, Reported, Pools
    <3> QED BY <3>2, <3>3
  <2>2. \A i \in Pools : next + 1 < i => results[i] = Pending
    BY <1>1 DEF Inv, Reported, Pools
  <2>3. \A i \in Pools : Promise!Outcome(i)' = Promise!Outcome(i)
    BY <1>1, SameInputsSameRun
  <2> QED BY <1>1, <2>1, <2>2, <2>3
          DEF Inv, Reported, AtWork, Pending, Promise!Pending
<1> QED BY <1>1, <1>4, <1>5, <1>7, <1>8
        DEF Inv, InputsTyped, inputVars, Promise!vars, Promise!inputVars

(* When every worker has stopped, every pool is reported.                  *)
LEMMA JoinStep ==
  ASSUME Inv, Join
  PROVE  Inv' /\ Promise!Write
<1>1. UNCHANGED <<inputVars, next, job, results>>
  BY DEF Join
<1>2. Inv'
  <2>1. \A j : RunsAlone(j)' <=> RunsAlone(j)
    BY <1>1, SameInputsSameRun
  <2>2. \A i : Promise!Outcome(i)' = Promise!Outcome(i)
    BY <1>1, SameInputsSameRun
  <2>3. \A w \in Workers : RunsAlone(job[w])'
    <3> TAKE w \in Workers
    <3>1. RunsAlone(job[w])
      BY DEF Inv
    <3> QED BY <1>1, <2>1, <3>1
  <2>4. Taken' /\ Reported'
    BY <1>1, <2>2
       DEF Inv, Taken, Reported, AtWork, Pending, Promise!Pending
  <2> QED BY <1>1, <2>3, <2>4 DEF Inv, InputsTyped, inputVars
<1>3. \A i \in Pools : results[i] # Pending
  <2>1. \A w \in Workers : ~AtWork(job[w])
    BY DEF Join, AtWork
  <2>2. next >= NPools /\ next \in Nat
    BY HarnessAssumption DEF Join, Inv, Taken
  <2>3. \A i \in Pools : results[i] = Promise!Outcome(i)
    BY <2>1, <2>2, HarnessAssumption DEF Inv, Reported, Pools
  <2>4. \A i \in Pools : Promise!Outcome(i).kind # "pending"
    BY DEF Promise!Outcome, Promise!Failed
  <2>5. Pending.kind = "pending"
    BY DEF Pending, Promise!Pending
  <2> QED BY <2>3, <2>4, <2>5
<1>4. output = Promise!Unwritten /\ output' = results
      /\ UNCHANGED <<inputVars, results>>
  BY DEF Join
<1> QED BY <1>2, <1>3, <1>4
        DEF Promise!Write, Promise!Pools, Pools, Pending,
            Promise!inputVars, inputVars

LEMMA InitSound ==
  ASSUME Init
  PROVE  Inv /\ Promise!Init
<1>1. Idle("claim") \in Job /\ ~AtWork(Idle("claim")) /\ RunsAlone(Idle("claim"))
      /\ Idle("claim").index = 0 /\ Idle("claim").at = "claim"
  BY HarnessAssumption, EmptySeq DEF Idle, Job, AtWork, RunsAlone
<1>2. job = [w \in Workers |-> Idle("claim")] /\ next = 0
      /\ results = [i \in Pools |-> Pending]
  BY DEF Init
<1>3. InputsTyped
  BY HarnessAssumption
     DEF Init, InputsTyped, Promise!Inputs, Promise!Pools, Promise!Actions,
         Pools, Actions
<1>4. Taken
  BY <1>1, <1>2 DEF Taken
<1>5. Reported
  BY <1>2, HarnessAssumption DEF Reported, Pools
<1>6. Promise!Init
  BY <1>2 DEF Init, Promise!Init, Promise!Pools, Pools, Pending
<1> QED BY <1>1, <1>2, <1>3, <1>4, <1>5, <1>6 DEF Inv

LEMMA NextSound ==
  ASSUME Inv, [Next]_vars
  PROVE  Inv' /\ [Promise!Next]_(Promise!vars)
<1>1. ASSUME NEW w \in Workers, Step(w)
      PROVE  Inv' /\ [Promise!Next]_(Promise!vars)
  BY <1>1, ClaimStep, StartStep, ActStep, CatchStep, KeepStateStep, FinishStep
     DEF Step
<1>2. CASE Join
  BY <1>2, JoinStep DEF Promise!Next
<1>3. CASE UNCHANGED vars
  <2>1. \A j : RunsAlone(j)' <=> RunsAlone(j)
    BY <1>3, SameInputsSameRun DEF vars
  <2>2. \A i : Promise!Outcome(i)' = Promise!Outcome(i)
    BY <1>3, SameInputsSameRun DEF vars
  <2>3. \A w \in Workers : RunsAlone(job[w])'
    <3> TAKE w \in Workers
    <3>1. RunsAlone(job[w])
      BY DEF Inv
    <3> QED BY <1>3, <2>1, <3>1 DEF vars
  <2>4. Taken' /\ Reported'
    BY <1>3, <2>2
       DEF vars, Inv, Taken, Reported, AtWork, Pending, Promise!Pending
  <2> QED BY <1>3, <2>3, <2>4
          DEF vars, inputVars, Inv, InputsTyped, Promise!vars, Promise!inputVars
<1> QED BY <1>1, <1>2, <1>3 DEF Next

-----------------------------------------------------------------------------
LEMMA Invariance == Spec => []Inv
<1>1. Inv /\ [Next]_vars => Inv'
  BY NextSound
<1> QED BY <1>1, InitSound, PTL DEF Spec

(* No two workers are at the same pool, nor at one already reported, for   *)
(* any number of threads: the results need no lock (run_harness).          *)
THEOREM WorkersNeverShareSlots == Spec => []SlotsAreExclusive
<1>1. Inv => SlotsAreExclusive
  <2> SUFFICES ASSUME Inv, NEW w \in Workers, AtWork(job[w])
               PROVE  /\ results[job[w].index] = Pending
                      /\ \A v \in Workers \ {w} :
                           job[v].index # job[w].index
    BY DEF SlotsAreExclusive, AtWork
  <2>1. job[w].index # 0
    BY DEF Inv, RunsAlone, Pools
  <2> QED BY <2>1 DEF Inv, Taken
<1> QED BY <1>1, Invariance, PTL

(* Whatever the threads, their order and the cadence, what is reported of  *)
(* a pool is what it would go through alone, with the actions that fail    *)
(* never tried, and nothing is written before all is reported              *)
(* (run_harness, run_one_pool).                                            *)
THEOREM HarnessReportsRunsAlone == Spec => Promise!Safety
<1>1. Init => Promise!Init
  BY InitSound
<1>2. Inv /\ [Next]_vars => [Promise!Next]_(Promise!vars)
  BY NextSound
<1> QED BY <1>1, <1>2, Invariance, PTL DEF Spec, Promise!Safety
============================================================================
