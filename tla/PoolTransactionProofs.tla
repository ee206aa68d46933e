------------------------ MODULE PoolTransactionProofs ------------------------
(***************************************************************************)
(* Every call of the pool, however often it throws and wherever, is atomic *)
(* (PoolTransaction implements AtomicCalls), and what the two calls that   *)
(* are not may leave behind.                                               *)
(***************************************************************************)
EXTENDS PoolTransaction, SequenceTheorems, TLAPS

-----------------------------------------------------------------------------
(* Programs.                                                               *)

Steps == [throws : BOOLEAN, writes : SUBSET Member]
Programs == Seq(Steps)

Writes(p, m) == \E k \in DOMAIN p : m \in p[k].writes

(* No step of p may throw.                                                 *)
Calm(p) == \A k \in DOMAIN p : ~p[k].throws

(* The caller's variable is not written.                                   *)
Quiet == {p \in Programs : ~Writes(p, "charged_lp_fee")}

(* The caller's variable is written by the last step only.                 *)
FeeLast ==
  {p \in Programs :
     \A k \in 1 .. Len(p) - 1 : "charged_lp_fee" \notin p[k].writes}

LEMMA ConcatProgram ==
  ASSUME NEW p \in Programs, NEW q \in Programs
  PROVE  /\ p \o q \in Programs /\ Len(p \o q) = Len(p) + Len(q)
         /\ Len(p) \in Nat /\ Len(q) \in Nat
         /\ \A k \in 1 .. Len(p) : (p \o q)[k] = p[k]
         /\ \A k \in 1 .. Len(q) : (p \o q)[k + Len(p)] = q[k]
         /\ \A k \in 1 .. Len(p) + Len(q) :
              \/ k \in 1 .. Len(p)
              \/ k - Len(p) \in 1 .. Len(q) /\ (p \o q)[k] = q[k - Len(p)]
BY ConcatProperties DEF Programs

(* Concatenation under a name of its own: where only the order of programs *)
(* matters, the provers need not know what it does.                        *)
Joined(p, q) == p \o q

LEMMA JoinThree ==
  ASSUME NEW p \in Programs, NEW q \in Programs, NEW t \in Programs
  PROVE  /\ Joined(p, q) \in Programs
         /\ Joined(Joined(p, q), t) = Joined(p, Joined(q, t))
BY ConcatProgram, ConcatAssociative DEF Programs, Joined

LEMMA JoinFour ==
  ASSUME NEW a \in Programs, NEW b \in Programs, NEW c \in Programs,
         NEW d \in Programs
  PROVE  Joined(Joined(Joined(a, b), c), d) = Joined(a, Joined(b, Joined(c, d)))
<1>1. Joined(a, b) \in Programs /\ Joined(c, d) \in Programs
  BY JoinThree
<1>2. Joined(Joined(Joined(a, b), c), d) = Joined(Joined(a, b), Joined(c, d))
  BY <1>1, JoinThree
<1>3. Joined(Joined(a, b), Joined(c, d)) = Joined(a, Joined(b, Joined(c, d)))
  BY <1>1, JoinThree
<1> QED BY <1>2, <1>3

LEMMA ConcatWrites ==
  ASSUME NEW p \in Programs, NEW q \in Programs, NEW m
  PROVE  Writes(p \o q, m) <=> Writes(p, m) \/ Writes(q, m)
<1> DEFINE pq == p \o q
<1>1. /\ DOMAIN p = 1 .. Len(p) /\ DOMAIN q = 1 .. Len(q)
      /\ DOMAIN pq = 1 .. Len(p) + Len(q)
      /\ Len(p) \in Nat /\ Len(q) \in Nat
  BY ConcatProgram DEF Programs
<1>2. /\ \A k \in 1 .. Len(p) : pq[k] = p[k]
      /\ \A k \in 1 .. Len(q) : pq[k + Len(p)] = q[k]
      /\ \A k \in 1 .. Len(p) + Len(q) :
           \/ k \in 1 .. Len(p)
           \/ k - Len(p) \in 1 .. Len(q) /\ pq[k] = q[k - Len(p)]
  BY ConcatProgram
<1> HIDE DEF pq
<1>3. ASSUME NEW k \in DOMAIN p, m \in p[k].writes PROVE Writes(pq, m)
  <2>1. k \in DOMAIN pq /\ pq[k] = p[k]
    BY <1>1, <1>2
  <2> QED BY <1>3, <2>1 DEF Writes
<1>4. ASSUME NEW k \in DOMAIN q, m \in q[k].writes PROVE Writes(pq, m)
  <2>1. k + Len(p) \in DOMAIN pq /\ pq[k + Len(p)] = q[k]
    BY <1>1, <1>2
  <2> QED BY <1>4, <2>1 DEF Writes
<1>5. ASSUME NEW k \in DOMAIN pq, m \in pq[k].writes
      PROVE  Writes(p, m) \/ Writes(q, m)
  <2>1. CASE k \in 1 .. Len(p)
    BY <1>1, <1>2, <1>5, <2>1 DEF Writes
  <2>2. CASE k - Len(p) \in 1 .. Len(q) /\ pq[k] = q[k - Len(p)]
    BY <1>1, <1>5, <2>2 DEF Writes
  <2>3. \/ k \in 1 .. Len(p)
        \/ k - Len(p) \in 1 .. Len(q) /\ pq[k] = q[k - Len(p)]
    BY <1>1, <1>2
  <2> QED BY <2>1, <2>2, <2>3
<1> QED BY <1>3, <1>4, <1>5 DEF Writes, pq

LEMMA OneStep ==
  ASSUME NEW s \in Steps
  PROVE  <<s>> \in Programs /\ Len(<<s>>) = 1 /\ <<s>>[1] = s
         /\ \A m : Writes(<<s>>, m) <=> m \in s.writes
BY DEF Programs, Writes

LEMMA CheckIsProgram ==
  Check \in Programs /\ \A m : ~Writes(Check, m)
<1>1. [throws |-> TRUE, writes |-> {}] \in Steps
  BY DEF Steps
<1> QED BY <1>1, OneStep DEF Check

LEMMA WriteIsProgram ==
  ASSUME NEW members \in SUBSET Member
  PROVE  /\ Write(members) \in Programs /\ Len(Write(members)) = 1
         /\ Write(members)[1].writes = members /\ ~Write(members)[1].throws
         /\ \A m : Writes(Write(members), m) <=> m \in members
<1>1. [throws |-> FALSE, writes |-> members] \in Steps
  BY DEF Steps
<1> QED BY <1>1, OneStep DEF Write

(* Quiet programs, and how they are put together.                          *)
LEMMA QuietCheck == Check \in Quiet /\ <<>> \in Quiet
<1>1. <<>> \in Programs /\ ~Writes(<<>>, "charged_lp_fee")
  BY EmptySeq DEF Programs, Writes
<1> QED BY <1>1, CheckIsProgram DEF Quiet

LEMMA QuietWrite ==
  ASSUME NEW members \in SUBSET (PoolMember \cup PolicyMember)
  PROVE  Write(members) \in Quiet
<1>1. members \in SUBSET Member /\ "charged_lp_fee" \notin members
  BY DEF Member, PoolMember, PolicyMember
<1> QED BY <1>1, WriteIsProgram DEF Quiet

LEMMA QuietConcat ==
  ASSUME NEW p \in Quiet, NEW q \in Quiet
  PROVE  p \o q \in Quiet
BY ConcatProgram, ConcatWrites DEF Quiet

LEMMA InThen ==
  ASSUME NEW heads, NEW tails, NEW p \in Then(heads, tails)
  PROVE  \E head \in heads, tail \in tails : p = head \o tail
BY DEF Then

LEMMA QuietThen ==
  ASSUME NEW heads \in SUBSET Quiet, NEW tails \in SUBSET Quiet
  PROVE  Then(heads, tails) \in SUBSET Quiet
<1> SUFFICES ASSUME NEW p \in Then(heads, tails)
             PROVE  p \in Quiet
  OBVIOUS
<1>1. PICK h \in heads, t \in tails : p = h \o t
  BY DEF Then
<1> QED BY <1>1, QuietConcat

LEMMA QuietIsFeeLast == Quiet \subseteq FeeLast
<1> SUFFICES ASSUME NEW p \in Quiet, NEW k \in 1 .. Len(p) - 1
             PROVE  "charged_lp_fee" \notin p[k].writes
  BY DEF Quiet, FeeLast
<1>1. k \in DOMAIN p
  BY DEF Quiet, Programs
<1> QED BY <1>1 DEF Quiet, Writes

LEMMA FeeLastConcat ==
  ASSUME NEW p \in Quiet, NEW q \in FeeLast
  PROVE  p \o q \in FeeLast
<1> DEFINE pq == p \o q
<1>1. p \in Programs /\ q \in Programs /\ Len(p) \in Nat /\ Len(q) \in Nat
  BY DEF Quiet, FeeLast, Programs
<1>2. /\ pq \in Programs /\ Len(pq) = Len(p) + Len(q)
      /\ \A k \in 1 .. Len(p) : pq[k] = p[k]
      /\ \A k \in 1 .. Len(p) + Len(q) :
           \/ k \in 1 .. Len(p)
           \/ k - Len(p) \in 1 .. Len(q) /\ pq[k] = q[k - Len(p)]
  BY <1>1, ConcatProgram
<1> HIDE DEF pq
<1>3. ASSUME NEW k \in 1 .. Len(pq) - 1
      PROVE  "charged_lp_fee" \notin pq[k].writes
  <2>1. CASE k \in 1 .. Len(p)
    <3>1. k \in DOMAIN p /\ pq[k] = p[k]
      BY <1>1, <1>2, <2>1 DEF Programs
    <3> QED BY <3>1 DEF Quiet, Writes
  <2>2. CASE k - Len(p) \in 1 .. Len(q) /\ pq[k] = q[k - Len(p)]
    <3>1. k - Len(p) \in 1 .. Len(q) - 1
      BY <1>1, <1>2, <2>2
    <3> QED BY <2>2, <3>1 DEF FeeLast
  <2>3. k \in 1 .. Len(p) + Len(q)
    BY <1>1, <1>2
  <2> QED BY <1>2, <2>1, <2>2, <2>3
<1> QED BY <1>2, <1>3 DEF FeeLast, pq

LEMMA FeeLastThen ==
  ASSUME NEW heads \in SUBSET Quiet, NEW tails \in SUBSET FeeLast
  PROVE  Then(heads, tails) \in SUBSET FeeLast
<1> SUFFICES ASSUME NEW p \in Then(heads, tails)
             PROVE  p \in FeeLast
  OBVIOUS
<1>1. PICK h \in heads, t \in tails : p = h \o t
  BY InThen
<1> QED BY <1>1, FeeLastConcat

(* The caller is told last of all.                                         *)
LEMMA Tell == Write({"charged_lp_fee"}) \in FeeLast
<1> DEFINE tell == Write({"charged_lp_fee"})
<1>1. tell \in Programs /\ Len(tell) = 1
  BY WriteIsProgram DEF Member
<1> HIDE DEF tell
<1>2. ASSUME NEW k \in 1 .. Len(tell) - 1
      PROVE  "charged_lp_fee" \notin tell[k].writes
  BY <1>1
<1> QED BY <1>1, <1>2 DEF FeeLast, tell

LEMMA QuietUpdatePolicy ==
  UpdatePolicy \in Quiet /\ AskPolicy \in Quiet
<1>1. /\ Write({"policy_cache"}) \in Quiet /\ Write({"compiled_state"}) \in Quiet
      /\ Write({"research"}) \in Quiet
  BY QuietWrite DEF PolicyMember
<1> QED BY <1>1, QuietCheck, QuietConcat DEF UpdatePolicy, AskPolicy

LEMMA QuietTweak == Tweak \in SUBSET Quiet /\ TweakAndStoreScale \in SUBSET Quiet
<1> DEFINE measure == Check \o Write({"last_prices"}) \o Check
                        \o Write({"xcp_profit", "lp_xcp_profit"}) \o Check
           advance == Write({"alpha_cache", "cached_price_oracle",
                             "last_timestamp"})
           scale == Write({"cached_price_scale"})
           burned == Write({"donation_shares", "totalSupply",
                            "last_donation_release_ts"})
           commit == Check \o Write({"D", "virtual_price",
                                     "cached_price_scale", "ledgers"})
<1>1. /\ Write({"last_prices"}) \in Quiet
      /\ Write({"xcp_profit", "lp_xcp_profit"}) \in Quiet
      /\ advance \in Quiet /\ scale \in Quiet /\ burned \in Quiet
      /\ Write({"D", "virtual_price"}) \in Quiet
      /\ Write({"D", "virtual_price", "cached_price_scale", "ledgers"}) \in Quiet
  BY QuietWrite DEF PoolMember
<1>2. measure \in Quiet /\ commit \in Quiet
  BY <1>1, QuietCheck, QuietConcat
<1>3. SettleInPlace \in Quiet
  BY <1>1, QuietCheck, QuietConcat, QuietUpdatePolicy DEF SettleInPlace
<1> HIDE DEF measure, advance, scale, burned, commit
<1>4. CommitRebalance \in SUBSET Quiet
  <2>1. CommitRebalance = {commit \o burn \o UpdatePolicy : burn \in {<<>>, burned}}
    BY DEF CommitRebalance, commit, burned
  <2>2. \A burn \in {<<>>, burned} : commit \o burn \o UpdatePolicy \in Quiet
    BY <1>1, <1>2, QuietCheck, QuietConcat, QuietUpdatePolicy
  <2> QED BY <2>1, <2>2
<1>5. Tweak = {measure \o SettleInPlace, advance \o measure \o SettleInPlace,
               advance \o measure \o AskPolicy \o SettleInPlace}
                \cup Then({advance \o measure \o AskPolicy}, CommitRebalance)
  BY DEF Tweak, measure, advance
<1>6. /\ measure \o SettleInPlace \in Quiet
      /\ advance \o measure \o SettleInPlace \in Quiet
      /\ advance \o measure \o AskPolicy \o SettleInPlace \in Quiet
      /\ advance \o measure \o AskPolicy \in Quiet
  BY <1>1, <1>2, <1>3, QuietConcat, QuietUpdatePolicy
<1>7. Then({advance \o measure \o AskPolicy}, CommitRebalance) \in SUBSET Quiet
  BY <1>4, <1>6, QuietThen
<1>8. Tweak \in SUBSET Quiet
  BY <1>5, <1>6, <1>7
<1>9. Then(Tweak, {scale}) \in SUBSET Quiet
  BY <1>1, <1>8, QuietThen
<1> QED BY <1>8, <1>9 DEF TweakAndStoreScale, scale

LEMMA QuietAdminFee == AdminFee \in SUBSET Quiet
<1>1. Write({"admin_balances"}) \in Quiet
  BY QuietWrite DEF PoolMember
<1> QED BY <1>1, QuietCheck, QuietConcat DEF AdminFee

LEMMA QuietExchange == Exchange \in SUBSET Quiet
<1> DEFINE trade == Check \o Write({"balances"}) \o Check \o Write({"D"})
           fee == Write({"admin_balances", "balances"}) \o Check \o Write({"D"})
<1>1. /\ Write({"balances"}) \in Quiet /\ Write({"D"}) \in Quiet
      /\ Write({"admin_balances", "balances"}) \in Quiet
  BY QuietWrite DEF PoolMember
<1>2. trade \in Quiet /\ fee \in Quiet
  BY <1>1, QuietCheck, QuietConcat
<1> HIDE DEF trade, fee
<1>3. {<<>>, fee} \in SUBSET Quiet /\ {trade} \in SUBSET Quiet
  BY <1>2, QuietCheck
<1>4. Then({<<>>, fee}, Tweak) \in SUBSET Quiet
  BY <1>3, QuietTweak, QuietThen
<1>5. Then({trade}, Then({<<>>, fee}, Tweak)) \in SUBSET Quiet
  BY <1>3, <1>4, QuietThen
<1> QED BY <1>5 DEF Exchange, trade, fee

LEMMA QuietMinted == Minted \in SUBSET Quiet
<1>1. Write({"balances"}) \in Quiet /\ Write({"D"}) \in Quiet
      /\ Write({"totalSupply"}) \in Quiet
  BY QuietWrite DEF PoolMember
<1>2. Extend \in Quiet /\ Release \in Quiet
  BY QuietWrite DEF PoolMember, Extend, Release
<1> DEFINE minted(fee, for) ==
             Check \o fee \o Check \o Write({"balances"}) \o Write({"D"})
               \o for \o Write({"totalSupply"})
<1>3. ASSUME NEW fee \in Quiet, NEW for \in Quiet
      PROVE  minted(fee, for) \in Quiet
  BY <1>1, QuietCheck, QuietConcat
<1> HIDE DEF minted
<1>4. Minted = {minted(paid.fee, paid.for) :
                paid \in [fee : AdminFee, for : {<<>>, Extend}]
                           \cup {[fee |-> <<>>, for |-> Release]}}
  BY DEF Minted, minted
<1>5. ASSUME NEW paid \in [fee : AdminFee, for : {<<>>, Extend}]
                          \cup {[fee |-> <<>>, for |-> Release]}
      PROVE  paid.fee \in Quiet /\ paid.for \in Quiet
  BY <1>2, QuietCheck, QuietAdminFee
<1> QED BY <1>3, <1>4, <1>5

LEMMA FeeLastAddLiquidity == AddLiquidity \in SUBSET FeeLast
<1> DEFINE tell == Write({"charged_lp_fee"})
<1>1. {tell} \in SUBSET FeeLast
  BY Tell
<1> HIDE DEF tell
<1>2. Then(TweakAndStoreScale, {tell}) \in SUBSET FeeLast
  BY <1>1, QuietTweak, FeeLastThen
<1>3. Then(Minted, Then(TweakAndStoreScale, {tell})) \in SUBSET FeeLast
  BY <1>2, QuietMinted, FeeLastThen
<1> QED BY <1>3 DEF AddLiquidity, tell

LEMMA FeeLastFirstDeposit == FirstDeposit \in SUBSET FeeLast
<1> DEFINE members == {"D", "virtual_price", "xcp_profit", "lp_xcp_profit",
                       "totalSupply"}
<1>1. Write({"balances"}) \in Quiet /\ Write(members) \in Quiet
  BY QuietWrite DEF PoolMember
<1> HIDE DEF members
<1>2. Check \o Write({"balances"}) \o Write(members) \o UpdatePolicy \in Quiet
  BY <1>1, QuietCheck, QuietConcat, QuietUpdatePolicy
<1> QED BY <1>2, FeeLastConcat, Tell DEF FirstDeposit, members

LEMMA FeeLastRemoveFixedOut == RemoveFixedOut \in SUBSET FeeLast
<1> DEFINE claimed == Write({"admin_balances", "last_admin_fee_claim_timestamp"})
           burn(claim, fee) == claim \o Check \o fee \o Write({"totalSupply"})
           burns == {burn(claim, fee) : claim \in {<<>>, claimed}, fee \in AdminFee}
           pay == Write({"balances"}) \o Write({"charged_lp_fee"})
<1>1. claimed \in Quiet /\ Write({"balances"}) \in Quiet
      /\ Write({"totalSupply"}) \in Quiet
  BY QuietWrite DEF PoolMember
<1>2. ASSUME NEW claim \in Quiet, NEW fee \in Quiet
      PROVE  burn(claim, fee) \in Quiet
  BY <1>1, QuietCheck, QuietConcat
<1>3. {pay} \in SUBSET FeeLast
  BY <1>1, Tell, FeeLastConcat
<1> HIDE DEF claimed, burn, pay
<1>4. burns \in SUBSET Quiet
  BY <1>1, <1>2, QuietCheck, QuietAdminFee
<1> HIDE DEF burns
<1>5. Then(burns, Then(TweakAndStoreScale, {pay})) \in SUBSET FeeLast
  BY <1>3, <1>4, QuietTweak, FeeLastThen
<1>6. RemoveFixedOut = Then(burns, Then(TweakAndStoreScale, {pay}))
  BY DEF RemoveFixedOut, burns, burn, claimed, pay
<1> QED BY <1>5, <1>6

(* The clock cannot throw.                                                 *)
LEMMA CalmConcat ==
  ASSUME NEW p \in Programs, NEW q \in Programs, Calm(p), Calm(q)
  PROVE  Calm(p \o q)
<1> DEFINE pq == p \o q
<1>1. /\ DOMAIN p = 1 .. Len(p) /\ DOMAIN q = 1 .. Len(q)
      /\ DOMAIN pq = 1 .. Len(p) + Len(q)
      /\ \A k \in 1 .. Len(p) : pq[k] = p[k]
      /\ \A k \in 1 .. Len(p) + Len(q) :
           \/ k \in 1 .. Len(p)
           \/ k - Len(p) \in 1 .. Len(q) /\ pq[k] = q[k - Len(p)]
  BY ConcatProgram DEF Programs
<1> HIDE DEF pq
<1> SUFFICES ASSUME NEW k \in DOMAIN pq PROVE ~pq[k].throws
  BY DEF Calm, pq
<1> QED BY <1>1 DEF Calm

LEMMA CalmWrite ==
  ASSUME NEW members \in SUBSET Member
  PROVE  Write(members) \in Programs /\ Calm(Write(members))
         /\ <<>> \in Programs /\ Calm(<<>>)
<1>1. DOMAIN Write(members) = 1 .. 1
  BY WriteIsProgram DEF Programs
<1>2. <<>> \in Programs /\ Calm(<<>>)
  BY EmptySeq DEF Programs, Calm
<1> QED BY <1>1, <1>2, WriteIsProgram DEF Calm

LEMMA ClockPrograms == \A p \in SetClock : p \in Quiet /\ Calm(p)
<1>1. /\ Write({"block_timestamp"}) \in Quiet /\ Write({"research"}) \in Quiet
      /\ Write({"last_timestamp"}) \in Quiet
  BY QuietWrite DEF PoolMember, PolicyMember
<1>2. /\ Calm(Write({"block_timestamp"})) /\ Calm(Write({"research"}))
      /\ Calm(Write({"last_timestamp"})) /\ Calm(<<>>)
  BY CalmWrite DEF Member, PoolMember, PolicyMember
<1>3. \A p, q \in Quiet : Calm(p) /\ Calm(q) => Calm(p \o q)
  BY CalmConcat DEF Quiet
<1> DEFINE clock(last) == Write({"block_timestamp"}) \o Write({"research"}) \o last
<1>4. \A last \in {<<>>, Write({"last_timestamp"})} :
        clock(last) \in Quiet /\ Calm(clock(last))
  BY <1>1, <1>2, <1>3, QuietCheck, QuietConcat
<1>5. SetClock = {clock(last) : last \in {<<>>, Write({"last_timestamp"})}}
  BY DEF SetClock
<1> HIDE DEF clock
<1> QED BY <1>4, <1>5

LEMMA QuietRefresh == RefreshContext \in SUBSET Quiet
<1>1. Write({"research"}) \in Quiet
  BY QuietWrite DEF PolicyMember
<1> QED BY <1>1, QuietCheck, QuietConcat DEF RefreshContext

LEMMA QuietRemoveLiquidity == RemoveLiquidity \in SUBSET Quiet
<1>1. Write({"balances"}) \in Quiet /\ Write({"D"}) \in Quiet
      /\ Write({"totalSupply"}) \in Quiet
  BY QuietWrite DEF PoolMember
<1>2. Withdraw \in Quiet
  BY <1>1, QuietConcat DEF Withdraw
<1> QED BY <1>2, QuietCheck, QuietConcat, QuietUpdatePolicy DEF RemoveLiquidity

(* Whatever is called tells the caller of the fee when nothing else can    *)
(* go wrong.                                                               *)
LEMMA EveryProgram ==
  ASSUME NEW r \in Requests, NEW p \in Program[r[2]]
  PROVE  p \in FeeLast
<1>1. r[2] \in {"exchange", "add_liquidity", "remove_liquidity", "fixed_out",
                "set_block_timestamp", "tick", "refresh_policy_context"}
  BY DEF Requests, HarnessOps, Program
<1>2. /\ Program["exchange"] = Exchange
      /\ Program["add_liquidity"] = AddLiquidity \cup FirstDeposit
      /\ Program["remove_liquidity"] = RemoveLiquidity
      /\ Program["fixed_out"] = RemoveFixedOut
      /\ Program["set_block_timestamp"] = SetClock
      /\ Program["tick"] = TweakAndStoreScale
      /\ Program["refresh_policy_context"] = RefreshContext
  BY DEF Program
<1> QED BY <1>1, <1>2, QuietIsFeeLast, QuietExchange, QuietTweak, QuietRefresh,
           QuietRemoveLiquidity, ClockPrograms, FeeLastAddLiquidity,
           FeeLastFirstDeposit, FeeLastRemoveFixedOut

(* A program without its first step.                                       *)
LEMMA TailProgram ==
  ASSUME NEW p \in Programs, p # <<>>
  PROVE  /\ Head(p) \in Steps /\ Head(p) = p[1]
         /\ Tail(p) \in Programs /\ Len(p) \in Nat \ {0}
         /\ Len(Tail(p)) = Len(p) - 1
         /\ \A k \in 1 .. Len(p) - 1 : Tail(p)[k] = p[k + 1]
         /\ 1 \in DOMAIN p /\ DOMAIN p = 1 .. Len(p)
         /\ DOMAIN Tail(p) = 1 .. Len(p) - 1
<1>1. Len(p) \in Nat \ {0}
  BY EmptySeq DEF Programs
<1>2. Head(p) \in Steps /\ Tail(p) \in Programs /\ Len(Tail(p)) = Len(p) - 1
      /\ \A k \in 1 .. Len(Tail(p)) : Tail(p)[k] = p[k + 1]
  BY HeadTailProperties DEF Programs
<1>3. DOMAIN p = 1 .. Len(p) /\ DOMAIN Tail(p) = 1 .. Len(Tail(p))
  BY <1>2, LenProperties DEF Programs
<1>4. Head(p) = p[1]
  OBVIOUS
<1> QED BY <1>1, <1>2, <1>3, <1>4

LEMMA TailWrites ==
  ASSUME NEW p \in Programs, p # <<>>, NEW m
  PROVE  Writes(p, m) <=> m \in Head(p).writes \/ Writes(Tail(p), m)
<1>1. ASSUME NEW k \in DOMAIN p, m \in p[k].writes
      PROVE  m \in Head(p).writes \/ Writes(Tail(p), m)
  <2>1. CASE k = 1
    BY <1>1, <2>1, TailProgram
  <2>2. CASE k # 1
    <3>1. k - 1 \in 1 .. Len(p) - 1 /\ (k - 1) + 1 = k
      BY <2>2, TailProgram
    <3>2. k - 1 \in DOMAIN Tail(p) /\ Tail(p)[k - 1] = p[k]
      BY <3>1, TailProgram
    <3> QED BY <1>1, <3>2 DEF Writes
  <2> QED BY <2>1, <2>2
<1>2. m \in Head(p).writes => Writes(p, m)
  BY TailProgram DEF Writes
<1>3. ASSUME NEW k \in DOMAIN Tail(p), m \in Tail(p)[k].writes
      PROVE  Writes(p, m)
  <2>1. k + 1 \in DOMAIN p /\ Tail(p)[k] = p[k + 1]
    BY TailProgram
  <2> QED BY <1>3, <2>1 DEF Writes
<1> QED BY <1>1, <1>2, <1>3 DEF Writes

LEMMA TailFeeLast ==
  ASSUME NEW p \in FeeLast, p # <<>>
  PROVE  /\ Tail(p) \in FeeLast
         /\ "charged_lp_fee" \in Head(p).writes => Tail(p) = <<>>
<1>1. p \in Programs
  BY DEF FeeLast
<1>2. ASSUME NEW k \in 1 .. Len(Tail(p)) - 1
      PROVE  "charged_lp_fee" \notin Tail(p)[k].writes
  <2>1. k + 1 \in 1 .. Len(p) - 1 /\ Tail(p)[k] = p[k + 1]
    BY <1>1, TailProgram
  <2> QED BY <2>1 DEF FeeLast
<1>3. ASSUME "charged_lp_fee" \in Head(p).writes PROVE Tail(p) = <<>>
  <2>1. 1 \notin 1 .. Len(p) - 1
    BY <1>1, <1>3, TailProgram DEF FeeLast
  <2>2. Len(Tail(p)) = 0
    <3>1. Len(p) \in Nat \ {0} /\ Len(Tail(p)) = Len(p) - 1
      BY <1>1, TailProgram
    <3> QED BY <2>1, <3>1
  <2> QED BY <1>1, <2>2, TailProgram, EmptySeq DEF Programs
<1> QED BY <1>1, <1>2, <1>3, TailProgram DEF FeeLast

LEMMA TailCalm ==
  ASSUME NEW p \in Programs, p # <<>>, Calm(p)
  PROVE  ~Head(p).throws /\ Calm(Tail(p))
<1>1. ~Head(p).throws
  BY TailProgram DEF Calm
<1>2. ASSUME NEW k \in DOMAIN Tail(p) PROVE ~Tail(p)[k].throws
  <2>1. k + 1 \in DOMAIN p /\ Tail(p)[k] = p[k + 1]
    BY TailProgram
  <2> QED BY <2>1 DEF Calm
<1> QED BY <1>1, <1>2 DEF Calm

LEMMA TailConcat ==
  ASSUME NEW p \in Programs, NEW q \in Programs, p # <<>>
  PROVE  p \o q # <<>> /\ Head(p \o q) = Head(p)
         /\ Tail(p \o q) = Tail(p) \o q
<1> DEFINE pq == p \o q
           t == Tail(p) \o q
<1>1. /\ pq \in Programs /\ Len(pq) = Len(p) + Len(q) /\ Len(q) \in Nat
      /\ \A k \in 1 .. Len(p) : pq[k] = p[k]
      /\ \A k \in 1 .. Len(q) : pq[k + Len(p)] = q[k]
  BY ConcatProgram
<1>2. Tail(p) \in Programs /\ Len(p) \in Nat \ {0} /\ Len(Tail(p)) = Len(p) - 1
      /\ \A k \in 1 .. Len(p) - 1 : Tail(p)[k] = p[k + 1]
  BY TailProgram
<1>3. /\ t \in Programs /\ Len(t) = Len(Tail(p)) + Len(q)
      /\ \A k \in 1 .. Len(Tail(p)) : t[k] = Tail(p)[k]
      /\ \A k \in 1 .. Len(Tail(p)) + Len(q) :
           \/ k \in 1 .. Len(Tail(p))
           \/ k - Len(Tail(p)) \in 1 .. Len(q) /\ t[k] = q[k - Len(Tail(p))]
  BY <1>2, ConcatProgram
<1> HIDE DEF pq, t
<1>4. pq # <<>> /\ Head(pq) = pq[1] /\ Head(p) = p[1]
  <2>1. Len(pq) # 0
    BY <1>1, <1>2
  <2> QED BY <1>1, <2>1, TailProgram, EmptySeq DEF Programs
<1>5. Tail(pq) \in Programs /\ Len(Tail(pq)) = Len(pq) - 1
      /\ \A k \in 1 .. Len(pq) - 1 : Tail(pq)[k] = pq[k + 1]
  BY <1>1, <1>4, TailProgram
<1>6. ASSUME NEW k \in 1 .. Len(t) PROVE Tail(pq)[k] = t[k]
  <2>1. CASE k \in 1 .. Len(p) - 1
    <3>1. k + 1 \in 1 .. Len(p) /\ k \in 1 .. Len(pq) - 1
      BY <1>1, <1>2, <2>1
    <3> QED BY <1>1, <1>2, <1>3, <1>5, <2>1, <3>1
  <2>2. CASE k - (Len(p) - 1) \in 1 .. Len(q) /\ t[k] = q[k - (Len(p) - 1)]
    <3> DEFINE n == k - (Len(p) - 1)
    <3>1. n \in 1 .. Len(q) /\ k + 1 = n + Len(p) /\ k \in 1 .. Len(pq) - 1
      BY <1>1, <1>2, <1>3, <2>2
    <3> HIDE DEF n
    <3>2. Tail(pq)[k] = pq[n + Len(p)]
      BY <1>5, <3>1
    <3> QED BY <1>1, <2>2, <3>1, <3>2 DEF n
  <2>3. k \in 1 .. Len(Tail(p)) + Len(q)
    BY <1>3
  <2> QED BY <1>2, <1>3, <2>1, <2>2, <2>3
<1>7. Len(Tail(pq)) = Len(t)
  BY <1>1, <1>2, <1>3, <1>5
<1>8. Tail(pq) = t
  BY <1>3, <1>5, <1>6, <1>7, SeqEqual DEF Programs
<1>9. pq[1] = p[1]
  BY <1>1, <1>2
<1> QED BY <1>4, <1>8, <1>9 DEF pq, t

-----------------------------------------------------------------------------
(* The inductive invariant.                                                *)

Handlers ==
  [saved : [Snapshot -> Nat] \cup [PolicySnapshot -> Nat],
   swallows : BOOLEAN]

TypeInv ==
  /\ value \in [Member -> Nat] /\ before \in [Member -> Nat] /\ calls \in Nat
  /\ outcome \in {"running", "throwing", "returned", "refused"}
  /\ InCall => request \in Requests
  /\ rest \in FeeLast /\ handlers \in Seq(Handlers)

(* The call in flight has written a member or left it alone.               *)
OneCall ==
  InCall => \A m \in Member : value[m] \in {before[m], calls}

(* The caller is told of the fee when nothing can throw any more.          *)
TellsLast ==
  InCall /\ value["charged_lp_fee"] # before["charged_lp_fee"] =>
    outcome = "running" /\ rest = <<>>

(* The handlers hold the pool as it was; only the one around the policy of *)
(* a withdrawal is inside it.                                              *)
HandlersSound ==
  \A k \in DOMAIN handlers :
    IF handlers[k].swallows
      THEN k = Len(handlers) /\ request[2] = "remove_liquidity"
      ELSE handlers[k].saved = [m \in Snapshot |-> before[m]]

TornOps == {<<"direct", "tick">>, <<"direct", "refresh_policy_context">>}

(* Once no handler is left, all is undone.                                 *)
Undone ==
  outcome = "throwing" /\ handlers = <<>> => value = before \/ request \in TornOps

Unguarded ==
  outcome = "running" /\ handlers = <<>> =>
    /\ request[2] \notin RolledBack
    /\ request[2] # "remove_liquidity" => request[1] = "direct"

ClockCannotThrow ==
  InCall /\ request[2] = "set_block_timestamp" =>
    outcome = "running" /\ Calm(rest)

(* A withdrawal: before its check, paying out, or asking the policy.       *)
Swallowing == handlers # <<>> /\ Last(handlers).swallows
Paid == {"totalSupply", "D", "balances"}
Told == {"policy_cache", "compiled_state"}

AtGate == value = before /\ rest \in RemoveLiquidity /\ ~Swallowing

PayingWith(p) ==
  /\ Calm(p) /\ (rest = p \/ rest = p \o UpdatePolicy)
  /\ \A m \in Member : Writes(p, m) => m \in Paid
  /\ \A m \in Paid : value[m] = calls \/ Writes(p, m)
  /\ \A m \in Member \ Paid : value[m] = before[m]

Paying == ~Swallowing /\ \E p \in Programs : PayingWith(p)

Asking ==
  /\ Swallowing /\ Last(handlers).saved = [m \in PolicySnapshot |-> before[m]]
  /\ \A m \in Paid : value[m] = calls
  /\ \A m \in Member \ (Paid \cup Told) : value[m] = before[m]
  /\ \A m \in Member : Writes(rest, m) => m \in Told
  /\ value["compiled_state"] = calls \/ Writes(rest, "compiled_state")

Exiting ==
  request[2] = "remove_liquidity" =>
    /\ outcome = "running" => AtGate \/ Paying \/ Asking
    /\ outcome = "throwing" => (value = before /\ ~Swallowing) \/ Asking
    /\ ExitIsBestEffort

Inv ==
  /\ TypeInv /\ OneCall /\ TellsLast /\ HandlersSound
  /\ Undone /\ Unguarded /\ ClockCannotThrow /\ Exiting

-----------------------------------------------------------------------------
(* What a withdrawal writes, and when.                                     *)

LEMMA UpdatePolicyWrites ==
  UpdatePolicy \in Programs /\ \A m : Writes(UpdatePolicy, m) <=> m \in Told
<1> DEFINE a == Check \o Write({"policy_cache"})
           b == a \o Check
           c == b \o Write({"compiled_state"})
<1>1. /\ Write({"policy_cache"}) \in Programs
      /\ Write({"compiled_state"}) \in Programs /\ Check \in Programs
      /\ \A m : Writes(Write({"policy_cache"}), m) <=> m = "policy_cache"
      /\ \A m : Writes(Write({"compiled_state"}), m) <=> m = "compiled_state"
      /\ \A m : ~Writes(Check, m)
  BY WriteIsProgram, CheckIsProgram DEF Member, PolicyMember
<1>2. a \in Programs /\ \A m : Writes(a, m) <=> m = "policy_cache"
  BY <1>1, ConcatProgram, ConcatWrites
<1> HIDE DEF a
<1>3. b \in Programs /\ \A m : Writes(b, m) <=> m = "policy_cache"
  BY <1>1, <1>2, ConcatProgram, ConcatWrites
<1> HIDE DEF b
<1>4. c \in Programs /\ \A m : Writes(c, m) <=> m \in Told
  BY <1>1, <1>3, ConcatProgram, ConcatWrites DEF Told
<1> HIDE DEF c
<1>5. c \o Check \in Programs /\ \A m : Writes(c \o Check, m) <=> m \in Told
  BY <1>1, <1>4, ConcatProgram, ConcatWrites
<1> QED BY <1>5 DEF UpdatePolicy, c, b, a

LEMMA WithdrawPays ==
  /\ Withdraw \in Programs /\ Calm(Withdraw)
  /\ \A m : Writes(Withdraw, m) <=> m \in Paid
<1> DEFINE a == Write({"totalSupply"}) \o Write({"D"})
<1>1. /\ Write({"totalSupply"}) \in Programs /\ Write({"D"}) \in Programs
      /\ Write({"balances"}) \in Programs
      /\ Calm(Write({"totalSupply"})) /\ Calm(Write({"D"}))
      /\ Calm(Write({"balances"}))
      /\ \A m : Writes(Write({"totalSupply"}), m) <=> m = "totalSupply"
      /\ \A m : Writes(Write({"D"}), m) <=> m = "D"
      /\ \A m : Writes(Write({"balances"}), m) <=> m = "balances"
  BY WriteIsProgram, CalmWrite DEF Member, PoolMember
<1>2. a \in Programs /\ Calm(a)
      /\ \A m : Writes(a, m) <=> m \in {"totalSupply", "D"}
  BY <1>1, ConcatProgram, ConcatWrites, CalmConcat
<1> HIDE DEF a
<1>3. /\ a \o Write({"balances"}) \in Programs
      /\ Calm(a \o Write({"balances"}))
      /\ \A m : Writes(a \o Write({"balances"}), m) <=> m \in Paid
  BY <1>1, <1>2, ConcatProgram, ConcatWrites, CalmConcat DEF Paid
<1> QED BY <1>3 DEF Withdraw, a

(* The gate is the only check before the payment.                          *)
LEMMA RemoveLiquidityShape ==
  ASSUME NEW p \in RemoveLiquidity
  PROVE  /\ p \in Programs /\ p # <<>> /\ p # UpdatePolicy
         /\ Head(p).writes = {}
         /\ Tail(p) = Withdraw \/ Tail(p) = Withdraw \o UpdatePolicy
<1>1. Check \in Programs /\ Withdraw \in Programs /\ UpdatePolicy \in Programs
      /\ Check # <<>> /\ Head(Check).writes = {} /\ Tail(Check) = <<>>
  <2>1. [throws |-> TRUE, writes |-> {}] \in Steps
    BY DEF Steps
  <2>2. Check \in Programs /\ Len(Check) = 1 /\ Check[1].writes = {}
    BY <2>1, OneStep DEF Check
  <2>3. Check # <<>>
    BY <2>2, EmptySeq DEF Programs
  <2>4. Head(Check) = Check[1] /\ Tail(Check) \in Programs /\ Len(Tail(Check)) = 0
    <3>1. /\ Head(Check) = Check[1] /\ Tail(Check) \in Programs
          /\ Len(Tail(Check)) = Len(Check) - 1
      BY <2>2, <2>3, TailProgram
    <3> QED BY <2>2, <3>1
  <2>5. Tail(Check) = <<>>
    BY <2>4, EmptySeq DEF Programs
  <2> QED BY <2>2, <2>3, <2>4, <2>5, WithdrawPays, UpdatePolicyWrites
<1> DEFINE both == Withdraw \o UpdatePolicy
<1>2. both \in Programs /\ Writes(both, "totalSupply") /\ Writes(Withdraw, "totalSupply")
  BY <1>1, ConcatProgram, ConcatWrites, WithdrawPays DEF Paid
<1>3. p = Check \o Withdraw \/ p = Check \o both
  <2>1. (Check \o Withdraw) \o UpdatePolicy = Check \o both
    <3>1. Joined(Joined(Check, Withdraw), UpdatePolicy)
            = Joined(Check, Joined(Withdraw, UpdatePolicy))
      BY <1>1, JoinThree
    <3> QED BY <3>1 DEF Joined
  <2> QED BY <2>1 DEF RemoveLiquidity
<1> HIDE DEF both
<1>4. PICK q \in {Withdraw, both} : p = Check \o q
  BY <1>3
<1>5. q \in Programs /\ Writes(q, "totalSupply")
  BY <1>1, <1>2
<1>6. p \in Programs /\ p # <<>> /\ Head(p) = Head(Check) /\ Tail(p) = Tail(Check) \o q
  BY <1>1, <1>4, <1>5, TailConcat, ConcatProgram
<1>7. Tail(p) = q
  BY <1>1, <1>5, <1>6, ConcatEmptySeq DEF Programs
<1>8. p # UpdatePolicy
  <2>1. Writes(p, "totalSupply")
    BY <1>1, <1>4, <1>5, ConcatWrites
  <2>2. ~Writes(UpdatePolicy, "totalSupply")
    BY UpdatePolicyWrites DEF Told
  <2> QED BY <2>1, <2>2
<1> QED BY <1>1, <1>6, <1>7, <1>8 DEF both

-----------------------------------------------------------------------------
(* Steps.                                                                  *)

LEMMA NothingSwallows ==
  ASSUME Inv, ~Swallowing
  PROVE  \A k \in DOMAIN handlers : ~handlers[k].swallows
<1> SUFFICES ASSUME NEW k \in DOMAIN handlers, handlers[k].swallows
             PROVE  FALSE
  OBVIOUS
<1>1. k = Len(handlers)
  BY DEF Inv, HandlersSound
<1>2. handlers # <<>>
  <2>1. handlers = <<>> => DOMAIN handlers = {}
    OBVIOUS
  <2> QED BY <2>1
<1> QED BY <1>1, <1>2 DEF Swallowing, Last

LEMMA EmptyWrites == <<>> \in Programs /\ Calm(<<>>) /\ \A m : ~Writes(<<>>, m)
BY CalmWrite DEF Writes

LEMMA BeginStep ==
  ASSUME Inv, NEW r \in Requests, NEW program \in Program[r[2]],
         Begin(r, program)
  PROVE  Inv'
<1> DEFINE h == Handler(Snapshot, FALSE)
           outer == IF r[1] = "harness" THEN <<h>> ELSE <<>>
           inner == IF r[2] \in RolledBack THEN <<h>> ELSE <<>>
<1>1. /\ request' = r /\ before' = value /\ value' = value /\ calls' = calls + 1
      /\ outcome' = "running" /\ rest' = program
      /\ handlers' = outer \o inner
  BY DEF Begin
<1>2. h \in Handlers /\ ~h.swallows /\ h.saved = [m \in Snapshot |-> value[m]]
  <2>1. Snapshot \subseteq Member
    BY DEF Snapshot, Member
  <2> QED BY <2>1 DEF Inv, TypeInv, Handler, Saved, Handlers
<1>3. outer \in Seq({h}) /\ inner \in Seq({h})
  <2>1. \A g : <<g>> \in Seq({g}) /\ <<>> \in Seq({g})
    OBVIOUS
  <2> HIDE DEF h
  <2> QED BY <2>1
<1>4. handlers' \in Seq({h})
  BY <1>1, <1>3, ConcatProperties
<1>5. \A k \in DOMAIN handlers' : handlers'[k] = h
  <2>1. \A k \in DOMAIN handlers' : handlers'[k] \in {h}
    BY <1>4, LenProperties, ElementOfSeq
  <2> QED BY <2>1
<1>6. handlers' \in Seq(Handlers)
  <2>1. {h} \subseteq Handlers
    BY <1>2
  <2> QED BY <1>4, <2>1, SeqMonotonic
<1>7. HandlersSound'
  BY <1>1, <1>2, <1>5 DEF HandlersSound
<1>8. ~Swallowing'
  <2>1. handlers' # <<>> => Len(handlers') \in DOMAIN handlers'
    BY <1>4, EmptySeq
  <2> QED BY <1>2, <1>5, <2>1 DEF Swallowing, Last
<1>9. handlers' = <<>> => r[1] # "harness" /\ r[2] \notin RolledBack
  <2>1. handlers' = <<>> => outer = <<>> /\ inner = <<>>
    BY <1>1, <1>3, ConcatEqualIffEmpty
  <2>2. <<h>> # <<>>
    BY EmptySeq
  <2> QED BY <2>1, <2>2
<1> HIDE DEF outer, inner, h
<1>10. Unguarded'
  BY <1>1, <1>9 DEF Unguarded, Requests
<1>11. TypeInv'
  BY <1>1, <1>6, EveryProgram DEF Inv, TypeInv
<1>12. OneCall' /\ TellsLast' /\ Undone'
  BY <1>1 DEF OneCall, TellsLast, Undone
<1>13. ClockCannotThrow'
  BY <1>1, ClockPrograms DEF ClockCannotThrow, Program
<1>14. Exiting'
  <2>1. r[2] = "remove_liquidity" => AtGate'
    BY <1>1, <1>8 DEF AtGate, Program
  <2> QED BY <1>1, <2>1 DEF Exiting, ExitIsBestEffort
<1> QED BY <1>7, <1>10, <1>11, <1>12, <1>13, <1>14 DEF Inv

LEMMA EnterPolicyHandlerStep ==
  ASSUME Inv, EnterPolicyHandler
  PROVE  Inv'
<1> DEFINE h == Handler(PolicySnapshot, TRUE)
<1>1. /\ UNCHANGED <<value, calls, request, outcome, rest, before>>
      /\ outcome = "running" /\ request[2] = "remove_liquidity"
      /\ rest = UpdatePolicy /\ handlers' = Append(handlers, h)
      /\ \A k \in DOMAIN handlers : ~handlers[k].swallows
  BY DEF EnterPolicyHandler, Guarded
<1>2. h \in Handlers /\ h.swallows /\ h.saved = [m \in PolicySnapshot |-> value[m]]
  <2>1. PolicySnapshot \subseteq Member
    BY DEF PolicySnapshot, Member
  <2> QED BY <2>1 DEF Inv, TypeInv, Handler, Saved, Handlers
<1> HIDE DEF h
<1>3. /\ handlers' \in Seq(Handlers) /\ Len(handlers') = Len(handlers) + 1
      /\ Len(handlers) \in Nat /\ handlers' # <<>>
      /\ handlers'[Len(handlers')] = h
      /\ \A k \in 1 .. Len(handlers) : handlers'[k] = handlers[k]
      /\ DOMAIN handlers = 1 .. Len(handlers)
      /\ DOMAIN handlers' = 1 .. Len(handlers) + 1
  <2>1. handlers \in Seq(Handlers)
    BY DEF Inv, TypeInv
  <2> QED BY <1>1, <1>2, <2>1, AppendProperties, EmptySeq
<1>4. HandlersSound'
  BY <1>1, <1>2, <1>3 DEF Inv, HandlersSound
<1>5. ~Swallowing
  <2>1. handlers # <<>> => Len(handlers) \in DOMAIN handlers
    BY <1>3, EmptySeq DEF Inv, TypeInv
  <2> QED BY <1>1, <2>1 DEF Swallowing, Last
<1>6. Swallowing' /\ Last(handlers)' = h
  BY <1>2, <1>3 DEF Swallowing, Last
<1>7. /\ \A m \in Paid : value[m] = calls
      /\ \A m \in Member \ Paid : value[m] = before[m]
  <2>1. Paying
    BY <1>1, <1>5, RemoveLiquidityShape DEF Inv, Exiting, AtGate, Asking
  <2>2. PICK p \in Programs : PayingWith(p)
    BY <2>1 DEF Paying
  <2>3. rest # p
    <3>1. Writes(UpdatePolicy, "policy_cache") /\ "policy_cache" \in Member
      BY UpdatePolicyWrites DEF Told, Member, PolicyMember
    <3>2. ~Writes(p, "policy_cache")
      BY <2>2, <3>1 DEF PayingWith, Paid
    <3> QED BY <1>1, <3>1, <3>2
  <2>4. p \o UpdatePolicy = UpdatePolicy
    BY <1>1, <2>2, <2>3 DEF PayingWith
  <2>5. p = <<>>
    BY <2>4, UpdatePolicyWrites, ConcatEqualIffEmpty DEF Programs
  <2> QED BY <2>2, <2>5, EmptyWrites DEF PayingWith
<1>8. Asking'
  <2>1. \A m \in PolicySnapshot : m \in Member \ Paid
    BY DEF PolicySnapshot, PolicyMember, Member, Paid
  <2>2. h.saved = [m \in PolicySnapshot |-> before[m]]
    BY <1>2, <1>7, <2>1
  <2>3. Writes(rest, "compiled_state") /\ \A m : Writes(rest, m) => m \in Told
    BY <1>1, UpdatePolicyWrites DEF Told
  <2> QED BY <1>1, <1>6, <1>7, <2>2, <2>3 DEF Asking
<1>9. Exiting'
  BY <1>1, <1>8 DEF Exiting, ExitIsBestEffort
<1>10. TypeInv' /\ OneCall' /\ TellsLast' /\ Undone' /\ Unguarded'
       /\ ClockCannotThrow'
  BY <1>1, <1>3
     DEF Inv, TypeInv, OneCall, TellsLast, Undone, Unguarded,
         ClockCannotThrow, InCall
<1> QED BY <1>4, <1>9, <1>10 DEF Inv

(* A step of a withdrawal that has passed its check.                       *)
LEMMA PayingStep ==
  ASSUME Inv, Step, Paying, request[2] = "remove_liquidity"
  PROVE  Paying'
<1>1. PICK p \in Programs : PayingWith(p)
  BY DEF Paying
<1>2. /\ UNCHANGED <<calls, request, outcome, handlers, before>>
      /\ rest # <<>> /\ ~Guarded /\ rest' = Tail(rest)
      /\ value' = [m \in Member |-> IF m \in Head(rest).writes THEN calls
                                    ELSE value[m]]
  BY DEF Step
<1>3. p # <<>>
  <2>1. ASSUME p = <<>> PROVE rest = UpdatePolicy
    BY <1>1, <1>2, <2>1, UpdatePolicyWrites, ConcatEmptySeq
       DEF PayingWith, Programs
  <2>2. \A k \in DOMAIN handlers : ~handlers[k].swallows
    BY NothingSwallows DEF Paying
  <2> QED BY <1>2, <2>1, <2>2 DEF Guarded
<1>4. Head(rest) = Head(p)
      /\ (rest' = Tail(p) \/ rest' = Tail(p) \o UpdatePolicy)
  BY <1>1, <1>2, <1>3, UpdatePolicyWrites, TailConcat DEF PayingWith
<1>5. Tail(p) \in Programs /\ Calm(Tail(p))
      /\ \A m : Writes(p, m) <=> m \in Head(p).writes \/ Writes(Tail(p), m)
  BY <1>1, <1>3, TailProgram, TailCalm, TailWrites DEF PayingWith
<1>6. \A m \in Member : value'[m] = IF m \in Head(p).writes THEN calls
                                    ELSE value[m]
  BY <1>2, <1>4
<1>7. \A m \in Paid : m \in Member
  BY DEF Paid, Member, PoolMember
<1> DEFINE t == Tail(p)
<1> HIDE DEF t
<1>8. \A m \in Paid : value'[m] = calls \/ Writes(t, m)
  BY <1>1, <1>5, <1>6, <1>7 DEF PayingWith, t
<1>9. \A m \in Member \ Paid : value'[m] = before[m]
  BY <1>1, <1>5, <1>6 DEF PayingWith
<1>10. \A m \in Member : Writes(t, m) => m \in Paid
  BY <1>1, <1>5 DEF PayingWith, t
<1>11. PayingWith(t)'
  BY <1>2, <1>4, <1>5, <1>8, <1>9, <1>10 DEF PayingWith, t
<1>12. ~Swallowing'
  BY <1>2 DEF Paying, Swallowing
<1> QED BY <1>5, <1>11, <1>12 DEF Paying, t

LEMMA StepStep ==
  ASSUME Inv, Step
  PROVE  Inv'
<1>1. /\ UNCHANGED <<calls, request, outcome, handlers, before>>
      /\ outcome = "running" /\ rest # <<>> /\ rest' = Tail(rest)
      /\ value' = [m \in Member |-> IF m \in Head(rest).writes THEN calls
                                    ELSE value[m]]
  BY DEF Step
<1>2. rest \in FeeLast /\ rest \in Programs /\ rest' \in FeeLast
      /\ ("charged_lp_fee" \in Head(rest).writes => rest' = <<>>)
  BY <1>1, TailFeeLast DEF Inv, TypeInv, FeeLast
<1>3. TypeInv'
  BY <1>1, <1>2 DEF Inv, TypeInv, InCall
<1>4. OneCall'
  BY <1>1 DEF Inv, OneCall, InCall
<1>5. TellsLast'
  <2>1. value'["charged_lp_fee"] = value["charged_lp_fee"] \/ rest' = <<>>
    BY <1>1, <1>2 DEF Member
  <2> QED BY <1>1, <2>1 DEF Inv, TellsLast, InCall
<1>6. HandlersSound' /\ Undone' /\ Unguarded'
  BY <1>1 DEF Inv, HandlersSound, Undone, Unguarded
<1>7. ClockCannotThrow'
  BY <1>1, <1>2, TailCalm DEF Inv, ClockCannotThrow, InCall
<1>8. ASSUME request[2] = "remove_liquidity" PROVE Paying' \/ Asking'
  <2>1. CASE AtGate
    <3>1. Head(rest).writes = {}
          /\ (rest' = Withdraw \/ rest' = Withdraw \o UpdatePolicy)
      BY <1>1, <2>1, RemoveLiquidityShape DEF AtGate
    <3>2. \A m \in Member : value'[m] = before[m]
      BY <1>1, <2>1, <3>1 DEF AtGate
    <3>3. PayingWith(Withdraw)'
      <4>1. \A m \in Member : Writes(Withdraw, m) => m \in Paid
        BY WithdrawPays
      <4>2. \A m \in Paid : Writes(Withdraw, m)
        BY WithdrawPays
      <4> HIDE DEF Withdraw
      <4> QED BY <1>1, <3>1, <3>2, <4>1, <4>2, WithdrawPays DEF PayingWith
    <3>4. ~Swallowing'
      BY <1>1, <2>1 DEF AtGate, Swallowing
    <3> QED BY <3>3, <3>4, WithdrawPays DEF Paying
  <2>2. CASE Paying
    BY <1>8, <2>2, PayingStep
  <2>3. CASE Asking
    <3>1. \A m : Writes(rest, m) <=> m \in Head(rest).writes \/ Writes(rest', m)
      BY <1>1, <1>2, TailWrites
    <3>2. \A m \in Member : value'[m] = IF m \in Head(rest).writes THEN calls
                                        ELSE value[m]
      BY <1>1
    <3>3. /\ \A m \in Paid : m \in Member
          /\ "compiled_state" \in Member
      BY DEF Paid, Member, PoolMember, PolicyMember
    <3>4. \A m \in Paid : value'[m] = calls
      BY <2>3, <3>2, <3>3 DEF Asking
    <3>5. \A m \in Member \ (Paid \cup Told) : value'[m] = before[m]
      BY <2>3, <3>1, <3>2 DEF Asking
    <3>6. value'["compiled_state"] = calls \/ Writes(rest', "compiled_state")
      BY <2>3, <3>1, <3>2, <3>3 DEF Asking
    <3>7. \A m \in Member : Writes(rest', m) => m \in Told
      BY <2>3, <3>1 DEF Asking
    <3>8. Swallowing' /\ Last(handlers)' = Last(handlers)
      BY <1>1, <2>3 DEF Asking, Swallowing
    <3>9. Last(handlers').saved = [m \in PolicySnapshot |-> before[m]]
      BY <1>1, <2>3 DEF Asking
    <3> QED BY <1>1, <3>4, <3>5, <3>6, <3>7, <3>8, <3>9 DEF Asking
  <2> QED BY <1>1, <1>8, <2>1, <2>2, <2>3 DEF Inv, Exiting
<1>9. Exiting'
  BY <1>1, <1>8 DEF Exiting, ExitIsBestEffort
<1> QED BY <1>3, <1>4, <1>5, <1>6, <1>7, <1>9 DEF Inv

LEMMA ThrowStep ==
  ASSUME Inv, Throw
  PROVE  Inv'
<1>1. /\ UNCHANGED <<value, calls, request, rest, handlers, before>>
      /\ outcome = "running" /\ outcome' = "throwing" /\ rest # <<>>
      /\ ~Guarded /\ Head(rest).throws
  BY DEF Throw
<1>2. rest \in Programs /\ ~Calm(rest)
  BY <1>1, TailCalm DEF Inv, TypeInv, FeeLast
<1>3. request[2] # "set_block_timestamp"
  BY <1>1, <1>2 DEF Inv, ClockCannotThrow, InCall
<1>4. request[2] = "remove_liquidity" => ~Paying
  <2> SUFFICES ASSUME NEW p \in Programs, PayingWith(p), ~Swallowing,
                      request[2] = "remove_liquidity"
               PROVE  FALSE
    BY <1>1 DEF Paying
  <2>1. p = <<>>
    <3> SUFFICES ASSUME p # <<>> PROVE FALSE
      OBVIOUS
    <3>1. rest = p \o UpdatePolicy
      BY <1>2 DEF PayingWith
    <3>2. Head(rest) = Head(p)
      BY <3>1, UpdatePolicyWrites, TailConcat
    <3> QED BY <1>1, <3>2, TailCalm DEF PayingWith
  <2>2. rest = UpdatePolicy
    BY <1>1, <2>1, UpdatePolicyWrites, ConcatEmptySeq DEF PayingWith, Programs
  <2> QED BY <1>1, <2>2, NothingSwallows DEF Guarded
<1>5. request[2] = "remove_liquidity" =>
        (value = before /\ ~Swallowing) \/ Asking
  BY <1>1, <1>4 DEF Inv, Exiting, AtGate
<1>6. Exiting'
  <2>1. Asking => Asking'
    BY <1>1 DEF Asking, Swallowing
  <2>2. Swallowing' <=> Swallowing
    BY <1>1 DEF Swallowing
  <2> QED BY <1>1, <1>5, <2>1, <2>2 DEF Exiting, ExitIsBestEffort
<1>7. Undone'
  <2> SUFFICES ASSUME handlers = <<>>
               PROVE  value = before \/ request \in TornOps
    BY <1>1 DEF Undone
  <2>1. request \in Requests /\ request[2] \notin RolledBack
        /\ (request[2] # "remove_liquidity" => request[1] = "direct")
    BY <1>1 DEF Inv, TypeInv, Unguarded, InCall
  <2>2. CASE request[2] = "remove_liquidity"
    BY <1>5, <2>2 DEF Asking, Swallowing
  <2>3. CASE request[2] # "remove_liquidity"
    <3>1. request[2] \in {"tick", "refresh_policy_context"}
      BY <1>3, <2>1, <2>3 DEF Requests, HarnessOps, Program, RolledBack
    <3> QED BY <2>1, <2>3, <3>1 DEF Requests, TornOps
  <2> QED BY <2>2, <2>3
<1>8. TypeInv' /\ OneCall' /\ HandlersSound' /\ Unguarded'
  BY <1>1 DEF Inv, TypeInv, OneCall, HandlersSound, Unguarded, InCall
<1>9. TellsLast' /\ ClockCannotThrow'
  BY <1>1, <1>3 DEF Inv, TellsLast, ClockCannotThrow, InCall
<1> QED BY <1>6, <1>7, <1>8, <1>9 DEF Inv

(* What the innermost handler restores.                                    *)
LEMMA CatchStep ==
  ASSUME Inv, Catch
  PROVE  Inv'
<1> DEFINE h == Last(handlers)
<1>1. /\ UNCHANGED <<calls, request, before>>
      /\ outcome = "throwing" /\ handlers # <<>>
      /\ value' = Restored(h.saved) /\ handlers' = Front(handlers)
      /\ IF h.swallows THEN outcome' = "running" /\ rest' = <<>>
                       ELSE UNCHANGED <<outcome, rest>>
  BY DEF Catch
<1>2. /\ Len(handlers) \in Nat \ {0} /\ DOMAIN handlers = 1 .. Len(handlers)
      /\ Len(handlers) \in DOMAIN handlers /\ h = handlers[Len(handlers)]
      /\ h \in Handlers
  BY <1>1, EmptySeq, ElementOfSeq DEF Inv, TypeInv, Last
<1>3. /\ handlers' \in Seq(Handlers) /\ Len(handlers') = Len(handlers) - 1
      /\ DOMAIN handlers' = 1 .. Len(handlers) - 1
      /\ \A k \in 1 .. Len(handlers) - 1 : handlers'[k] = handlers[k]
  BY <1>1, <1>2 DEF Inv, TypeInv, Front
<1> HIDE DEF h
<1>4. \A k \in DOMAIN handlers' :
        /\ k \in DOMAIN handlers /\ ~handlers[k].swallows
        /\ handlers'[k] = handlers[k]
  <2> SUFFICES ASSUME NEW k \in DOMAIN handlers'
               PROVE  /\ k \in DOMAIN handlers /\ ~handlers[k].swallows
                      /\ handlers'[k] = handlers[k]
    OBVIOUS
  <2>1. k \in 1 .. Len(handlers) - 1
    BY <1>3
  <2>2. k \in DOMAIN handlers /\ k # Len(handlers)
    BY <1>2, <2>1
  <2>3. handlers'[k] = handlers[k]
    BY <1>3, <2>1
  <2> QED BY <2>2, <2>3 DEF Inv, HandlersSound
<1>5. HandlersSound'
  BY <1>1, <1>4 DEF Inv, HandlersSound
<1>6. ~Swallowing'
  <2>1. handlers' # <<>> => Len(handlers') \in DOMAIN handlers'
    BY <1>3, EmptySeq
  <2> QED BY <1>4, <2>1 DEF Swallowing, Last
<1>7. request \in Requests /\ value \in [Member -> Nat] /\ before \in [Member -> Nat]
  BY <1>1 DEF Inv, TypeInv, InCall
<1>8. \A m \in Member : value'[m] = IF m \in DOMAIN h.saved THEN h.saved[m]
                                    ELSE value[m]
  BY <1>1 DEF Restored
<1>9. CASE h.swallows
  <2>1. outcome' = "running" /\ rest' = <<>> /\ request[2] = "remove_liquidity"
    BY <1>1, <1>2, <1>9 DEF Inv, HandlersSound
  <2>2. Asking
    BY <1>1, <1>9, <2>1 DEF Inv, Exiting, Swallowing, h
  <2>3. \A m \in Member :
          value'[m] = IF m \in PolicySnapshot THEN before[m] ELSE value[m]
    BY <1>8, <2>2 DEF Asking, h
  <2>4. /\ \A m \in Paid : m \in Member \ PolicySnapshot
        /\ \A m \in Told : m \in PolicySnapshot
    BY DEF Paid, Told, PolicySnapshot, PolicyMember, PoolMember, Member
  <2>5. /\ \A m \in Paid : value'[m] = calls
        /\ \A m \in Member \ Paid : value'[m] = before[m]
    BY <2>2, <2>3, <2>4 DEF Asking
  <2>6. PayingWith(<<>>)'
    BY <1>1, <2>1, <2>5, EmptyWrites DEF PayingWith
  <2>7. Exiting'
    BY <1>6, <2>1, <2>6, EmptyWrites DEF Exiting, Paying, ExitIsBestEffort
  <2>8. value' \in [Member -> Nat]
    <3>1. value' = [m \in Member |-> value'[m]]
      BY <1>1 DEF Restored
    <3>2. \A m \in Member : value'[m] \in Nat
      BY <1>7, <2>3
    <3> QED BY <3>1, <3>2
  <2>9. TypeInv'
    BY <1>1, <1>3, <1>7, <2>1, <2>8, EmptyWrites, QuietCheck, QuietIsFeeLast
       DEF Inv, TypeInv
  <2>10. OneCall' /\ TellsLast' /\ Undone'
    BY <1>1, <2>1, <2>3 DEF Inv, OneCall, TellsLast, Undone, InCall
  <2>11. Unguarded' /\ ClockCannotThrow'
    BY <1>1, <2>1 DEF Unguarded, ClockCannotThrow, RolledBack
  <2> QED BY <1>5, <2>7, <2>9, <2>10, <2>11 DEF Inv
<1>10. CASE ~h.swallows
  <2>1. outcome' = "throwing" /\ rest' = rest
    BY <1>1, <1>10
  <2>2. h.saved = [m \in Snapshot |-> before[m]]
    BY <1>2, <1>10 DEF Inv, HandlersSound
  <2>3. value["charged_lp_fee"] = before["charged_lp_fee"]
    BY <1>1 DEF Inv, TellsLast, InCall
  <2>4. \A m \in Member : m \in Snapshot \/ m = "charged_lp_fee"
    BY DEF Member, Snapshot
  <2>5. \A m \in Member : value'[m] = before[m]
    BY <1>8, <2>2, <2>3, <2>4
  <2>6. value' = before /\ before' = before
    <3>1. value' = [m \in Member |-> value'[m]]
      BY <1>1 DEF Restored
    <3> QED BY <1>1, <1>7, <2>5, <3>1
  <2>7. TypeInv'
    BY <1>1, <1>3, <1>7, <2>1, <2>6 DEF Inv, TypeInv
  <2>8. OneCall' /\ TellsLast' /\ Undone' /\ Unguarded'
    BY <1>1, <2>1, <2>6 DEF OneCall, TellsLast, Undone, Unguarded, InCall
  <2>9. ClockCannotThrow'
    BY <1>1, <2>1 DEF Inv, ClockCannotThrow, InCall
  <2>10. Exiting'
    BY <1>6, <2>1, <2>6 DEF Exiting, ExitIsBestEffort
  <2> QED BY <1>5, <2>7, <2>8, <2>9, <2>10 DEF Inv
<1> QED BY <1>9, <1>10

LEMMA FailStep ==
  ASSUME Inv, Fail
  PROVE  Inv'
<1>1. /\ UNCHANGED <<value, calls, request, handlers, before>>
      /\ handlers = <<>> /\ outcome' = "refused" /\ rest' = <<>>
  BY DEF Fail
<1>2. <<>> \in FeeLast
  BY QuietCheck, QuietIsFeeLast
<1>3. TypeInv'
  BY <1>1, <1>2 DEF Inv, TypeInv, InCall
<1>4. HandlersSound' /\ Exiting'
  BY <1>1 DEF Inv, HandlersSound, Exiting, ExitIsBestEffort
<1>5. OneCall' /\ TellsLast' /\ Undone' /\ Unguarded' /\ ClockCannotThrow'
  BY <1>1 DEF OneCall, TellsLast, Undone, Unguarded, ClockCannotThrow, InCall
<1> QED BY <1>3, <1>4, <1>5 DEF Inv

LEMMA ReturnStep ==
  ASSUME Inv, Return
  PROVE  Inv'
<1>1. /\ UNCHANGED <<value, calls, request, rest, before>>
      /\ outcome = "running" /\ rest = <<>>
      /\ outcome' = "returned" /\ handlers' = <<>>
  BY DEF Return
<1>2. handlers' \in Seq(Handlers) /\ DOMAIN handlers' = {}
  BY <1>1
<1>3. TypeInv' /\ HandlersSound'
  BY <1>1, <1>2 DEF Inv, TypeInv, HandlersSound, InCall
<1>4. OneCall' /\ TellsLast' /\ Undone' /\ Unguarded' /\ ClockCannotThrow'
  BY <1>1 DEF OneCall, TellsLast, Undone, Unguarded, ClockCannotThrow, InCall
<1>5. ASSUME request[2] = "remove_liquidity" PROVE ExitIsBestEffort'
  <2>1. /\ \A m \in Member \ (Paid \cup Told) :
             m \in Member \ {"totalSupply", "D", "balances",
                            "compiled_state", "policy_cache"}
        /\ \A m \in Member \ {"totalSupply", "D", "balances",
                              "compiled_state", "policy_cache"} :
             m \in Member \ (Paid \cup Told)
        /\ \A m \in PolicyMember : m \in Member \ Paid
    BY DEF Paid, Told, Member, PoolMember, PolicyMember
  <2>2. CASE AtGate
    BY <1>1, <2>2, RemoveLiquidityShape DEF AtGate
  <2>3. CASE Paying
    <3>1. PICK p \in Programs : PayingWith(p)
      BY <2>3 DEF Paying
    <3>2. p = <<>>
      <4>1. p \o UpdatePolicy = <<>> => p = <<>>
        BY UpdatePolicyWrites, ConcatEqualIffEmpty DEF Programs
      <4>2. p = <<>> \/ p \o UpdatePolicy = <<>>
        BY <1>1, <3>1 DEF PayingWith
      <4> QED BY <4>1, <4>2
    <3>3. /\ \A m \in Paid : value[m] = calls
          /\ \A m \in Member \ Paid : value[m] = before[m]
      BY <3>1, <3>2, EmptyWrites DEF PayingWith
    <3> QED BY <1>1, <2>1, <3>3 DEF ExitIsBestEffort, Paid
  <2>4. CASE Asking
    <3>1. value["compiled_state"] = calls
      BY <1>1, <2>4, EmptyWrites DEF Asking
    <3> QED BY <1>1, <2>1, <2>4, <3>1 DEF Asking, ExitIsBestEffort, Paid
  <2> QED BY <1>1, <1>5, <2>2, <2>3, <2>4 DEF Inv, Exiting
<1>6. Exiting'
  BY <1>1, <1>5 DEF Exiting
<1> QED BY <1>3, <1>4, <1>6 DEF Inv

LEMMA StutterStep ==
  ASSUME Inv, UNCHANGED vars
  PROVE  Inv'
<1>1. /\ value' = value /\ calls' = calls /\ request' = request
      /\ outcome' = outcome /\ rest' = rest /\ handlers' = handlers
      /\ before' = before
  BY DEF vars
<1>2. (\E p \in Programs : PayingWith(p)) => (\E p \in Programs : PayingWith(p)')
  BY <1>1 DEF PayingWith
<1>3. Exiting'
  BY <1>1, <1>2
     DEF Inv, Exiting, ExitIsBestEffort, AtGate, Asking, Paying, Swallowing
<1> QED BY <1>1, <1>3
        DEF Inv, TypeInv, OneCall, TellsLast, HandlersSound, Undone, Unguarded,
            ClockCannotThrow, InCall

LEMMA InitInv == Init => Inv
<1> SUFFICES ASSUME Init PROVE Inv
  OBVIOUS
<1>1. /\ value = [m \in Member |-> 0] /\ before = value /\ calls = 0
      /\ outcome = "returned" /\ request = <<"none", "none">>
      /\ rest = <<>> /\ handlers = <<>>
  BY DEF Init
<1>2. rest \in FeeLast
  BY <1>1, QuietCheck, QuietIsFeeLast
<1>3. TypeInv
  BY <1>1, <1>2 DEF TypeInv, InCall
<1>4. request[2] # "remove_liquidity"
  BY <1>1
<1> QED BY <1>1, <1>3, <1>4
        DEF Inv, OneCall, TellsLast, HandlersSound, Undone, Unguarded,
            ClockCannotThrow, InCall, Exiting

LEMMA Invariance == Spec => []Inv
<1>1. Inv /\ [Next]_vars => Inv'
  BY BeginStep, EnterPolicyHandlerStep, StepStep, ThrowStep, CatchStep,
     FailStep, ReturnStep, StutterStep DEF Next
<1> QED BY <1>1, InitInv, PTL DEF Spec

-----------------------------------------------------------------------------
(* What a caller may count on.                                             *)

(* A withdrawal that returns has paid, whatever the policy did, and the    *)
(* policy has seen it or remembers nothing of it (remove_liquidity's own   *)
(* handler).                                                               *)
THEOREM ExitsAreBestEffort == Spec => []ExitIsBestEffort
<1>1. Inv => ExitIsBestEffort
  BY DEF Inv, Exiting, ExitIsBestEffort
<1> QED BY <1>1, Invariance, PTL

(* Every call is refused leaving everything as it was, or returns with its *)
(* effect whole; a tick or a refresh of the context called directly may be *)
(* torn (with_mutable_rollback, and add_liquidity_impl by hand).           *)
THEOREM CallsAtomic == Spec => CallsAreAtomic
<1>1. Init => Atomic!Init
  BY DEF Init, Atomic!Init, InCall
<1>2. ASSUME Inv, NEW r \in Requests, NEW program \in Program[r[2]],
             Begin(r, program)
      PROVE  Atomic!Ask
  <2>1. r # <<"none", "none">>
    BY DEF Requests
  <2> QED BY <1>2, <2>1 DEF Begin, Atomic!Ask, InCall
<1>3. ASSUME EnterPolicyHandler \/ Step \/ Throw \/ Catch \/ UNCHANGED vars
      PROVE  UNCHANGED Atomic!vars
  <2>1. InCall' = InCall /\ (InCall => before' = before)
        /\ (~InCall => value' = value /\ outcome' = outcome)
        /\ UNCHANGED <<calls, request>>
    <3>1. CASE EnterPolicyHandler \/ Step
      BY <3>1 DEF EnterPolicyHandler, Step, InCall
    <3>2. CASE Throw
      BY <3>2 DEF Throw, InCall
    <3>3. CASE Catch
      BY <3>3 DEF Catch, InCall
    <3>4. CASE UNCHANGED vars
      BY <3>4 DEF vars, InCall
    <3> QED BY <1>3, <3>1, <3>2, <3>3, <3>4
  <2> QED BY <2>1 DEF Atomic!vars
<1>4. ASSUME Inv, Fail PROVE Atomic!Refuse \/ Atomic!Tear
  <2>1. /\ UNCHANGED <<value, calls, request, before>> /\ InCall /\ ~InCall'
        /\ outcome' = "refused"
    BY <1>4 DEF Fail, InCall
  <2>2. CASE value = before
    BY <2>1, <2>2 DEF Atomic!Refuse
  <2>3. CASE request \in TornOps
    <3>1. value \in [Member -> Nat]
          /\ \A m \in Member : value[m] \in {before[m], calls}
      BY <1>4, <2>1 DEF Inv, TypeInv, OneCall
    <3> QED BY <2>1, <2>3, <3>1 DEF Atomic!Tear, Atomic!WriteSome, TornOps
  <2> QED BY <1>4, <2>2, <2>3 DEF Inv, Undone, Fail
<1>5. ASSUME Inv, Return PROVE Atomic!Return
  <2>1. /\ UNCHANGED <<value, calls, request, before>> /\ InCall /\ ~InCall'
        /\ outcome' = "returned"
    BY <1>5 DEF Return, InCall
  <2>2. value \in [Member -> Nat]
        /\ \A m \in Member : value[m] \in {before[m], calls}
    BY <1>5, <2>1 DEF Inv, TypeInv, OneCall
  <2> QED BY <2>1, <2>2 DEF Atomic!Return, Atomic!WriteSome
<1>6. Inv /\ [Next]_vars => [Atomic!Next]_(Atomic!vars)
  BY <1>2, <1>3, <1>4, <1>5 DEF Next, Atomic!Next
<1> QED BY <1>1, <1>6, Invariance, PTL DEF Spec, CallsAreAtomic, Atomic!Spec

-----------------------------------------------------------------------------
(* What a tick that throws leaves behind.                                  *)

(* No step of p writes x before one that writes y, nor without.            *)
Leads(y, x, p) ==
  \A k \in DOMAIN p : x \in p[k].writes => \E j \in 1 .. k : y \in p[j].writes

(* <<x, y>>: whoever finds x written finds y written.                      *)
Tied ==
  ({"totalSupply"} \X {"donation_shares", "last_donation_release_ts",
                       "cached_price_scale"})
    \cup ({"cached_price_scale"} \X {"D", "virtual_price", "last_prices",
                                     "xcp_profit", "last_timestamp"})
    \cup ({"compiled_state"} \X {"D", "virtual_price"})

(* What no tick writes.                                                    *)
Spared == {"balances", "admin_balances", "block_timestamp",
           "donation_protection_expiry_ts"}

Whole ==
  {p \in Programs : /\ \A t \in Tied : Leads(t[2], t[1], p)
                    /\ \A m \in Spared : ~Writes(p, m)}

LEMMA LeadsConcat ==
  ASSUME NEW p \in Programs, NEW q \in Programs, NEW x, NEW y,
         Leads(y, x, p), Writes(p, y) \/ Leads(y, x, q)
  PROVE  Leads(y, x, p \o q)
<1> DEFINE pq == p \o q
<1>1. /\ DOMAIN p = 1 .. Len(p) /\ DOMAIN q = 1 .. Len(q)
      /\ DOMAIN pq = 1 .. Len(p) + Len(q)
      /\ Len(p) \in Nat /\ Len(q) \in Nat
      /\ \A k \in 1 .. Len(p) : pq[k] = p[k]
      /\ \A k \in 1 .. Len(q) : pq[k + Len(p)] = q[k]
      /\ \A k \in 1 .. Len(p) + Len(q) :
           \/ k \in 1 .. Len(p)
           \/ k - Len(p) \in 1 .. Len(q) /\ pq[k] = q[k - Len(p)]
  BY ConcatProgram DEF Programs
<1> HIDE DEF pq
<1> SUFFICES ASSUME NEW k \in DOMAIN pq, x \in pq[k].writes
             PROVE  \E j \in 1 .. k : y \in pq[j].writes
  BY DEF Leads, pq
<1>2. CASE k \in 1 .. Len(p)
  <2>1. PICK j \in 1 .. k : y \in p[j].writes
    BY <1>1, <1>2 DEF Leads
  <2>2. pq[j] = p[j]
    BY <1>1, <1>2
  <2> QED BY <2>1, <2>2
<1>3. CASE k - Len(p) \in 1 .. Len(q) /\ pq[k] = q[k - Len(p)]
  <2>1. CASE Writes(p, y)
    <3>1. PICK j \in 1 .. Len(p) : y \in p[j].writes
      BY <1>1, <2>1 DEF Writes
    <3>2. j \in 1 .. k /\ pq[j] = p[j]
      BY <1>1, <1>3, <3>1
    <3> QED BY <3>1, <3>2
  <2>2. CASE Leads(y, x, q)
    <3>1. PICK j \in 1 .. k - Len(p) : y \in q[j].writes
      BY <1>1, <1>3, <2>2 DEF Leads
    <3>2. j \in 1 .. Len(q) /\ j + Len(p) \in 1 .. k
      BY <1>1, <1>3, <3>1
    <3>3. pq[j + Len(p)] = q[j]
      BY <1>1, <3>2
    <3> QED BY <3>1, <3>2, <3>3
  <2> QED BY <2>1, <2>2
<1> QED BY <1>1, <1>2, <1>3

LEMMA LeadsTrivially ==
  ASSUME NEW p, NEW x, NEW y, ~Writes(p, x)
  PROVE  Leads(y, x, p)
BY DEF Leads, Writes

LEMMA LeadsAtOnce ==
  ASSUME NEW members \in SUBSET Member, NEW x, NEW y,
         x \in members => y \in members
  PROVE  Leads(y, x, Write(members))
<1> DEFINE w == Write(members)
<1>1. DOMAIN w = 1 .. 1 /\ w[1].writes = members
  BY WriteIsProgram DEF Programs
<1> HIDE DEF w
<1> SUFFICES ASSUME NEW k \in DOMAIN w, x \in w[k].writes
             PROVE  \E j \in 1 .. k : y \in w[j].writes
  BY DEF Leads, w
<1>2. k = 1
  BY <1>1
<1> QED BY <1>1, <1>2

LEMMA TailLeads ==
  ASSUME NEW p \in Programs, p # <<>>, NEW x, NEW y, Leads(y, x, p)
  PROVE  \/ y \in Head(p).writes
         \/ x \notin Head(p).writes /\ Leads(y, x, Tail(p))
<1> SUFFICES ASSUME y \notin Head(p).writes
             PROVE  x \notin Head(p).writes /\ Leads(y, x, Tail(p))
  OBVIOUS
<1>1. Head(p) = p[1] /\ 1 \in DOMAIN p /\ Len(p) \in Nat \ {0}
  BY TailProgram
<1>2. x \notin Head(p).writes
  <2> SUFFICES ASSUME x \in p[1].writes PROVE FALSE
    BY <1>1
  <2>1. PICK j \in 1 .. 1 : y \in p[j].writes
    BY <1>1 DEF Leads
  <2> QED BY <1>1, <2>1
<1>3. ASSUME NEW k \in DOMAIN Tail(p), x \in Tail(p)[k].writes
      PROVE  \E j \in 1 .. k : y \in Tail(p)[j].writes
  <2>1. k \in 1 .. Len(p) - 1 /\ Tail(p)[k] = p[k + 1] /\ k + 1 \in DOMAIN p
    BY TailProgram
  <2>2. PICK j \in 1 .. k + 1 : y \in p[j].writes
    BY <1>3, <2>1 DEF Leads
  <2>3. j # 1
    BY <1>1, <2>2
  <2>4. j - 1 \in 1 .. k /\ j - 1 \in 1 .. Len(p) - 1 /\ (j - 1) + 1 = j
    BY <1>1, <2>1, <2>2, <2>3
  <2>5. Tail(p)[j - 1] = p[j]
    BY <2>4, TailProgram
  <2> QED BY <2>2, <2>4, <2>5
<1> QED BY <1>2, <1>3 DEF Leads

(* What the parts of a tick write.                                         *)
Measure == Check \o Write({"last_prices"}) \o Check
             \o Write({"xcp_profit", "lp_xcp_profit"}) \o Check
Advance == Write({"alpha_cache", "cached_price_oracle", "last_timestamp"})
StoreScale == Write({"cached_price_scale"})
CommitPrices ==
  Check \o Write({"D", "virtual_price", "cached_price_scale", "ledgers"})
Burn == Write({"donation_shares", "totalSupply", "last_donation_release_ts"})
InPlace == Check \o Write({"D", "virtual_price"})

LEMMA TickWrites ==
  /\ {Measure, Advance, AskPolicy, StoreScale, CommitPrices, Burn, InPlace}
       \subseteq Programs
  /\ \A m : Writes(Measure, m) <=> m \in {"last_prices", "xcp_profit",
                                         "lp_xcp_profit"}
  /\ \A m : Writes(Advance, m) <=> m \in {"alpha_cache", "last_timestamp",
                                         "cached_price_oracle"}
  /\ \A m : Writes(AskPolicy, m) <=> m \in {"research", "policy_cache"}
  /\ \A m : Writes(StoreScale, m) <=> m = "cached_price_scale"
  /\ \A m : Writes(CommitPrices, m) <=>
               m \in {"D", "virtual_price", "cached_price_scale", "ledgers"}
  /\ \A m : Writes(Burn, m) <=> m \in {"donation_shares", "totalSupply",
                                      "last_donation_release_ts"}
  /\ \A m : Writes(InPlace, m) <=> m \in {"D", "virtual_price"}
<1> DEFINE w(members) == Write(members)
<1>1. /\ Check \in Programs
      /\ \A members \in SUBSET Member :
           /\ w(members) \in Programs
           /\ \A m : Writes(w(members), m) <=> m \in members
  BY CheckIsProgram, WriteIsProgram
<1>2. \A p, q \in Programs :
        p \o q \in Programs /\ \A m : Writes(p \o q, m) <=> Writes(p, m) \/ Writes(q, m)
  BY ConcatProgram, ConcatWrites
<1>3. \A p \in Programs :
        /\ p \o Check \in Programs /\ \A m : Writes(p \o Check, m) <=> Writes(p, m)
        /\ Check \o p \in Programs /\ \A m : Writes(Check \o p, m) <=> Writes(p, m)
  BY <1>1, <1>2, CheckIsProgram
<1> HIDE DEF w
<1>4. /\ {"last_prices"} \in SUBSET Member
      /\ {"xcp_profit", "lp_xcp_profit"} \in SUBSET Member
      /\ {"alpha_cache", "cached_price_oracle", "last_timestamp"} \in SUBSET Member
      /\ {"research"} \in SUBSET Member /\ {"policy_cache"} \in SUBSET Member
      /\ {"cached_price_scale"} \in SUBSET Member
      /\ {"D", "virtual_price", "cached_price_scale", "ledgers"} \in SUBSET Member
      /\ {"donation_shares", "totalSupply", "last_donation_release_ts"}
           \in SUBSET Member
      /\ {"D", "virtual_price"} \in SUBSET Member
  BY DEF Member, PoolMember, PolicyMember
<1>5. /\ Measure \in Programs
      /\ \A m : Writes(Measure, m) <=> m \in {"last_prices", "xcp_profit",
                                             "lp_xcp_profit"}
  <2> DEFINE a == Check \o w({"last_prices"})
             b == a \o Check
             c == b \o w({"xcp_profit", "lp_xcp_profit"})
  <2>1. a \in Programs /\ \A m : Writes(a, m) <=> m = "last_prices"
    BY <1>1, <1>3, <1>4
  <2> HIDE DEF a
  <2>2. b \in Programs /\ \A m : Writes(b, m) <=> m = "last_prices"
    BY <1>3, <2>1
  <2> HIDE DEF b
  <2>3. c \in Programs /\ \A m : Writes(c, m) <=> m \in {"last_prices", "xcp_profit",
                                                        "lp_xcp_profit"}
    BY <1>1, <1>2, <1>4, <2>2
  <2> HIDE DEF c
  <2>4. c \o Check \in Programs
        /\ \A m : Writes(c \o Check, m) <=> m \in {"last_prices", "xcp_profit",
                                                 "lp_xcp_profit"}
    BY <1>3, <2>3
  <2> QED BY <2>4 DEF Measure, a, b, c, w
<1>6. AskPolicy \in Programs
      /\ \A m : Writes(AskPolicy, m) <=> m \in {"research", "policy_cache"}
  <2> DEFINE a == w({"research"}) \o Check
             b == a \o w({"policy_cache"})
  <2>1. a \in Programs /\ \A m : Writes(a, m) <=> m = "research"
    BY <1>1, <1>3, <1>4
  <2> HIDE DEF a
  <2>2. b \in Programs /\ \A m : Writes(b, m) <=> m \in {"research", "policy_cache"}
    BY <1>1, <1>2, <1>4, <2>1
  <2> HIDE DEF b
  <2>3. b \o Check \in Programs
        /\ \A m : Writes(b \o Check, m) <=> m \in {"research", "policy_cache"}
    BY <1>3, <2>2
  <2> QED BY <2>3 DEF AskPolicy, a, b, w
<1>7. /\ Advance \in Programs /\ StoreScale \in Programs /\ Burn \in Programs
      /\ \A m : Writes(Advance, m) <=> m \in {"alpha_cache", "last_timestamp",
                                             "cached_price_oracle"}
      /\ \A m : Writes(StoreScale, m) <=> m = "cached_price_scale"
      /\ \A m : Writes(Burn, m) <=> m \in {"donation_shares", "totalSupply",
                                          "last_donation_release_ts"}
  BY <1>1, <1>4 DEF Advance, StoreScale, Burn, w
<1>8. /\ CommitPrices \in Programs
      /\ \A m : Writes(CommitPrices, m) <=>
                   m \in {"D", "virtual_price", "cached_price_scale", "ledgers"}
  BY <1>1, <1>3, <1>4 DEF CommitPrices, w
<1>9. InPlace \in Programs
      /\ \A m : Writes(InPlace, m) <=> m \in {"D", "virtual_price"}
  BY <1>1, <1>3, <1>4 DEF InPlace, w
<1> QED BY <1>5, <1>6, <1>7, <1>8, <1>9

LEMMA WholeConcat ==
  ASSUME NEW p \in Programs, NEW q \in Programs,
         \A m \in Spared : ~Writes(p, m) /\ ~Writes(q, m),
         \A t \in Tied : /\ Leads(t[2], t[1], p)
                         /\ Writes(p, t[2]) \/ Leads(t[2], t[1], q)
  PROVE  p \o q \in Whole
BY ConcatProgram, ConcatWrites, LeadsConcat DEF Whole

(* What settles the price in place is whole.                               *)
LEMMA SettleIsWhole == SettleInPlace \in Whole
<1>1. SettleInPlace = InPlace \o UpdatePolicy
  BY DEF SettleInPlace, InPlace
<1>2. ASSUME NEW t \in Tied
      PROVE  /\ Leads(t[2], t[1], InPlace)
             /\ Writes(InPlace, t[2]) \/ Leads(t[2], t[1], UpdatePolicy)
  <2>1. ~Writes(InPlace, t[1])
    BY TickWrites DEF Tied
  <2>2. Leads(t[2], t[1], InPlace)
    BY <2>1, LeadsTrivially
  <2>3. CASE t[1] = "compiled_state"
    <3>1. t[2] \in {"D", "virtual_price"}
      BY <2>3 DEF Tied
    <3> QED BY <2>2, <3>1, TickWrites
  <2>4. CASE t[1] # "compiled_state"
    <3>1. ~Writes(UpdatePolicy, t[1])
      BY <2>4, UpdatePolicyWrites DEF Tied, Told
    <3> QED BY <2>2, <3>1, LeadsTrivially
  <2> QED BY <2>3, <2>4
<1>3. \A m \in Spared : ~Writes(InPlace, m) /\ ~Writes(UpdatePolicy, m)
  BY TickWrites, UpdatePolicyWrites DEF Spared, Told
<1> QED BY <1>1, <1>2, <1>3, TickWrites, UpdatePolicyWrites, WholeConcat

(* What comes before ties nothing.                                         *)
LEMMA PrefixWhole ==
  ASSUME NEW p \in {Measure, Advance, AskPolicy}, NEW q \in Whole
  PROVE  p \o q \in Whole
<1>1. ASSUME NEW t \in Tied
      PROVE  Leads(t[2], t[1], p) /\ Leads(t[2], t[1], q)
  <2>1. ~Writes(p, t[1])
    BY TickWrites DEF Tied
  <2> QED BY <2>1, LeadsTrivially DEF Whole
<1>2. \A m \in Spared : ~Writes(p, m) /\ ~Writes(q, m)
  BY TickWrites DEF Spared, Whole
<1> QED BY <1>1, <1>2, TickWrites, WholeConcat DEF Whole

(* The committed prices come whole once the average has moved.             *)
LEMMA CommitIsWhole ==
  ASSUME NEW commit \in CommitRebalance, NEW head \in Programs,
         \A m : Writes(head, m) <=> \/ Writes(Measure, m) \/ Writes(Advance, m)
                                   \/ Writes(AskPolicy, m)
  PROVE  head \o commit \in Whole
<1>1. PICK burn \in {<<>>, Burn} : commit = CommitPrices \o burn \o UpdatePolicy
  BY DEF CommitRebalance, CommitPrices, Burn
<1> DEFINE prices == head \o CommitPrices
           burned == prices \o burn
<1>2. /\ burn \in Programs /\ CommitPrices \in Programs
      /\ UpdatePolicy \in Programs
      /\ \A m : Writes(burn, m) => m \in {"donation_shares", "totalSupply",
                                        "last_donation_release_ts"}
      /\ burn # <<>> => burn = Burn
  BY <1>1, TickWrites, UpdatePolicyWrites, EmptyWrites
<1>3. /\ prices \in Programs
      /\ \A m : Writes(prices, m) <=>
           m \in {"last_prices", "xcp_profit", "lp_xcp_profit", "alpha_cache",
                 "last_timestamp", "cached_price_oracle", "research",
                 "policy_cache", "D", "virtual_price", "cached_price_scale",
                 "ledgers"}
  BY <1>2, TickWrites, ConcatProgram, ConcatWrites
<1>4. /\ burned \in Programs
      /\ \A m : Writes(burned, m) <=> Writes(prices, m) \/ Writes(burn, m)
  BY <1>2, <1>3, ConcatProgram, ConcatWrites
<1>5. head \o commit = burned \o UpdatePolicy
  <2>1. /\ head \in Programs /\ CommitPrices \in Programs
        /\ burn \in Programs /\ UpdatePolicy \in Programs
    BY <1>2
  <2>2. Joined(head, Joined(Joined(CommitPrices, burn), UpdatePolicy))
          = Joined(Joined(Joined(head, CommitPrices), burn), UpdatePolicy)
    BY ONLY <2>1, JoinThree, JoinFour
  <2> QED BY <1>1, <2>2 DEF Joined
<1>6. ASSUME NEW t \in Tied PROVE Leads(t[2], t[1], prices)
  <2>1. CASE t[1] = "cached_price_scale"
    <3>1. ~Writes(head, t[1])
      BY <2>1, TickWrites
    <3>2. Leads(t[2], t[1], head)
      BY <3>1, LeadsTrivially
    <3>3. CASE t[2] \in {"D", "virtual_price"}
      <4> DEFINE set == {"D", "virtual_price", "cached_price_scale", "ledgers"}
      <4>1. set \in SUBSET Member
        BY DEF Member, PoolMember
      <4>2. t[2] \in set
        BY <3>3
      <4> HIDE DEF set
      <4>3. Leads(t[2], t[1], Write(set)) /\ Write(set) \in Programs
        BY <4>1, <4>2, LeadsAtOnce, WriteIsProgram
      <4>4. Leads(t[2], t[1], Check) /\ Check \in Programs
        BY CheckIsProgram, LeadsTrivially
      <4>5. Leads(t[2], t[1], CommitPrices)
        BY <4>3, <4>4, LeadsConcat DEF CommitPrices, set
      <4> QED BY <1>2, <3>2, <4>5, LeadsConcat
    <3>4. CASE t[2] \in {"last_prices", "xcp_profit", "last_timestamp"}
      <4>1. Writes(head, t[2])
        BY <3>4, TickWrites
      <4> QED BY <1>2, <3>2, <4>1, LeadsConcat
    <3> QED BY <2>1, <3>3, <3>4 DEF Tied
  <2>2. CASE t[1] # "cached_price_scale"
    <3>1. t[1] \in {"totalSupply", "compiled_state"}
      BY <2>2 DEF Tied
    <3>2. ~Writes(prices, t[1])
      BY <1>3, <3>1
    <3> QED BY <3>2, LeadsTrivially
  <2> QED BY <2>1, <2>2
<1> HIDE DEF prices
<1>7. ASSUME NEW t \in Tied PROVE Leads(t[2], t[1], burned)
  <2>1. CASE t[1] = "totalSupply"
    <3>1. CASE t[2] = "cached_price_scale"
      BY <1>2, <1>3, <1>6, <3>1, LeadsConcat
    <3>2. CASE t[2] # "cached_price_scale"
      <4>1. CASE burn = <<>>
        <5>1. Leads(t[2], t[1], burn)
          BY <4>1, EmptyWrites, LeadsTrivially
        <5> QED BY <1>2, <1>3, <1>6, <5>1, LeadsConcat
      <4>2. CASE burn = Burn
        <5> DEFINE set == {"donation_shares", "totalSupply",
                           "last_donation_release_ts"}
        <5>1. set \in SUBSET Member
          BY DEF Member, PoolMember
        <5>2. t[2] \in set
          BY <2>1, <3>2 DEF Tied
        <5> HIDE DEF set
        <5>3. Leads(t[2], t[1], burn)
          BY <4>2, <5>1, <5>2, LeadsAtOnce DEF Burn, set
        <5> QED BY <1>2, <1>3, <1>6, <5>3, LeadsConcat
      <4> QED BY <1>2, <4>1, <4>2
    <3> QED BY <3>1, <3>2
  <2>2. CASE t[1] # "totalSupply"
    <3>1. t[1] \in {"cached_price_scale", "compiled_state"}
      BY <2>2 DEF Tied
    <3>2. ~Writes(burn, t[1])
      BY <1>2, <3>1
    <3>3. Leads(t[2], t[1], burn)
      BY <3>2, LeadsTrivially
    <3> QED BY <1>2, <1>3, <1>6, <3>3, LeadsConcat
  <2> QED BY <2>1, <2>2
<1> HIDE DEF burned
<1>8. ASSUME NEW t \in Tied
      PROVE  Writes(burned, t[2]) \/ Leads(t[2], t[1], UpdatePolicy)
  <2>1. CASE t[1] = "compiled_state"
    BY <1>3, <1>4, <2>1 DEF Tied
  <2>2. CASE t[1] # "compiled_state"
    <3>1. ~Writes(UpdatePolicy, t[1])
      BY <2>2, UpdatePolicyWrites DEF Tied, Told
    <3> QED BY <3>1, LeadsTrivially
  <2> QED BY <2>1, <2>2
<1>9. \A m \in Spared : ~Writes(burned, m) /\ ~Writes(UpdatePolicy, m)
  <2> SUFFICES ASSUME NEW m \in Spared
               PROVE  ~Writes(burned, m) /\ ~Writes(UpdatePolicy, m)
    OBVIOUS
  <2>1. ~Writes(prices, m) /\ ~Writes(burn, m)
    BY <1>2, <1>3 DEF Spared
  <2>2. ~Writes(UpdatePolicy, m)
    BY UpdatePolicyWrites DEF Spared, Told
  <2> QED BY <1>4, <2>1, <2>2
<1> QED BY <1>2, <1>4, <1>5, <1>7, <1>8, <1>9, WholeConcat

(* A tick: a whole program, and the scale stored over itself.              *)
LEMMA TickIsWhole ==
  ASSUME NEW p \in TweakAndStoreScale
  PROVE  \E q \in Whole : p = q \o StoreScale
<1>1. PICK q \in Tweak : p = q \o StoreScale
  BY DEF TweakAndStoreScale, Then, StoreScale
<1> DEFINE head == Advance \o Measure \o AskPolicy
<1>2. /\ Measure \in Programs /\ Advance \in Programs /\ AskPolicy \in Programs
      /\ SettleInPlace \in Programs /\ Advance \o Measure \in Programs
      /\ head \in Programs
      /\ \A m : Writes(head, m) <=> \/ Writes(Measure, m) \/ Writes(Advance, m)
                                   \/ Writes(AskPolicy, m)
  <2>1. /\ Measure \in Programs /\ Advance \in Programs /\ AskPolicy \in Programs
    BY TickWrites
  <2>2. /\ Advance \o Measure \in Programs
        /\ \A m : Writes(Advance \o Measure, m) <=> Writes(Advance, m) \/ Writes(Measure, m)
    BY <2>1, ConcatProgram, ConcatWrites
  <2> QED BY <2>1, <2>2, ConcatProgram, ConcatWrites, SettleIsWhole DEF Whole
<1>3. \/ q = Measure \o SettleInPlace
      \/ q = Advance \o Measure \o SettleInPlace
      \/ q = head \o SettleInPlace
      \/ q \in Then({head}, CommitRebalance)
  BY <1>1 DEF Tweak, Measure, Advance
<1>4. CASE q = Measure \o SettleInPlace
  BY <1>1, <1>4, SettleIsWhole, PrefixWhole
<1>5. CASE q = Advance \o Measure \o SettleInPlace
  <2>1. q = Advance \o (Measure \o SettleInPlace)
    <3>1. Joined(Joined(Advance, Measure), SettleInPlace)
            = Joined(Advance, Joined(Measure, SettleInPlace))
      BY <1>2, JoinThree
    <3> QED BY <1>5, <3>1 DEF Joined
  <2> QED BY <1>1, <2>1, SettleIsWhole, PrefixWhole
<1>6. CASE q = head \o SettleInPlace
  <2>1. q = Advance \o (Measure \o (AskPolicy \o SettleInPlace))
    <3>1. /\ Measure \in Programs /\ Advance \in Programs
          /\ AskPolicy \in Programs /\ SettleInPlace \in Programs
      BY <1>2
    <3>2. Joined(Joined(Joined(Advance, Measure), AskPolicy), SettleInPlace)
            = Joined(Advance, Joined(Measure, Joined(AskPolicy, SettleInPlace)))
      BY ONLY <3>1, JoinFour
    <3> QED BY <1>6, <3>2 DEF Joined
  <2> QED BY <1>1, <2>1, SettleIsWhole, PrefixWhole
<1>7. CASE q \in Then({head}, CommitRebalance)
  <2>1. PICK commit \in CommitRebalance : q = head \o commit
    BY <1>7 DEF Then
  <2>2. q \in Whole
    BY <1>2, <2>1, CommitIsWhole
  <2> QED BY <1>1, <2>2
<1> QED BY <1>3, <1>4, <1>5, <1>6, <1>7

(* The members bear the numbers of calls made.                             *)
Stamped ==
  /\ InCall => \A m \in Member : before[m] < calls
  /\ ~InCall => \A m \in Member : value[m] <= calls

(* A tick in flight has still to run a whole program and to store the      *)
(* scale; what it wrote so far, with what it has still to write, is whole. *)
TiedSoFar ==
  \A t \in Tied : value[t[1]] = calls => value[t[2]] = calls

Unfinished(q) ==
  /\ rest = q \o StoreScale
  /\ \A t \in Tied : value[t[2]] = calls \/ Leads(t[2], t[1], q)
  /\ \A m \in Spared : ~Writes(q, m)

Ticking ==
  request = <<"direct", "tick">> =>
    /\ InCall =>
         /\ handlers = <<>> /\ \A m \in Spared : value[m] = before[m]
         /\ \/ outcome = "running" /\ rest = <<>>
            \/ TiedSoFar /\ \E q \in Programs : Unfinished(q)
    /\ TornTickIsWhole

TickInv == Stamped /\ Ticking

LEMMA TiedMembers ==
  /\ \A t \in Tied : t[1] \in Member /\ t[2] \in Member
  /\ Spared \subseteq Member
BY DEF Tied, Spared, Member, PoolMember, PolicyMember

LEMMA TickBegin ==
  ASSUME Inv, TickInv, NEW r \in Requests, NEW program \in Program[r[2]],
         Begin(r, program)
  PROVE  TickInv'
<1>1. /\ request' = r /\ before' = value /\ value' = value /\ calls' = calls + 1
      /\ outcome' = "running" /\ rest' = program /\ ~InCall
      /\ handlers' = (IF r[1] = "harness" THEN <<Handler(Snapshot, FALSE)>> ELSE <<>>)
                       \o (IF r[2] \in RolledBack
                             THEN <<Handler(Snapshot, FALSE)>> ELSE <<>>)
  BY DEF Begin, InCall
<1>2. /\ value \in [Member -> Nat] /\ calls \in Nat
      /\ \A m \in Member : value[m] <= calls
  BY <1>1 DEF Inv, TypeInv, TickInv, Stamped
<1>3. /\ \A m \in Member : value'[m] < calls' /\ value'[m] # calls'
      /\ InCall'
  BY <1>1, <1>2 DEF InCall
<1>4. Stamped'
  BY <1>1, <1>3 DEF Stamped
<1>5. ASSUME r = <<"direct", "tick">>
      PROVE  handlers' = <<>> /\ TiedSoFar' /\ \E q \in Programs : Unfinished(q)'
  <2>1. r[1] = "direct" /\ r[2] = "tick" /\ program \in TweakAndStoreScale
    BY <1>5 DEF Program
  <2>2. handlers' = <<>> \o <<>>
    BY <1>1, <2>1 DEF RolledBack
  <2>3. handlers' = <<>>
    BY <2>2, ConcatEmptySeq, EmptySeq
  <2>4. TiedSoFar'
    BY <1>3, TiedMembers DEF TiedSoFar
  <2>5. PICK q \in Whole : program = q \o StoreScale
    BY <2>1, TickIsWhole
  <2>6. Unfinished(q)' /\ q \in Programs
    BY <1>1, <2>5 DEF Unfinished, Whole
  <2> QED BY <2>3, <2>4, <2>6
<1>6. Ticking'
  BY <1>1, <1>5, TiedMembers DEF Ticking, TornTickIsWhole
<1> QED BY <1>4, <1>6 DEF TickInv

LEMMA TickStep ==
  ASSUME Inv, TickInv, Step
  PROVE  TickInv'
<1>1. /\ UNCHANGED <<calls, request, outcome, handlers, before>>
      /\ outcome = "running" /\ rest # <<>> /\ rest' = Tail(rest)
      /\ value' = [m \in Member |-> IF m \in Head(rest).writes THEN calls
                                    ELSE value[m]]
  BY DEF Step
<1>2. InCall /\ InCall'
  BY <1>1 DEF InCall
<1>3. Stamped'
  BY <1>1, <1>2 DEF TickInv, Stamped
<1>4. \A m \in Member : value'[m] = IF m \in Head(rest).writes THEN calls
                                    ELSE value[m]
  BY <1>1
<1>5. ASSUME request = <<"direct", "tick">>
      PROVE  /\ \A m \in Spared : value'[m] = before[m]
             /\ rest' = <<>> \/ (TiedSoFar' /\ \E q \in Programs : Unfinished(q)')
  <2>1. /\ \A m \in Spared : value[m] = before[m]
        /\ TiedSoFar /\ \E q \in Programs : Unfinished(q)
    BY <1>1, <1>2, <1>5 DEF TickInv, Ticking
  <2>2. PICK q \in Programs : Unfinished(q)
    BY <2>1
  <2>3. /\ StoreScale \in Programs /\ StoreScale # <<>>
        /\ Head(StoreScale).writes = {"cached_price_scale"}
        /\ Tail(StoreScale) = <<>>
    <3>1. /\ StoreScale \in Programs /\ Len(StoreScale) = 1
          /\ StoreScale[1].writes = {"cached_price_scale"}
      BY WriteIsProgram DEF StoreScale, Member, PoolMember
    <3>2. StoreScale # <<>>
      BY <3>1, EmptySeq DEF Programs
    <3>3. /\ Tail(StoreScale) \in Programs /\ Head(StoreScale) = StoreScale[1]
          /\ Len(Tail(StoreScale)) = Len(StoreScale) - 1
      BY <3>1, <3>2, TailProgram
    <3>4. Len(Tail(StoreScale)) = 0
      BY <3>1, <3>3
    <3> QED BY <3>1, <3>2, <3>3, <3>4, EmptySeq DEF Programs
  <2>4. CASE q = <<>>
    <3>1. rest = StoreScale
      BY <2>2, <2>3, <2>4, ConcatEmptySeq DEF Unfinished, Programs
    <3> QED BY <1>1, <1>4, <2>1, <2>3, <3>1, TiedMembers DEF Spared
  <2>5. CASE q # <<>>
    <3> DEFINE t == Tail(q)
    <3>1. Head(rest) = Head(q) /\ rest' = t \o StoreScale /\ t \in Programs
      BY <1>1, <2>2, <2>3, <2>5, TailConcat, TailProgram DEF Unfinished
    <3>2. \A m : Writes(q, m) <=> m \in Head(q).writes \/ Writes(t, m)
      BY <2>5, TailWrites
    <3>3. \A x, y : Leads(y, x, q) =>
            \/ y \in Head(q).writes
            \/ x \notin Head(q).writes /\ Leads(y, x, t)
      BY <2>5, TailLeads
    <3> HIDE DEF t
    <3>4. /\ \A m \in Spared : value'[m] = before[m]
          /\ \A m \in Spared : ~Writes(t, m)
      BY <1>4, <2>1, <2>2, <3>1, <3>2, TiedMembers DEF Unfinished
    <3>5. ASSUME NEW p \in Tied
          PROVE  /\ value'[p[1]] = calls => value'[p[2]] = calls
                 /\ value'[p[2]] = calls \/ Leads(p[2], p[1], t)
      <4>1. /\ value[p[2]] = calls \/ Leads(p[2], p[1], q)
            /\ value[p[1]] = calls => value[p[2]] = calls
        BY <2>1, <2>2 DEF Unfinished, TiedSoFar
      <4>2. p[1] \in Member /\ p[2] \in Member
        BY TiedMembers
      <4> QED BY <1>4, <3>1, <3>3, <4>1, <4>2
    <3>6. TiedSoFar' /\ Unfinished(t)'
      BY <1>1, <3>1, <3>4, <3>5 DEF TiedSoFar, Unfinished
    <3> QED BY <3>1, <3>4, <3>6
  <2> QED BY <2>4, <2>5
<1>6. Ticking'
  <2> SUFFICES ASSUME request = <<"direct", "tick">>
               PROVE  /\ handlers' = <<>> /\ \A m \in Spared : value'[m] = before'[m]
                      /\ \/ outcome' = "running" /\ rest' = <<>>
                         \/ TiedSoFar' /\ \E q \in Programs : Unfinished(q)'
    BY <1>1 DEF Ticking, TornTickIsWhole
  <2>1. handlers = <<>>
    BY <1>2 DEF TickInv, Ticking
  <2> QED BY <1>1, <1>5, <2>1
<1> QED BY <1>3, <1>6 DEF TickInv

(* A tick has nobody to catch it.                                          *)
LEMMA TickEnd ==
  ASSUME Inv, TickInv, Fail \/ Return
  PROVE  TickInv'
<1>1. /\ UNCHANGED <<value, calls, request, before>> /\ InCall /\ ~InCall'
  BY DEF Fail, Return, InCall
<1>2. Stamped'
  <2>1. /\ value \in [Member -> Nat] /\ before \in [Member -> Nat] /\ calls \in Nat
        /\ \A m \in Member : value[m] \in {before[m], calls} /\ before[m] < calls
    BY <1>1 DEF Inv, TypeInv, OneCall, TickInv, Stamped
  <2> QED BY <1>1, <2>1 DEF Stamped
<1>3. ASSUME request = <<"direct", "tick">>, Fail
      PROVE  TornTickIsWhole'
  <2>1. /\ \A m \in Spared : value[m] = before[m]
        /\ \A t \in Tied : value[t[1]] = calls => value[t[2]] = calls
    BY <1>1, <1>3 DEF TickInv, Ticking, TiedSoFar, Fail
  <2>2. /\ <<"totalSupply", "donation_shares">> \in Tied
        /\ <<"totalSupply", "last_donation_release_ts">> \in Tied
        /\ <<"totalSupply", "cached_price_scale">> \in Tied
        /\ \A m \in {"D", "virtual_price", "last_prices", "xcp_profit",
                     "last_timestamp"} : <<"cached_price_scale", m>> \in Tied
        /\ <<"compiled_state", "D">> \in Tied
        /\ <<"compiled_state", "virtual_price">> \in Tied
    BY DEF Tied
  <2>3. \A x, y : <<x, y>> \in Tied => (value[x] = calls => value[y] = calls)
    BY <2>1
  <2> QED BY <1>1, <2>1, <2>2, <2>3 DEF TornTickIsWhole, Spared
<1>4. Return => TornTickIsWhole'
  BY DEF Return, TornTickIsWhole
<1>5. Ticking'
  BY <1>1, <1>3, <1>4 DEF Ticking
<1> QED BY <1>2, <1>5 DEF TickInv

LEMMA TickElsewhere ==
  ASSUME Inv, TickInv, EnterPolicyHandler \/ Throw \/ Catch \/ UNCHANGED vars
  PROVE  TickInv'
<1>1. InCall' = InCall /\ UNCHANGED <<calls, request, before>>
      /\ (value' # value => Catch)
  <2>1. CASE EnterPolicyHandler
    BY <2>1 DEF EnterPolicyHandler, InCall
  <2>2. CASE Throw
    BY <2>2 DEF Throw, InCall
  <2>3. CASE Catch
    BY <2>3 DEF Catch, InCall
  <2>4. CASE UNCHANGED vars
    BY <2>4 DEF vars, InCall
  <2> QED BY <2>1, <2>2, <2>3, <2>4
<1>2. Stamped'
  <2>1. Catch => InCall
    BY DEF Catch, InCall
  <2> QED BY <1>1, <2>1 DEF TickInv, Stamped
<1>3. ASSUME request = <<"direct", "tick">>
      PROVE  Throw \/ UNCHANGED vars
  <2>1. ~EnterPolicyHandler
    BY <1>3 DEF EnterPolicyHandler, Guarded
  <2>2. ~Catch
    BY <1>3 DEF Catch, TickInv, Ticking, InCall
  <2> QED BY <2>1, <2>2
<1>4. ASSUME request = <<"direct", "tick">> PROVE Ticking'
  <2>1. UNCHANGED <<value, calls, request, rest, handlers, before>>
        /\ (outcome' # outcome => outcome = "running" /\ outcome' = "throwing"
                                   /\ rest # <<>>)
    BY <1>3, <1>4 DEF Throw, vars
  <2>2. (TiedSoFar => TiedSoFar')
        /\ ((\E q \in Programs : Unfinished(q)) => \E q \in Programs : Unfinished(q)')
    BY <2>1 DEF TiedSoFar, Unfinished
  <2>3. TornTickIsWhole => TornTickIsWhole'
    BY <2>1 DEF TornTickIsWhole
  <2> QED BY <1>1, <1>4, <2>1, <2>2, <2>3 DEF TickInv, Ticking
<1>5. Ticking'
  BY <1>1, <1>4 DEF Ticking
<1> QED BY <1>2, <1>5 DEF TickInv

(* A tick that throws is never half a rebalance (the order of the writes   *)
(* in tweak_price, which nothing undoes when tick is called directly).     *)
THEOREM TornTicksAreWhole == Spec => []TornTickIsWhole
<1>1. Init => TickInv
  <2> SUFFICES ASSUME Init PROVE TickInv
    OBVIOUS
  <2>1. ~InCall /\ request # <<"direct", "tick">>
        /\ \A m \in Member : value[m] <= calls
    BY DEF Init, InCall
  <2> QED BY <2>1 DEF TickInv, Stamped, Ticking
<1>2. Inv /\ TickInv /\ [Next]_vars => TickInv'
  BY TickBegin, TickStep, TickEnd, TickElsewhere DEF Next
<1>3. TickInv => TornTickIsWhole
  BY DEF TickInv, Ticking, TornTickIsWhole
<1> QED BY <1>1, <1>2, <1>3, Invariance, PTL DEF Spec

============================================================================
