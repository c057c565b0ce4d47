---------------------------- MODULE LedgerProofs ----------------------------
(***************************************************************************)
(* Lemmas on the ledger as a whole and on the operators of staking that    *)
(* call its hooks: they keep every validator's reference counts exact, and *)
(* what every validator has outstanding covers what its delegations have   *)
(* earned, whatever the rounding.                                          *)
(***************************************************************************)
EXTENDS ZeroHeightExport, DistributionProofs

\* The starting periods of the delegations to v that count.
Starts(l, live, v) ==
    [d \in {a \in Accounts : <<a, v>> \in live} |-> l.start[<<d, v>>].period]

LedgerCounted(l, live) ==
    /\ LedgerOK(l)
    /\ live \subseteq DOMAIN l.start
    /\ \A v \in Vals : Counted(l.rewards[v], Starts(l, live, v))

\* A delegation may start: it does not count yet, and the period that has just
\* ended is its own.
Ready(l, live, d, v) ==
    /\ LedgerCounted(l, live)
    /\ <<d, v>> \notin live
    /\ Untouched(l.rewards[v], Starts(l, live, v))

\* The delegations that have a starting info.
Covers(l, S) == DOMAIN l.start = S

LEMMA IncrementPeriodLemma ==
    ASSUME NEW l, NEW live, LedgerCounted(l, live), NEW v \in Vals, NEW tokens \in Nat
    PROVE  LET m == IncrementPeriod(l, v, tokens) IN
           /\ LedgerCounted(m, live)
           /\ m.start = l.start
           /\ Untouched(m.rewards[v], Starts(m, live, v))
           /\ m.rewards[v] = EndPeriod(l.rewards[v], tokens)
<1> DEFINE m == IncrementPeriod(l, v, tokens)
<1>1. LedgerOK(l) /\ live \subseteq DOMAIN l.start
  BY DEF LedgerCounted
<1>2. /\ Counted(EndPeriod(l.rewards[v], tokens), Starts(l, live, v))
      /\ Untouched(EndPeriod(l.rewards[v], tokens), Starts(l, live, v))
  BY EndPeriodCounts DEF LedgerCounted
<1>3. Unclaimed(l.rewards[v], tokens) \in Int
  BY <1>1 DEF Unclaimed, LedgerOK, RewardsOK
<1>4. /\ m \in [rewards : {m.rewards}, start : {m.start}, pool : Int, balance : Int]
      /\ m.start = l.start
      /\ m.rewards = [l.rewards EXCEPT ![v] = EndPeriod(@, tokens)]
  <2>1. l = [rewards |-> l.rewards, start |-> l.start, pool |-> l.pool, balance |-> l.balance]
    BY <1>1 DEF LedgerOK
  <2>2. m = [rewards |-> [l.rewards EXCEPT ![v] = EndPeriod(@, tokens)], start |-> l.start,
             pool |-> l.pool + Unclaimed(l.rewards[v], tokens), balance |-> l.balance]
    <3>1. m.rewards = [l.rewards EXCEPT ![v] = EndPeriod(@, tokens)]
      BY <2>1 DEF IncrementPeriod
    <3>2. m.start = l.start
      BY <2>1 DEF IncrementPeriod
    <3>3. m.pool = l.pool + Unclaimed(l.rewards[v], tokens)
      BY <2>1 DEF IncrementPeriod
    <3>4. m.balance = l.balance
      BY <2>1 DEF IncrementPeriod
    <3>5. DOMAIN m = DOMAIN l /\ m = [x \in DOMAIN m |-> m[x]]
      BY <2>1 DEF IncrementPeriod
    <3>6. DOMAIN l = {"rewards", "start", "pool", "balance"}
      BY <2>1
    <3> QED
      BY <3>1, <3>2, <3>3, <3>4, <3>5, <3>6
  <2>3. l.pool \in Int /\ l.balance \in Int
    BY <1>1 DEF LedgerOK
  <2> QED
    BY <1>3, <2>2, <2>3
<1>5. /\ m.rewards = [u \in Vals |-> m.rewards[u]]
      /\ m.rewards[v] = EndPeriod(l.rewards[v], tokens)
      /\ \A u \in Vals \ {v} : m.rewards[u] = l.rewards[u]
  BY <1>1, <1>4 DEF LedgerOK
<1>6. \A u : Starts(m, live, u) = Starts(l, live, u)
  BY <1>4 DEF Starts
<1> HIDE DEF m
<1>7. \A u \in Vals : Counted(m.rewards[u], Starts(m, live, u))
  BY <1>2, <1>5, <1>6 DEF LedgerCounted
<1>8. LedgerOK(m)
  <2>1. \A u \in Vals : RewardsOK(m.rewards[u])
    BY <1>7 DEF Counted
  <2> QED
    BY <1>1, <1>4, <1>5, <2>1 DEF LedgerOK
<1> QED
  BY <1>1, <1>2, <1>4, <1>5, <1>6, <1>7, <1>8 DEF LedgerCounted, m

LEMMA InitializeDelegationLemma ==
    ASSUME NEW l, NEW live, NEW d \in Accounts, NEW v \in Vals, Ready(l, live, d, v),
           NEW stake \in Int, NEW h \in Nat, NEW S, Covers(l, S)
    PROVE  /\ LedgerCounted(InitializeDelegation(l, d, v, stake, h), live \union {<<d, v>>})
           /\ Covers(InitializeDelegation(l, d, v, stake, h), S \union {<<d, v>>})
<1> DEFINE q == l.rewards[v].period - 1
           k == <<d, v>>
           m == InitializeDelegation(l, d, v, stake, h)
           both == live \union {k}
<1>0. /\ LedgerCounted(l, live) /\ k \notin live
      /\ Untouched(l.rewards[v], Starts(l, live, v))
  BY DEF Ready
<1>1. LedgerOK(l) /\ live \subseteq DOMAIN l.start
  BY <1>0 DEF LedgerCounted
<1>2. Counted(l.rewards[v], Starts(l, live, v)) /\ q \in Nat
  <2>1. Counted(l.rewards[v], Starts(l, live, v))
    BY <1>0 DEF LedgerCounted
  <2>2. q \in Nat
    BY <2>1 DEF Counted
  <2> QED
    BY <2>1, <2>2
<1>3. d \notin DOMAIN Starts(l, live, v)
  BY <1>0 DEF Starts
<1>4. Counted(IncrementRef(l.rewards[v], q), Put(Starts(l, live, v), d, q))
  BY <1>0, <1>2, <1>3, StartCounts
<1>5. /\ m \in [rewards : {m.rewards}, start : {m.start}, pool : Int, balance : Int]
      /\ m.start = Put(l.start, k, [period |-> q, stake |-> stake, height |-> h])
      /\ m.rewards = [l.rewards EXCEPT ![v] = IncrementRef(@, q)]
  BY <1>1 DEF InitializeDelegation, LedgerOK
<1>6. /\ m.rewards = [u \in Vals |-> m.rewards[u]]
      /\ m.rewards[v] = IncrementRef(l.rewards[v], q)
      /\ \A u \in Vals \ {v} : m.rewards[u] = l.rewards[u]
  BY <1>1, <1>5 DEF LedgerOK
<1>7. /\ DOMAIN m.start = DOMAIN l.start \union {k}
      /\ m.start[k] = [period |-> q, stake |-> stake, height |-> h]
      /\ \A j \in DOMAIN l.start \ {k} : m.start[j] = l.start[j]
      /\ m.start = [j \in DOMAIN m.start |-> m.start[j]]
  BY <1>5 DEF Put
<1> HIDE DEF m, k
<1>8. Starts(m, both, v) = Put(Starts(l, live, v), d, q)
  <2>1. {a \in Accounts : <<a, v>> \in both} = {a \in Accounts : <<a, v>> \in live} \union {d}
    BY DEF k
  <2>2. \A a \in {a \in Accounts : <<a, v>> \in both} :
            m.start[<<a, v>>].period
              = IF a = d THEN q ELSE Starts(l, live, v)[a]
    BY <1>1, <1>7 DEF k, Starts
  <2> QED
    BY <2>1, <2>2 DEF Starts, Put
<1>9. \A u \in Vals \ {v} : Starts(m, both, u) = Starts(l, live, u)
  <2> SUFFICES ASSUME NEW u \in Vals \ {v}
               PROVE  Starts(m, both, u) = Starts(l, live, u)
    OBVIOUS
  <2>1. {a \in Accounts : <<a, u>> \in both} = {a \in Accounts : <<a, u>> \in live}
    BY DEF k
  <2>2. \A a \in {a \in Accounts : <<a, u>> \in live} : m.start[<<a, u>>] = l.start[<<a, u>>]
    BY <1>1, <1>7 DEF k
  <2> QED
    BY <2>1, <2>2 DEF Starts
<1>10. \A u \in Vals : Counted(m.rewards[u], Starts(m, both, u))
  BY <1>0, <1>4, <1>6, <1>8, <1>9 DEF LedgerCounted
<1>11. LedgerOK(m)
  <2>1. \A u \in Vals : RewardsOK(m.rewards[u])
    BY <1>10 DEF Counted
  <2>2. IsPartial(m.start, Pairs, StartingInfo)
    <3>1. k \in Pairs /\ m.start[k] \in StartingInfo
      BY <1>2, <1>7 DEF k, Pairs, StartingInfo
    <3>2. DOMAIN l.start \subseteq Pairs /\ \A j \in DOMAIN l.start : l.start[j] \in StartingInfo
      BY <1>1 DEF LedgerOK, IsPartial
    <3>3. \A j \in DOMAIN m.start : m.start[j] \in StartingInfo
      BY <1>7, <3>1, <3>2
    <3> QED
      BY <1>7, <3>1, <3>2, <3>3 DEF IsPartial
  <2> QED
    BY <1>5, <1>6, <2>1, <2>2 DEF LedgerOK
<1> QED
  BY <1>1, <1>7, <1>10, <1>11 DEF LedgerCounted, Covers, m, k

LEMMA PayableType ==
    ASSUME NEW r, RewardsOK(r), NEW raw
    PROVE  Payable(r, raw) \in Int /\ Truncate(Payable(r, raw)) \in Int
<1>1. Payable(r, raw) \in Int
  BY DEF Payable, RewardsOK
<1>2. \A a \in Int : Truncate(a) \in Int
  BY PrecisionAssumption DEF Truncate
<1> QED
  BY <1>1, <1>2

LEMMA WithdrawRewardsLemma ==
    ASSUME NEW l, NEW live, LedgerCounted(l, live),
           NEW d \in Accounts, NEW v \in Vals, <<d, v>> \in live,
           NEW tokens \in Nat, NEW h, NEW stake, NEW S, Covers(l, S)
    PROVE  /\ Ready(WithdrawRewards(l, d, v, tokens, h, stake), live \ {<<d, v>>}, d, v)
           /\ Covers(WithdrawRewards(l, d, v, tokens, h, stake), S \ {<<d, v>>})
<1> DEFINE k == <<d, v>>
           rest == live \ {k}
           n == IncrementPeriod(l, v, tokens)
           info == l.start[k]
           st == Starts(n, live, v)
           reward == Payable(n.rewards[v],
                       DelegationRewards(n.rewards[v], info, h, l.rewards[v].period, stake))
           m == WithdrawRewards(l, d, v, tokens, h, stake)
           r == DecrementRef(n.rewards[v], info.period)
           s == PaidOut(n.rewards[v], info.period, reward)
<1>0. m = [n EXCEPT !.balance = @ - Truncate(reward),
              !.pool = @ + (reward - Truncate(reward)),
              !.rewards[v] = s,
              !.start = Drop(@, k)]
  BY DEF WithdrawRewards
<1>1. /\ LedgerCounted(n, live) /\ n.start = l.start
      /\ Untouched(n.rewards[v], st)
  BY IncrementPeriodLemma
<1>2. /\ LedgerOK(n) /\ live \subseteq DOMAIN n.start
      /\ Counted(n.rewards[v], st) /\ RewardsOK(n.rewards[v])
  BY <1>1 DEF LedgerCounted, LedgerOK
<1>3. d \in DOMAIN st /\ st[d] = info.period
  BY <1>1 DEF Starts
<1>4. /\ MayDecrementRef(n.rewards[v], info.period)
      /\ Counted(r, Drop(st, d))
      /\ Untouched(r, Drop(st, d))
  BY <1>1, <1>2, <1>3, StopCounts
<1>5. reward \in Int /\ Truncate(reward) \in Int
  BY <1>2, PayableType
<1> HIDE DEF n, reward, r, st
<1>6. /\ RewardsOK(s) /\ s.period = r.period
      /\ s.historical = r.historical /\ s.slashes = r.slashes
  <2>1. RewardsOK(r)
    BY <1>4 DEF Counted
  <2>2. s = [r EXCEPT !.outstanding = @ - reward]
    BY DEF s, r, PaidOut
  <2> HIDE DEF s
  <2> QED
    BY <1>5, <2>1, <2>2 DEF RewardsOK, IsPartial
<1>7. Counted(s, Drop(st, d)) /\ Untouched(s, Drop(st, d))
  BY <1>4, <1>6, CountedOfSame
<1> HIDE DEF s
<1>8. /\ m \in [rewards : {m.rewards}, start : {m.start}, pool : Int, balance : Int]
      /\ m.start = Drop(n.start, k)
      /\ m.rewards = [n.rewards EXCEPT ![v] = s]
  <2>1. n = [rewards |-> n.rewards, start |-> n.start, pool |-> n.pool, balance |-> n.balance]
    BY <1>2 DEF LedgerOK
  <2>3. m.rewards = [n.rewards EXCEPT ![v] = s] /\ m.start = Drop(n.start, k)
    BY <1>0, <2>1
  <2>4. /\ m.pool = n.pool + (reward - Truncate(reward))
        /\ m.balance = n.balance - Truncate(reward)
    BY <1>0, <2>1
  <2>5. DOMAIN m = {"rewards", "start", "pool", "balance"} /\ m = [x \in DOMAIN m |-> m[x]]
    BY <1>0, <2>1
  <2>6. n.pool \in Int /\ n.balance \in Int
    BY <1>2 DEF LedgerOK
  <2> HIDE DEF m
  <2> QED
    BY <1>5, <2>3, <2>4, <2>5, <2>6
<1>9. /\ m.rewards = [u \in Vals |-> m.rewards[u]]
      /\ m.rewards[v] = s
      /\ \A u \in Vals \ {v} : m.rewards[u] = n.rewards[u]
  BY <1>2, <1>8 DEF LedgerOK
<1>10. /\ DOMAIN m.start = DOMAIN l.start \ {k}
       /\ \A j \in DOMAIN m.start : m.start[j] = l.start[j]
       /\ m.start = [j \in DOMAIN m.start |-> m.start[j]]
  BY <1>1, <1>8 DEF Drop
<1> HIDE DEF m, k
<1>11. Starts(m, rest, v) = Drop(st, d)
  <2>1. {a \in Accounts : <<a, v>> \in rest} = {a \in Accounts : <<a, v>> \in live} \ {d}
    BY DEF k
  <2>2. \A a \in {a \in Accounts : <<a, v>> \in rest} : m.start[<<a, v>>] = n.start[<<a, v>>]
    BY <1>1, <1>2, <1>10
  <2> QED
    BY <2>1, <2>2 DEF Starts, Drop, st
<1>12. \A u \in Vals \ {v} : Starts(m, rest, u) = Starts(n, live, u)
  <2> SUFFICES ASSUME NEW u \in Vals \ {v}
               PROVE  Starts(m, rest, u) = Starts(n, live, u)
    OBVIOUS
  <2>1. {a \in Accounts : <<a, u>> \in rest} = {a \in Accounts : <<a, u>> \in live}
    BY DEF k
  <2>2. \A a \in {a \in Accounts : <<a, u>> \in rest} : m.start[<<a, u>>] = n.start[<<a, u>>]
    BY <1>1, <1>2, <1>10
  <2> QED
    BY <2>1, <2>2 DEF Starts
<1>13. \A u \in Vals : Counted(m.rewards[u], Starts(m, rest, u))
  BY <1>1, <1>7, <1>9, <1>11, <1>12 DEF LedgerCounted
<1>14. LedgerOK(m)
  <2>1. \A u \in Vals : RewardsOK(m.rewards[u])
    BY <1>13 DEF Counted
  <2>2. IsPartial(m.start, Pairs, StartingInfo)
    BY <1>1, <1>2, <1>10 DEF IsPartial, LedgerOK
  <2> QED
    BY <1>8, <1>9, <2>1, <2>2 DEF LedgerOK
<1>15. rest \subseteq DOMAIN m.start
  BY <1>1, <1>2, <1>10
<1> QED
  BY <1>7, <1>9, <1>10, <1>11, <1>13, <1>14, <1>15 DEF Ready, LedgerCounted, Covers, m, k

\* Moving amounts leaves the counts alone.
LEMMA MoveLemma ==
    ASSUME NEW l, NEW live, LedgerCounted(l, live), NEW v \in Vals, NEW m,
           m = [rewards |-> m.rewards, start |-> l.start, pool |-> m.pool, balance |-> m.balance],
           m.pool \in Int, m.balance \in Int,
           NEW r, m.rewards = [l.rewards EXCEPT ![v] = r], RewardsOK(r),
           r.period = l.rewards[v].period, r.historical = l.rewards[v].historical,
           r.slashes = l.rewards[v].slashes
    PROVE  LedgerCounted(m, live) /\ m.start = l.start
<1>1. LedgerOK(l) /\ live \subseteq DOMAIN l.start
  BY DEF LedgerCounted
<1>2. /\ m.rewards = [u \in Vals |-> m.rewards[u]]
      /\ m.rewards[v] = r
      /\ \A u \in Vals \ {v} : m.rewards[u] = l.rewards[u]
  BY <1>1 DEF LedgerOK
<1>3. m.start = l.start /\ \A u : Starts(m, live, u) = Starts(l, live, u)
  <2>1. m.start = l.start
    OBVIOUS
  <2> QED
    BY <2>1 DEF Starts
<1>4. Counted(r, Starts(l, live, v))
  BY CountedOfSame DEF LedgerCounted
<1>5. \A u \in Vals : Counted(m.rewards[u], Starts(m, live, u))
  BY <1>2, <1>3, <1>4 DEF LedgerCounted
<1>6. \A u \in Vals : RewardsOK(m.rewards[u])
  BY <1>5 DEF Counted
<1>7. LedgerOK(m)
  BY <1>1, <1>2, <1>3, <1>6 DEF LedgerOK
<1> QED
  BY <1>1, <1>3, <1>5, <1>7 DEF LedgerCounted

LEMMA AllocateTokensLemma ==
    ASSUME NEW l, NEW live, LedgerCounted(l, live), NEW v \in Vals,
           NEW c \in Int, NEW a \in Int, NEW com \in Int
    PROVE  LedgerCounted(AllocateTokens(l, v, c, a, com), live)
           /\ AllocateTokens(l, v, c, a, com).start = l.start
<1> DEFINE m == AllocateTokens(l, v, c, a, com)
           o == l.rewards[v]
           r == Earned(o, a, com)
<1>1. LedgerOK(l) /\ RewardsOK(o) /\ l.pool \in Int /\ l.balance \in Int
  BY DEF LedgerCounted, LedgerOK
<1>2. l = [rewards |-> l.rewards, start |-> l.start, pool |-> l.pool, balance |-> l.balance]
  BY <1>1 DEF LedgerOK
<1>3. m = [l EXCEPT !.balance = @ + c * Precision, !.pool = @ + (c * Precision - a),
                    !.rewards[v] = r]
  BY DEF AllocateTokens
<1>4. /\ RewardsOK(r) /\ r.period = o.period
      /\ r.historical = o.historical /\ r.slashes = o.slashes
  <2>1. /\ o = [outstanding |-> o.outstanding, commission |-> o.commission,
                current |-> o.current, period |-> o.period,
                historical |-> o.historical, slashes |-> o.slashes]
        /\ o.outstanding \in Int /\ o.commission \in Int /\ o.current \in Int
        /\ o.period \in Nat /\ o.slashes \in SUBSET SlashEvent
        /\ IsPartial(o.historical, Nat, [ratio : Int, refs : Nat])
    BY <1>1 DEF RewardsOK
  <2> HIDE DEF o
  <2>2. r = [outstanding |-> o.outstanding + a, commission |-> o.commission + com,
             current |-> o.current + (a - com), period |-> o.period,
             historical |-> o.historical, slashes |-> o.slashes]
    <3>1. r.outstanding = o.outstanding + a
      BY <2>1 DEF Earned
    <3>2. r.commission = o.commission + com
      BY <2>1 DEF Earned
    <3>3. r.current = o.current + (a - com)
      BY <2>1 DEF Earned
    <3>4. r.period = o.period /\ r.historical = o.historical /\ r.slashes = o.slashes
      BY <2>1 DEF Earned
    <3>5. DOMAIN r = DOMAIN o /\ r = [x \in DOMAIN r |-> r[x]]
      BY <2>1 DEF Earned
    <3>6. DOMAIN o = {"outstanding", "commission", "current", "period", "historical", "slashes"}
      BY <2>1
    <3> HIDE DEF r
    <3> QED
      BY <3>1, <3>2, <3>3, <3>4, <3>5, <3>6
  <2> HIDE DEF r
  <2> QED
    BY <1>1, <2>1, <2>2 DEF RewardsOK
<1> HIDE DEF m, r
<1>5. m = [rewards |-> [l.rewards EXCEPT ![v] = r], start |-> l.start,
           pool |-> l.pool + (c * Precision - a), balance |-> l.balance + c * Precision]
  BY <1>2, <1>3
<1>6. c * Precision \in Int
  BY PrecisionAssumption
<1>7. m.pool \in Int /\ m.balance \in Int
  BY <1>1, <1>5, <1>6
<1> QED
  BY <1>4, <1>5, <1>7, MoveLemma DEF m

LEMMA WithdrawCommissionLemma ==
    ASSUME NEW l, NEW live, LedgerCounted(l, live), NEW v \in Vals
    PROVE  LedgerCounted(WithdrawCommission(l, v), live)
           /\ WithdrawCommission(l, v).start = l.start
<1> DEFINE m == WithdrawCommission(l, v)
           o == l.rewards[v]
           r == WithoutCommission(o)
<1>1. LedgerOK(l) /\ RewardsOK(o) /\ l.pool \in Int /\ l.balance \in Int
  BY DEF LedgerCounted, LedgerOK
<1>2. l = [rewards |-> l.rewards, start |-> l.start, pool |-> l.pool, balance |-> l.balance]
  BY <1>1 DEF LedgerOK
<1>3. CommissionCoins(o) \in Int
  BY <1>1, PrecisionAssumption DEF CommissionCoins, Truncate, RewardsOK
<1>4. m = [l EXCEPT !.balance = @ - CommissionCoins(o), !.rewards[v] = r]
  BY DEF WithdrawCommission
<1>5. /\ RewardsOK(r) /\ r.period = o.period
      /\ r.historical = o.historical /\ r.slashes = o.slashes
  <2>1. /\ o = [outstanding |-> o.outstanding, commission |-> o.commission,
                current |-> o.current, period |-> o.period,
                historical |-> o.historical, slashes |-> o.slashes]
        /\ o.outstanding \in Int /\ o.commission \in Int /\ o.current \in Int
        /\ o.period \in Nat /\ o.slashes \in SUBSET SlashEvent
        /\ IsPartial(o.historical, Nat, [ratio : Int, refs : Nat])
    BY <1>1 DEF RewardsOK
  <2> HIDE DEF o
  <2>2. r = [outstanding |-> o.outstanding - CommissionCoins(o), commission |-> o.commission - CommissionCoins(o),
             current |-> o.current, period |-> o.period,
             historical |-> o.historical, slashes |-> o.slashes]
    <3>1. r.outstanding = o.outstanding - CommissionCoins(o)
      BY <2>1 DEF WithoutCommission
    <3>2. r.commission = o.commission - CommissionCoins(o)
      BY <2>1 DEF WithoutCommission
    <3>3. r.current = o.current
      BY <2>1 DEF WithoutCommission
    <3>4. r.period = o.period /\ r.historical = o.historical /\ r.slashes = o.slashes
      BY <2>1 DEF WithoutCommission
    <3>5. DOMAIN r = DOMAIN o /\ r = [x \in DOMAIN r |-> r[x]]
      BY <2>1 DEF WithoutCommission
    <3>6. DOMAIN o = {"outstanding", "commission", "current", "period", "historical", "slashes"}
      BY <2>1
    <3> HIDE DEF r
    <3> QED
      BY <3>1, <3>2, <3>3, <3>4, <3>5, <3>6
  <2> HIDE DEF r
  <2> QED
    BY <1>1, <2>1, <2>2, <1>3 DEF RewardsOK
<1> HIDE DEF m, r
<1>6. m = [rewards |-> [l.rewards EXCEPT ![v] = r], start |-> l.start,
           pool |-> l.pool, balance |-> l.balance - CommissionCoins(o)]
  BY <1>2, <1>4
<1>7. m.pool \in Int /\ m.balance \in Int
  BY <1>1, <1>3, <1>6
<1> QED
  BY <1>5, <1>6, <1>7, MoveLemma DEF m

LEMMA RecordSlashLemma ==
    ASSUME NEW l, NEW live, LedgerCounted(l, live), NEW v \in Vals,
           NEW tokens \in Nat, NEW h \in Nat, NEW f \in Int
    PROVE  LedgerCounted(RecordSlash(l, v, tokens, h, f), live)
           /\ RecordSlash(l, v, tokens, h, f).start = l.start
<1> DEFINE n == IncrementPeriod(l, v, tokens)
           r == WithSlash(n.rewards[v], h, f)
           m == RecordSlash(l, v, tokens, h, f)
<1>0. m = [n EXCEPT !.rewards[v] = r]
  BY DEF RecordSlash
<1>1. LedgerCounted(n, live) /\ n.start = l.start /\ Untouched(n.rewards[v], Starts(n, live, v))
  BY IncrementPeriodLemma
<1> HIDE DEF n, m
<1>2. LedgerOK(n) /\ live \subseteq DOMAIN n.start /\ Counted(n.rewards[v], Starts(n, live, v))
  BY <1>1 DEF LedgerCounted
<1>3. Counted(r, Starts(n, live, v))
  BY <1>1, <1>2, SlashCounts
<1> HIDE DEF r
<1>4. n = [rewards |-> n.rewards, start |-> n.start, pool |-> n.pool, balance |-> n.balance]
  BY <1>2 DEF LedgerOK
<1>5. m = [rewards |-> [n.rewards EXCEPT ![v] = r], start |-> n.start, pool |-> n.pool,
           balance |-> n.balance]
  BY <1>0, <1>4
<1>6. /\ m.rewards = [u \in Vals |-> m.rewards[u]]
      /\ m.rewards[v] = r
      /\ \A u \in Vals \ {v} : m.rewards[u] = n.rewards[u]
  BY <1>2, <1>5 DEF LedgerOK
<1>7. m.start = n.start /\ \A u : Starts(m, live, u) = Starts(n, live, u)
  BY <1>5 DEF Starts
<1>8. \A u \in Vals : Counted(m.rewards[u], Starts(m, live, u))
  BY <1>1, <1>3, <1>6, <1>7 DEF LedgerCounted
<1>9. \A u \in Vals : RewardsOK(m.rewards[u])
  BY <1>8 DEF Counted
<1>10. m \in [rewards : {m.rewards}, start : {m.start}, pool : Int, balance : Int]
  BY <1>2, <1>5 DEF LedgerOK
<1>11. LedgerOK(m)
  BY <1>2, <1>6, <1>7, <1>9, <1>10 DEF LedgerOK
<1> QED
  BY <1>1, <1>2, <1>7, <1>8, <1>11 DEF LedgerCounted, m

----------------------------------------------------------------------------
\* The operators of staking that call the ledger's hooks.

StakingOK(s) ==
    /\ s = [validator |-> s.validator, delegation |-> s.delegation,
            powerIndex |-> s.powerIndex, bondedPool |-> s.bondedPool, ledger |-> s.ledger]
    /\ s.validator \in [Vals -> Validator]
    /\ IsPartial(s.delegation, Pairs, Nat)
    /\ s.powerIndex \subseteq Vals
    /\ Covers(s.ledger, DOMAIN s.delegation)
    /\ LedgerCounted(s.ledger, DOMAIN s.delegation)

LEMMA DivisionType ==
    ASSUME NEW a \in Nat, NEW b \in Nat \ {0}
    PROVE  a \div b \in Nat
  OBVIOUS

LEMMA ProductType ==
    ASSUME NEW a \in Nat, NEW b \in Nat
    PROVE  a * b \in Nat
  OBVIOUS

LEMMA StakeType ==
    ASSUME NEW s, s.validator \in [Vals -> Validator], NEW v \in Vals, NEW n \in Nat
    PROVE  Stake(s, v, n) \in Nat
<1>1. s.validator[v].tokens \in Nat /\ s.validator[v].shares \in Nat
  BY DEF Validator
<1>2. n * s.validator[v].tokens * Precision \in Nat
  BY <1>1, ProductType, PrecisionAssumption
<1>3. CASE s.validator[v].shares = 0
  BY <1>3 DEF Stake
<1>4. CASE s.validator[v].shares # 0
  BY <1>1, <1>2, <1>4, DivisionType DEF Stake
<1> QED
  BY <1>3, <1>4

LEMMA SharesType ==
    ASSUME NEW s, s.validator \in [Vals -> Validator], NEW v \in Vals, NEW n \in Nat,
           s.validator[v].tokens > 0 \/ s.validator[v].shares = 0
    PROVE  SharesFromTokens(s, v, n) \in Nat
<1>1. s.validator[v].tokens \in Nat /\ s.validator[v].shares \in Nat
  BY DEF Validator
<1>2. CASE s.validator[v].shares = 0
  BY <1>2, ProductType, PrecisionAssumption DEF SharesFromTokens
<1>3. CASE s.validator[v].shares # 0
  <2>1. s.validator[v].tokens \in Nat \ {0} /\ s.validator[v].shares * n \in Nat
    BY <1>1, <1>3, ProductType
  <2> QED
    BY <1>3, <2>1, DivisionType DEF SharesFromTokens
<1> QED
  BY <1>2, <1>3

LEMMA WithdrawnLemma ==
    ASSUME NEW s, StakingOK(s), NEW d \in Accounts, NEW v \in Vals,
           <<d, v>> \in DOMAIN s.delegation, NEW h
    PROVE  /\ Ready(Withdrawn(s, d, v, h), DOMAIN s.delegation \ {<<d, v>>}, d, v)
           /\ Covers(Withdrawn(s, d, v, h), DOMAIN s.delegation \ {<<d, v>>})
<1>1. /\ LedgerCounted(s.ledger, DOMAIN s.delegation)
      /\ Covers(s.ledger, DOMAIN s.delegation)
      /\ s.validator[v].tokens \in Nat
  BY DEF StakingOK, Validator
<1> QED
  BY <1>1, WithdrawRewardsLemma DEF Withdrawn

LEMMA AddTokensType ==
    ASSUME NEW val \in Validator, NEW n \in Nat, NEW shares \in Nat
    PROVE  AddTokens(val, n, shares) \in Validator
<1>1. val.tokens + n \in Nat /\ val.shares + shares \in Nat
  BY DEF Validator
<1> QED
  BY <1>1 DEF AddTokens, Validator

LEMMA RemoveTokensType ==
    ASSUME NEW val \in Validator, NEW n \in 0 .. val.tokens, NEW shares \in 0 .. val.shares,
           NEW jail \in BOOLEAN
    PROVE  RemoveTokens(val, n, shares, jail) \in Validator
<1>1. val.tokens - n \in Nat /\ val.shares - shares \in Nat
  BY DEF Validator
<1>2. (val.jailed \/ jail) \in BOOLEAN
  OBVIOUS
<1> QED
  BY <1>1, <1>2 DEF RemoveTokens, Validator

LEMMA DelegatedLemma ==
    ASSUME NEW s, StakingOK(s), NEW d \in Accounts, NEW v \in Vals,
           NEW n \in Nat, NEW h \in Nat,
           s.validator[v].tokens > 0 \/ s.validator[v].shares = 0
    PROVE  StakingOK(Delegated(s, d, v, n, h))
<1> DEFINE k == <<d, v>>
           has == k \in DOMAIN s.delegation
           issued == SharesFromTokens(s, v, n)
           hooked == IF has THEN Withdrawn(s, d, v, h)
                     ELSE IncrementPeriod(s.ledger, v, s.validator[v].tokens)
           val == AddTokens(s.validator[v], n, issued)
           t == [s EXCEPT
                   !.validator[v] = AddTokens(@, n, issued),
                   !.delegation = Put(@, k, issued + IF has THEN @[k] ELSE 0),
                   !.bondedPool = @ + IfBonded(s, v, n)]
           u == Delegated(s, d, v, n, h)
           rest == DOMAIN s.delegation \ {k}
<1>0. u = [t EXCEPT !.ledger = InitializeDelegation(hooked, d, v, StakeOf(t, d, v), h)]
  BY DEF Delegated
<1>1. /\ s.validator[v].tokens \in Nat /\ s.validator[v].shares \in Nat
      /\ issued \in Nat /\ k \in Pairs
  BY SharesType DEF StakingOK, Validator, Pairs
<1>2. Ready(hooked, rest, d, v) /\ Covers(hooked, rest)
  <2>1. CASE has
    BY <2>1, WithdrawnLemma
  <2>2. CASE ~ has
    <3>1. rest = DOMAIN s.delegation
      BY <2>2
    <3>2. hooked = IncrementPeriod(s.ledger, v, s.validator[v].tokens)
      BY <2>2
    <3>3. LedgerCounted(s.ledger, DOMAIN s.delegation) /\ Covers(s.ledger, DOMAIN s.delegation)
      BY DEF StakingOK
    <3> DEFINE m == IncrementPeriod(s.ledger, v, s.validator[v].tokens)
    <3>4. /\ LedgerCounted(m, DOMAIN s.delegation) /\ m.start = s.ledger.start
          /\ Untouched(m.rewards[v], Starts(m, DOMAIN s.delegation, v))
      BY <1>1, <3>3, IncrementPeriodLemma
    <3> HIDE DEF hooked, m
    <3>5. Ready(m, DOMAIN s.delegation, d, v) /\ Covers(m, DOMAIN s.delegation)
      BY <2>2, <3>3, <3>4 DEF Ready, Covers
    <3> QED
      BY <3>1, <3>2, <3>5 DEF m
  <2> QED
    BY <2>1, <2>2
<1>3. val \in Validator
  <2>1. s.validator[v] \in Validator
    BY DEF StakingOK
  <2> QED
    BY <1>1, <2>1, AddTokensType
<1> HIDE DEF issued, hooked, val, u
<1>4. /\ t.validator = [s.validator EXCEPT ![v] = val]
      /\ t.delegation = Put(s.delegation, k, issued + IF has THEN s.delegation[k] ELSE 0)
      /\ t.powerIndex = s.powerIndex
      /\ DOMAIN t = {"validator", "delegation", "powerIndex", "bondedPool", "ledger"}
      /\ t = [x \in DOMAIN t |-> t[x]]
  BY DEF StakingOK, val
<1> HIDE DEF t
<1>5. /\ u.validator = t.validator /\ u.delegation = t.delegation /\ u.powerIndex = t.powerIndex
      /\ u.ledger = InitializeDelegation(hooked, d, v, StakeOf(t, d, v), h)
      /\ u = [validator |-> u.validator, delegation |-> u.delegation,
              powerIndex |-> u.powerIndex, bondedPool |-> u.bondedPool, ledger |-> u.ledger]
  BY <1>0, <1>4
<1>6. t.validator \in [Vals -> Validator]
  BY <1>3, <1>4 DEF StakingOK
<1>7. /\ IsPartial(t.delegation, Pairs, Nat)
      /\ DOMAIN t.delegation = DOMAIN s.delegation \union {k}
  <2>1. \A j \in DOMAIN s.delegation : s.delegation[j] \in Nat
    BY DEF StakingOK, IsPartial
  <2>2. issued + (IF has THEN s.delegation[k] ELSE 0) \in Nat
    BY <1>1, <2>1
  <2> QED
    BY <1>1, <1>4, <2>1, <2>2 DEF StakingOK, IsPartial, Put
<1>8. StakeOf(t, d, v) \in Nat
  BY <1>6, <1>7, StakeType DEF StakeOf, IsPartial
<1>9. k \notin rest /\ rest \union {k} = DOMAIN t.delegation
  BY <1>7
<1>10. /\ LedgerCounted(u.ledger, DOMAIN t.delegation)
       /\ Covers(u.ledger, DOMAIN t.delegation)
  <2> DEFINE m == InitializeDelegation(hooked, d, v, StakeOf(t, d, v), h)
  <2>1. StakeOf(t, d, v) \in Int
    BY <1>8
  <2>2. LedgerCounted(m, rest \union {<<d, v>>}) /\ Covers(m, rest \union {<<d, v>>})
    BY <1>2, <2>1, InitializeDelegationLemma
  <2> QED
    BY <1>2, <1>5, <1>9, <2>2
<1> QED
  BY <1>4, <1>5, <1>6, <1>7, <1>10 DEF StakingOK, u

LEMMA UnbondedLemma ==
    ASSUME NEW s, StakingOK(s), NEW d \in Accounts, NEW v \in Vals,
           <<d, v>> \in DOMAIN s.delegation, NEW n \in Nat, NEW h \in Nat,
           n <= s.delegation[<<d, v>>], n <= s.validator[v].shares,
           TokensRemoved(s, v, n) \in 1 .. s.validator[v].tokens
    PROVE  StakingOK(Unbonded(s, d, v, n, h))
<1> DEFINE k == <<d, v>>
           left == s.delegation[k] - n
           hooked == Withdrawn(s, d, v, h)
           jail == d = v /\ Stake(s, v, left) < Precision
           val == RemoveTokens(s.validator[v], TokensRemoved(s, v, n), n, jail)
           u == Unbonded(s, d, v, n, h)
           rest == DOMAIN s.delegation \ {k}
<1>0. /\ u.validator = [s.validator EXCEPT ![v] = val]
      /\ u.delegation = (IF left = 0 THEN Drop(s.delegation, k)
                         ELSE Put(s.delegation, k, left))
      /\ u.powerIndex = (IF jail THEN s.powerIndex \ {v} ELSE s.powerIndex)
      /\ u.ledger = (IF left = 0 THEN hooked
                     ELSE InitializeDelegation(hooked, d, v, Stake(s, v, left), h))
      /\ u = [validator |-> u.validator, delegation |-> u.delegation,
              powerIndex |-> u.powerIndex, bondedPool |-> u.bondedPool, ledger |-> u.ledger]
  BY DEF Unbonded
<1>1. /\ s.validator[v] \in Validator /\ k \in Pairs
      /\ s.validator[v].tokens \in Nat /\ s.validator[v].shares \in Nat
      /\ s.delegation[k] \in Nat /\ left \in Nat
  BY DEF StakingOK, Validator, Pairs, IsPartial
<1>2. Ready(hooked, rest, d, v) /\ Covers(hooked, rest)
  BY WithdrawnLemma
<1>3. val \in Validator
  <2>1. jail \in BOOLEAN
    OBVIOUS
  <2> HIDE DEF jail
  <2> QED
    BY <1>1, <2>1, RemoveTokensType
<1>4. u.validator \in [Vals -> Validator] /\ u.powerIndex \subseteq Vals
  BY <1>0, <1>3 DEF StakingOK
<1>5. Stake(s, v, left) \in Nat
  BY <1>1, StakeType DEF StakingOK
<1> HIDE DEF u, hooked, jail, val
<1>6. CASE left = 0
  <2>1. u.delegation = Drop(s.delegation, k) /\ u.ledger = hooked
    BY <1>0, <1>6
  <2>2. IsPartial(u.delegation, Pairs, Nat) /\ DOMAIN u.delegation = rest
    BY <2>1 DEF StakingOK, IsPartial, Drop
  <2> QED
    BY <1>0, <1>2, <1>4, <2>1, <2>2 DEF StakingOK, Ready, u
<1>7. CASE left # 0
  <2>1. /\ u.delegation = Put(s.delegation, k, left)
        /\ u.ledger = InitializeDelegation(hooked, d, v, Stake(s, v, left), h)
    BY <1>0, <1>7
  <2>2. /\ IsPartial(u.delegation, Pairs, Nat)
        /\ DOMAIN u.delegation = rest \union {k}
    BY <1>1, <2>1 DEF StakingOK, IsPartial, Put
  <2>3. /\ LedgerCounted(u.ledger, DOMAIN u.delegation)
        /\ Covers(u.ledger, DOMAIN u.delegation)
    <3> DEFINE m == InitializeDelegation(hooked, d, v, Stake(s, v, left), h)
    <3>1. Stake(s, v, left) \in Int
      BY <1>5
    <3>2. /\ LedgerCounted(m, rest \union {<<d, v>>})
          /\ Covers(m, rest \union {<<d, v>>})
      BY <1>2, <3>1, InitializeDelegationLemma
    <3> QED
      BY <1>2, <2>1, <2>2, <3>2
  <2> QED
    BY <1>0, <1>4, <2>2, <2>3 DEF StakingOK, u
<1> QED
  BY <1>6, <1>7

----------------------------------------------------------------------------
\* The ledger as a whole.

\* The starting infos of the delegations to v that count.
Infos(l, live, v) == [d \in {a \in Accounts : <<a, v>> \in live} |-> l.start[<<d, v>>]]

OutstandingOf(l) == [v \in Vals |-> l.rewards[v].outstanding]

Balanced(l) == l.pool >= 0 /\ l.balance = l.pool + Sum(OutstandingOf(l), Vals)

\* caps gives what each delegation's stake is worth now.
LedgerSound(l, live, caps, h) ==
    /\ LedgerCounted(l, live)
    /\ \A v \in Vals : Sound(Accounts, l.rewards[v], Infos(l, live, v), caps[v], h)

CapsType == [Vals -> [Accounts -> Nat]]

\* Amounts that a bank can move.
Coins(x) == \E n \in Int : x = n * Precision

\* An account is settled: what leaves it is paid or goes to the pool.
Settles(l, m, v) ==
    /\ Coins(m.balance - l.balance)
    /\ \A u \in Vals \ {v} : m.rewards[u].outstanding = l.rewards[u].outstanding
    /\ m.rewards[v].outstanding <= l.rewards[v].outstanding
    /\ m.pool >= l.pool /\ m.balance <= l.balance
    /\ m.balance - l.balance
        = (m.pool - l.pool) + (m.rewards[v].outstanding - l.rewards[v].outstanding)

\* Coins come in for one validator.
Collects(l, m, v) ==
    /\ Coins(m.balance - l.balance)
    /\ \A u \in Vals \ {v} : m.rewards[u].outstanding = l.rewards[u].outstanding
    /\ m.rewards[v].outstanding >= l.rewards[v].outstanding
    /\ m.pool >= l.pool
    /\ m.balance - l.balance
        = (m.pool - l.pool) + (m.rewards[v].outstanding - l.rewards[v].outstanding)

\* Nothing but v's rewards and starting infos differs.
OnlyAt(l, live, m, rest, v) ==
    \A u \in Vals \ {v} : /\ m.rewards[u] = l.rewards[u]
                          /\ Infos(m, rest, u) = Infos(l, live, u)

LEMMA CoinsLemma ==
    /\ Coins(0)
    /\ \A a \in Int : Truncate(a) \in Int /\ Coins(Truncate(a)) /\ Coins(- Truncate(a))
    /\ \A x, y \in Int : Coins(x) /\ Coins(y) => Coins(x + y)
<1>1. Coins(0)
  <2>1. 0 = 0 * Precision /\ 0 \in Int
    BY PrecisionAssumption
  <2> QED
    BY <2>1 DEF Coins
<1>2. ASSUME NEW a \in Int
      PROVE  Truncate(a) \in Int /\ Coins(Truncate(a)) /\ Coins(- Truncate(a))
  <2> DEFINE n == a \div Precision
  <2>1. n \in Int /\ Truncate(a) = n * Precision
    BY PrecisionAssumption DEF Truncate
  <2> HIDE DEF n
  <2>2. n * Precision \in Int /\ - (n * Precision) = (- n) * Precision /\ - n \in Int
    BY <2>1, PrecisionAssumption
  <2>3. Coins(n * Precision) /\ Coins(- (n * Precision))
    BY <2>1, <2>2 DEF Coins
  <2> QED
    BY <2>1, <2>2, <2>3
<1>3. ASSUME NEW x \in Int, NEW y \in Int, Coins(x), Coins(y)
      PROVE  Coins(x + y)
  <2>1. PICK n \in Int : x = n * Precision
    BY <1>3 DEF Coins
  <2>2. PICK o \in Int : y = o * Precision
    BY <1>3 DEF Coins
  <2>3. n + o \in Int /\ n * Precision + o * Precision = (n + o) * Precision
    BY PrecisionAssumption
  <2> QED
    BY <2>1, <2>2, <2>3 DEF Coins
<1> QED
  BY <1>1, <1>2, <1>3

LEMMA CoinsSame ==
    ASSUME NEW x, NEW y \in Int, x = y
    PROVE  Coins(x - y)
  BY CoinsLemma

LEMMA FiniteLemma == IsFiniteSet(Vals) /\ IsFiniteSet(Accounts)
  BY ChainAssumption, FS_Subset

LEMMA InfosLemma ==
    ASSUME NEW l, NEW live, LedgerCounted(l, live)
    PROVE  /\ l.pool \in Int /\ l.balance \in Int /\ DOMAIN l.rewards = Vals
           /\ \A v \in Vals : /\ Counted(l.rewards[v], Periods(Infos(l, live, v)))
                              /\ Periods(Infos(l, live, v)) = Starts(l, live, v)
                              /\ l.rewards[v].outstanding \in Int
<1>1. \A v : Periods(Infos(l, live, v)) = Starts(l, live, v)
  BY DEF Periods, Infos, Starts
<1>2. LedgerOK(l) /\ \A v \in Vals : Counted(l.rewards[v], Starts(l, live, v))
  BY DEF LedgerCounted
<1>3. \A v \in Vals : l.rewards[v].outstanding \in Int
  BY <1>2 DEF LedgerOK, RewardsOK
<1>4. l.pool \in Int /\ l.balance \in Int /\ DOMAIN l.rewards = Vals
  BY <1>2 DEF LedgerOK
<1> QED
  BY <1>1, <1>2, <1>3, <1>4

LEMMA LedgerTypes ==
    ASSUME NEW l, LedgerOK(l)
    PROVE  /\ l.pool \in Int /\ l.balance \in Int /\ DOMAIN l.rewards = Vals
           /\ \A v \in Vals : /\ RewardsOK(l.rewards[v])
                              /\ l.rewards[v].outstanding \in Int
                              /\ l.rewards[v].commission \in Int
                              /\ l.rewards[v].current \in Int
<1>1. l.pool \in Int /\ l.balance \in Int /\ DOMAIN l.rewards = Vals
  BY DEF LedgerOK
<1>2. \A v \in Vals : RewardsOK(l.rewards[v])
  BY DEF LedgerOK
<1> QED
  BY <1>1, <1>2 DEF RewardsOK

LEMMA BalancedKept ==
    ASSUME NEW l, LedgerOK(l), Balanced(l), NEW m, LedgerOK(m), NEW v \in Vals,
           \A u \in Vals \ {v} : m.rewards[u].outstanding = l.rewards[u].outstanding,
           m.pool >= l.pool,
           m.balance - l.balance
             = (m.pool - l.pool) + (m.rewards[v].outstanding - l.rewards[v].outstanding)
    PROVE  Balanced(m)
<1> DEFINE f == OutstandingOf(l)
           g == OutstandingOf(m)
<1>1. /\ \A u \in Vals : f[u] \in Int /\ g[u] \in Int
      /\ \A u \in Vals \ {v} : g[u] = f[u]
      /\ f[v] = l.rewards[v].outstanding /\ g[v] = m.rewards[v].outstanding
      /\ l.pool \in Int /\ l.balance \in Int /\ m.pool \in Int /\ m.balance \in Int
  BY LedgerTypes DEF OutstandingOf
<1> HIDE DEF f, g
<1>2. Sum(g, Vals) = Sum(f, Vals) + (g[v] - f[v]) /\ Sum(f, Vals) \in Int
  <2>1. /\ IsFiniteSet(Vals) /\ v \in Vals /\ \A u \in Vals : f[u] \in Int
        /\ g[v] \in Int /\ \A u \in Vals \ {v} : g[u] = f[u]
    BY <1>1, FiniteLemma
  <2>2. Sum(f, Vals) \in Int
    BY <2>1, SumType
  <2>3. Sum(g, Vals) = Sum(f, Vals) + (g[v] - f[v])
    BY <2>1, SumChange
  <2> QED
    BY <2>2, <2>3
<1>3. l.pool >= 0 /\ l.balance = l.pool + Sum(f, Vals)
  BY DEF Balanced, f
<1>4. m.pool >= 0 /\ m.balance = m.pool + Sum(g, Vals)
  BY <1>1, <1>2, <1>3
<1> QED
  BY <1>4 DEF Balanced, g

LEMMA BalancedWhenSettled ==
    ASSUME NEW l, LedgerOK(l), Balanced(l), NEW m, LedgerOK(m), NEW v \in Vals,
           Settles(l, m, v)
    PROVE  Balanced(m)
<1>1. /\ \A u \in Vals \ {v} : m.rewards[u].outstanding = l.rewards[u].outstanding
      /\ m.pool >= l.pool
      /\ m.balance - l.balance
           = (m.pool - l.pool) + (m.rewards[v].outstanding - l.rewards[v].outstanding)
  BY DEF Settles
<1> QED
  BY <1>1, BalancedKept

LEMMA SettledTwice ==
    ASSUME NEW l, LedgerOK(l), NEW m, LedgerOK(m), NEW n, LedgerOK(n), NEW v \in Vals,
           Settles(l, m, v), Settles(m, n, v)
    PROVE  Settles(l, n, v)
<1>1. /\ l.pool \in Int /\ l.balance \in Int /\ l.rewards[v].outstanding \in Int
      /\ m.pool \in Int /\ m.balance \in Int /\ m.rewards[v].outstanding \in Int
      /\ n.pool \in Int /\ n.balance \in Int /\ n.rewards[v].outstanding \in Int
  BY LedgerTypes
<1>2. Coins(n.balance - l.balance)
  <2>1. Coins(m.balance - l.balance) /\ Coins(n.balance - m.balance)
    BY DEF Settles
  <2>2. n.balance - l.balance = (m.balance - l.balance) + (n.balance - m.balance)
    BY <1>1
  <2>3. m.balance - l.balance \in Int /\ n.balance - m.balance \in Int
    BY <1>1
  <2>4. Coins((m.balance - l.balance) + (n.balance - m.balance))
    BY <2>1, <2>3, CoinsLemma
  <2> QED
    BY <2>2, <2>4
<1> QED
  BY <1>1, <1>2 DEF Settles

\* What only touches v's rewards is sound when they are.
LEMMA SoundAt ==
    ASSUME NEW l, NEW live, NEW caps, NEW h, LedgerSound(l, live, caps, h),
           NEW m, NEW rest, LedgerCounted(m, rest), NEW v \in Vals, OnlyAt(l, live, m, rest, v),
           NEW others, \A u \in Vals \ {v} : others[u] = caps[u],
           Sound(Accounts, m.rewards[v], Infos(m, rest, v), others[v], h)
    PROVE  LedgerSound(m, rest, others, h)
<1> SUFFICES ASSUME NEW u \in Vals
             PROVE  Sound(Accounts, m.rewards[u], Infos(m, rest, u), others[u], h)
  BY DEF LedgerSound
<1>1. CASE u = v
  BY <1>1
<1>2. CASE u # v
  <2>1. Sound(Accounts, l.rewards[u], Infos(l, live, u), caps[u], h)
    BY DEF LedgerSound
  <2> QED
    BY <1>2, <2>1 DEF OnlyAt
<1> QED
  BY <1>1, <1>2

----------------------------------------------------------------------------
\* The calls of x/distribution.

LEMMA IncrementPeriodSound ==
    ASSUME NEW l, NEW live, NEW caps \in CapsType, NEW h \in Nat, LedgerSound(l, live, caps, h),
           NEW v \in Vals, NEW tokens \in Nat, Sum(caps[v], Accounts) <= tokens * Precision,
           NEW m, m = IncrementPeriod(l, v, tokens)
    PROVE  LedgerSound(m, live, caps, h) /\ Settles(l, m, v)
<1> DEFINE r == l.rewards[v]
           s == EndPeriod(r, tokens)
           infos == Infos(l, live, v)
<1>1. LedgerCounted(l, live) /\ LedgerCounted(m, live) /\ m.start = l.start
  BY IncrementPeriodLemma DEF LedgerSound
<1>2. Counted(r, Periods(infos)) /\ LedgerOK(l)
  BY <1>1, InfosLemma DEF LedgerCounted
<1>3. m.rewards = [l.rewards EXCEPT ![v] = s] /\ m.pool = l.pool + Unclaimed(r, tokens)
      /\ m.balance = l.balance
  BY <1>2 DEF IncrementPeriod, LedgerOK
<1>4. m.rewards[v] = s /\ \A u \in Vals \ {v} : m.rewards[u] = l.rewards[u]
  BY <1>2, <1>3 DEF LedgerOK
<1>5. \A u : Infos(m, live, u) = Infos(l, live, u)
  BY <1>1 DEF Infos
<1>6. Sound(Accounts, r, infos, caps[v], h) /\ caps[v] \in [Accounts -> Nat]
  BY DEF LedgerSound, CapsType
<1>7. s.outstanding = r.outstanding - Unclaimed(r, tokens)
  BY DEF EndPeriod
<1> DEFINE cap == caps[v]
<1> HIDE DEF s, r, infos, cap
<1>8. Sound(Accounts, s, infos, cap, h) /\ Unclaimed(r, tokens) \in 0 .. r.current
  <2>1. /\ cap \in [Accounts -> Nat] /\ Sum(cap, Accounts) <= tokens * Precision
        /\ Sound(Accounts, r, infos, cap, h) /\ s = EndPeriod(r, tokens)
    BY <1>6 DEF cap, s
  <2> QED
    BY <1>2, <2>1, FiniteLemma, EndPeriodSound
<1>9. OnlyAt(l, live, m, live, v)
  BY <1>4, <1>5 DEF OnlyAt
<1>10. Sound(Accounts, m.rewards[v], Infos(m, live, v), caps[v], h)
  BY <1>4, <1>5, <1>8 DEF cap, infos
<1>11. LedgerSound(m, live, caps, h)
  BY <1>1, <1>9, <1>10, SoundAt
<1>12. Settles(l, m, v)
  <2>1. l.pool \in Int /\ l.balance \in Int /\ r.outstanding \in Int /\ r.current \in Int
    BY <1>1, <1>2, InfosLemma, KnownType DEF r
  <2>2. Unclaimed(r, tokens) \in Nat
    BY <1>8
  <2>3. \A u \in Vals \ {v} : m.rewards[u].outstanding = l.rewards[u].outstanding
    BY <1>4
  <2>4. m.rewards[v].outstanding = l.rewards[v].outstanding - Unclaimed(r, tokens)
    BY <1>4, <1>7 DEF r
  <2>5. Coins(m.balance - l.balance)
    BY <1>3, <2>1, CoinsSame
  <2> QED
    BY <1>3, <2>1, <2>2, <2>3, <2>4, <2>5 DEF Settles, r
<1> QED
  BY <1>11, <1>12

LEMMA InitializeDelegationSound ==
    ASSUME NEW l, NEW live, NEW caps \in CapsType, NEW h \in Nat, LedgerSound(l, live, caps, h),
           NEW d \in Accounts, NEW v \in Vals, Ready(l, live, d, v),
           NEW stake \in Nat, stake <= caps[v][d],
           NEW m, m = InitializeDelegation(l, d, v, stake, h)
    PROVE  LedgerSound(m, live \union {<<d, v>>}, caps, h) /\ Settles(l, m, v)
<1> DEFINE k == <<d, v>>
           both == live \union {k}
           r == l.rewards[v]
           q == r.period - 1
           infos == Infos(l, live, v)
           info == [period |-> q, stake |-> stake, height |-> h]
           others == Infos(m, both, v)
           cap == caps[v]
<1>1. LedgerCounted(l, live) /\ LedgerCounted(m, both)
  <2>1. LedgerCounted(l, live) /\ Covers(l, DOMAIN l.start) /\ stake \in Int
    BY DEF LedgerSound, Covers
  <2> QED
    BY <2>1, InitializeDelegationLemma
<1>2. LedgerOK(l) /\ live \subseteq DOMAIN l.start /\ k \notin live
  BY <1>1 DEF LedgerCounted, Ready
<1>3. /\ m.start = Put(l.start, k, info)
      /\ m.rewards = [l.rewards EXCEPT ![v] = IncrementRef(r, q)]
      /\ m.pool = l.pool /\ m.balance = l.balance
  BY <1>2 DEF InitializeDelegation, LedgerOK
<1>4. /\ m.rewards[v] = IncrementRef(r, q)
      /\ \A u \in Vals \ {v} : m.rewards[u] = l.rewards[u]
  BY <1>2, <1>3 DEF LedgerOK
<1>5. /\ m.start[k] = info
      /\ \A j \in DOMAIN l.start \ {k} : m.start[j] = l.start[j]
  BY <1>3 DEF Put
<1> HIDE DEF info
<1>6. others = Put(infos, d, info) /\ d \notin DOMAIN infos
  <2>1. {a \in Accounts : <<a, v>> \in both} = {a \in Accounts : <<a, v>> \in live} \union {d}
    OBVIOUS
  <2>2. \A a \in {a \in Accounts : <<a, v>> \in both} :
            m.start[<<a, v>>] = IF a = d THEN info ELSE infos[a]
    <3> SUFFICES ASSUME NEW a \in Accounts, <<a, v>> \in both
                 PROVE  m.start[<<a, v>>] = IF a = d THEN info ELSE infos[a]
      OBVIOUS
    <3>1. CASE a = d
      BY <3>1, <1>5
    <3>2. CASE a # d
      <4>1. <<a, v>> \in live /\ <<a, v>> \in DOMAIN l.start \ {k}
        BY <3>2, <1>2
      <4> QED
        BY <4>1, <3>2, <1>5 DEF Infos
    <3> QED
      BY <3>1, <3>2
  <2> QED
    BY <2>1, <2>2, <1>2 DEF Infos, Put
<1>7. OnlyAt(l, live, m, both, v)
  <2> SUFFICES ASSUME NEW u \in Vals \ {v}
               PROVE  Infos(m, both, u) = Infos(l, live, u)
    BY <1>4 DEF OnlyAt
  <2>1. {a \in Accounts : <<a, u>> \in both} = {a \in Accounts : <<a, u>> \in live}
    OBVIOUS
  <2>2. \A a \in {a \in Accounts : <<a, u>> \in live} : m.start[<<a, u>>] = l.start[<<a, u>>]
    BY <1>2, <1>5
  <2> QED
    BY <2>1, <2>2 DEF Infos
<1>8. /\ Counted(r, Periods(infos)) /\ Counted(m.rewards[v], Periods(others))
      /\ Sound(Accounts, r, infos, cap, h) /\ cap \in [Accounts -> Nat]
      /\ r.outstanding \in Int /\ RewardsOK(r)
  BY <1>1, <1>2, InfosLemma DEF LedgerSound, CapsType, LedgerOK
<1>9. q \in DOMAIN r.historical
  BY <1>8, KnownPeriods
<1> HIDE DEF r, infos, others, cap
<1>10. Sound(Accounts, m.rewards[v], others, cap, h)
  <2>1. /\ d \in Accounts \ DOMAIN infos /\ stake <= cap[d]
        /\ info = [period |-> r.period - 1, stake |-> stake, height |-> h]
        /\ m.rewards[v] = IncrementRef(r, r.period - 1)
    BY <1>4, <1>6 DEF info, cap, q
  <2> QED
    BY <2>1, <1>6, <1>8, FiniteLemma, StartSound
<1>11. LedgerSound(m, both, caps, h)
  BY <1>1, <1>7, <1>10, SoundAt DEF others, cap
<1>12. m.rewards[v].outstanding = l.rewards[v].outstanding
  BY <1>4, <1>8, <1>9, IncrementRefRatios DEF r
<1>13. l.pool \in Int /\ l.balance \in Int /\ l.rewards[v].outstanding \in Int
  BY <1>1, InfosLemma
<1>14. Settles(l, m, v)
  <2>1. Coins(m.balance - l.balance)
    BY <1>3, <1>13, CoinsSame
  <2> QED
    BY <1>3, <1>4, <1>12, <1>13, <2>1 DEF Settles
<1> QED
  BY <1>11, <1>14

LEMMA TruncateLemma ==
    ASSUME NEW a \in Nat
    PROVE  Truncate(a) \in 0 .. a
<1> DEFINE q == a \div Precision
<1>1. q \in Int /\ Precision * q <= a /\ q >= 0
  BY Quotient, PrecisionAssumption
<1>2. Precision * q \in Int /\ q * Precision = Precision * q /\ Precision * q >= 0
  BY <1>1, PrecisionAssumption, ProductType
<1> QED
  BY <1>1, <1>2 DEF Truncate

\* A withdrawal never panics, and pays what it takes.
LEMMA WithdrawRewardsSound ==
    ASSUME NEW l, NEW live, NEW caps \in CapsType, NEW h \in Nat, LedgerSound(l, live, caps, h),
           NEW d \in Accounts, NEW v \in Vals, <<d, v>> \in live,
           NEW tokens \in Nat, Sum(caps[v], Accounts) <= tokens * Precision,
           NEW m, m = WithdrawRewards(l, d, v, tokens, h, caps[v][d])
    PROVE  /\ LedgerSound(m, live \ {<<d, v>>}, caps, h)
           /\ Settles(l, m, v)
           /\ MayWithdraw(l, d, v, tokens, h, caps[v][d])
<1> DEFINE k == <<d, v>>
           rest == live \ {k}
           n == IncrementPeriod(l, v, tokens)
           r == l.rewards[v]
           s == n.rewards[v]
           t == m.rewards[v]
           info == l.start[k]
           infos == Infos(l, live, v)
           others == Infos(m, rest, v)
           cap == caps[v]
           raw == DelegationRewards(s, info, h, r.period, cap[d])
           reward == Payable(s, raw)
<1>1. /\ LedgerCounted(l, live) /\ LedgerCounted(n, live) /\ n.start = l.start
      /\ s = EndPeriod(r, tokens)
  BY IncrementPeriodLemma DEF LedgerSound
<1>2. LedgerSound(n, live, caps, h) /\ Settles(l, n, v)
  BY IncrementPeriodSound
<1>3. LedgerCounted(m, rest)
  BY <1>1, WithdrawRewardsLemma DEF Ready, Covers
<1>4. LedgerOK(l) /\ LedgerOK(n) /\ live \subseteq DOMAIN l.start /\ k \in live
  BY <1>1 DEF LedgerCounted
<1>5. m = [n EXCEPT !.balance = @ - Truncate(reward),
                    !.pool = @ + (reward - Truncate(reward)),
                    !.rewards[v] = PaidOut(s, info.period, reward),
                    !.start = Drop(@, k)]
  BY DEF WithdrawRewards
<1>6. /\ s.period - 1 = r.period /\ infos[d] = info /\ d \in DOMAIN infos
      /\ infos = Infos(n, live, v)
  <2>1. r.period \in Int
    BY <1>4 DEF LedgerOK, RewardsOK
  <2>2. s.period = r.period + 1
    BY <1>1 DEF EndPeriod
  <2> QED
    BY <1>1, <2>1, <2>2 DEF Infos
<1> HIDE DEF n
<1>7. /\ m.balance = n.balance - Truncate(reward)
      /\ m.pool = n.pool + (reward - Truncate(reward))
      /\ m.rewards = [n.rewards EXCEPT ![v] = PaidOut(s, info.period, reward)]
      /\ m.start = Drop(n.start, k)
  BY <1>4, <1>5 DEF LedgerOK
<1>8. /\ t = PaidOut(s, info.period, reward)
      /\ \A u \in Vals \ {v} : m.rewards[u] = n.rewards[u]
  BY <1>4, <1>7 DEF LedgerOK
<1>9. \A j \in DOMAIN m.start : m.start[j] = n.start[j]
  BY <1>7 DEF Drop
<1>10. rest \subseteq DOMAIN m.start
  BY <1>3 DEF LedgerCounted
<1>11. \A u \in Vals : \A a \in Accounts : <<a, u>> \in rest => m.start[<<a, u>>] = n.start[<<a, u>>]
  BY <1>9, <1>10
<1>12. others = Drop(infos, d)
  <2>1. {a \in Accounts : <<a, v>> \in rest} = {a \in Accounts : <<a, v>> \in live} \ {d}
    OBVIOUS
  <2> QED
    BY <1>1, <1>11, <2>1 DEF Infos, Drop
<1>13. OnlyAt(n, live, m, rest, v)
  <2> SUFFICES ASSUME NEW u \in Vals \ {v}
               PROVE  Infos(m, rest, u) = Infos(n, live, u)
    BY <1>8 DEF OnlyAt
  <2>1. {a \in Accounts : <<a, u>> \in rest} = {a \in Accounts : <<a, u>> \in live}
    OBVIOUS
  <2> QED
    BY <1>11, <2>1 DEF Infos
<1>14. /\ Counted(r, Periods(infos)) /\ Counted(s, Periods(infos)) /\ Counted(t, Periods(others))
       /\ Sound(Accounts, r, infos, cap, h) /\ Sound(Accounts, s, infos, cap, h)
       /\ cap \in [Accounts -> Nat] /\ s.outstanding \in Int /\ RewardsOK(s)
       /\ Sum(cap, Accounts) <= tokens * Precision
  <2>1. /\ Counted(r, Periods(infos)) /\ Counted(s, Periods(infos))
        /\ Counted(t, Periods(others)) /\ s.outstanding \in Int
    BY <1>1, <1>3, <1>6, InfosLemma
  <2>2. Sound(Accounts, r, infos, cap, h) /\ Sound(Accounts, s, infos, cap, h)
    BY <1>2, <1>6 DEF LedgerSound
  <2> QED
    BY <1>4, <2>1, <2>2 DEF CapsType, LedgerOK
<1> HIDE DEF r, s, t, info, infos, others, cap, raw
<1>15. /\ raw \in Nat /\ Precision * raw <= Value(s, infos[d], h) /\ raw <= Margin(s)
       /\ reward = raw
  <2>1. raw = DelegationRewards(s, infos[d], h, s.period - 1, cap[d])
    BY <1>6 DEF raw
  <2> QED
    BY <1>6, <1>14, <2>1, FiniteLemma, RewardsBound
<1> HIDE DEF reward
<1>16. Sound(Accounts, t, others, cap, h)
  <2>1. /\ d \in DOMAIN infos /\ reward \in Int /\ Precision * reward <= Value(s, infos[d], h)
        /\ t = PaidOut(s, infos[d].period, reward) /\ others = Drop(infos, d)
    BY <1>6, <1>8, <1>12, <1>15
  <2> QED
    BY <2>1, <1>14, FiniteLemma, StopSound
<1>17. LedgerSound(m, rest, caps, h)
  BY <1>2, <1>3, <1>13, <1>16, SoundAt DEF t, others, cap
<1>18. Settles(n, m, v)
  <2>1. Truncate(reward) \in 0 .. reward
    BY <1>15, TruncateLemma
  <2>2. n.pool \in Int /\ n.balance \in Int
    BY <1>4 DEF LedgerOK
  <2>3. t.outstanding = s.outstanding - reward
    <3>1. info.period \in DOMAIN s.historical
      BY <1>6, <1>14, KnownPeriods
    <3> DEFINE x == DecrementRef(s, info.period)
    <3>2. DOMAIN x = DOMAIN s /\ x.outstanding = s.outstanding
      BY <1>14 DEF DecrementRef, RewardsOK
    <3>3. t = [x EXCEPT !.outstanding = @ - reward] /\ "outstanding" \in DOMAIN s
      BY <1>8, <1>14 DEF PaidOut, RewardsOK
    <3> HIDE DEF x
    <3> QED
      BY <3>2, <3>3
  <2>4. /\ m.rewards[v].outstanding = n.rewards[v].outstanding - reward
        /\ n.rewards[v].outstanding \in Int /\ reward \in Nat
    BY <1>14, <1>15, <2>3 DEF s, t
  <2>5. \A u \in Vals \ {v} : m.rewards[u].outstanding = n.rewards[u].outstanding
    BY <1>8
  <2>6. Truncate(reward) \in Nat /\ Truncate(reward) <= reward
    BY <1>15, <2>1
  <2> DEFINE paid == Truncate(reward)
  <2>7. /\ m.balance = n.balance - paid /\ m.pool = n.pool + (reward - paid)
        /\ paid \in Nat /\ paid <= reward /\ Coins(- paid)
    BY <1>7, <1>15, <2>6, CoinsLemma
  <2> HIDE DEF paid
  <2>10. Coins(m.balance - n.balance)
    <3>1. m.balance - n.balance = - paid
      BY <2>2, <2>7
    <3> QED
      BY <2>7, <3>1
  <2>8. /\ m.rewards[v].outstanding <= n.rewards[v].outstanding
        /\ m.pool >= n.pool /\ m.balance <= n.balance
    BY <2>2, <2>4, <2>7
  <2>9. m.balance - n.balance
            = (m.pool - n.pool) + (m.rewards[v].outstanding - n.rewards[v].outstanding)
    BY <2>2, <2>4, <2>7
  <2> QED
    BY <2>5, <2>8, <2>9, <2>10 DEF Settles
<1>19. Settles(l, m, v)
  BY <1>1, <1>2, <1>3, <1>18, SettledTwice DEF LedgerCounted
<1>20. MayWithdraw(l, d, v, tokens, h, caps[v][d])
  <2>1. s = EndPeriod(r, tokens)
    BY <1>1
  <2>2. /\ MayDecrementRef(r, r.period - 1)
        /\ infos[d].period <= r.period
        /\ Accrued(s, infos[d], h, r.period).stake <= cap[d] + RoundingMargin
        /\ \A p, q \in {infos[d].period, r.period} \union {e.period : e \in s.slashes} :
                infos[d].period <= p /\ p <= q /\ q <= r.period
                    => Record(s, p).ratio <= Record(s, q).ratio
        /\ MayDecrementRef(s, infos[d].period)
    BY <1>6, <1>14, <2>1, FiniteLemma, WithdrawalAllowed
  <2> QED
    BY <1>6, <2>2 DEF MayWithdraw, MayIncrementPeriod, n, r, s, info, cap
<1> QED
  BY <1>17, <1>19, <1>20

\* Blocks go on and stakes are worth more.
LEMMA SoundLater ==
    ASSUME NEW l, NEW live, NEW caps \in CapsType, NEW h \in Nat, LedgerSound(l, live, caps, h),
           NEW more \in CapsType, NEW i \in Nat, h <= i,
           \A v \in Vals : \A d \in Accounts : <<d, v>> \in live => caps[v][d] <= more[v][d]
    PROVE  LedgerSound(l, live, more, i)
<1> SUFFICES ASSUME NEW v \in Vals
             PROVE  Sound(Accounts, l.rewards[v], Infos(l, live, v), more[v], i)
  BY DEF LedgerSound
<1> DEFINE r == l.rewards[v]
           infos == Infos(l, live, v)
           cap == caps[v]
           new == more[v]
<1>1. /\ Counted(r, Periods(infos)) /\ Sound(Accounts, r, infos, cap, h)
      /\ cap \in [Accounts -> Nat] /\ new \in [Accounts -> Nat]
      /\ \A d \in DOMAIN infos : cap[d] <= new[d]
  BY InfosLemma DEF LedgerSound, CapsType, Infos
<1>2. r.commission >= 0 /\ r.current >= 0 /\ Margin(r) >= Margin(r)
  <2>1. Margin(r) \in Int
    BY <1>1, KnownType DEF Margin
  <2> QED
    BY <1>1, <2>1 DEF Sound
<1> HIDE DEF r, infos, cap, new
<1>3. Sound(Accounts, r, infos, new, i)
  BY <1>1, <1>2, FiniteLemma, SoundWhenKept
<1> QED
  BY <1>3 DEF r, infos, new

\* Only amounts of v move, and nothing that is owed to its delegations.
LEMMA MovedSound ==
    ASSUME NEW l, NEW live, NEW caps \in CapsType, NEW h \in Nat, LedgerSound(l, live, caps, h),
           NEW v \in Vals, NEW m, LedgerCounted(m, live), m.start = l.start,
           NEW s, m.rewards = [l.rewards EXCEPT ![v] = s],
           s.slashes = l.rewards[v].slashes, s.period = l.rewards[v].period,
           s.historical = l.rewards[v].historical,
           s.commission >= 0, s.current >= 0, Margin(s) >= Margin(l.rewards[v])
    PROVE  LedgerSound(m, live, caps, h)
<1> DEFINE r == l.rewards[v]
           infos == Infos(l, live, v)
           cap == caps[v]
<1>1. LedgerCounted(l, live) /\ LedgerOK(l)
  BY DEF LedgerSound, LedgerCounted
<1>2. m.rewards[v] = s /\ \A u \in Vals \ {v} : m.rewards[u] = l.rewards[u]
  BY <1>1 DEF LedgerOK
<1>3. \A u : Infos(m, live, u) = Infos(l, live, u)
  BY DEF Infos
<1>4. /\ Counted(r, Periods(infos)) /\ Counted(s, Periods(infos))
      /\ Sound(Accounts, r, infos, cap, h) /\ cap \in [Accounts -> Nat]
  BY <1>1, <1>2, <1>3, InfosLemma DEF LedgerSound, CapsType
<1>5. \A d \in DOMAIN infos : cap[d] <= cap[d]
  BY <1>4 DEF Sound
<1>6. /\ s.slashes = r.slashes /\ s.period = r.period /\ s.historical = r.historical
      /\ Margin(s) >= Margin(r)
  OBVIOUS
<1> HIDE DEF r, infos, cap
<1>7. Sound(Accounts, s, infos, cap, h)
  BY <1>4, <1>5, <1>6, FiniteLemma, SoundWhenKept
<1>8. OnlyAt(l, live, m, live, v)
  BY <1>2, <1>3 DEF OnlyAt
<1> QED
  BY <1>1, <1>2, <1>3, <1>7, <1>8, SoundAt DEF infos, cap

\* A block's coins for a validator and the community pool.
\* A block pays c coins, a of its units to the validator.
Allocable(c, a, com) == c \in Nat /\ a \in Nat /\ a <= c * Precision /\ com \in 0 .. a

LEMMA AllocateTokensSound ==
    ASSUME NEW l, NEW live, NEW caps \in CapsType, NEW h \in Nat, LedgerSound(l, live, caps, h),
           NEW v \in Vals, NEW c, NEW a, NEW com, Allocable(c, a, com),
           NEW m, m = AllocateTokens(l, v, c, a, com)
    PROVE  LedgerSound(m, live, caps, h) /\ Collects(l, m, v)
<1> DEFINE r == l.rewards[v]
           s == Earned(r, a, com)
           coins == c * Precision
<1>9. /\ c \in Nat /\ a \in Nat /\ com \in Nat /\ com <= a
      /\ coins \in Nat /\ Coins(coins) /\ a <= coins
  BY PrecisionAssumption, ProductType DEF Allocable, Coins
<1>1. LedgerCounted(l, live) /\ LedgerCounted(m, live) /\ m.start = l.start
  <2>1. c \in Int /\ a \in Int /\ com \in Int
    BY <1>9
  <2> QED
    BY <2>1, AllocateTokensLemma DEF LedgerSound
<1>2. LedgerOK(l) /\ RewardsOK(r) /\ Sound(Accounts, r, Infos(l, live, v), caps[v], h)
  BY <1>1 DEF LedgerCounted, LedgerOK, LedgerSound
<1>3. /\ m.rewards = [l.rewards EXCEPT ![v] = s] /\ m.start = l.start
      /\ m.pool = l.pool + (coins - a)
      /\ m.balance = l.balance + coins
  BY <1>2 DEF AllocateTokens, LedgerOK
<1> HIDE DEF coins
<1>4. /\ s.outstanding = r.outstanding + a /\ s.commission = r.commission + com
      /\ s.current = r.current + (a - com) /\ s.slashes = r.slashes
      /\ s.period = r.period /\ s.historical = r.historical
      /\ r.outstanding \in Int /\ r.commission \in Int /\ r.current \in Int
  BY <1>2 DEF Earned, RewardsOK
<1>5. s.commission >= 0 /\ s.current >= 0 /\ Margin(s) >= Margin(r)
  BY <1>2, <1>4, <1>9 DEF Sound, Margin
<1>6. m.rewards[v] = s /\ \A u \in Vals \ {v} : m.rewards[u] = l.rewards[u]
  BY <1>2, <1>3 DEF LedgerOK
<1>7. s.slashes = l.rewards[v].slashes /\ s.period = l.rewards[v].period
      /\ s.historical = l.rewards[v].historical /\ Margin(s) >= Margin(l.rewards[v])
  BY <1>4, <1>5
<1>10. m.rewards[v].outstanding = l.rewards[v].outstanding + a
       /\ l.rewards[v].outstanding \in Int
  BY <1>4, <1>6
<1> HIDE DEF s, r
<1>8. LedgerSound(m, live, caps, h)
  BY <1>1, <1>3, <1>5, <1>7, MovedSound
<1>11. l.pool \in Int /\ l.balance \in Int
  BY <1>1, InfosLemma
<1>12. m.balance - l.balance = coins
  BY <1>3, <1>9, <1>11
<1>13. Coins(m.balance - l.balance)
  BY <1>9, <1>12
<1>14. /\ m.rewards[v].outstanding >= l.rewards[v].outstanding /\ m.pool >= l.pool
       /\ m.balance - l.balance
            = (m.pool - l.pool) + (m.rewards[v].outstanding - l.rewards[v].outstanding)
  <2> DEFINE x == l.rewards[v].outstanding
             y == m.rewards[v].outstanding
  <2>1. /\ x \in Int /\ y = x + a /\ a \in Nat /\ coins \in Nat /\ a <= coins
        /\ l.pool \in Int /\ m.pool = l.pool + (coins - a)
    BY <1>3, <1>9, <1>10, <1>11
  <2> HIDE DEF x, y
  <2>2. y >= x /\ m.pool >= l.pool /\ coins = (m.pool - l.pool) + (y - x)
    BY <2>1
  <2> QED
    BY <1>12, <2>2 DEF x, y
<1> QED
  BY <1>6, <1>8, <1>13, <1>14 DEF Collects

\* The operator's commission is outstanding, and only whole coins of it are paid.
LEMMA WithdrawCommissionSound ==
    ASSUME NEW l, NEW live, NEW caps \in CapsType, NEW h \in Nat, LedgerSound(l, live, caps, h),
           NEW v \in Vals, NEW m, m = WithdrawCommission(l, v)
    PROVE  LedgerSound(m, live, caps, h) /\ Settles(l, m, v) /\ MayWithdrawCommission(l, v)
<1> DEFINE r == l.rewards[v]
           s == WithoutCommission(r)
           infos == Infos(l, live, v)
           cap == caps[v]
           coins == CommissionCoins(r)
<1>1. LedgerCounted(l, live) /\ LedgerCounted(m, live) /\ m.start = l.start
  BY WithdrawCommissionLemma DEF LedgerSound
<1>2. /\ LedgerOK(l) /\ RewardsOK(r) /\ Sound(Accounts, r, infos, cap, h)
      /\ Counted(r, Periods(infos)) /\ l.pool \in Int /\ l.balance \in Int
  BY <1>1, InfosLemma DEF LedgerCounted, LedgerOK, LedgerSound
<1>3. /\ m.rewards = [l.rewards EXCEPT ![v] = s]
      /\ m.pool = l.pool /\ m.balance = l.balance - coins
  BY <1>2 DEF WithdrawCommission, LedgerOK
<1>4. /\ s.outstanding = r.outstanding - coins /\ s.commission = r.commission - coins
      /\ s.current = r.current /\ s.slashes = r.slashes
      /\ s.period = r.period /\ s.historical = r.historical
      /\ r.outstanding \in Int /\ r.commission \in Int /\ r.current \in Int
  BY <1>2 DEF WithoutCommission, RewardsOK
<1>5. r.commission \in Nat /\ r.current \in Nat /\ Margin(r) \in Nat
  <2> HIDE DEF r, infos, cap
  <2>1. Margin(r) \in Nat
    BY <1>2, FiniteLemma, MarginIsNat
  <2> QED
    BY <1>2, <1>4, <2>1 DEF Sound
<1>6. coins \in Nat /\ coins <= r.commission /\ Coins(- coins)
  <2>1. Truncate(r.commission) \in 0 .. r.commission /\ Coins(- Truncate(r.commission))
    BY <1>4, <1>5, TruncateLemma, CoinsLemma
  <2> QED
    BY <1>5, <2>1 DEF CommissionCoins
<1>7. m.rewards[v] = s /\ \A u \in Vals \ {v} : m.rewards[u] = l.rewards[u]
  BY <1>2, <1>3 DEF LedgerOK
<1>8. coins <= r.outstanding
  BY <1>4, <1>5, <1>6 DEF Margin
<1>9. MayWithdrawCommission(l, v)
  BY <1>8 DEF MayWithdrawCommission
<1> HIDE DEF coins
<1>10. s.commission >= 0 /\ s.current >= 0 /\ Margin(s) >= Margin(r)
  BY <1>4, <1>5, <1>6 DEF Margin
<1>11. s.slashes = l.rewards[v].slashes /\ s.period = l.rewards[v].period
      /\ s.historical = l.rewards[v].historical /\ Margin(s) >= Margin(l.rewards[v])
  BY <1>4, <1>10
<1>12. m.rewards[v].outstanding = l.rewards[v].outstanding - coins
       /\ l.rewards[v].outstanding \in Int
  BY <1>4, <1>7
<1> HIDE DEF s, r
<1>13. LedgerSound(m, live, caps, h)
  BY <1>1, <1>3, <1>10, <1>11, MovedSound
<1>14. Settles(l, m, v)
  <2>1. /\ m.rewards[v].outstanding <= l.rewards[v].outstanding
        /\ m.pool >= l.pool /\ m.balance <= l.balance
        /\ m.balance - l.balance
            = (m.pool - l.pool) + (m.rewards[v].outstanding - l.rewards[v].outstanding)
    <3>1. coins \in Nat /\ l.pool \in Int /\ l.balance \in Int
      BY <1>2, <1>6
    <3>2. m.pool = l.pool /\ m.balance = l.balance - coins
      BY <1>3
    <3>3. coins >= 0 /\ l.pool - l.pool = 0 /\ l.pool >= l.pool
      BY <3>1
    <3> HIDE DEF coins
    <3> QED
      BY <1>12, <3>1, <3>2, <3>3
  <2>2. Coins(m.balance - l.balance)
    <3>1. m.balance - l.balance = - coins
      BY <1>2, <1>3, <1>6
    <3> QED
      BY <1>6, <3>1
  <2> QED
    BY <1>7, <2>1, <2>2 DEF Settles
<1> QED
  BY <1>9, <1>13, <1>14

\* A slash: the period ends with the stakes as they were; less is what they are
\* worth afterwards.
LEMMA RecordSlashSound ==
    ASSUME NEW l, NEW live, NEW caps \in CapsType, NEW h \in Nat, LedgerSound(l, live, caps, h),
           NEW v \in Vals, NEW tokens \in Nat, Sum(caps[v], Accounts) <= tokens * Precision,
           NEW f \in 0 .. Precision, NEW less \in CapsType,
           \A u \in Vals \ {v} : less[u] = caps[u],
           \A d \in Accounts : (caps[v][d] * (Precision - f)) \div Precision <= less[v][d],
           NEW m, m = RecordSlash(l, v, tokens, h, f)
    PROVE  LedgerSound(m, live, less, h) /\ Settles(l, m, v)
<1> DEFINE n == IncrementPeriod(l, v, tokens)
           r == n.rewards[v]
           s == WithSlash(r, h, f)
           infos == Infos(n, live, v)
           cap == caps[v]
           new == less[v]
<1>1. /\ LedgerCounted(l, live) /\ LedgerCounted(n, live) /\ n.start = l.start
      /\ Untouched(r, Periods(infos))
  <2>1. LedgerCounted(l, live)
    BY DEF LedgerSound
  <2>2. LedgerCounted(n, live) /\ n.start = l.start /\ Untouched(r, Starts(n, live, v))
    BY <2>1, IncrementPeriodLemma
  <2>3. Periods(infos) = Starts(n, live, v)
    BY <2>2, InfosLemma
  <2> QED
    BY <2>1, <2>2, <2>3
<1>2. LedgerSound(n, live, caps, h) /\ Settles(l, n, v)
  BY IncrementPeriodSound
<1>3. LedgerCounted(m, live) /\ m.start = l.start
  <2>1. f \in Int
    BY PrecisionAssumption
  <2> HIDE DEF n, r, s, infos, cap, new
  <2>2. LedgerCounted(l, live)
    BY <1>1
  <2>3. /\ LedgerCounted(RecordSlash(l, v, tokens, h, f), live)
        /\ RecordSlash(l, v, tokens, h, f).start = l.start
    <3>1. \A g \in Int : /\ LedgerCounted(RecordSlash(l, v, tokens, h, g), live)
                         /\ RecordSlash(l, v, tokens, h, g).start = l.start
      BY <2>2, RecordSlashLemma
    <3> QED
      BY <2>1, <3>1
  <2> QED
    BY <2>3
<1>4. LedgerOK(n) /\ RewardsOK(r) /\ m = [n EXCEPT !.rewards[v] = s]
  <2>1. m = [n EXCEPT !.rewards[v] = s]
    BY DEF RecordSlash
  <2> HIDE DEF n
  <2>2. LedgerOK(n)
    BY <1>1 DEF LedgerCounted
  <2>3. RewardsOK(r)
    BY <2>2 DEF LedgerOK
  <2> QED
    BY <2>1, <2>2, <2>3
<1> HIDE DEF n
<1>5. m.rewards = [n.rewards EXCEPT ![v] = s] /\ m.pool = n.pool /\ m.balance = n.balance
  BY <1>4 DEF LedgerOK
<1>6. m.rewards[v] = s /\ \A u \in Vals \ {v} : m.rewards[u] = n.rewards[u]
  BY <1>4, <1>5 DEF LedgerOK
<1>7. \A u : Infos(m, live, u) = Infos(n, live, u)
  BY <1>1, <1>3 DEF Infos
<1>8. /\ Counted(r, Periods(infos)) /\ Counted(s, Periods(infos))
      /\ Sound(Accounts, r, infos, cap, h)
      /\ cap \in [Accounts -> Nat] /\ new \in [Accounts -> Nat]
  <2>1. Counted(r, Periods(infos)) /\ Counted(m.rewards[v], Periods(Infos(m, live, v)))
    BY <1>1, <1>3, InfosLemma
  <2> QED
    BY <1>2, <1>6, <1>7, <2>1 DEF LedgerSound, CapsType
<1>9. \A d \in DOMAIN infos : (cap[d] * (Precision - f)) \div Precision <= new[d]
  BY DEF Infos
<1> HIDE DEF r, s, infos, cap, new
<1>10. Sound(Accounts, s, infos, new, h)
  <2>1. s = WithSlash(r, h, f)
    BY DEF s
  <2> QED
    BY <1>1, <1>8, <1>9, <2>1, FiniteLemma, SlashSound
<1>11. OnlyAt(n, live, m, live, v)
  BY <1>6, <1>7 DEF OnlyAt
<1>12. Sound(Accounts, m.rewards[v], Infos(m, live, v), less[v], h)
  BY <1>6, <1>7, <1>10 DEF infos, new
<1>13. LedgerSound(m, live, less, h)
  BY <1>2, <1>3, <1>11, <1>12, SoundAt
<1>14. s.outstanding = r.outstanding
  <2>1. r.period - 1 \in DOMAIN r.historical
    BY <1>8, KnownPeriods
  <2> DEFINE x == IncrementRef(r, r.period - 1)
  <2>2. x.outstanding = r.outstanding /\ DOMAIN x = DOMAIN r
    BY <1>4, <2>1, IncrementRefRatios DEF IncrementRef
  <2> QED
    BY <2>2 DEF WithSlash, s
<1>15. Settles(n, m, v)
  <2>1. n.pool \in Int /\ n.balance \in Int /\ n.rewards[v].outstanding \in Int
        /\ m.rewards[v].outstanding = n.rewards[v].outstanding
    BY <1>1, <1>6, <1>14, InfosLemma DEF r
  <2>2. Coins(m.balance - n.balance)
    BY <1>5, <2>1, CoinsSame
  <2> QED
    BY <1>5, <1>6, <2>1, <2>2 DEF Settles
<1> QED
  BY <1>1, <1>2, <1>3, <1>13, <1>15, SettledTwice DEF LedgerCounted

----------------------------------------------------------------------------
\* What shares are worth.

Worth(x, tokens, shares) == IF shares = 0 THEN 0 ELSE (x * tokens * Precision) \div shares

LEMMA WorthLemma ==
    ASSUME NEW x \in Nat, NEW t \in Nat, NEW n \in Nat
    PROVE  /\ Worth(x, t, n) \in Nat
           /\ n * Worth(x, t, n) <= (x * Precision) * t
           /\ x = 0 => Worth(x, t, n) = 0
<1>1. /\ x * t * Precision \in Nat /\ (x * Precision) * t \in Nat /\ x * Precision \in Nat
      /\ x * t * Precision = (x * Precision) * t
      /\ x = 0 => x * t * Precision = 0
  <2>1. x * t * Precision \in Nat /\ (x * Precision) * t \in Nat /\ x * Precision \in Nat
    BY ProductType, PrecisionAssumption
  <2>2. x * t * Precision = (x * Precision) * t
    BY PrecisionAssumption
  <2>3. x = 0 => x * t * Precision = 0
    BY PrecisionAssumption
  <2> QED
    BY <2>1, <2>2, <2>3
<1>2. CASE n = 0
  <2>1. n * Worth(x, t, n) = 0
    BY <1>2 DEF Worth
  <2> QED
    BY <1>1, <1>2, <2>1 DEF Worth
<1>3. CASE n # 0
  <2> DEFINE a == x * t * Precision
             q == a \div n
  <2>1. a \in Nat /\ n \in Nat \ {0}
    BY <1>1, <1>3
  <2>2. a = (x * Precision) * t /\ (x = 0 => a = 0)
    BY <1>1
  <2>3. Worth(x, t, n) = q
    BY <1>3 DEF Worth
  <2> HIDE DEF a
  <2>4. q \in Int /\ n * q <= a /\ q >= 0
    BY <2>1, Quotient
  <2>5. a = 0 => q = 0
    <3>1. \A m \in Nat \ {0} : 0 \div m = 0
      OBVIOUS
    <3> QED
      BY <2>1, <3>1
  <2> QED
    BY <2>2, <2>3, <2>4, <2>5
<1> QED
  BY <1>2, <1>3

\* Shares are worth more where the validator's tokens grow faster than its shares.
LEMMA WorthGrows ==
    ASSUME NEW x \in Nat, NEW t \in Nat, NEW n \in Nat, NEW u \in Nat, NEW m \in Nat \ {0},
           m * t <= n * u
    PROVE  Worth(x, t, n) <= Worth(x, u, m)
<1>1. CASE n = 0
  <2>1. Worth(x, t, n) = 0
    BY <1>1 DEF Worth
  <2>2. m \in Nat /\ Worth(x, u, m) \in Nat
    BY WorthLemma
  <2> QED
    BY <2>1, <2>2
<1>2. CASE n # 0
  <2> DEFINE q == Worth(x, t, n)
             c == x * Precision
  <2>1. q \in Nat /\ n * q <= c * t
    BY WorthLemma
  <2>2. c \in Nat
    BY ProductType, PrecisionAssumption
  <2> HIDE DEF q, c
  <2>3. n * q \in Nat /\ c * t \in Nat /\ m * t \in Nat /\ n * u \in Nat /\ c * u \in Nat
        /\ m * q \in Nat
    BY <2>1, <2>2, ProductType
  <2>4. m * (n * q) <= m * (c * t)
    BY <2>1, <2>3, Grows
  <2>5. c * (m * t) <= c * (n * u)
    BY <2>2, <2>3, Grows
  <2>6. m * (n * q) = n * (m * q)
    BY <2>1
  <2>7. m * (c * t) = c * (m * t)
    BY <2>2
  <2>8. c * (n * u) = n * (c * u)
    BY <2>2
  <2> DEFINE a == m * q
             b == c * u
             ca == n * a
             cb == n * b
             mid == c * (m * t)
  <2>9. ca <= mid /\ mid <= cb
    BY <2>4, <2>5, <2>6, <2>7, <2>8
  <2>10. a \in Nat /\ b \in Nat /\ ca \in Nat /\ cb \in Nat /\ mid \in Nat
    BY <2>2, <2>3, ProductType
  <2>11. n * a <= n * b
    <3> HIDE DEF ca, cb, mid
    <3>1. ca <= cb
      BY <2>9, <2>10
    <3> QED
      BY <3>1 DEF ca, cb
  <2> HIDE DEF a, b
  <2>12. a <= b
    BY <1>2, <2>10, <2>11, Cancels
  <2>13. q <= (c * u) \div m
    BY <2>1, <2>3, <2>12, QuotientIsGreatest DEF a, b
  <2>14. c * u = x * u * Precision
    BY PrecisionAssumption DEF c
  <2> QED
    BY <2>13, <2>14 DEF q, Worth
<1> QED
  BY <1>1, <1>2

LEMMA WorthOfMore ==
    ASSUME NEW x \in Nat, NEW y \in Nat, x <= y, NEW t \in Nat, NEW n \in Nat \ {0}
    PROVE  Worth(x, t, n) <= Worth(y, t, n)
<1> DEFINE c == t * Precision
           q == Worth(x, t, n)
<1>1. c \in Nat
  BY ProductType, PrecisionAssumption
<1>2. q \in Nat /\ n * q <= (x * Precision) * t
  BY WorthLemma
<1>3. (x * Precision) * t = x * c /\ x * c \in Nat /\ y * c \in Nat /\ x * c <= y * c
  <2>1. (x * Precision) * t = x * c
    BY PrecisionAssumption
  <2> HIDE DEF c
  <2> QED
    BY <1>1, <2>1, ProductType, Grows
<1>4. y * t * Precision = y * c
  BY PrecisionAssumption
<1> HIDE DEF q, c
<1>5. n * q \in Nat /\ n * q <= y * c
  BY <1>2, <1>3, ProductType
<1>6. q <= (y * c) \div n
  BY <1>2, <1>3, <1>5, QuotientIsGreatest
<1> QED
  BY <1>4, <1>6 DEF q, Worth

\* After a slash of fraction f, which is at least what is burned of the tokens.
LEMMA WorthAfterSlash ==
    ASSUME NEW x \in Nat, NEW t \in Nat, NEW n \in Nat, NEW b \in 0 .. t,
           NEW f \in 0 .. Precision, b * Precision <= f * t
    PROVE  (Worth(x, t, n) * (Precision - f)) \div Precision <= Worth(x, t - b, n)
<1> DEFINE P == Precision
           q == Worth(x, t, n)
           c == x * P
           left == P - f
           y == (q * left) \div P
<1>1. P \in Nat \ {0} /\ left \in Nat /\ c \in Nat /\ t - b \in Nat
  BY ProductType, PrecisionAssumption
<1>2. q \in Nat /\ n * q <= c * t
  BY WorthLemma
<1> HIDE DEF q, c
<1>3. q * left \in Nat
  BY <1>1, <1>2, ProductType
<1>4. y \in Nat /\ P * y <= q * left
  <2> DEFINE a == q * left
  <2>1. a \in Nat
    BY <1>3
  <2> HIDE DEF a
  <2>2. a \div P \in Int /\ P * (a \div P) <= a /\ a \div P >= 0
    BY <1>1, <2>1, Quotient
  <2> QED
    BY <2>2 DEF a
<1>5. CASE n = 0
  <2>1. q = 0
    BY <1>5 DEF q, Worth
  <2>2. q * left = 0
    BY <1>1, <2>1
  <2>3. \A m \in Nat \ {0} : 0 \div m = 0
    OBVIOUS
  <2>4. y = 0
    BY <1>1, <2>2, <2>3
  <2> QED
    BY <1>5, <2>4 DEF Worth, q
<1>6. CASE n # 0
  <2> HIDE DEF y
  <2>1. n * (P * y) <= n * (q * left)
    <3>1. P * y \in Nat
      BY <1>1, <1>4, ProductType
    <3> QED
      BY <1>3, <1>4, <3>1, Grows
  <2>2. left * (n * q) <= left * (c * t)
    <3>1. n * q \in Nat /\ c * t \in Nat
      BY <1>1, <1>2, ProductType
    <3> QED
      BY <1>1, <1>2, <3>1, Grows
  <2>3. left * t <= P * (t - b)
    <3>1. P * b <= f * t /\ P * b \in Nat /\ f * t \in Nat /\ P * t \in Nat
      <4>1. b \in Nat /\ f \in Nat
        BY PrecisionAssumption
      <4>2. b * P = P * b
        BY <1>1, <4>1
      <4> QED
        BY <1>1, <4>1, <4>2, ProductType
    <3>2. left * t = P * t - f * t
      BY <1>1
    <3>3. P * (t - b) = P * t - P * b
      BY <1>1
    <3> QED
      BY <3>1, <3>2, <3>3
  <2> HIDE DEF left
  <2>4. c * (left * t) <= c * (P * (t - b))
    <3>1. left * t \in Nat /\ P * (t - b) \in Nat
      BY <1>1, ProductType
    <3> QED
      BY <1>1, <2>3, <3>1, Grows
  <2>5. n * (P * y) = P * (n * y)
    BY <1>1, <1>4
  <2>6. n * (q * left) = left * (n * q)
    BY <1>1, <1>2
  <2>7. left * (c * t) = c * (left * t)
    BY <1>1
  <2> DEFINE d == t - b
  <2>8. c * (P * d) = P * (c * d)
    BY <1>1
  <2> HIDE DEF P
  <2> DEFINE u == n * y
             w == c * d
             pu == P * u
             pw == P * w
             m1 == left * (n * q)
             m2 == c * (left * t)
  <2>9. u \in Nat /\ w \in Nat /\ pu \in Nat /\ pw \in Nat /\ m1 \in Nat /\ m2 \in Nat
    BY <1>1, <1>2, <1>4, ProductType
  <2>10. pu <= m1 /\ m1 <= m2 /\ m2 <= pw
    BY <2>1, <2>2, <2>4, <2>5, <2>6, <2>7, <2>8
  <2>11. P * u <= P * w
    <3> HIDE DEF pu, pw, m1, m2
    <3>1. pu <= pw
      BY <2>9, <2>10
    <3> QED
      BY <3>1 DEF pu, pw
  <2> HIDE DEF u, w
  <2>12. u <= w
    BY <1>1, <2>9, <2>11, Cancels
  <2>13. y <= (c * d) \div n
    BY <1>4, <1>6, <2>9, <2>12, QuotientIsGreatest DEF u, w
  <2>14. c * d = x * d * P
    <3>1. d \in Nat
      BY <1>1
    <3> HIDE DEF d
    <3> QED
      BY <1>1, <3>1 DEF c
  <2> QED
    BY <1>6, <2>13, <2>14 DEF Worth, P, y, left, q
<1> QED
  BY <1>5, <1>6

----------------------------------------------------------------------------
\* The operators of staking.

\* What each delegation's stake is worth, and its shares.
CapsOf(s) ==
    [v \in Vals |-> [d \in Accounts |->
        IF <<d, v>> \in DOMAIN s.delegation THEN StakeOf(s, d, v) ELSE 0]]

SharesTo(delegations, v) ==
    [d \in Accounts |-> IF <<d, v>> \in DOMAIN delegations THEN delegations[<<d, v>>] ELSE 0]

\* The shares of a validator that no delegation has: none of a validator that a
\* transaction created, some of the one of an in-place testnet.
Spare(s, v) == s.validator[v].shares - Sum(SharesTo(s.delegation, v), Accounts)

SharesOK(s) == \A v \in Vals : Spare(s, v) >= 0

StakingSound(s, h) ==
    /\ StakingOK(s) /\ SharesOK(s)
    /\ LedgerSound(s.ledger, DOMAIN s.delegation, CapsOf(s), h)

LEMMA StakeIsWorth ==
    ASSUME NEW s, NEW v, NEW x
    PROVE  Stake(s, v, x) = Worth(x, s.validator[v].tokens, s.validator[v].shares)
  BY DEF Stake, Worth

LEMMA DelegationTypes ==
    ASSUME NEW s, s.validator \in [Vals -> Validator], IsPartial(s.delegation, Pairs, Nat)
    PROVE  /\ \A v \in Vals : s.validator[v].tokens \in Nat /\ s.validator[v].shares \in Nat
           /\ \A v \in Vals : \A d \in Accounts :
                /\ SharesTo(s.delegation, v)[d] \in Nat
                /\ CapsOf(s)[v][d]
                    = Worth(SharesTo(s.delegation, v)[d], s.validator[v].tokens,
                            s.validator[v].shares)
                /\ CapsOf(s)[v][d] \in Nat
           /\ CapsOf(s) \in CapsType
<1>1. \A v \in Vals : s.validator[v].tokens \in Nat /\ s.validator[v].shares \in Nat
  BY DEF Validator
<1>2. ASSUME NEW v \in Vals, NEW d \in Accounts
      PROVE  /\ SharesTo(s.delegation, v)[d] \in Nat
             /\ CapsOf(s)[v][d]
                  = Worth(SharesTo(s.delegation, v)[d], s.validator[v].tokens,
                          s.validator[v].shares)
             /\ CapsOf(s)[v][d] \in Nat
  <2> DEFINE x == SharesTo(s.delegation, v)[d]
             t == s.validator[v].tokens
             n == s.validator[v].shares
  <2>1. x \in Nat
    BY DEF IsPartial, SharesTo
  <2>2. Worth(x, t, n) \in Nat /\ (x = 0 => Worth(x, t, n) = 0)
    <3> HIDE DEF x
    <3> QED
      BY <1>1, <2>1, WorthLemma
  <2>3. CapsOf(s)[v][d] = Worth(x, t, n)
    <3>1. CASE <<d, v>> \in DOMAIN s.delegation
      <4>1. x = s.delegation[<<d, v>>] /\ CapsOf(s)[v][d] = StakeOf(s, d, v)
        BY <3>1 DEF SharesTo, CapsOf
      <4> QED
        BY <4>1, StakeIsWorth DEF StakeOf
    <3>2. CASE <<d, v>> \notin DOMAIN s.delegation
      <4>1. x = 0 /\ CapsOf(s)[v][d] = 0
        BY <3>2 DEF SharesTo, CapsOf
      <4> QED
        BY <2>2, <4>1
    <3> QED
      BY <3>1, <3>2
  <2> QED
    BY <2>1, <2>2, <2>3
<1>3. CapsOf(s) \in CapsType
  <2> DEFINE c == CapsOf(s)
  <2>1. c = [v \in Vals |-> [d \in Accounts |-> c[v][d]]]
    BY DEF CapsOf
  <2>2. \A v \in Vals : \A d \in Accounts : c[v][d] \in Nat
    BY <1>2
  <2> HIDE DEF c
  <2>3. \A v \in Vals : [d \in Accounts |-> c[v][d]] \in [Accounts -> Nat]
    BY <2>2
  <2> QED
    BY <2>1, <2>3 DEF CapsType, c
<1> QED
  BY <1>1, <1>2, <1>3

\* All the stakes in a validator together are worth no more than its tokens.
LEMMA CapsBound ==
    ASSUME NEW s, s.validator \in [Vals -> Validator], IsPartial(s.delegation, Pairs, Nat),
           SharesOK(s), NEW v \in Vals
    PROVE  Sum(CapsOf(s)[v], Accounts) <= s.validator[v].tokens * Precision
<1> DEFINE cap == CapsOf(s)[v]
           x == SharesTo(s.delegation, v)
           t == s.validator[v].tokens
           n == s.validator[v].shares
           c == t * Precision
           zero == [d \in Accounts |-> 0]
           scaled == [d \in Accounts |-> n * cap[d]]
<1>1. /\ t \in Nat /\ n \in Nat
      /\ \A d \in Accounts : /\ x[d] \in Nat /\ cap[d] \in Nat
                             /\ cap[d] = Worth(x[d], t, n)
  BY DelegationTypes
<1>2. Sum(x, Accounts) \in Int /\ Sum(x, Accounts) <= n
  <2>1. Sum(x, Accounts) \in Int
    <3>1. \A d \in Accounts : SharesTo(s.delegation, v)[d] \in Int
      BY <1>1
    <3> QED
      BY <3>1, FiniteLemma, SumType
  <2>2. n - Sum(x, Accounts) >= 0
    BY DEF SharesOK, Spare
  <2> QED
    BY <1>1, <2>1, <2>2
<1>3. c \in Nat
  BY <1>1, ProductType, PrecisionAssumption
<1> HIDE DEF cap, x, t, n
<1>4. \A d \in Accounts : n * cap[d] \in Nat /\ n * cap[d] <= c * x[d]
  <2> SUFFICES ASSUME NEW d \in Accounts
               PROVE  n * cap[d] \in Nat /\ n * cap[d] <= c * x[d]
    OBVIOUS
  <2>1. n * Worth(x[d], t, n) <= (x[d] * Precision) * t
    BY <1>1, WorthLemma
  <2> DEFINE y == x[d]
  <2>2. y \in Nat
    BY <1>1
  <2> HIDE DEF y
  <2>3. (y * Precision) * t = c * y
    BY <1>1, <2>2, PrecisionAssumption
  <2> QED
    BY <1>1, <2>1, <2>3, ProductType DEF y
<1> HIDE DEF c
<1>5. Sum(zero, Accounts) = 0 /\ Sum(cap, Accounts) \in Int
  BY <1>1, FiniteLemma, SumOfZeros, SumType
<1>6. Sum(scaled, Accounts) <= Sum(zero, Accounts) + c * Sum(x, Accounts)
  <2>1. \A d \in Accounts : zero[d] \in Int /\ scaled[d] \in Int /\ x[d] \in Int
    BY <1>1, <1>4
  <2>2. \A d \in Accounts : scaled[d] <= zero[d] + c * x[d]
    <3>1. \A d \in Accounts : c * x[d] \in Nat
      BY <1>1, <1>3, ProductType
    <3> QED
      BY <1>4, <3>1
  <2> HIDE DEF zero, scaled
  <2> QED
    BY <1>3, <2>1, <2>2, FiniteLemma, SumBound
<1>7. Sum(scaled, Accounts) = Sum(zero, Accounts) + n * Sum(cap, Accounts)
  <2>1. \A d \in Accounts : zero[d] \in Int /\ scaled[d] \in Int /\ cap[d] \in Int
    BY <1>1, <1>4
  <2>2. \A d \in Accounts : scaled[d] = zero[d] + n * cap[d]
    BY <1>4
  <2> HIDE DEF zero, scaled
  <2> QED
    BY <1>1, <2>1, <2>2, FiniteLemma, SumCombined
<1> HIDE DEF zero, scaled
<1> DEFINE total == Sum(cap, Accounts)
<1>8. n * total <= n * c
  <2>1. n * total \in Int /\ c * n \in Int /\ c * n = n * c
    BY <1>1, <1>3, <1>5
  <2> DEFINE sum == Sum(x, Accounts)
  <2>2. sum \in Int /\ sum <= n
    BY <1>2
  <2>3. n * total <= c * sum
    <3>1. total \in Int
      BY <1>5
    <3>2. Sum(scaled, Accounts) <= 0 + c * sum /\ Sum(scaled, Accounts) = 0 + n * total
      BY <1>5, <1>6, <1>7
    <3> HIDE DEF sum, total
    <3>3. n * total \in Int /\ c * sum \in Int
      BY <1>1, <1>3, <2>2, <3>1
    <3> QED
      BY <3>2, <3>3
  <2> HIDE DEF sum, total
  <2>4. c * sum <= c * n /\ c * sum \in Int
    BY <1>1, <1>3, <2>2, Grows
  <2> QED
    BY <2>1, <2>3, <2>4
<1>9. CASE n = 0
  <2>1. \A d \in Accounts : cap[d] = 0
    BY <1>1, <1>9 DEF Worth
  <2>2. total = 0
    BY <2>1, FiniteLemma, SumOfZeros
  <2> QED
    BY <1>3, <2>2 DEF c, cap, t
<1>10. CASE n # 0
  <2> HIDE DEF total
  <2>1. total \in Int
    BY <1>5 DEF total
  <2>2. total <= c
    BY <1>1, <1>3, <1>8, <1>10, <2>1, Cancels
  <2> QED
    BY <2>2 DEF total, c, cap, t
<1> QED
  BY <1>9, <1>10

\* A withdrawal from a sound state.
LEMMA WithdrawnSound ==
    ASSUME NEW s, NEW h \in Nat, StakingSound(s, h), NEW d \in Accounts, NEW v \in Vals,
           <<d, v>> \in DOMAIN s.delegation
    PROVE  /\ LedgerSound(Withdrawn(s, d, v, h), DOMAIN s.delegation \ {<<d, v>>}, CapsOf(s), h)
           /\ Settles(s.ledger, Withdrawn(s, d, v, h), v)
           /\ MayWithdraw(s.ledger, d, v, s.validator[v].tokens, h, StakeOf(s, d, v))
<1>1. /\ s.validator \in [Vals -> Validator] /\ IsPartial(s.delegation, Pairs, Nat)
      /\ SharesOK(s) /\ LedgerSound(s.ledger, DOMAIN s.delegation, CapsOf(s), h)
  BY DEF StakingSound, StakingOK
<1>2. /\ CapsOf(s) \in CapsType /\ s.validator[v].tokens \in Nat
      /\ Sum(CapsOf(s)[v], Accounts) <= s.validator[v].tokens * Precision
  BY <1>1, DelegationTypes, CapsBound
<1>3. CapsOf(s)[v][d] = StakeOf(s, d, v)
  BY DEF CapsOf
<1> DEFINE caps == CapsOf(s)
           tokens == s.validator[v].tokens
           l == s.ledger
           live == DOMAIN s.delegation
           m == WithdrawRewards(l, d, v, tokens, h, caps[v][d])
<1>4. m = Withdrawn(s, d, v, h)
  BY <1>3 DEF Withdrawn
<1> HIDE DEF caps, tokens, l, live, m
<1>5. /\ caps \in CapsType /\ LedgerSound(l, live, caps, h) /\ <<d, v>> \in live
      /\ tokens \in Nat /\ Sum(caps[v], Accounts) <= tokens * Precision
      /\ m = WithdrawRewards(l, d, v, tokens, h, caps[v][d])
  BY <1>1, <1>2 DEF caps, tokens, l, live, m
<1>6. /\ LedgerSound(m, live \ {<<d, v>>}, caps, h) /\ Settles(l, m, v)
      /\ MayWithdraw(l, d, v, tokens, h, caps[v][d])
  BY <1>5, WithdrawRewardsSound
<1> QED
  BY <1>3, <1>4, <1>6 DEF caps, tokens, l, live

\* The shares of one delegation change.
Reshares(f, g, d, v, x) ==
    /\ \A w \in Vals : \A a \in Accounts :
          SharesTo(g, w)[a] = IF <<a, w>> = <<d, v>> THEN x ELSE SharesTo(f, w)[a]

LEMMA PutReshares ==
    ASSUME NEW f, NEW d \in Accounts, NEW v \in Vals, NEW x
    PROVE  Reshares(f, Put(f, <<d, v>>, x), d, v, x)
  BY DEF Reshares, SharesTo, Put

LEMMA DropReshares ==
    ASSUME NEW f, NEW d \in Accounts, NEW v \in Vals
    PROVE  Reshares(f, Drop(f, <<d, v>>), d, v, 0)
  BY DEF Reshares, SharesTo, Drop

\* And with them the validator's total.
Reshared(s, t, d, v, x) ==
    /\ Reshares(s.delegation, t.delegation, d, v, x)
    /\ \A w \in Vals \ {v} : /\ t.validator[w].tokens = s.validator[w].tokens
                             /\ t.validator[w].shares = s.validator[w].shares
    /\ t.validator[v].shares - s.validator[v].shares = x - SharesTo(s.delegation, v)[d]

\* The totals and the worth of the other stakes follow.
LEMMA ResharesSound ==
    ASSUME NEW s, s.validator \in [Vals -> Validator], IsPartial(s.delegation, Pairs, Nat),
           SharesOK(s),
           NEW t, t.validator \in [Vals -> Validator], IsPartial(t.delegation, Pairs, Nat),
           NEW d \in Accounts, NEW v \in Vals, NEW x, Reshared(s, t, d, v, x)
    PROVE  /\ SharesOK(t) /\ \A w \in Vals : Spare(t, w) = Spare(s, w)
           /\ \A w \in Vals \ {v} : CapsOf(t)[w] = CapsOf(s)[w]
           /\ CapsOf(t)[v][d] = Worth(x, t.validator[v].tokens, t.validator[v].shares)
           /\ \A a \in Accounts \ {d} :
                 SharesTo(t.delegation, v)[a] = SharesTo(s.delegation, v)[a]
<1>1. /\ \A w \in Vals : s.validator[w].shares \in Nat /\ t.validator[w].shares \in Nat
      /\ \A w \in Vals : \A a \in Accounts :
           /\ SharesTo(s.delegation, w)[a] \in Nat /\ SharesTo(t.delegation, w)[a] \in Nat
           /\ CapsOf(s)[w][a]
                = Worth(SharesTo(s.delegation, w)[a], s.validator[w].tokens, s.validator[w].shares)
           /\ CapsOf(t)[w][a]
                = Worth(SharesTo(t.delegation, w)[a], t.validator[w].tokens, t.validator[w].shares)
  BY DelegationTypes
<1>2. \A w \in Vals : \A a \in Accounts :
        SharesTo(t.delegation, w)[a]
            = IF <<a, w>> = <<d, v>> THEN x ELSE SharesTo(s.delegation, w)[a]
  BY DEF Reshared, Reshares
<1>3. ASSUME NEW w \in Vals
      PROVE  Spare(t, w) = Spare(s, w)
  <2> DEFINE f == SharesTo(s.delegation, w)
             g == SharesTo(t.delegation, w)
  <2>2. \A a \in Accounts : f[a] \in Int /\ g[a] \in Int
    BY <1>1
  <2>1. Sum(f, Accounts) \in Int
    <3> HIDE DEF f
    <3> QED
      BY <2>2, FiniteLemma, SumType
  <2>3. CASE w = v
    <3>1. /\ \A a \in Accounts \ {d} : g[a] = f[a]
          /\ g[d] = x
      BY <1>2, <2>3
    <3>2. f[d] = SharesTo(s.delegation, v)[d]
      BY <2>3
    <3> HIDE DEF f, g
    <3>3. Sum(g, Accounts) = Sum(f, Accounts) + (g[d] - f[d])
      <4>1. /\ IsFiniteSet(Accounts) /\ d \in Accounts /\ g[d] \in Int
            /\ \A a \in Accounts : f[a] \in Int
            /\ \A a \in Accounts \ {d} : g[a] = f[a]
        BY <2>2, <3>1, FiniteLemma
      <4> QED
        BY <4>1, SumChange
    <3> QED
      BY <1>1, <2>1, <2>2, <2>3, <3>1, <3>2, <3>3 DEF f, g, Reshared, Spare
  <2>4. CASE w # v
    <3>1. \A a \in Accounts : g[a] = f[a]
      BY <1>2, <2>4
    <3> HIDE DEF f, g
    <3>2. Sum(g, Accounts) = Sum(f, Accounts)
      BY <2>2, <3>1, FiniteLemma, SumSame
    <3> QED
      BY <2>1, <2>4, <3>2 DEF f, g, Reshared, Spare
  <2> QED
    BY <2>3, <2>4
<1>4. ASSUME NEW w \in Vals \ {v}
      PROVE  CapsOf(t)[w] = CapsOf(s)[w]
  <2>1. \A a \in Accounts : CapsOf(t)[w][a] = CapsOf(s)[w][a]
    BY <1>1, <1>2 DEF Reshared
  <2>2. CapsOf(t) \in CapsType /\ CapsOf(s) \in CapsType
    BY DelegationTypes
  <2> QED
    BY <2>1, <2>2 DEF CapsType
<1>5. CapsOf(t)[v][d] = Worth(x, t.validator[v].tokens, t.validator[v].shares)
  BY <1>1, <1>2
<1>6. \A a \in Accounts \ {d} : SharesTo(t.delegation, v)[a] = SharesTo(s.delegation, v)[a]
  BY <1>2
<1> QED
  BY <1>3, <1>4, <1>5, <1>6 DEF SharesOK

\* What tokens and shares are exchanged for: never more than they are worth.
LEMMA IssuedLemma ==
    ASSUME NEW s, s.validator \in [Vals -> Validator], NEW v \in Vals, NEW n \in Nat,
           s.validator[v].tokens > 0 \/ s.validator[v].shares = 0
    PROVE  LET t == s.validator[v].tokens
               m == s.validator[v].shares
               issued == SharesFromTokens(s, v, n)
           IN  issued \in Nat /\ (m # 0 => (m + issued) * t <= m * (t + n))
<1> DEFINE t == s.validator[v].tokens
           m == s.validator[v].shares
           issued == SharesFromTokens(s, v, n)
<1>1. t \in Nat /\ m \in Nat /\ issued \in Nat
  BY SharesType DEF Validator
<1>2. ASSUME m # 0
      PROVE  (m + issued) * t <= m * (t + n)
  <2>1. t # 0 /\ issued = (m * n) \div t
    BY <1>1, <1>2 DEF SharesFromTokens
  <2> DEFINE a == m * n
  <2>2. a \in Nat
    BY <1>1, ProductType
  <2> HIDE DEF t, m, issued, a
  <2>3. t * issued <= a
    BY <1>1, <2>1, <2>2, Quotient DEF a
  <2>4. /\ (m + issued) * t = m * t + t * issued
        /\ m * (t + n) = m * t + a
    BY <1>1 DEF a
  <2>5. m * t \in Nat /\ t * issued \in Nat
    BY <1>1, ProductType
  <2> QED
    BY <2>2, <2>3, <2>4, <2>5
<1> QED
  BY <1>1, <1>2

LEMMA RemovedLemma ==
    ASSUME NEW s, s.validator \in [Vals -> Validator], NEW v \in Vals,
           NEW n \in 0 .. s.validator[v].shares, n # s.validator[v].shares
    PROVE  LET t == s.validator[v].tokens
               m == s.validator[v].shares
               removed == TokensRemoved(s, v, n)
           IN  (m - n) * t <= m * (t - removed)
<1> DEFINE t == s.validator[v].tokens
           m == s.validator[v].shares
           removed == TokensRemoved(s, v, n)
           a == n * t
<1>1. t \in Nat /\ m \in Nat /\ n \in Nat /\ m # 0
  BY DEF Validator
<1>2. removed = a \div m
  BY DEF TokensRemoved
<1>3. a \in Nat
  BY <1>1, ProductType
<1> HIDE DEF t, m, removed, a
<1>4. removed \in Int /\ m * removed <= a
  BY <1>1, <1>2, <1>3, Quotient
<1>5. /\ (m - n) * t = m * t - a
      /\ m * (t - removed) = m * t - m * removed
      /\ m * t \in Int /\ m * removed \in Int
  BY <1>1, <1>4 DEF a
<1>6. (m - n) * t <= m * (t - removed)
  BY <1>3, <1>4, <1>5
<1> QED
  BY <1>6 DEF t, m, removed

\* The hook before a delegation is created or changed.
Hooked(s, d, v, h) ==
    IF <<d, v>> \in DOMAIN s.delegation THEN Withdrawn(s, d, v, h)
    ELSE IncrementPeriod(s.ledger, v, s.validator[v].tokens)

LEMMA HookedSound ==
    ASSUME NEW s, NEW h \in Nat, StakingSound(s, h), NEW d \in Accounts, NEW v \in Vals
    PROVE  /\ LedgerSound(Hooked(s, d, v, h), DOMAIN s.delegation \ {<<d, v>>}, CapsOf(s), h)
           /\ Settles(s.ledger, Hooked(s, d, v, h), v)
           /\ Ready(Hooked(s, d, v, h), DOMAIN s.delegation \ {<<d, v>>}, d, v)
<1>1. CASE <<d, v>> \in DOMAIN s.delegation
  BY <1>1, WithdrawnSound, WithdrawnLemma DEF Hooked, StakingSound
<1>2. CASE <<d, v>> \notin DOMAIN s.delegation
  <2> DEFINE live == DOMAIN s.delegation
             l == s.ledger
             tokens == s.validator[v].tokens
             m == IncrementPeriod(l, v, tokens)
             caps == CapsOf(s)
  <2>1. /\ LedgerSound(l, live, caps, h) /\ caps \in CapsType /\ tokens \in Nat
        /\ Sum(caps[v], Accounts) <= tokens * Precision
    BY DelegationTypes, CapsBound DEF StakingSound, StakingOK
  <2>2. live \ {<<d, v>>} = live /\ <<d, v>> \notin live /\ Hooked(s, d, v, h) = m
    BY <1>2 DEF Hooked
  <2> HIDE DEF live, l, tokens, m, caps
  <2>3. LedgerSound(m, live, caps, h) /\ Settles(l, m, v)
    BY <2>1, IncrementPeriodSound DEF m
  <2>4. /\ LedgerCounted(m, live) /\ Untouched(m.rewards[v], Starts(m, live, v))
    BY <2>1, IncrementPeriodLemma DEF m, LedgerSound
  <2>5. Ready(m, live, d, v)
    BY <2>2, <2>4 DEF Ready
  <2> QED
    BY <2>2, <2>3, <2>5 DEF l, live, caps
<1> QED
  BY <1>1, <1>2

\* A delegation starts again after the hook, with what the stakes are worth then.
LEMMA RestartedSound ==
    ASSUME NEW s, NEW h \in Nat, StakingSound(s, h), NEW d \in Accounts, NEW v \in Vals,
           NEW caps \in CapsType,
           \A w \in Vals : \A a \in Accounts :
                <<a, w>> \in DOMAIN s.delegation \ {<<d, v>>} => CapsOf(s)[w][a] <= caps[w][a],
           NEW stake \in Nat, stake <= caps[v][d],
           NEW m, m = InitializeDelegation(Hooked(s, d, v, h), d, v, stake, h)
    PROVE  /\ LedgerSound(m, DOMAIN s.delegation \union {<<d, v>>}, caps, h)
           /\ Settles(s.ledger, m, v)
<1> DEFINE n == Hooked(s, d, v, h)
           rest == DOMAIN s.delegation \ {<<d, v>>}
           l == s.ledger
           old == CapsOf(s)
<1>1. LedgerSound(n, rest, old, h) /\ Settles(l, n, v) /\ Ready(n, rest, d, v)
  BY HookedSound
<1>2. old \in CapsType /\ LedgerCounted(l, DOMAIN s.delegation)
  BY DelegationTypes DEF StakingSound, StakingOK
<1>3. rest \union {<<d, v>>} = DOMAIN s.delegation \union {<<d, v>>}
  OBVIOUS
<1>4. \A w \in Vals : \A a \in Accounts : <<a, w>> \in rest => old[w][a] <= caps[w][a]
  OBVIOUS
<1>5. m = InitializeDelegation(n, d, v, stake, h)
  OBVIOUS
<1> HIDE DEF n, rest, l, old
<1>6. LedgerSound(n, rest, caps, h)
  <2>1. h <= h
    OBVIOUS
  <2> QED
    BY <1>1, <1>2, <1>4, <2>1, SoundLater
<1>7. LedgerSound(m, rest \union {<<d, v>>}, caps, h) /\ Settles(n, m, v)
  BY <1>1, <1>5, <1>6, InitializeDelegationSound
<1>8. Settles(l, m, v)
  <2>1. LedgerCounted(n, rest) /\ LedgerCounted(m, rest \union {<<d, v>>})
    BY <1>6, <1>7 DEF LedgerSound
  <2> QED
    BY <1>1, <1>2, <1>7, <2>1, SettledTwice DEF LedgerCounted
<1> QED
  BY <1>3, <1>7, <1>8 DEF l

LEMMA TokensAdded ==
    ASSUME NEW val \in Validator, NEW n, NEW issued
    PROVE  /\ AddTokens(val, n, issued).tokens = val.tokens + n
           /\ AddTokens(val, n, issued).shares = val.shares + issued
BY DEF AddTokens, Validator

LEMMA DelegatedSound ==
    ASSUME NEW s, NEW h \in Nat, StakingSound(s, h), NEW d \in Accounts, NEW v \in Vals,
           NEW n \in Nat, s.validator[v].tokens > 0 \/ s.validator[v].shares = 0,
           NEW u, u = Delegated(s, d, v, n, h)
    PROVE  /\ StakingSound(u, h) /\ Settles(s.ledger, u.ledger, v)
           /\ \A w \in Vals : \A a \in Accounts : CapsOf(s)[w][a] <= CapsOf(u)[w][a]
           /\ \A w \in Vals : Spare(u, w) = Spare(s, w)
<1> DEFINE k == <<d, v>>
           old == SharesTo(s.delegation, v)[d]
           issued == SharesFromTokens(s, v, n)
           x == issued + old
           tokens == s.validator[v].tokens
           shares == s.validator[v].shares
           hooked == Hooked(s, d, v, h)
           caps == CapsOf(s)
           more == CapsOf(u)
           t == [s EXCEPT
                   !.validator[v] = AddTokens(@, n, issued),
                   !.delegation =
                       Put(@, k, issued + IF k \in DOMAIN s.delegation THEN @[k] ELSE 0),
                   !.bondedPool = @ + IfBonded(s, v, n)]
<1>1. StakingOK(u) /\ StakingOK(s) /\ SharesOK(s)
  BY DelegatedLemma DEF StakingSound
<1>2. /\ s.validator \in [Vals -> Validator] /\ IsPartial(s.delegation, Pairs, Nat)
      /\ u.validator \in [Vals -> Validator] /\ IsPartial(u.delegation, Pairs, Nat)
  BY <1>1 DEF StakingOK
<1>3. /\ tokens \in Nat /\ shares \in Nat /\ old \in Nat
      /\ issued \in Nat /\ (shares # 0 => (shares + issued) * tokens <= shares * (tokens + n))
      /\ caps \in CapsType /\ more \in CapsType
  BY <1>2, DelegationTypes, IssuedLemma
<1>4. x = issued + IF k \in DOMAIN s.delegation THEN s.delegation[k] ELSE 0
  BY DEF SharesTo
<1>5. /\ t.validator = [s.validator EXCEPT ![v] = AddTokens(@, n, issued)]
      /\ t.delegation = Put(s.delegation, k, x)
      /\ u = [t EXCEPT !.ledger = InitializeDelegation(hooked, d, v, StakeOf(t, d, v), h)]
      /\ DOMAIN t = {"validator", "delegation", "powerIndex", "bondedPool", "ledger"}
  <2>1. /\ t.validator = [s.validator EXCEPT ![v] = AddTokens(@, n, issued)]
        /\ t.delegation = Put(s.delegation, k, x)
        /\ DOMAIN t = {"validator", "delegation", "powerIndex", "bondedPool", "ledger"}
    BY <1>1, <1>4 DEF StakingOK
  <2> QED
    BY <2>1 DEF Delegated, Hooked
<1> HIDE DEF t, hooked
<1>6. /\ u.validator = t.validator /\ u.delegation = t.delegation
      /\ u.ledger = InitializeDelegation(hooked, d, v, StakeOf(t, d, v), h)
  BY <1>5
<1>7. StakeOf(t, d, v) = more[v][d]
  <2>1. k \in DOMAIN u.delegation
    BY <1>5, <1>6 DEF Put
  <2> QED
    BY <1>6, <2>1 DEF CapsOf, StakeOf, Stake
<1>8. /\ u.validator[v].tokens = tokens + n /\ u.validator[v].shares = shares + issued
      /\ \A w \in Vals \ {v} : u.validator[w] = s.validator[w]
  <2>1. u.validator = [s.validator EXCEPT ![v] = AddTokens(s.validator[v], n, issued)]
    BY <1>5, <1>6
  <2>2. DOMAIN s.validator = Vals /\ s.validator[v] \in Validator
    BY <1>2
  <2>3. /\ u.validator[v] = AddTokens(s.validator[v], n, issued)
        /\ \A w \in Vals \ {v} : u.validator[w] = s.validator[w]
    BY <2>1, <2>2
  <2>4. /\ AddTokens(s.validator[v], n, issued).tokens = tokens + n
        /\ AddTokens(s.validator[v], n, issued).shares = shares + issued
    BY <2>2, TokensAdded
  <2> QED
    BY <2>3, <2>4
<1>9. Reshares(s.delegation, u.delegation, d, v, x)
  BY <1>5, <1>6, PutReshares
<1>10. /\ SharesOK(u) /\ \A w \in Vals : Spare(u, w) = Spare(s, w)
       /\ \A w \in Vals \ {v} : more[w] = caps[w]
       /\ \A a \in Accounts \ {d} :
             SharesTo(u.delegation, v)[a] = SharesTo(s.delegation, v)[a]
  <2>1. u.validator[v].shares - s.validator[v].shares = x - SharesTo(s.delegation, v)[d]
    BY <1>3, <1>8
  <2>2. \A w \in Vals \ {v} : u.validator[w].tokens = s.validator[w].tokens
                              /\ u.validator[w].shares = s.validator[w].shares
    BY <1>8
  <2> HIDE DEF x
  <2>3. /\ SharesOK(u) /\ \A w \in Vals : Spare(u, w) = Spare(s, w)
        /\ \A w \in Vals \ {v} : CapsOf(u)[w] = CapsOf(s)[w]
        /\ \A a \in Accounts \ {d} :
             SharesTo(u.delegation, v)[a] = SharesTo(s.delegation, v)[a]
    <3>1. Reshared(s, u, d, v, x)
      BY <1>9, <2>1, <2>2 DEF Reshared
    <3> QED
      BY <1>1, <1>2, <3>1, ResharesSound
  <2> QED
    BY <2>3
<1>11. ASSUME NEW w \in Vals, NEW a \in Accounts, <<a, w>> # k
       PROVE  caps[w][a] <= more[w][a]
  <2>1. CASE w # v
    <3>1. more[w] = caps[w] /\ caps[w][a] \in Nat
      BY <1>3, <1>10, <2>1 DEF CapsType
    <3> HIDE DEF more, caps
    <3> QED
      BY <3>1
  <2>2. CASE w = v
    <3> DEFINE y == SharesTo(s.delegation, v)[a]
    <3>1. a # d /\ y \in Nat
      <4>1. a # d
        BY <1>11, <2>2
      <4>2. SharesTo(s.delegation, v)[a] \in Nat
        BY <1>2, DelegationTypes
      <4> QED
        BY <4>1, <4>2
    <3>2. /\ caps[v][a] = Worth(y, tokens, shares)
          /\ more[v][a] = Worth(y, tokens + n, shares + issued)
      BY <1>2, <1>8, <1>10, <3>1, DelegationTypes
    <3> HIDE DEF y, tokens, shares, issued, caps, more
    <3>3. CASE shares = 0
      <4>1. Worth(y, tokens, shares) = 0
        BY <3>3 DEF Worth
      <4>2. Worth(y, tokens + n, shares + issued) \in Nat
        <5>1. tokens + n \in Nat /\ shares + issued \in Nat
          BY <1>3
        <5> QED
          BY <3>1, <5>1, WorthLemma
      <4> QED
        BY <2>2, <3>2, <4>1, <4>2
    <3>4. CASE shares # 0
      <4>1. shares + issued \in Nat \ {0} /\ tokens + n \in Nat
        BY <1>3, <3>4
      <4> QED
        BY <1>3, <2>2, <3>1, <3>2, <3>4, <4>1, WorthGrows
    <3> QED
      BY <3>3, <3>4
  <2> QED
    BY <2>1, <2>2
<1>12. /\ LedgerSound(u.ledger, DOMAIN s.delegation \union {k}, more, h)
       /\ Settles(s.ledger, u.ledger, v)
  <2>1. more[v][d] \in Nat /\ more[v][d] <= more[v][d]
    BY <1>3 DEF CapsType
  <2>2. u.ledger = InitializeDelegation(Hooked(s, d, v, h), d, v, more[v][d], h)
    BY <1>6, <1>7 DEF hooked
  <2> HIDE DEF more
  <2> QED
    BY <1>3, <1>11, <2>1, <2>2, RestartedSound
<1>14. caps[v][d] <= more[v][d]
  <2>1. /\ caps[v][d] = Worth(old, tokens, shares)
        /\ more[v][d] = Worth(x, tokens + n, shares + issued)
    <3>1. SharesTo(u.delegation, v)[d] = x
      BY <1>9 DEF Reshares
    <3> QED
      BY <1>2, <1>8, <3>1, DelegationTypes
  <2> HIDE DEF caps, more, old, issued, tokens, shares
  <2>2. tokens + n \in Nat /\ shares + issued \in Nat /\ x \in Nat /\ old <= x
    BY <1>3
  <2> HIDE DEF x
  <2>3. CASE shares = 0
    <3>1. Worth(old, tokens, shares) = 0
      BY <2>3 DEF Worth
    <3>2. Worth(x, tokens + n, shares + issued) \in Nat
      BY <2>2, WorthLemma
    <3> QED
      BY <2>1, <3>1, <3>2
  <2>4. CASE shares # 0
    <3>1. shares + issued \in Nat \ {0}
      BY <1>3, <2>2, <2>4
    <3>2. Worth(old, tokens, shares) <= Worth(old, tokens + n, shares + issued)
      BY <1>3, <2>2, <2>4, <3>1, WorthGrows
    <3>3. Worth(old, tokens + n, shares + issued) <= Worth(x, tokens + n, shares + issued)
      BY <1>3, <2>2, <3>1, WorthOfMore
    <3>4. /\ Worth(old, tokens, shares) \in Nat
          /\ Worth(old, tokens + n, shares + issued) \in Nat
          /\ Worth(x, tokens + n, shares + issued) \in Nat
      BY <1>3, <2>2, WorthLemma
    <3> QED
      BY <2>1, <3>2, <3>3, <3>4
  <2> QED
    BY <1>3, <2>3, <2>4
<1>13. DOMAIN u.delegation = DOMAIN s.delegation \union {k}
  BY <1>5, <1>6 DEF Put
<1> QED
  BY <1>1, <1>10, <1>11, <1>12, <1>13, <1>14 DEF StakingSound

LEMMA UnbondedSound ==
    ASSUME NEW s, NEW h \in Nat, StakingSound(s, h), NEW d \in Accounts, NEW v \in Vals,
           <<d, v>> \in DOMAIN s.delegation, NEW n \in Nat,
           n <= s.delegation[<<d, v>>], n <= s.validator[v].shares,
           TokensRemoved(s, v, n) \in 1 .. s.validator[v].tokens,
           NEW u, u = Unbonded(s, d, v, n, h)
    PROVE  /\ StakingSound(u, h) /\ Settles(s.ledger, u.ledger, v)
           /\ \A w \in Vals : \A a \in Accounts :
                <<a, w>> # <<d, v>> => CapsOf(s)[w][a] <= CapsOf(u)[w][a]
           /\ Stake(s, v, s.delegation[<<d, v>>] - n) <= CapsOf(u)[v][d]
           /\ \A w \in Vals : Spare(u, w) = Spare(s, w)
<1> DEFINE k == <<d, v>>
           old == SharesTo(s.delegation, v)[d]
           left == s.delegation[k] - n
           gone == TokensRemoved(s, v, n)
           tokens == s.validator[v].tokens
           shares == s.validator[v].shares
           hooked == Withdrawn(s, d, v, h)
           jail == d = v /\ Stake(s, v, left) < Precision
           caps == CapsOf(s)
           more == CapsOf(u)
<1>1. StakingOK(u) /\ StakingOK(s) /\ SharesOK(s)
  BY UnbondedLemma DEF StakingSound
<1>2. /\ s.validator \in [Vals -> Validator] /\ IsPartial(s.delegation, Pairs, Nat)
      /\ u.validator \in [Vals -> Validator] /\ IsPartial(u.delegation, Pairs, Nat)
  BY <1>1 DEF StakingOK
<1>3. /\ tokens \in Nat /\ shares \in Nat /\ old \in Nat /\ left \in Nat
      /\ caps \in CapsType /\ more \in CapsType /\ s.delegation[k] = old
      /\ gone \in 1 .. tokens
  <2>1. tokens \in Nat /\ shares \in Nat /\ caps \in CapsType /\ more \in CapsType
    BY <1>2, DelegationTypes
  <2>2. s.delegation[k] \in Nat
    BY <1>2 DEF IsPartial
  <2> QED
    BY <2>1, <2>2 DEF SharesTo
<1>4. /\ u.validator
           = [s.validator EXCEPT ![v] = RemoveTokens(@, gone, n, jail)]
      /\ u.delegation = (IF left = 0 THEN Drop(s.delegation, k)
                         ELSE Put(s.delegation, k, left))
      /\ u.ledger = (IF left = 0 THEN hooked
                     ELSE InitializeDelegation(hooked, d, v, Stake(s, v, left), h))
  BY DEF Unbonded
<1> HIDE DEF jail, hooked, gone
<1>5. /\ u.validator[v].tokens = tokens - gone /\ u.validator[v].shares = shares - n
      /\ \A w \in Vals \ {v} : u.validator[w] = s.validator[w]
  <2>1. u.validator[v] = RemoveTokens(s.validator[v], gone, n, jail)
    BY <1>2, <1>4
  <2>2. s.validator[v] \in Validator
    BY <1>2
  <2> QED
    BY <1>2, <1>4, <2>1, <2>2 DEF RemoveTokens, Validator
<1>6. Reshares(s.delegation, u.delegation, d, v, left)
  BY <1>4, PutReshares, DropReshares
<1>7. /\ SharesOK(u) /\ \A w \in Vals : Spare(u, w) = Spare(s, w)
      /\ \A w \in Vals \ {v} : more[w] = caps[w]
      /\ more[v][d] = Worth(left, tokens - gone, shares - n)
      /\ \A a \in Accounts \ {d} :
            SharesTo(u.delegation, v)[a] = SharesTo(s.delegation, v)[a]
  <2>1. u.validator[v].shares - s.validator[v].shares = left - SharesTo(s.delegation, v)[d]
    BY <1>3, <1>5
  <2>2. Reshared(s, u, d, v, left)
    BY <1>5, <1>6, <2>1 DEF Reshared
  <2> HIDE DEF left
  <2>3. /\ SharesOK(u) /\ \A w \in Vals : Spare(u, w) = Spare(s, w)
        /\ \A w \in Vals \ {v} : CapsOf(u)[w] = CapsOf(s)[w]
        /\ CapsOf(u)[v][d] = Worth(left, u.validator[v].tokens, u.validator[v].shares)
        /\ \A a \in Accounts \ {d} :
             SharesTo(u.delegation, v)[a] = SharesTo(s.delegation, v)[a]
    BY <1>1, <1>2, <2>2, ResharesSound
  <2> QED
    BY <1>5, <2>3
\* Where all the shares go nobody else has any.
<1>8. ASSUME NEW y \in Nat, n = shares => y = 0
      PROVE  Worth(y, tokens, shares) <= Worth(y, tokens - gone, shares - n)
  <2>1. tokens - gone \in Nat /\ shares - n \in Nat
    BY <1>3
  <2>2. CASE n = shares
    <3> HIDE DEF tokens, shares
    <3>1. Worth(y, tokens, shares) = 0 /\ Worth(y, tokens - gone, shares - n) = 0
      BY <1>3, <1>8, <2>1, <2>2, WorthLemma
    <3> QED
      BY <3>1
  <2>3. CASE n # shares
    <3>1. (shares - n) * tokens <= shares * (tokens - gone)
      BY <1>2, <1>3, <2>3, RemovedLemma DEF gone
    <3> HIDE DEF tokens, shares
    <3>2. shares - n \in Nat \ {0}
      BY <2>1, <2>3, <1>3
    <3> QED
      BY <1>3, <2>1, <3>1, <3>2, WorthGrows
  <2> QED
    BY <2>2, <2>3
\* The delegations have no more shares than the validator.
<1>9. /\ \A a \in Accounts \ {d} : n = shares => SharesTo(s.delegation, v)[a] = 0
      /\ n = shares => left = 0
  <2> DEFINE f == SharesTo(s.delegation, v)
  <2>1. \A a \in Accounts : f[a] \in Nat
    BY <1>2, DelegationTypes
  <2>2. Sum(f, Accounts) \in Nat /\ Sum(f, Accounts) <= shares
    <3>1. Sum(f, Accounts) \in Nat
      <4> HIDE DEF f
      <4> QED
        BY <2>1, FiniteLemma, SumOfNaturals
    <3>2. shares - Sum(f, Accounts) >= 0
      BY <1>1 DEF SharesOK, Spare
    <3> QED
      BY <1>3, <3>1, <3>2
  <2>3. f[d] <= shares
    <3> HIDE DEF f
    <3>1. f[d] \in Nat /\ f[d] <= Sum(f, Accounts)
      BY <2>1, FiniteLemma, SumOfNaturals
    <3> QED
      BY <1>3, <2>2, <3>1
  <2>4. ASSUME n = shares
        PROVE  /\ left = 0
               /\ \A a \in Accounts \ {d} : f[a] = 0
    <3>1. f[d] = shares /\ left = 0
      BY <1>3, <2>3, <2>4
    <3> DEFINE others == Accounts \ {d}
    <3>2. Sum(f, Accounts) = f[d] + Sum(f, others)
      <4> HIDE DEF f
      <4>1. \A a \in Accounts : f[a] \in Int
        BY <2>1
      <4> QED
        BY <4>1, FiniteLemma, SumRemove
    <3>3. IsFiniteSet(others) /\ \A a \in others : f[a] \in Nat
      BY <2>1, FiniteLemma, FS_Subset
    <3> HIDE DEF f, others
    <3>4. Sum(f, others) \in Nat /\ \A a \in others : f[a] <= Sum(f, others)
      BY <3>3, SumOfNaturals
    <3>5. Sum(f, others) = 0
      BY <1>3, <2>2, <3>1, <3>2, <3>4
    <3>6. \A a \in others : f[a] = 0
      BY <3>3, <3>4, <3>5
    <3> QED
      BY <3>1, <3>6 DEF f, others
  <2> QED
    BY <2>4
<1>10. ASSUME NEW w \in Vals, NEW a \in Accounts, <<a, w>> # k
       PROVE  caps[w][a] <= more[w][a]
  <2>1. CASE w # v
    <3>1. more[w] = caps[w] /\ caps[w][a] \in Nat
      BY <1>3, <1>7, <2>1 DEF CapsType
    <3> HIDE DEF more, caps
    <3> QED
      BY <3>1
  <2>2. CASE w = v
    <3> DEFINE y == SharesTo(s.delegation, v)[a]
    <3>1. a # d
      BY <1>10, <2>2
    <3>2. SharesTo(s.delegation, v)[a] \in Nat
      BY <1>2, DelegationTypes
    <3>3. /\ caps[v][a] = Worth(y, tokens, shares)
          /\ more[v][a] = Worth(y, tokens - gone, shares - n)
      BY <1>2, <1>5, <1>7, <3>1, DelegationTypes
    <3>4. y \in Nat /\ (n = shares => y = 0)
      BY <1>9, <3>1, <3>2
    <3> HIDE DEF y, tokens, shares, caps, more
    <3> QED
      BY <1>8, <2>2, <3>3, <3>4
  <2> QED
    BY <2>1, <2>2
<1>14. Stake(s, v, left) \in Nat /\ Stake(s, v, left) <= more[v][d]
  <2>1. Stake(s, v, left) \in Nat /\ Stake(s, v, left) = Worth(left, tokens, shares)
    BY <1>2, <1>3, StakeType, StakeIsWorth
  <2>2. n = shares => left = 0
    BY <1>9
  <2> HIDE DEF left, tokens, shares, more
  <2>3. Worth(left, tokens, shares) <= Worth(left, tokens - gone, shares - n)
    BY <1>3, <1>8, <2>2
  <2> QED
    BY <1>7, <2>1, <2>3
<1>11. hooked = Hooked(s, d, v, h)
  BY DEF Hooked, hooked
<1>12. ASSUME left = 0
       PROVE  StakingSound(u, h) /\ Settles(s.ledger, u.ledger, v)
  <2> DEFINE rest == DOMAIN s.delegation \ {k}
  <2>1. LedgerSound(hooked, rest, caps, h) /\ Settles(s.ledger, hooked, v)
    BY WithdrawnSound DEF hooked
  <2>2. u.ledger = hooked /\ DOMAIN u.delegation = rest
    BY <1>4, <1>12 DEF Drop
  <2>3. \A w \in Vals : \A a \in Accounts : <<a, w>> \in rest => caps[w][a] <= more[w][a]
    BY <1>10
  <2> HIDE DEF rest, caps, more
  <2>4. LedgerSound(hooked, rest, more, h)
    <3>1. h <= h
      OBVIOUS
    <3> QED
      BY <1>3, <2>1, <2>3, <3>1, SoundLater
  <2> QED
    BY <1>1, <1>7, <2>1, <2>2, <2>4 DEF StakingSound, more
<1>13. ASSUME left # 0
       PROVE  StakingSound(u, h) /\ Settles(s.ledger, u.ledger, v)
  <2>1. /\ u.ledger = InitializeDelegation(hooked, d, v, Stake(s, v, left), h)
        /\ DOMAIN u.delegation = DOMAIN s.delegation \union {k}
    BY <1>4, <1>13 DEF Put
  <2> DEFINE stake == Stake(s, v, left)
  <2> HIDE DEF stake, more, left
  <2>3. /\ stake \in Nat /\ stake <= more[v][d]
        /\ u.ledger = InitializeDelegation(Hooked(s, d, v, h), d, v, stake, h)
    BY <1>11, <1>14, <2>1 DEF stake
  <2>4. /\ LedgerSound(u.ledger, DOMAIN s.delegation \union {<<d, v>>}, more, h)
        /\ Settles(s.ledger, u.ledger, v)
    BY <1>3, <1>10, <2>3, RestartedSound
  <2> QED
    BY <1>1, <1>7, <2>1, <2>4 DEF StakingSound, more
<1> QED
  BY <1>7, <1>10, <1>12, <1>13, <1>14

\* A withdrawal that starts the delegation again.
LEMMA AgainSound ==
    ASSUME NEW s, NEW h \in Nat, StakingSound(s, h), NEW d \in Accounts, NEW v \in Vals,
           <<d, v>> \in DOMAIN s.delegation,
           NEW m, m = InitializeDelegation(Withdrawn(s, d, v, h), d, v, StakeOf(s, d, v), h)
    PROVE  LedgerSound(m, DOMAIN s.delegation, CapsOf(s), h) /\ Settles(s.ledger, m, v)
<1> DEFINE caps == CapsOf(s)
           stake == caps[v][d]
<1>1. caps \in CapsType
  BY DelegationTypes DEF StakingSound, StakingOK
<1>2. stake = StakeOf(s, d, v)
  BY DEF CapsOf
<1>3. Hooked(s, d, v, h) = Withdrawn(s, d, v, h)
  BY DEF Hooked
<1>4. DOMAIN s.delegation \union {<<d, v>>} = DOMAIN s.delegation
  OBVIOUS
<1>5. /\ stake \in Nat /\ stake <= stake
      /\ \A w \in Vals : \A a \in Accounts : caps[w][a] \in Nat /\ caps[w][a] <= caps[w][a]
  <2> HIDE DEF caps
  <2>1. \A w \in Vals : \A a \in Accounts : caps[w][a] \in Nat
    BY <1>1 DEF CapsType
  <2>2. \A x \in Nat : x <= x
    OBVIOUS
  <2> QED
    BY <2>1, <2>2
<1>6. /\ \A w \in Vals : \A a \in Accounts :
            <<a, w>> \in DOMAIN s.delegation \ {<<d, v>>} => CapsOf(s)[w][a] <= caps[w][a]
      /\ stake <= caps[v][d]
      /\ m = InitializeDelegation(Hooked(s, d, v, h), d, v, stake, h)
  BY <1>2, <1>3, <1>5
<1> HIDE DEF stake, caps
<1>7. LedgerSound(m, DOMAIN s.delegation \union {<<d, v>>}, caps, h) /\ Settles(s.ledger, m, v)
  BY <1>1, <1>5, <1>6, RestartedSound
<1> QED
  BY <1>4, <1>7 DEF caps

\* What is worth the same has the same caps.
LEMMA CapsSame ==
    ASSUME NEW s, NEW t, t.delegation = s.delegation, NEW V, V \subseteq Vals,
           \A v \in V : /\ t.validator[v].tokens = s.validator[v].tokens
                        /\ t.validator[v].shares = s.validator[v].shares
    PROVE  \A v \in V : CapsOf(t)[v] = CapsOf(s)[v]
<1> SUFFICES ASSUME NEW v \in V
             PROVE  CapsOf(t)[v] = CapsOf(s)[v]
  OBVIOUS
<1>1. \A d : StakeOf(t, d, v) = StakeOf(s, d, v)
  BY DEF StakeOf, Stake
<1> QED
  BY <1>1 DEF CapsOf

\* The fraction covers what is burned, and is no more than everything.
LEMMA FractionLemma ==
    ASSUME NEW b \in Nat \ {0}, NEW t \in Nat, b <= t
    PROVE  LET f == (b * Precision + t - 1) \div t IN
           f \in 0 .. Precision /\ b * Precision <= f * t
<1> DEFINE a == b * Precision
           c == t * Precision
           n == a + t - 1
           f == n \div t
<1>1. t \in Nat \ {0} /\ a \in Nat /\ c \in Nat /\ a <= c
  <2>1. t \in Nat \ {0} /\ a \in Nat /\ c \in Nat
    BY ProductType, PrecisionAssumption
  <2>2. b * Precision <= t * Precision
    BY Grows, PrecisionAssumption
  <2> QED
    BY <2>1, <2>2
<1>2. c = Precision * t /\ t * (Precision + 1) = c + t /\ Precision \in Nat
  BY PrecisionAssumption
<1> HIDE DEF a, c
<1>3. n \in Nat
  BY <1>1
<1> HIDE DEF n
<1>4. f \in Int /\ t * f <= n /\ n < t * f + t /\ f >= 0
  BY <1>1, <1>3, Quotient
<1> HIDE DEF f
<1>5. t * f \in Int /\ f * t = t * f
  BY <1>1, <1>4
<1>6. a <= f * t
  <2> DEFINE p == t * f
  <2>1. n < p + t /\ p \in Int /\ n = a + t - 1
    BY <1>4, <1>5 DEF n
  <2> HIDE DEF p, n
  <2>2. a <= p
    BY <1>1, <2>1
  <2> QED
    BY <1>5, <2>2 DEF p
<1>7. f <= Precision
  <2> SUFFICES ASSUME f > Precision
               PROVE  FALSE
    BY <1>2, <1>4
  <2>1. t * (Precision + 1) <= t * f
    <3>1. Precision + 1 <= f /\ Precision + 1 \in Int
      BY <1>2, <1>4
    <3> QED
      BY <1>1, <1>4, <3>1, Grows
  <2> DEFINE p == t * f
  <2>2. c + t <= p /\ p <= n /\ p \in Int
    BY <1>2, <1>4, <1>5, <2>1
  <2>3. n = a + t - 1
    BY DEF n
  <2> HIDE DEF p
  <2> QED
    BY <1>1, <2>2, <2>3
<1> QED
  BY <1>2, <1>4, <1>6, <1>7 DEF f, n, a

\* A slash that burns b tokens.
LEMMA SlashedSound ==
    ASSUME NEW s, NEW h \in Nat, StakingSound(s, h), NEW v \in Vals,
           NEW b \in Nat \ {0}, b <= s.validator[v].tokens,
           NEW t, t.delegation = s.delegation, t.validator \in [Vals -> Validator],
           t.validator[v].tokens = s.validator[v].tokens - b,
           t.validator[v].shares = s.validator[v].shares,
           \A u \in Vals \ {v} : t.validator[u] = s.validator[u],
           t.ledger = RecordSlash(s.ledger, v, s.validator[v].tokens, h,
                        (b * Precision + s.validator[v].tokens - 1) \div s.validator[v].tokens)
    PROVE  /\ SharesOK(t)
           /\ LedgerSound(t.ledger, DOMAIN s.delegation, CapsOf(t), h)
           /\ Settles(s.ledger, t.ledger, v)
           /\ \A u \in Vals \ {v} : CapsOf(t)[u] = CapsOf(s)[u]
<1> DEFINE tokens == s.validator[v].tokens
           shares == s.validator[v].shares
           f == (b * Precision + tokens - 1) \div tokens
           caps == CapsOf(s)
           less == CapsOf(t)
<1>1. /\ s.validator \in [Vals -> Validator] /\ IsPartial(s.delegation, Pairs, Nat)
      /\ SharesOK(s) /\ LedgerSound(s.ledger, DOMAIN s.delegation, caps, h)
  BY DEF StakingSound, StakingOK
<1>2. /\ caps \in CapsType /\ less \in CapsType /\ tokens \in Nat /\ shares \in Nat
      /\ Sum(caps[v], Accounts) <= tokens * Precision
  BY <1>1, DelegationTypes, CapsBound
<1>3. f \in 0 .. Precision /\ b * Precision <= f * tokens
  <2> HIDE DEF tokens
  <2> QED
    BY <1>2, FractionLemma DEF tokens
<1> HIDE DEF f
<1>4. \A u \in Vals \ {v} : less[u] = caps[u]
  <2> DEFINE V == Vals \ {v}
  <2>1. V \subseteq Vals /\ \A u \in V : /\ t.validator[u].tokens = s.validator[u].tokens
                                         /\ t.validator[u].shares = s.validator[u].shares
    OBVIOUS
  <2> HIDE DEF V
  <2>2. \A u \in V : CapsOf(t)[u] = CapsOf(s)[u]
    BY <2>1, CapsSame
  <2> QED
    BY <2>2 DEF V
<1>5. \A d \in Accounts : (caps[v][d] * (Precision - f)) \div Precision <= less[v][d]
  <2> SUFFICES ASSUME NEW d \in Accounts
               PROVE  (caps[v][d] * (Precision - f)) \div Precision <= less[v][d]
    OBVIOUS
  <2> DEFINE x == SharesTo(s.delegation, v)[d]
  <2>1. SharesTo(s.delegation, v)[d] \in Nat /\ caps[v][d] = Worth(x, tokens, shares)
    BY <1>1, DelegationTypes
  <2>2. less[v][d] = Worth(x, tokens - b, shares)
    <3>1. SharesTo(t.delegation, v)[d] = x
      OBVIOUS
    <3> QED
      BY <1>1, <3>1, DelegationTypes
  <2>3. x \in Nat /\ b \in 0 .. tokens
    BY <1>2, <2>1
  <2> HIDE DEF x, tokens, shares, caps, less
  <2> QED
    BY <1>2, <1>3, <2>1, <2>2, <2>3, WorthAfterSlash
<1>6. LedgerSound(t.ledger, DOMAIN s.delegation, less, h) /\ Settles(s.ledger, t.ledger, v)
  <2> DEFINE l == s.ledger
             m == t.ledger
             live == DOMAIN s.delegation
  <2>1. m = RecordSlash(l, v, tokens, h, f) /\ LedgerSound(l, live, caps, h)
    BY <1>1 DEF f
  <2> HIDE DEF l, m, live, tokens, caps, less
  <2>2. LedgerSound(m, live, less, h) /\ Settles(l, m, v)
    BY <1>2, <1>3, <1>4, <1>5, <2>1, RecordSlashSound
  <2> QED
    BY <2>2 DEF l, m, live
<1>7. SharesOK(t)
  <2>1. \A w \in Vals : t.validator[w].shares = s.validator[w].shares
    OBVIOUS
  <2> QED
    BY <1>1, <2>1 DEF SharesOK, Spare
<1> QED
  BY <1>4, <1>6, <1>7

----------------------------------------------------------------------------
\* What the delegations of the ledger are paid.


LEMMA PaymentInLedger ==
    ASSUME NEW l, NEW live, NEW caps, NEW h, LedgerSound(l, live, caps, h), NEW v \in Vals
    PROVE  /\ Counted(l.rewards[v], Periods(Infos(l, live, v)))
           /\ Sound(Accounts, l.rewards[v], Infos(l, live, v), caps[v], h)
<1>1. Counted(l.rewards[v], Periods(Infos(l, live, v)))
  BY InfosLemma DEF LedgerSound
<1>2. Sound(Accounts, l.rewards[v], Infos(l, live, v), caps[v], h)
  BY DEF LedgerSound
<1> QED
  BY <1>1, <1>2

LEMMA InInfos ==
    ASSUME NEW l, NEW live, NEW d \in Accounts, NEW v \in Vals, <<d, v>> \in live
    PROVE  d \in DOMAIN Infos(l, live, v) /\ Infos(l, live, v)[d] = l.start[<<d, v>>]
<1> QED
  BY DEF Infos

LEMMA CapsOfOne ==
    ASSUME NEW caps \in CapsType, NEW v \in Vals
    PROVE  IsFiniteSet(Accounts) /\ caps[v] \in [Accounts -> Nat]
<1> QED
  BY FiniteLemma DEF CapsType

LEMMA PaymentNextInLedger ==
    ASSUME NEW l, NEW live, NEW caps \in CapsType, NEW h \in Nat, LedgerSound(l, live, caps, h),
           NEW d \in Accounts, NEW v \in Vals, <<d, v>> \in live,
           NEW tokens \in Nat, Sum(caps[v], Accounts) <= tokens * Precision,
           l.start[<<d, v>>].height = h
             => l.rewards[v].current = 0 /\ l.start[<<d, v>>].period = l.rewards[v].period - 1
    PROVE  Payment(l.rewards[v], tokens, l.start[<<d, v>>], h + 1, caps[v][d])
             = Payment(l.rewards[v], tokens, l.start[<<d, v>>], h, caps[v][d])
<1> DEFINE infos == Infos(l, live, v)
           r == l.rewards[v]
           cap == caps[v]
<1>1. /\ IsFiniteSet(Accounts) /\ cap \in [Accounts -> Nat]
      /\ Counted(r, Periods(infos)) /\ Sound(Accounts, r, infos, cap, h)
      /\ d \in DOMAIN infos /\ infos[d] = l.start[<<d, v>>]
  <2>1. IsFiniteSet(Accounts) /\ cap \in [Accounts -> Nat]
    BY CapsOfOne
  <2>2. Counted(r, Periods(infos)) /\ Sound(Accounts, r, infos, cap, h)
    BY PaymentInLedger
  <2>3. d \in DOMAIN infos /\ infos[d] = l.start[<<d, v>>]
    BY InInfos
  <2> HIDE DEF infos, r, cap
  <2> QED
    BY <2>1, <2>2, <2>3
<1>2. /\ infos[d].height = h => r.current = 0 /\ infos[d].period = r.period - 1
      /\ Sum(cap, Accounts) <= tokens * Precision
  BY <1>1
<1> HIDE DEF infos, r, cap
<1>3. Payment(r, tokens, infos[d], h + 1, cap[d]) = Payment(r, tokens, infos[d], h, cap[d])
  BY <1>1, <1>2, PaymentInNextBlock
<1> QED
  BY <1>1, <1>3 DEF r, cap

LEMMA CommissionPayment ==
    ASSUME NEW l, NEW live, NEW caps \in CapsType, NEW h \in Nat, LedgerSound(l, live, caps, h),
           NEW u \in Vals, NEW m, m = WithdrawCommission(l, u),
           NEW d \in Accounts, NEW v \in Vals, <<d, v>> \in live,
           NEW tokens \in Nat, Sum(caps[v], Accounts) <= tokens * Precision
    PROVE  Payment(m.rewards[v], tokens, m.start[<<d, v>>], h, caps[v][d])
             = Payment(l.rewards[v], tokens, l.start[<<d, v>>], h, caps[v][d])
<1> DEFINE infos == Infos(l, live, v)
           r == l.rewards[v]
           t == m.rewards[v]
           cap == caps[v]
<1>1. LedgerSound(m, live, caps, h)
  BY WithdrawCommissionSound
<1>2. /\ m.start = l.start
      /\ m.rewards = [l.rewards EXCEPT ![u] = WithoutCommission(l.rewards[u])]
      /\ DOMAIN l.rewards = Vals
  <2>1. LedgerOK(l) /\ DOMAIN l.rewards = Vals
    BY InfosLemma DEF LedgerSound, LedgerCounted
  <2> QED
    BY <2>1 DEF WithdrawCommission, LedgerOK
<1>3. Infos(m, live, v) = infos
  BY <1>2 DEF Infos
<1>4. /\ IsFiniteSet(Accounts) /\ cap \in [Accounts -> Nat]
      /\ Counted(r, Periods(infos)) /\ Sound(Accounts, r, infos, cap, h)
      /\ d \in DOMAIN infos /\ infos[d] = l.start[<<d, v>>]
  <2>1. IsFiniteSet(Accounts) /\ cap \in [Accounts -> Nat]
    BY CapsOfOne
  <2>2. Counted(r, Periods(infos)) /\ Sound(Accounts, r, infos, cap, h)
    BY PaymentInLedger
  <2>3. d \in DOMAIN infos /\ infos[d] = l.start[<<d, v>>]
    BY InInfos
  <2> HIDE DEF infos, r, cap
  <2> QED
    BY <2>1, <2>2, <2>3
<1>5. Counted(t, Periods(infos)) /\ Sound(Accounts, t, infos, cap, h)
  BY <1>1, <1>3, PaymentInLedger
<1>6. CASE u = v
  <2>1. t = WithoutCommission(r) /\ Sum(cap, Accounts) <= tokens * Precision
    BY <1>2, <1>6
  <2> HIDE DEF infos, r, t, cap
  <2>2. Payment(t, tokens, infos[d], h, cap[d]) = Payment(r, tokens, infos[d], h, cap[d])
    BY <1>4, <1>5, <2>1, PaymentAfterCommission
  <2> QED
    BY <1>2, <1>4, <2>2 DEF r, t, cap
<1>7. CASE u # v
  BY <1>2, <1>7
<1> QED
  BY <1>6, <1>7

LEMMA StakeIsCap ==
    ASSUME NEW s, NEW d \in Accounts, NEW v \in Vals, <<d, v>> \in DOMAIN s.delegation
    PROVE  CapsOf(s)[v][d] = StakeOf(s, d, v)
  BY DEF CapsOf, StakeOf, Stake

LEMMA AgainPayment ==
    ASSUME NEW s, NEW h \in Nat, StakingSound(s, h), NEW c \in Accounts, NEW u \in Vals,
           <<c, u>> \in DOMAIN s.delegation,
           NEW m, m = InitializeDelegation(Withdrawn(s, c, u, h), c, u, StakeOf(s, c, u), h),
           NEW other \in DOMAIN s.delegation, other # <<c, u>>
    PROVE  Payment(m.rewards[other[2]], s.validator[other[2]].tokens, m.start[other], h,
                   StakeOf(s, other[1], other[2]))
             = Payment(s.ledger.rewards[other[2]], s.validator[other[2]].tokens,
                       s.ledger.start[other], h, StakeOf(s, other[1], other[2]))
<1>a. DOMAIN s.delegation \subseteq Accounts \X Vals
  BY DEF StakingSound, StakingOK, IsPartial, Pairs
<1>b. PICK d \in Accounts : \E v \in Vals : other = <<d, v>>
  BY <1>a
<1>c. PICK v \in Vals : other = <<d, v>>
  BY <1>b
<1>d. <<d, v>> \in DOMAIN s.delegation /\ <<d, v>> # <<c, u>>
  BY <1>c
<1> SUFFICES Payment(m.rewards[v], s.validator[v].tokens, m.start[<<d, v>>], h, StakeOf(s, d, v))
               = Payment(s.ledger.rewards[v], s.validator[v].tokens, s.ledger.start[<<d, v>>], h,
                         StakeOf(s, d, v))
  BY <1>c
<1> DEFINE l == s.ledger
           live == DOMAIN s.delegation
           caps == CapsOf(s)
           k == <<c, u>>
           n == Withdrawn(s, c, u, h)
           r == l.rewards[v]
           t == m.rewards[v]
           x == n.rewards[v]
           infos == Infos(l, live, v)
           others == Infos(m, live, v)
           cap == caps[v]
           tokens == s.validator[v].tokens
           e == EndPeriod(r, tokens)
           p == l.start[k].period
<1>1. /\ LedgerSound(l, live, caps, h) /\ LedgerSound(m, live, caps, h)
      /\ LedgerSound(n, live \ {k}, caps, h)
  BY AgainSound, WithdrawnSound DEF StakingSound
<1>2. LedgerOK(l) /\ LedgerOK(n) /\ LedgerOK(m)
  BY <1>1 DEF LedgerSound, LedgerCounted
<1>3. /\ caps \in CapsType /\ tokens \in Nat /\ cap[d] = StakeOf(s, d, v)
  <2>1. caps \in CapsType /\ tokens \in Nat
    BY DelegationTypes DEF StakingSound, StakingOK
  <2>2. cap[d] = StakeOf(s, d, v)
    BY <1>d, StakeIsCap
  <2> QED
    BY <2>1, <2>2
<1>4. Sum(cap, Accounts) <= tokens * Precision
  BY CapsBound DEF StakingSound, StakingOK
<1>5. PICK reward :
        /\ n.rewards = [l.rewards EXCEPT ![u] =
                PaidOut(EndPeriod(l.rewards[u], s.validator[u].tokens), p, reward)]
        /\ n.start = Drop(l.start, k)
  <2> DEFINE w == IncrementPeriod(l, u, s.validator[u].tokens)
             y == Payable(w.rewards[u],
                     DelegationRewards(w.rewards[u], l.start[k], h, l.rewards[u].period,
                                       StakeOf(s, c, u)))
  <2>1. n = [w EXCEPT
            !.balance = @ - Truncate(y),
            !.pool = @ + (y - Truncate(y)),
            !.rewards[u] = PaidOut(@, p, y),
            !.start = Drop(@, k)]
    BY DEF Withdrawn, WithdrawRewards
  <2>2. /\ w.rewards = [l.rewards EXCEPT ![u] = EndPeriod(l.rewards[u], s.validator[u].tokens)]
        /\ w.start = l.start
        /\ DOMAIN w = {"rewards", "start", "pool", "balance"} /\ DOMAIN l.rewards = Vals
    BY <1>2 DEF IncrementPeriod, LedgerOK
  <2> HIDE DEF w, y
  <2>3. /\ n.rewards = [l.rewards EXCEPT ![u] =
                PaidOut(EndPeriod(l.rewards[u], s.validator[u].tokens), p, y)]
        /\ n.start = Drop(l.start, k)
    BY <2>1, <2>2
  <2> QED
    BY <2>3
<1>6. /\ m.rewards = [n.rewards EXCEPT ![u] =
                IncrementRef(n.rewards[u], n.rewards[u].period - 1)]
      /\ \A j \in DOMAIN l.start \ {k} : m.start[j] = l.start[j]
      /\ DOMAIN n.rewards = Vals
  <2> DEFINE i == [period |-> n.rewards[u].period - 1, stake |-> StakeOf(s, c, u), height |-> h]
  <2> HIDE DEF n
  <2>0. m = [n EXCEPT !.rewards[u] = IncrementRef(@, n.rewards[u].period - 1),
                      !.start = Put(@, k, i)]
    BY DEF InitializeDelegation, n
  <2>1. /\ DOMAIN n.rewards = Vals
        /\ DOMAIN n = {"rewards", "start", "pool", "balance"}
    BY <1>2 DEF LedgerOK
  <2> HIDE DEF i
  <2>2. /\ m.rewards = [n.rewards EXCEPT ![u] =
                IncrementRef(n.rewards[u], n.rewards[u].period - 1)]
        /\ m.start = Put(n.start, k, i)
        /\ DOMAIN n.rewards = Vals
    BY <2>0, <2>1
  <2>3. \A j \in DOMAIN l.start \ {k} : n.start[j] = l.start[j] /\ j \in DOMAIN n.start
    BY <1>5 DEF Drop
  <2>4. \A j \in DOMAIN n.start : j # k => m.start[j] = n.start[j]
    BY <2>2 DEF Put
  <2> HIDE DEF k
  <2>5. \A j \in DOMAIN l.start \ {k} : m.start[j] = l.start[j]
    BY <2>3, <2>4
  <2> QED
    BY <2>2, <2>5
<1>7. live \subseteq DOMAIN l.start /\ k \in live /\ <<d, v>> \in live
  BY <1>1, <1>d DEF LedgerSound, LedgerCounted
<1>8. m.start[<<d, v>>] = l.start[<<d, v>>]
  BY <1>6, <1>7, <1>d
<1>9. /\ IsFiniteSet(Accounts) /\ cap \in [Accounts -> Nat]
      /\ Counted(r, Periods(infos)) /\ Sound(Accounts, r, infos, cap, h)
      /\ d \in DOMAIN infos /\ infos[d] = l.start[<<d, v>>]
  <2>1. IsFiniteSet(Accounts) /\ cap \in [Accounts -> Nat]
    BY <1>3, CapsOfOne
  <2>2. Counted(r, Periods(infos)) /\ Sound(Accounts, r, infos, cap, h)
    BY <1>1, PaymentInLedger
  <2>3. d \in DOMAIN infos /\ infos[d] = l.start[<<d, v>>]
    BY <1>7, InInfos
  <2> HIDE DEF infos, r, cap
  <2> QED
    BY <2>1, <2>2, <2>3
<1>10. /\ Counted(t, Periods(others)) /\ Sound(Accounts, t, others, cap, h)
       /\ d \in DOMAIN others /\ others[d] = infos[d]
  <2>1. Counted(t, Periods(others)) /\ Sound(Accounts, t, others, cap, h)
    BY <1>1, PaymentInLedger
  <2>2. d \in DOMAIN others /\ others[d] = m.start[<<d, v>>]
    BY <1>7, InInfos
  <2> HIDE DEF others, infos, t, cap
  <2> QED
    BY <1>8, <1>9, <2>1, <2>2
<1>11. CASE u = v
  <2>1. /\ x = PaidOut(e, p, reward) /\ t = IncrementRef(x, x.period - 1)
        /\ RewardsOK(x)
    <3>1. RewardsOK(x)
      BY <1>2 DEF LedgerOK
    <3>2. DOMAIN l.rewards = Vals
      BY <1>2 DEF LedgerOK
    <3> HIDE DEF n, e
    <3> QED
      BY <1>5, <1>6, <1>11, <3>1, <3>2 DEF e
  <2>2. c \in DOMAIN infos /\ infos[c].period = p
    BY <1>7, <1>11 DEF Infos
  <2>3. Counted(e, Periods(infos)) /\ e = EndPeriod(r, tokens)
    <3> HIDE DEF infos, r, cap, tokens
    <3> QED
      BY <1>3, <1>4, <1>9, EndPeriodSound
  <2>4. p \in DOMAIN e.historical /\ p < r.period /\ p \in Nat
    <3>1. c \in DOMAIN infos /\ infos[c] \in StartingInfo
      BY <1>9, <2>2 DEF Sound, Dated
    <3> HIDE DEF infos, p, e, r
    <3> QED
      BY <1>9, <2>2, <2>3, <3>1, KnownPeriods DEF StartingInfo
  <2> HIDE DEF e, p, infos, others, cap, tokens, r, x, t, n
  <2>5. Payment(t, tokens, infos[d], h, cap[d]) = Payment(r, tokens, infos[d], h, cap[d])
    BY <1>3, <1>4, <1>9, <1>10, <2>1, <2>3, <2>4, PaymentAfterOther
  <2> QED
    BY <1>3, <1>8, <1>9, <2>5 DEF r, t, tokens, l
<1>12. CASE u # v
  <2>1. t = r
    BY <1>5, <1>6, <1>12
  <2> QED
    BY <1>8, <2>1
<1> QED
  BY <1>11, <1>12

----------------------------------------------------------------------------
\* Which delegations start in a block: those the hooks restart, after the
\* period that has just ended.

NewlyStarted(l, k) ==
    l.rewards[k[2]].current = 0 /\ l.start[k].period = l.rewards[k[2]].period - 1

\* Validator v's period has just ended, and no delegation has started.
EndedAt(l, n, v) ==
    /\ {"rewards", "start"} \subseteq DOMAIN n /\ DOMAIN n.rewards = Vals
    /\ {"historical", "current", "period"} \subseteq DOMAIN n.rewards[v]
    /\ n.rewards[v].current = 0
    /\ \A u \in Vals \ {v} : n.rewards[u] = l.rewards[u]
    /\ \A j \in DOMAIN n.start : j \in DOMAIN l.start /\ n.start[j] = l.start[j]

\* One delegation to v at most has started.
Begins(l, m, d, v) ==
    /\ \A u \in Vals \ {v} : m.rewards[u] = l.rewards[u]
    /\ \A j \in DOMAIN m.start :
          \/ j \in DOMAIN l.start /\ m.start[j] = l.start[j]
          \/ j = <<d, v>> /\ NewlyStarted(m, j)

LEMMA IncrementEnds ==
    ASSUME NEW l, LedgerOK(l), NEW v \in Vals, NEW tokens, NEW n, n = IncrementPeriod(l, v, tokens)
    PROVE  /\ EndedAt(l, n, v) /\ n.start = l.start
           /\ n.rewards[v] = EndPeriod(l.rewards[v], tokens)
           /\ DOMAIN n = {"rewards", "start", "pool", "balance"}
<1> DEFINE e == EndPeriod(l.rewards[v], tokens)
<1>1. DOMAIN l.rewards = Vals /\ DOMAIN l = {"rewards", "start", "pool", "balance"}
  BY DEF LedgerOK
<1>2. /\ n.start = l.start /\ n.rewards = [l.rewards EXCEPT ![v] = e]
      /\ DOMAIN n = {"rewards", "start", "pool", "balance"}
  BY <1>1 DEF IncrementPeriod
<1>3. /\ {"historical", "current", "period"} \subseteq DOMAIN e /\ e.current = 0
  BY DEF EndPeriod
<1> HIDE DEF e
<1>4. EndedAt(l, n, v) /\ n.rewards[v] = e
  BY <1>1, <1>2, <1>3 DEF EndedAt
<1> QED
  BY <1>2, <1>4 DEF e

LEMMA WithdrawnEnds ==
    ASSUME NEW l, LedgerOK(l), NEW d, NEW v \in Vals, NEW tokens, NEW at, NEW stake,
           NEW n, n = WithdrawRewards(l, d, v, tokens, at, stake)
    PROVE  EndedAt(l, n, v)
<1> DEFINE w == IncrementPeriod(l, v, tokens)
           info == l.start[<<d, v>>]
           y == Payable(w.rewards[v],
                        DelegationRewards(w.rewards[v], info, at, l.rewards[v].period, stake))
           r == PaidOut(w.rewards[v], info.period, y)
<1>1. /\ EndedAt(l, w, v) /\ w.start = l.start
      /\ DOMAIN w = {"rewards", "start", "pool", "balance"}
  BY IncrementEnds
<1>2. n = [w EXCEPT !.balance = @ - Truncate(y),
                    !.pool = @ + (y - Truncate(y)),
                    !.rewards[v] = r,
                    !.start = Drop(@, <<d, v>>)]
  BY DEF WithdrawRewards
<1>3. /\ {"historical", "current", "period"} \subseteq DOMAIN r /\ r.current = 0
  <2> HIDE DEF w, y, info
  <2> QED
    BY <1>1 DEF PaidOut, DecrementRef, EndedAt
<1> HIDE DEF w, y, info, r
<1>4. /\ n.start = Drop(w.start, <<d, v>>) /\ n.rewards = [w.rewards EXCEPT ![v] = r]
      /\ DOMAIN n = {"rewards", "start", "pool", "balance"}
  BY <1>1, <1>2
<1> QED
  BY <1>1, <1>3, <1>4 DEF EndedAt, Drop

LEMMA EndedBegins ==
    ASSUME NEW l, NEW n, NEW d, NEW v \in Vals, EndedAt(l, n, v)
    PROVE  Begins(l, n, d, v)
  BY DEF EndedAt, Begins

LEMMA InitializedBegins ==
    ASSUME NEW l, NEW n, NEW d, NEW v \in Vals, EndedAt(l, n, v), NEW stake, NEW h,
           NEW m, m = InitializeDelegation(n, d, v, stake, h)
    PROVE  Begins(l, m, d, v)
<1> DEFINE p == n.rewards[v].period - 1
           r == IncrementRef(n.rewards[v], p)
           info == [period |-> p, stake |-> stake, height |-> h]
<1>1. /\ m.start = Put(n.start, <<d, v>>, info) /\ m.rewards = [n.rewards EXCEPT ![v] = r]
  BY DEF InitializeDelegation, EndedAt
<1>2. r.current = 0 /\ r.period = n.rewards[v].period /\ info.period = p
  BY DEF IncrementRef, EndedAt
<1> HIDE DEF r, info
<1>3. NewlyStarted(m, <<d, v>>)
  BY <1>1, <1>2 DEF NewlyStarted, EndedAt, Put
<1> QED
  BY <1>1, <1>3 DEF Begins, EndedAt, Put

LEMMA BeginsTwice ==
    ASSUME NEW l, NEW u, NEW t, NEW d, NEW v \in Vals, NEW w \in Vals, v # w,
           Begins(l, u, d, v), Begins(u, t, d, w), NEW j \in DOMAIN t.start
    PROVE  \/ j \in DOMAIN l.start /\ t.start[j] = l.start[j]
           \/ NewlyStarted(t, j)
<1>1. t.rewards[v] = u.rewards[v]
  BY DEF Begins
<1>2. CASE j = <<d, w>> /\ NewlyStarted(t, j)
  BY <1>2
<1>3. CASE j \in DOMAIN u.start /\ t.start[j] = u.start[j]
  <2>1. CASE j \in DOMAIN l.start /\ u.start[j] = l.start[j]
    BY <1>3, <2>1
  <2>2. CASE j = <<d, v>> /\ NewlyStarted(u, j)
    BY <1>1, <1>3, <2>2 DEF NewlyStarted
  <2> QED
    BY <2>1, <2>2, <1>3 DEF Begins
<1> QED
  BY <1>2, <1>3 DEF Begins

LEMMA DelegatedBegins ==
    ASSUME NEW s, StakingOK(s), NEW d, NEW v \in Vals, NEW n, NEW h, NEW u,
           u = Delegated(s, d, v, n, h)
    PROVE  Begins(s.ledger, u.ledger, d, v)
<1> DEFINE k == <<d, v>>
           has == k \in DOMAIN s.delegation
           issued == SharesFromTokens(s, v, n)
           hooked == IF has THEN Withdrawn(s, d, v, h)
                     ELSE IncrementPeriod(s.ledger, v, s.validator[v].tokens)
           t == [s EXCEPT
                   !.validator[v] = AddTokens(@, n, issued),
                   !.delegation = Put(@, k, issued + IF has THEN @[k] ELSE 0),
                   !.bondedPool = @ + IfBonded(s, v, n)]
<1>1. u = [t EXCEPT !.ledger = InitializeDelegation(hooked, d, v, StakeOf(t, d, v), h)]
  BY DEF Delegated
<1>2. EndedAt(s.ledger, hooked, v)
  <2>1. LedgerOK(s.ledger)
    BY DEF StakingOK, LedgerCounted
  <2>2. EndedAt(s.ledger, Withdrawn(s, d, v, h), v)
    BY <2>1, WithdrawnEnds DEF Withdrawn
  <2>3. EndedAt(s.ledger, IncrementPeriod(s.ledger, v, s.validator[v].tokens), v)
    BY <2>1, IncrementEnds
  <2> QED
    BY <2>2, <2>3
<1> HIDE DEF hooked, has, issued
<1>3. DOMAIN t = {"validator", "delegation", "powerIndex", "bondedPool", "ledger"}
  BY DEF StakingOK
<1> HIDE DEF t
<1>4. u.ledger = InitializeDelegation(hooked, d, v, StakeOf(t, d, v), h)
  BY <1>1, <1>3
<1> QED
  BY <1>2, <1>4, InitializedBegins

LEMMA UnbondedBegins ==
    ASSUME NEW s, StakingOK(s), NEW d, NEW v \in Vals, NEW n, NEW h, NEW u,
           u = Unbonded(s, d, v, n, h)
    PROVE  Begins(s.ledger, u.ledger, d, v)
<1> DEFINE left == s.delegation[<<d, v>>] - n
           hooked == Withdrawn(s, d, v, h)
           stake == Stake(s, v, left)
<1>1. u.ledger = (IF left = 0 THEN hooked ELSE InitializeDelegation(hooked, d, v, stake, h))
  BY DEF Unbonded
<1>2. EndedAt(s.ledger, hooked, v)
  <2>1. LedgerOK(s.ledger)
    BY DEF StakingOK, LedgerCounted
  <2> QED
    BY <2>1, WithdrawnEnds DEF Withdrawn
<1> HIDE DEF hooked, left, stake
<1>3. Begins(s.ledger, hooked, d, v)
  BY <1>2, EndedBegins
<1>4. Begins(s.ledger, InitializeDelegation(hooked, d, v, stake, h), d, v)
  BY <1>2, InitializedBegins
<1> QED
  BY <1>1, <1>3, <1>4
=============================================================================
