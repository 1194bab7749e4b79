---------------------------- MODULE SandboxOrders ----------------------------
(***************************************************************************)
(* The decisions of the Phase 15 paper sandbox: the signal gate over a     *)
(* published snapshot, the target weights, the delta to the current paper  *)
(* portfolio and the hypothetical orders.  All of it is pure;              *)
(* WeeklyArtifacts runs it over files.                                     *)
(*                                                                         *)
(* Weights and rates are basis points, money whole units, rho_t hundredths *)
(* of 1; a division rounds down, where the code keeps a fraction.          *)
(***************************************************************************)
EXTENDS Integers, Sequences, FiniteSets, SequencesExt, Functions, LiveSummary

CONSTANT
    Policy       \* configs/portfolio_policy_v1.yaml, its symbols sorted

Full == 10000
SymbolSet == Range(Policy.symbols)
Abs(n) == IF n < 0 THEN -n ELSE n

-----------------------------------------------------------------------------
(* policy.py                                                                *)

\* RhoBucket.contains.
InBucket(b, rho) ==
    /\ IF b.lowIn THEN b.lower <= rho ELSE b.lower < rho
    /\ IF b.upIn THEN rho <= b.upper ELSE rho < b.upper

\* _build_rho_buckets accepts the buckets, given in their sorted order.
BucketsAccepted(bs) ==
    /\ bs \in Seq(Range(bs)) /\ bs # <<>>
    /\ bs[1].lower = 0 /\ bs[1].lowIn
    /\ Last(bs).upper = 100 /\ Last(bs).upIn
    /\ \A i \in 1 .. Len(bs) - 1 :
        /\ bs[i].upper = bs[i + 1].lower
        /\ bs[i].upIn # bs[i + 1].lowIn

\* _build_universe, _build_constraints and _validate_state_policy. That every
\* bucket has weights is not checked, so it is asked of the policy here.
PolicyAccepted(p) ==
    /\ BucketsAccepted(p.buckets)
    /\ p.symbols \in Seq(STRING) /\ p.cashProxy \in Range(p.symbols)
    /\ \A i \in DOMAIN p.buckets :
        LET w == p.weights[p.buckets[i].name] IN
        /\ w \in [Range(p.symbols) -> 0 .. p.singleMax]
        /\ SumFunction(w) = Full

ASSUME PolicyAssumption == PolicyAccepted(Policy)

\* execution_model, which load_portfolio_policy takes as it is: in the file the
\* smallest order brings more than it costs.
ASSUME FrictionAssumption ==
    /\ {Policy.frictionBufferBps, Policy.minNotional, Policy.commission} \subseteq Nat
    /\ Policy.slippageBps \in 0 .. Full
    /\ Policy.commission * Full <= (Full - Policy.slippageBps) * Policy.minNotional

\* locate_rho_bucket: the first bucket with rho; None when it raises.
LocateRhoBucket(rho) ==
    LET hit == {i \in DOMAIN Policy.buckets : InBucket(Policy.buckets[i], rho)}
    IN IF hit = {} THEN None
       ELSE Policy.buckets[CHOOSE i \in hit : \A j \in hit : i <= j].name

-----------------------------------------------------------------------------
(* signal_gate.py                                                           *)

Eligible == "eligible_strict_signal"

\* Fault: a snapshot is taken whatever its execution state.
SignalGateAnyExecution(x) ==
    CASE x.backfill_mode = "degraded_backfill" -> "degraded_backfill_signal"
      [] x.backfill_mode = "block" -> "block_signal"
      [] OTHER ->
            IF x.mode # "strict" THEN "not_strict_mode"
            ELSE IF ~x.gate THEN "strict_gate_failed"
            ELSE IF x.h_t = None THEN "h_t_missing"
            ELSE IF x.rho_t = None THEN "rho_t_missing"
            ELSE IF x.k_hat_t = None THEN "k_hat_t_missing"
            ELSE IF x.s_t = None THEN "s_t_missing"
            ELSE Eligible

\* evaluate_signal_eligibility: the reason, Eligible when nothing objects. The
\* policy is paper only, so the first check passes.
SignalGate(x) ==
    CASE x.backfill_mode = "degraded_backfill" -> "degraded_backfill_signal"
      [] x.backfill_mode = "block" -> "block_signal"
      [] OTHER ->
            IF x.mode # "strict" THEN "not_strict_mode"
            ELSE IF x.execution # "execute" THEN "execution_not_permitted"
            ELSE IF ~x.gate THEN "strict_gate_failed"
            ELSE IF x.h_t = None THEN "h_t_missing"
            ELSE IF x.rho_t = None THEN "rho_t_missing"
            ELSE IF x.k_hat_t = None THEN "k_hat_t_missing"
            ELSE IF x.s_t = None THEN "s_t_missing"
            ELSE Eligible

-----------------------------------------------------------------------------
(* portfolio_snapshot.py: a portfolio is cash and a row per symbol held     *)

Held(pf, s) == IF s \in DOMAIN pf.rows THEN pf.rows[s].value ELSE 0
WeightIn(pf, s) == IF s \in DOMAIN pf.rows THEN pf.rows[s].weight ELSE 0
WeightSum(pf) == SumFunction([s \in DOMAIN pf.rows |-> pf.rows[s].weight])

\* nav: the market values and the cash.
Nav(pf) == SumFunction([s \in DOMAIN pf.rows |-> pf.rows[s].value]) + pf.cash

\* load_portfolio_snapshot does not raise. A row's quantity is value over
\* price; the value is what the orders are compared with.
PortfolioAccepted(pf) ==
    /\ DOMAIN pf.rows # {} /\ DOMAIN pf.rows \subseteq SymbolSet
    /\ pf.cash \in Nat
    /\ \A s \in DOMAIN pf.rows :
        pf.rows[s].price > 0 /\ pf.rows[s].value \in Nat /\ pf.rows[s].weight \in Int
    /\ WeightSum(pf) \in 9900 .. 10100
    /\ Nav(pf) > 0

-----------------------------------------------------------------------------
(* target_weights.py, delta.py                                              *)

\* generate_target_weights; the sandbox always passes the current weights as
\* prior target. None: they do not sum to 1, or no bucket has rho_t, and the run
\* raises.
TargetWeights(x, pf) ==
    IF SignalGate(x) = Eligible
    THEN LET bucket == LocateRhoBucket(x.rho_t)
         IN IF bucket = None THEN None ELSE Policy.weights[bucket]
    ELSE IF WeightSum(pf) = Full THEN [s \in SymbolSet |-> WeightIn(pf, s)]
    ELSE None

DeltaWeights(pf, target) == [s \in SymbolSet |-> target[s] - WeightIn(pf, s)]

\* build_portfolio_delta: rebalance when execution is allowed and the turnover,
\* half of the absolute changes, reaches the threshold.
RebalanceRequired(x, pf, target) ==
    /\ SignalGate(x) = Eligible
    /\ SumFunction([s \in SymbolSet |-> Abs(DeltaWeights(pf, target)[s])])
            >= 2 * Policy.turnoverThreshold

-----------------------------------------------------------------------------
(* order_simulator.py                                                       *)

SlippageCost(notional) == (notional * Policy.slippageBps) \div Full + Policy.commission

Order(s, side, notional) ==
    [symbol |-> s, side |-> side, notional |-> notional, cost |-> SlippageCost(notional)]

DesiredNotional(pf, target, s) == (Abs(DeltaWeights(pf, target)[s]) * Nav(pf)) \div Full

\* One sell: below the minimum it is skipped, else its proceeds are available.
SimulateSell(s, wanted, acc) ==
    IF wanted < Policy.minNotional THEN acc
    ELSE LET o == Order(s, "SELL", wanted) IN
         [cash |-> acc.cash + o.notional - o.cost, orders |-> Append(acc.orders, o)]

\* Fault: a buy is not limited by the cash.
SimulateBuyUncapped(s, wanted, acc) ==
    IF wanted < Policy.minNotional THEN acc
    ELSE LET o == Order(s, "BUY", wanted)
             left == acc.cash - o.notional - o.cost
         IN [cash |-> IF left < 0 THEN 0 ELSE left, orders |-> Append(acc.orders, o)]

\* One buy: what the cash allows after commission, slippage and buffer.
SimulateBuy(s, wanted, acc) ==
    LET room == ((acc.cash - Policy.commission) * Full)
                    \div (Full + Policy.slippageBps + Policy.frictionBufferBps)
        affordable == IF room < 0 THEN 0 ELSE room
        actual == IF wanted < affordable THEN wanted ELSE affordable
        o == Order(s, "BUY", actual)
        left == acc.cash - o.notional - o.cost
    IN IF actual < Policy.minNotional THEN acc
       ELSE [cash |-> IF left < 0 THEN 0 ELSE left, orders |-> Append(acc.orders, o)]

\* The loop over the symbols to sell and the loop over those to buy, sorted.
SimulateSide(side, pf, target, start) ==
    LET Step(acc, s) ==
            CASE side = "SELL" /\ DeltaWeights(pf, target)[s] < 0 ->
                    SimulateSell(s, DesiredNotional(pf, target, s), acc)
              [] side = "BUY" /\ DeltaWeights(pf, target)[s] > 0 ->
                    SimulateBuy(s, DesiredNotional(pf, target, s), acc)
              [] OTHER -> acc
    IN FoldLeft(Step, start, Policy.symbols)

\* simulate_hypothetical_orders when a rebalance is required.
SimulateOrders(pf, target) ==
    LET start == [cash |-> pf.cash, orders |-> <<>>]
    IN SimulateSide("BUY", pf, target, SimulateSide("SELL", pf, target, start))

\* The prices of the symbols ordered come from the portfolio's own rows.
Priced(pf, orders) == \A i \in DOMAIN orders : orders[i].symbol \in DOMAIN pf.rows

\* main() of run_phase15_sandbox.py up to the artifacts; None when it raises.
Sandbox(x, pf) ==
    LET target == TargetWeights(x, pf)
        rebalance == target # None /\ RebalanceRequired(x, pf, target)
        sim == IF rebalance THEN SimulateOrders(pf, target)
               ELSE [cash |-> pf.cash, orders |-> <<>>]
    IN IF ~PortfolioAccepted(pf) \/ target = None \/ ~Priced(pf, sim.orders)
       THEN None
       ELSE [target |-> target, delta |-> DeltaWeights(pf, target), orders |-> sim.orders,
             summary |-> [week |-> x.week, snapshot |-> x, reason |-> SignalGate(x),
                          rebalance |-> rebalance, orders |-> Len(sim.orders),
                          before |-> pf.cash, after |-> sim.cash]]
=============================================================================
