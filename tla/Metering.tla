------------------------------ MODULE Metering ------------------------------
(* What a run is charged.  Its route is planned and frozen before the first    *)
(* turn; each request to a model leaves a row of run_model_usage as soon as    *)
(* the gateway reads its usage, and the run's own usage grows when the event   *)
(* reaches the coordinator, which ends a run that is over its budget.          *)
EXTENDS Integers, Sequences, FiniteSetsExt

CONSTANTS
  MaxCost,      \* budget.maxCostUsd
  MaxRequests,  \* budget.maxTurns
  Sizes,        \* tokens of a request
  LongContext,  \* longContextThresholdTokens
  Bills         \* costs that a provider reports with its usage

ASSUME MeteringAssumption ==
  MaxCost \in Nat /\ MaxRequests \in Nat /\ Sizes \subseteq Nat /\ LongContext \in Nat /\ Bills \subseteq Nat

VARIABLES
  setup,     \* the Manager's provider, model, prices and catalog; the run's connection
  metering,  \* where the run is: see Steps and Ends
  halting,   \* what the run's signal was aborted for, or "none"
  plans,     \* route plans made for the run
  cached,    \* the one among the gateway's #plans, or 0
  frozen,    \* its row of run_route_plans, or 0
  snapshotPlan,  \* the plan in its row of run_snapshots, or 0
  round,     \* number of the turn
  askedModel,  \* the model of the plan that is asked
  event,     \* cost of the usage event between the gateway and the runner, or NoCost
  counted,   \* sawUsageEvent
  reading,   \* the gateway awaits the provider's stream
  ledger,    \* rows of run_model_usage
  cost       \* runs.usage_cost_usd, or NoCost

meteringVars == <<setup, metering, halting, plans, cached, frozen, snapshotPlan, round,
                  askedModel, event, counted, reading, ledger, cost>>
routeVars == <<plans, cached, frozen, snapshotPlan>>

NoCost == -1
Steps == {"accepted", "prepared", "turn", "asking", "streaming", "yielded"}
Ends  == {"SUCCEEDED", "FAILED", "CANCELLED", "ORPHANED"}

-----------------------------------------------------------------------------
(* Prices and routes                                                          *)

NoPrice == [known |-> FALSE, rate |-> 0, long |-> FALSE]
Price(rate, long) == [known |-> TRUE, rate |-> rate, long |-> long]

\* LITE_HARNESS_MODEL_*_USD_PER_MILLION go before the published profile of a model.
configuredModelPricing(s, official) ==
  CASE s.prices = "zero" -> Price(0, FALSE)
    [] s.prices = "set"  -> Price(2, FALSE)
    [] s.prices = "none" /\ official  -> Price(1, TRUE)
    [] s.prices = "none" /\ ~official -> NoPrice

\* "local" is the Hermes proxy with an official model; "delegated" is Codex or Claude.
\* Setups that ask for the same models at the same prices are left out.
Setups ==
  {s \in [provider : {"fake", "delegated", "direct", "local"}, official : BOOLEAN,
          prices : {"none", "zero", "set"}, catalog : BOOLEAN, connected : BOOLEAN] :
     /\ s.provider = "fake" => s.prices = "none" /\ ~s.official
     /\ s.provider = "local" => s.official
     /\ s.official /\ s.provider # "local" => s.prices = "none" /\ ~s.catalog /\ ~s.connected
     /\ s.catalog => s.provider \in {"direct", "local"} /\ ~s.connected
     /\ s.connected => s.provider \in {"direct", "local"}}

\* A catalog names a model with its own price and one without; a connection two models.
configuredDirectModels(s) ==
  IF s.catalog THEN <<Price(3, FALSE), configuredModelPricing(s, FALSE)>>
               ELSE <<configuredModelPricing(s, s.official)>>

resolveModelGateway(s) ==
  CASE s.connected -> <<configuredModelPricing(s, FALSE), configuredModelPricing(s, TRUE)>>
    [] ~s.connected /\ s.provider = "fake"      -> <<Price(0, FALSE)>>
    [] ~s.connected /\ s.provider = "delegated" -> <<configuredModelPricing(s, s.official)>>
    [] ~s.connected /\ s.provider \in {"direct", "local"} -> configuredDirectModels(s)

\* plan: the cheapest model first, one of unknown price last.
score(m) == IF m.known THEN m.rate ELSE 1000
plan(models) ==
  IF Len(models) = 2 /\ score(models[2]) < score(models[1]) THEN <<models[2], models[1]>> ELSE models
Route == plan(resolveModelGateway(setup))

\* The run goes through a RoutedModelGateway, which asks no model of unknown price
\* under a cost ceiling.
Routed == setup.connected \/ setup.provider \in {"direct", "local"}

isTrustedUnmeteredLocalUsageRoute == setup.provider = "local" /\ setup.prices = "zero"

Calculated(m, size) == m.rate * size * (IF m.long /\ size > LongContext THEN 2 ELSE 1)

\* Mutant: what the provider reports goes before the calculation.
AsReported(m, size, reported) ==
  IF reported # NoCost \/ ~m.known THEN reported ELSE Calculated(m, size)

withAuthoritativeCost(m, size, reported) ==
  IF m.known THEN Max({reported, 0, Calculated(m, size)}) ELSE reported

MeteringInit ==
  /\ setup \in Setups
  /\ metering = "accepted" /\ halting = "none"
  /\ plans = 0 /\ cached = 0 /\ frozen = 0 /\ snapshotPlan = 0
  /\ round = 0 /\ askedModel = 1 /\ event = NoCost /\ counted = FALSE /\ reading = FALSE
  /\ ledger = <<>> /\ cost = NoCost

-----------------------------------------------------------------------------
(* Before the first turn                                                      *)

\* The run ends; the cleanup of the stream waits for the gateway's pending read.
EndAs(status) ==
  /\ metering' = status
  /\ UNCHANGED <<setup, halting, routeVars, round, askedModel, event, counted, reading, ledger, cost>>

RunFailed == EndAs("FAILED")

\* prepareRun of the gateway and persistRunRoutePlan, or no model is compatible.
PrepareRoute ==
  /\ metering = "accepted"
  /\ \/ /\ metering' = "prepared"
        /\ plans' = plans + 1 /\ frozen' = plans' /\ cached' = plans'
        /\ UNCHANGED <<setup, halting, snapshotPlan, round, askedModel, event, counted, reading, ledger, cost>>
     \/ RunFailed

persistRunSnapshot(p) == snapshotPlan' = p

\* #freezeRunSnapshot once the tools and the context are ready.
FreezeRunSnapshot ==
  /\ metering = "prepared"
  /\ \/ /\ frozen # 0 /\ metering' = "turn" /\ persistRunSnapshot(frozen)
        /\ UNCHANGED <<setup, halting, plans, cached, frozen, round, askedModel, event, counted, reading, ledger, cost>>
     \/ RunFailed

\* The plans of 1,024 other attempts push this one out.
Evict ==
  /\ metering \in Steps /\ cached # 0 /\ cached' = 0
  /\ UNCHANGED <<setup, metering, halting, plans, frozen, snapshotPlan, round, askedModel, event, counted, reading, ledger, cost>>

-----------------------------------------------------------------------------
(* A turn                                                                     *)

\* Mutant: a new plan takes the place of the row.
Overwrites == TRUE

\* persistRunRoutePlan throws for another plan than that of the row.
Persists == FALSE

\* #plan of the gateway: what is cached, or a plan that must be that of the row.
StartRequest ==
  /\ metering = "turn"
  /\ IF halting # "none" \/ round = MaxRequests THEN RunFailed
     ELSE \/ /\ cached # 0 \/ Persists
             /\ metering' = "asking" /\ round' = round + 1 /\ askedModel' = 1 /\ counted' = FALSE
             /\ IF cached # 0 THEN UNCHANGED routeVars
                ELSE plans' = plans + 1 /\ cached' = plans' /\ frozen' = plans' /\ UNCHANGED snapshotPlan
             /\ UNCHANGED <<setup, halting, event, reading, ledger, cost>>
          \/ cached = 0 /\ RunFailed

NextRoute ==
  IF askedModel < Len(Route)
  THEN /\ askedModel' = askedModel + 1
       /\ UNCHANGED <<setup, metering, halting, routeVars, round, event, counted, reading, ledger, cost>>
  ELSE RunFailed

\* Mutant: a model without a price is asked too.
AsksAny(m) == TRUE

MayAsk(m) == Routed => m.known

\* A price is missing, or the credential or the request fails in a retryable way.
PassOver ==
  /\ metering = "asking" /\ halting = "none" /\ Routed
  /\ NextRoute

RefuseRequest ==
  /\ metering = "asking" /\ halting = "none" /\ MayAsk(Route[askedModel]) /\ RunFailed

AcceptRequest ==
  /\ metering = "asking" /\ halting = "none" /\ MayAsk(Route[askedModel])
  /\ metering' = "streaming" /\ reading' = TRUE
  /\ UNCHANGED <<setup, halting, routeVars, round, askedModel, event, counted, ledger, cost>>

\* The gateway reads the usage and records it (persistRunModelUsage), whether or not
\* the run still goes on.
ReadUsage ==
  /\ reading /\ ~counted /\ reading' = FALSE
  /\ \E size \in Sizes, reported \in Bills \union {NoCost} :
       LET charged == withAuthoritativeCost(Route[askedModel], size, reported)
       IN  /\ ledger' = Append(ledger, [plan |-> frozen, model |-> askedModel, size |-> size,
                                        reported |-> reported, cost |-> charged])
           /\ event' = charged
  /\ metering' = IF metering = "streaming" THEN "yielded" ELSE metering
  /\ UNCHANGED <<setup, halting, routeVars, round, askedModel, counted, cost>>

\* Counts of tokens that are not numbers, or categories that exceed the input.
InvalidUsage ==
  /\ metering = "streaming" /\ ~counted /\ halting = "none"
  /\ metering' = "FAILED" /\ reading' = FALSE
  /\ UNCHANGED <<setup, halting, routeVars, round, askedModel, event, counted, ledger, cost>>

\* Mutant: the budget is compared before the usage is added.
OverBefore(total) == cost > MaxCost

OverBudget(total) == total > MaxCost

\* The runner takes the event: usage.updated, and #enforceBudget.
TakeUsage ==
  /\ metering = "yielded" /\ halting = "none"
  /\ IF event = NoCost THEN RunFailed
     ELSE /\ metering' = "streaming" /\ counted' = TRUE /\ event' = NoCost
          /\ cost' = Max({cost, 0}) + event
          /\ halting' = IF OverBudget(cost') THEN "budget" ELSE halting
          /\ reading' = TRUE
          /\ UNCHANGED <<setup, routeVars, round, askedModel, ledger>>

\* Mutant: an answer ends the turn with or without its usage.
Unmetered == TRUE

Metered == counted \/ isTrustedUnmeteredLocalUsageRoute

\* The stream has ended; an answer without tools ends the run.
CompleteTurn ==
  /\ metering = "streaming" /\ halting = "none"
  /\ reading' = FALSE
  /\ metering' \in IF Metered THEN {"turn", "SUCCEEDED"} ELSE {"FAILED"}
  /\ UNCHANGED <<setup, halting, routeVars, round, askedModel, event, counted, ledger, cost>>

\* The stream is cut, reports an error or falls silent: then it is still read.
StreamEnds ==
  /\ metering = "streaming" /\ halting = "none" /\ RunFailed

-----------------------------------------------------------------------------
(* The coordinator                                                            *)

CancelMetered ==
  /\ metering \in Steps /\ halting = "none" /\ halting' = "cancel"
  /\ UNCHANGED <<setup, metering, routeVars, round, askedModel, event, counted, reading, ledger, cost>>

\* nextWithIdleTimeout loses the race to the signal.
NoticeAbort ==
  /\ metering \in {"asking", "streaming", "yielded"} /\ halting # "none"
  /\ EndAs(IF halting = "cancel" THEN "CANCELLED" ELSE "FAILED")

MeteredManagerDies ==
  /\ metering \in Steps /\ metering' = "ORPHANED" /\ reading' = FALSE
  /\ UNCHANGED <<setup, halting, routeVars, round, askedModel, event, counted, ledger, cost>>

MeteringNext ==
  \/ PrepareRoute \/ FreezeRunSnapshot \/ Evict
  \/ StartRequest \/ PassOver \/ RefuseRequest \/ AcceptRequest
  \/ ReadUsage \/ InvalidUsage \/ TakeUsage \/ CompleteTurn \/ StreamEnds
  \/ CancelMetered \/ NoticeAbort \/ MeteredManagerDies

MeteringSpec == MeteringInit /\ [][MeteringNext]_meteringVars

-----------------------------------------------------------------------------
(* Properties                                                                 *)

Total == SumFunction([k \in DOMAIN ledger |-> Max({ledger[k].cost, 0})])

\* A run never counts more than its ledger says.  One that succeeds was charged all
\* of it, kept to its budget, and every turn left a row, except on the trusted
\* local route (#appendAgentEvent, #enforceBudget, persistRunModelUsage).
AccountIsTrue ==
  /\ Max({cost, 0}) <= Total
  /\ metering = "SUCCEEDED" =>
       /\ Max({cost, 0}) = Total /\ Total <= MaxCost
       /\ Len(ledger) = round \/ isTrustedUnmeteredLocalUsageRoute
       /\ cost # NoCost \/ isTrustedUnmeteredLocalUsageRoute

\* No row is cheaper than what the provider reported or than the published price.
ChargesAreComplete ==
  \A k \in DOMAIN ledger :
    LET m == Route[ledger[k].model]
    IN  /\ ledger[k].cost >= ledger[k].reported
        /\ m.known => ledger[k].cost >= Calculated(m, ledger[k].size)
        /\ Routed => m.known

\* Every request follows the plan of the snapshot that was frozen before the first.
RouteIsFrozen ==
  /\ \A k \in DOMAIN ledger : ledger[k].plan = snapshotPlan
  /\ round > 0 => snapshotPlan = frozen

\* A run is charged what its requests cost, on the route that was frozen for it.
RunsAreMetered == AccountIsTrue /\ ChargesAreComplete /\ RouteIsFrozen
=============================================================================
