------------------------------- MODULE Sizing -------------------------------
(***************************************************************************)
(* DeterministicSizingEngine.size: from an authorized sale of the source   *)
(* position and the cash at hand, the quantities to buy in each stage.     *)
(* The engine estimates every stage from the cost of one unit, and then    *)
(* takes back what the rounded costs do not leave affordable, from the     *)
(* last stage to the first, by bisecting the increments of a stage.        *)
(*                                                                         *)
(* Money is counted in ticks, a fraction of the money quantum; a rate and  *)
(* a weight in basis points. The operands of the code's exact decimals     *)
(* (costs.py 174-370) are integers here, so its resource limits on digits  *)
(* and exponents are left out.                                             *)
(***************************************************************************)
EXTENDS Integers, Sequences, Functions

CONSTANTS Requests,      \* the sizing requests to answer
          SearchLimit    \* MAX_SIZING_ADJUSTMENT_SEARCH_STEPS

BasisPoints == 10000
RoundingModes == {"DOWN", "HALF_EVEN", "HALF_UP"}
SourceKinds == {"authorized", "unlisted", "foreign", "closed", "protected"}
CandidateKinds == {"grouped", "ungrouped", "other_group", "other_user"}
Statuses == {"none", "refused", "raised",
             "ACTIONABLE", "INSUFFICIENT_CASH", "NO_PURCHASE_QUANTITY"}

Rates == 0 .. BasisPoints
Configurations ==
  [weights: Seq(1 .. BasisPoints), quantum: Nat \ {0}, mode: RoundingModes,
   buyFee: Rates, buySlip: Rates, saleFee: Rates, saleTax: Rates, saleSlip: Rates,
   reserve: Nat, minimum: Nat \ {0}, lot: Nat \ {0}, oddLot: BOOLEAN]

(* What SizingStage, SizingConfiguration and SizingRequest accept.         *)
ValidConfiguration(c) ==
  /\ c \in Configurations
  /\ c.weights # <<>>
  /\ SumFunction(c.weights) = BasisPoints
  /\ c.minimum <= c.lot

ValidRequest(r) ==
  /\ ValidConfiguration(r.config)
  /\ r.source \in SourceKinds /\ r.candidate \in CandidateKinds
  /\ {r.saleQuantity, r.held, r.cash} \subseteq Nat
  /\ {r.salePrice, r.price} \subseteq Nat \ {0}

ASSUME RequestsAssumption == \A r \in Requests : ValidRequest(r)
ASSUME SearchLimitAssumption == SearchLimit \in Nat

VARIABLES request,      \* the request being answered
          phase,        \* "start", "adjust", "search" or "done"
          targets,      \* the money allotted to each stage
          quantities,   \* the quantity of each stage
          index,        \* the stage under adjustment, from the last to the first
          lower, upper, \* the increments between which the search looks
          steps,        \* the steps the search of this stage has taken
          status        \* the answer: "raised" is a SizingError

vars == <<request, phase, targets, quantities, index, lower, upper, steps, status>>
Config == request.config

-----------------------------------------------------------------------------
(* Rounding and costs. A value is numerator / denominator ticks.           *)

RoundRatio(n, d, mode) ==
  LET floor == n \div d
      rest == n % d
  IN CASE mode = "DOWN" -> IF n >= 0 \/ rest = 0 THEN floor ELSE floor + 1
       [] mode # "DOWN" /\ 2 * rest < d -> floor
       [] mode # "DOWN" /\ 2 * rest > d -> floor + 1
       [] mode = "HALF_UP" /\ 2 * rest = d -> IF n >= 0 THEN floor + 1 ELSE floor
       [] mode = "HALF_EVEN" /\ 2 * rest = d -> floor + (floor % 2)

Money(c, n, d) == RoundRatio(n, d * c.quantum, c.mode) * c.quantum
MoneyNotIncreasing(c, n, d) == (n \div (d * c.quantum)) * c.quantum

PurchaseCost(c, price, quantity) ==
  LET gross == Money(c, quantity * price, 1)
      slippage == Money(c, gross * c.buySlip, BasisPoints)
      fee == Money(c, (gross + slippage) * c.buyFee, BasisPoints)
  IN Money(c, gross + slippage + fee, 1)

NetProceeds(r) ==
  LET c == r.config
      gross == MoneyNotIncreasing(c, r.saleQuantity * r.salePrice, 1)
      post == gross - Money(c, gross * c.saleSlip, BasisPoints)
      fee == Money(c, post * c.saleFee, BasisPoints)
      tax == Money(c, post * c.saleTax, BasisPoints)
  IN MoneyNotIncreasing(c, post - fee - tax, 1)

Funding(r) == r.cash + NetProceeds(r)
Spendable(r) == Funding(r) - r.config.reserve

StageCash(r, qs) == SumFunction([i \in DOMAIN qs |-> PurchaseCost(r.config, r.price, qs[i])])
(* A funding check that forgets the reserve. *)
TotalCashForgetsReserve(r, qs) == StageCash(r, qs)
TotalCash(r, qs) == r.config.reserve + StageCash(r, qs)
Affordable(r, qs) == TotalCash(r, qs) <= Funding(r)

(* The cash the result reports as required (SizingEngine._result).         *)
TotalRequiredCash(r, qs) == r.config.reserve + StageCash(r, qs)

-----------------------------------------------------------------------------
(* Targets and first quantities.                                           *)

Increment(c) == IF c.oddLot THEN c.minimum ELSE c.lot
Zeros(c) == [i \in DOMAIN c.weights |-> 0]

Targets(r) ==
  [i \in DOMAIN r.config.weights |->
     MoneyNotIncreasing(r.config, Spendable(r) * r.config.weights[i], BasisPoints)]

QuantityForTarget(c, target, unitCost) ==
  LET quantity == (target \div (unitCost * Increment(c))) * Increment(c)
  IN IF quantity < c.minimum THEN 0 ELSE quantity

InitialQuantities(r) ==
  LET unitCost == PurchaseCost(r.config, r.price, 1)
  IN IF unitCost <= 0
       THEN Zeros(r.config)
       ELSE [i \in DOMAIN r.config.weights |->
               QuantityForTarget(r.config, Targets(r)[i], unitCost)]

-----------------------------------------------------------------------------
(* One step of the engine.                                                 *)

SaleAuthorized(r) == r.source = "authorized" /\ 0 < r.saleQuantity /\ r.saleQuantity <= r.held
CandidateAuthorized(r) == r.candidate = "grouped"

(* Every answer is a SizingResult, which no negative amount may enter.     *)
Answer(outcome) ==
  /\ phase' = "done"
  /\ status' = IF NetProceeds(request) < 0 THEN "raised" ELSE outcome

Unsearched == UNCHANGED <<lower, upper, steps>>

Refuse ==
  /\ phase = "start"
  /\ ~(SaleAuthorized(request) /\ CandidateAuthorized(request))
  /\ phase' = "done" /\ status' = "refused"
  /\ Unsearched /\ UNCHANGED <<request, targets, quantities, index>>

InsufficientCash ==
  /\ phase = "start"
  /\ SaleAuthorized(request) /\ CandidateAuthorized(request)
  /\ Funding(request) < Config.reserve
  /\ Answer("INSUFFICIENT_CASH")
  /\ Unsearched /\ UNCHANGED <<request, targets, quantities, index>>

(* Estimating although the reserve is not covered. *)
EstimateUncovered ==
  /\ phase = "start"
  /\ SaleAuthorized(request) /\ CandidateAuthorized(request)
  /\ targets' = Targets(request)
  /\ quantities' = InitialQuantities(request)
  /\ index' = Len(Config.weights)
  /\ phase' = "adjust"
  /\ Unsearched /\ UNCHANGED <<request, status>>

Estimate ==
  /\ phase = "start"
  /\ SaleAuthorized(request) /\ CandidateAuthorized(request)
  /\ Funding(request) >= Config.reserve
  /\ targets' = Targets(request)
  /\ quantities' = InitialQuantities(request)
  /\ index' = Len(Config.weights)
  /\ phase' = "adjust"
  /\ Unsearched /\ UNCHANGED <<request, status>>

(* The loop of _enforce_funding: a stage below the minimum is passed over, *)
(* another one is searched.                                                *)
SkipStageStays ==
  /\ phase = "adjust" /\ index > 0 /\ ~Affordable(request, quantities)
  /\ quantities[index] < Config.minimum
  /\ UNCHANGED vars

SkipStage ==
  /\ phase = "adjust" /\ index > 0 /\ ~Affordable(request, quantities)
  /\ quantities[index] < Config.minimum
  /\ index' = index - 1
  /\ Unsearched /\ UNCHANGED <<request, phase, targets, quantities, status>>

StartSearch ==
  /\ phase = "adjust" /\ index > 0 /\ ~Affordable(request, quantities)
  /\ quantities[index] >= Config.minimum
  /\ lower' = 0
  /\ upper' = quantities[index] \div Increment(Config)
  /\ steps' = 0
  /\ phase' = "search"
  /\ UNCHANGED <<request, targets, quantities, index, status>>

(* Increments taken for a quantity. *)
WithIncrements(increments) == [quantities EXCEPT ![index] = increments]
With(increments) == [quantities EXCEPT ![index] = increments * Increment(Config)]

(* Probes that stop at the first quantity they cannot afford, or that keep *)
(* it as an upper bound.                                                   *)
ProbeStops ==
  LET midpoint == (lower + upper + 1) \div 2 IN
  /\ phase = "search" /\ lower < upper /\ steps < SearchLimit
  /\ steps' = steps + 1
  /\ IF Affordable(request, With(midpoint))
       THEN lower' = midpoint /\ upper' = upper
       ELSE upper' = lower /\ lower' = lower
  /\ UNCHANGED <<request, phase, targets, quantities, index, status>>

Probe ==
  LET midpoint == (lower + upper + 1) \div 2 IN
  /\ phase = "search" /\ lower < upper /\ steps < SearchLimit
  /\ steps' = steps + 1
  /\ IF Affordable(request, With(midpoint))
       THEN lower' = midpoint /\ upper' = upper
       ELSE upper' = midpoint - 1 /\ lower' = lower
  /\ UNCHANGED <<request, phase, targets, quantities, index, status>>

(* A search that runs out of steps leaves nothing to buy.                  *)
GiveUp ==
  /\ phase = "search" /\ lower < upper /\ steps >= SearchLimit
  /\ quantities' = Zeros(Config) /\ targets' = Zeros(Config)
  /\ Answer("NO_PURCHASE_QUANTITY")
  /\ Unsearched /\ UNCHANGED <<request, index>>

Settle ==
  /\ phase = "search" /\ lower >= upper
  /\ quantities' = With(lower)
  /\ index' = index - 1
  /\ phase' = "adjust"
  /\ Unsearched /\ UNCHANGED <<request, targets, status>>

Finish ==
  /\ phase = "adjust"
  /\ index = 0 \/ Affordable(request, quantities)
  /\ IF Affordable(request, quantities)
       THEN UNCHANGED <<quantities, targets>>
       ELSE quantities' = Zeros(Config) /\ targets' = Zeros(Config)
  /\ Answer(IF quantities' = Zeros(Config) THEN "NO_PURCHASE_QUANTITY" ELSE "ACTIONABLE")
  /\ Unsearched /\ UNCHANGED <<request, index>>

Init ==
  /\ request \in Requests
  /\ phase = "start" /\ status = "none"
  /\ quantities = Zeros(request.config) /\ targets = Zeros(request.config)
  /\ index = 0 /\ lower = 0 /\ upper = 0 /\ steps = 0

Next ==
  \/ Refuse \/ InsufficientCash \/ Estimate
  \/ SkipStage \/ StartSearch \/ Probe \/ GiveUp \/ Settle
  \/ Finish

Spec == Init /\ [][Next]_vars /\ WF_vars(Next)

-----------------------------------------------------------------------------
(* Properties.                                                             *)

(* size() works on amounts and stages of the request it was given.         *)
TypeOK ==
  /\ request \in Requests
  /\ phase \in {"start", "adjust", "search", "done"}
  /\ status \in Statuses
  /\ targets \in [DOMAIN Config.weights -> Nat]
  /\ quantities \in [DOMAIN Config.weights -> Nat]
  /\ index \in 0 .. Len(Config.weights)
  /\ {lower, upper, steps} \subseteq Nat

(* docs/domain-model.md 27: a recommendation never costs more than the     *)
(* cash and the net sale proceeds leave above the reserve, however the     *)
(* costs of the single stages were rounded.                                *)
NeverOverspends ==
  status = "ACTIONABLE" => TotalRequiredCash(request, quantities) <= Funding(request)

(* docs/domain-model.md 27: every stage buys whole increments and at least *)
(* the minimum, or nothing, also after its quantity was searched again.    *)
WholeLots ==
  \A i \in DOMAIN quantities :
    \/ quantities[i] = 0
    \/ /\ quantities[i] >= Config.minimum
       /\ \E n \in 1 .. quantities[i] : quantities[i] = n * Increment(Config)

(* _max_affordable_stage_quantity always holds the answer between its      *)
(* bounds: what it keeps is affordable and what it has excluded is not.    *)
SearchBracket ==
  phase = "search" =>
    /\ lower <= upper
    /\ upper * Increment(Config) <= quantities[index]
    /\ lower > 0 => Affordable(request, With(lower))
    /\ upper * Increment(Config) < quantities[index] => ~Affordable(request, With(upper + 1))

(* The quantities an adjustment may end in: the first stages keep their    *)
(* estimate, one is cut to some increments, those after it buy nothing.    *)
Cuts(r) ==
  LET start == InitialQuantities(r)
      inc == Increment(r.config)
  IN {start} \cup
     { [i \in DOMAIN start |-> IF i < at THEN start[i] ELSE IF i = at THEN n * inc ELSE 0] :
         at \in DOMAIN start,
         n \in 0 .. start[CHOOSE m \in DOMAIN start :
                            \A j \in DOMAIN start : start[m] >= start[j]] \div inc }

WithinLimit(r) ==
  \A i \in DOMAIN r.config.weights :
    InitialQuantities(r)[i] \div Increment(r.config) < 2 ^ SearchLimit

(* The engine gives up no more than it has to: unless a search ran out of  *)
(* steps, no affordable cut of the estimate buys more than the answer.     *)
BestAffordable ==
  status \in {"ACTIONABLE", "NO_PURCHASE_QUANTITY"} /\ WithinLimit(request) =>
    \A cut \in Cuts(request) :
      /\ \A i \in DOMAIN cut : cut[i] <= InitialQuantities(request)[i]
      /\ Affordable(request, cut)
      => SumFunction(cut) <= SumFunction(quantities)

(* Every request is answered: neither the search nor the loop over the     *)
(* stages runs for ever, whatever the costs are.                           *)
AlwaysAnswers == <>(phase = "done")
=============================================================================
