---------------------------- MODULE SizingProofs ----------------------------
(***************************************************************************)
(* Proofs about the sizing engine, for every request, any number of        *)
(* stages, any costs and any limit on the search.                          *)
(***************************************************************************)
EXTENDS Sizing, SequenceTheorems, MathFacts, TLAPS

(* What the engine keeps true while it adjusts: the parts of WholeLots and *)
(* SearchBracket, and where an actionable answer comes from.               *)
Searching ==
  phase = "search" =>
    /\ index \in 1 .. Len(Config.weights)
    /\ ~Affordable(request, quantities)

AnswerIsAffordable == status = "ACTIONABLE" => Affordable(request, quantities)
Unanswered == phase # "done" => status = "none"

IInv ==
  /\ TypeOK /\ WholeLots /\ SearchBracket
  /\ Searching /\ AnswerIsAffordable /\ Unanswered

(* Facts about numbers the steps rest on. *)
LEMMA DivisionIsNat ==
  ASSUME NEW n \in Nat, NEW d \in Nat \ {0}
  PROVE  n \div d \in Nat
OBVIOUS

(* Products of naturals are natural. *)
LEMMA ProductIsNat ==
  ASSUME NEW m \in Nat, NEW n \in Nat
  PROVE  m * n \in Nat
OBVIOUS

(* A multiple is at least its factor. *)
LEMMA MultipleIsNoSmaller ==
  ASSUME NEW n \in Nat, NEW inc \in Nat \ {0}
  PROVE  n * inc >= n
OBVIOUS

(* The midpoint, rounded up, lies above the lower bound. *)
LEMMA Halfway ==
  ASSUME NEW l \in Nat, NEW u \in Nat, l < u
  PROVE  /\ (l + u + 1) \div 2 \in Nat
         /\ l < (l + u + 1) \div 2
         /\ (l + u + 1) \div 2 <= u
OBVIOUS

(* Stage weights are naturals, however their sequence is given. *)
LEMMA WeightsAreNat ==
  ASSUME NEW T, T \subseteq Nat, NEW w \in Seq(T)
  PROVE  /\ Len(w) \in Nat /\ DOMAIN w = 1 .. Len(w)
         /\ \A i \in DOMAIN w : w[i] \in Nat
<1>1. Len(w) \in Nat /\ w \in [1 .. Len(w) -> T]
  BY LenProperties
<1> QED
  BY <1>1

(* What a request of Requests is made of. *)
LEMMA RequestFacts ==
  ASSUME NEW r \in Requests
  PROVE  /\ r.config \in Configurations
         /\ Len(r.config.weights) \in Nat
         /\ DOMAIN r.config.weights = 1 .. Len(r.config.weights)
         /\ \A i \in DOMAIN r.config.weights : r.config.weights[i] \in Nat
         /\ r.config.quantum \in Nat \ {0}
         /\ r.config.mode \in RoundingModes
         /\ {r.config.buyFee, r.config.buySlip, r.config.saleFee,
             r.config.saleTax, r.config.saleSlip} \subseteq Nat
         /\ r.config.reserve \in Nat
         /\ r.config.minimum \in Nat \ {0} /\ r.config.lot \in Nat \ {0}
         /\ r.config.minimum <= r.config.lot
         /\ {r.saleQuantity, r.held, r.cash} \subseteq Nat
         /\ {r.salePrice, r.price} \subseteq Nat \ {0}
<1>1. ValidRequest(r)
  BY RequestsAssumption
<1>2. r.config \in Configurations /\ r.config.minimum <= r.config.lot
  BY <1>1 DEF ValidRequest, ValidConfiguration
<1>3. r.config.weights \in Seq(1 .. BasisPoints)
  BY <1>2 DEF Configurations
<1>4. /\ r.config.buyFee \in Rates /\ r.config.buySlip \in Rates
      /\ r.config.saleFee \in Rates /\ r.config.saleTax \in Rates
      /\ r.config.saleSlip \in Rates
  BY <1>2 DEF Configurations
<1>5. /\ r.config.quantum \in Nat \ {0} /\ r.config.mode \in RoundingModes
      /\ r.config.reserve \in Nat
      /\ r.config.minimum \in Nat \ {0} /\ r.config.lot \in Nat \ {0}
  BY <1>2 DEF Configurations
<1>6. Rates \subseteq Nat /\ 1 .. BasisPoints \subseteq Nat
  BY DEF Rates, BasisPoints
<1>7. /\ Len(r.config.weights) \in Nat
      /\ DOMAIN r.config.weights = 1 .. Len(r.config.weights)
      /\ \A i \in DOMAIN r.config.weights : r.config.weights[i] \in Nat
  BY <1>3, <1>6, WeightsAreNat
<1>8. /\ {r.saleQuantity, r.held, r.cash} \subseteq Nat
      /\ {r.salePrice, r.price} \subseteq Nat \ {0}
  BY <1>1 DEF ValidRequest
<1>9. {r.config.buyFee, r.config.buySlip, r.config.saleFee,
       r.config.saleTax, r.config.saleSlip} \subseteq Nat
  BY <1>4, <1>6
<1> QED
  BY <1>2, <1>5, <1>7, <1>8, <1>9

(* The increment is positive and at least the minimum. *)
LEMMA IncrementFacts ==
  ASSUME NEW r \in Requests
  PROVE  /\ Increment(r.config) \in Nat \ {0}
         /\ Increment(r.config) >= r.config.minimum
BY RequestFacts DEF Increment

(* Rounding stays among the integers. *)
LEMMA RoundRatioIsInt ==
  ASSUME NEW n \in Int, NEW d \in Nat \ {0}, NEW mode \in RoundingModes
  PROVE  RoundRatio(n, d, mode) \in Int
<1>1. n \div d \in Int /\ n % d \in Nat
  OBVIOUS
<1>2. (n \div d) % 2 \in Int
  BY <1>1
<1>3. 2 * (n % d) < d \/ 2 * (n % d) > d \/ 2 * (n % d) = d
  BY <1>1
<1> QED
  BY <1>1, <1>2, <1>3 DEF RoundRatio, RoundingModes

(* Amounts are whole quanta, and no debts where there is nothing to pay. *)
LEMMA MoneyIsInt ==
  ASSUME NEW r \in Requests, NEW n \in Int, NEW d \in Nat \ {0}
  PROVE  /\ Money(r.config, n, d) \in Int
         /\ MoneyNotIncreasing(r.config, n, d) \in Int
         /\ n >= 0 => MoneyNotIncreasing(r.config, n, d) \in Nat
<1>1. r.config.quantum \in Nat \ {0} /\ r.config.mode \in RoundingModes
  BY RequestFacts
<1>2. d * r.config.quantum \in Nat \ {0}
  BY <1>1
<1> DEFINE q == n \div (d * r.config.quantum)
           x == RoundRatio(n, d * r.config.quantum, r.config.mode)
<1>3. x \in Int
  BY <1>1, <1>2, RoundRatioIsInt
<1>4. q \in Int /\ (n >= 0 => q \in Nat)
  BY <1>2
<1>5. q * r.config.quantum \in Int /\ (q \in Nat => q * r.config.quantum \in Nat)
  <2> HIDE DEF q
  <2> QED BY <1>1, <1>4, ProductIsNat
<1>6. x * r.config.quantum \in Int
  <2> HIDE DEF x
  <2> QED BY <1>1, <1>3
<1> QED
  BY <1>4, <1>5, <1>6 DEF Money, MoneyNotIncreasing

(* Products of integers are integers. *)
LEMMA ProductIsInt ==
  ASSUME NEW m \in Int, NEW n \in Int
  PROVE  m * n \in Int
OBVIOUS

(* The net proceeds of a sale are an amount, if perhaps a negative one. *)
LEMMA NetProceedsIsInt ==
  ASSUME NEW r \in Requests
  PROVE  NetProceeds(r) \in Int
<1> DEFINE c == r.config
           gross == MoneyNotIncreasing(c, r.saleQuantity * r.salePrice, 1)
           post == gross - Money(c, gross * c.saleSlip, BasisPoints)
           fee == Money(c, post * c.saleFee, BasisPoints)
           tax == Money(c, post * c.saleTax, BasisPoints)
<1>1. /\ r.saleQuantity \in Nat /\ r.salePrice \in Nat
      /\ c.saleSlip \in Nat /\ c.saleFee \in Nat /\ c.saleTax \in Nat
  BY RequestFacts
<1>2. BasisPoints \in Nat \ {0} /\ 1 \in Nat \ {0}
  BY DEF BasisPoints
<1>3. gross \in Int
  BY <1>1, <1>2, MoneyIsInt, ProductIsInt
<1>4. post \in Int
  <2>1. gross * c.saleSlip \in Int
    <3> HIDE DEF gross
    <3> QED BY <1>1, <1>3, ProductIsInt
  <2>2. Money(c, gross * c.saleSlip, BasisPoints) \in Int
    BY <2>1, <1>2, MoneyIsInt
  <2> QED BY <1>3, <2>2
<1>5. fee \in Int /\ tax \in Int
  <2>1. post * c.saleFee \in Int /\ post * c.saleTax \in Int
    <3> HIDE DEF post
    <3> QED BY <1>1, <1>4, ProductIsInt
  <2> QED BY <2>1, <1>2, MoneyIsInt
<1>6. post - fee - tax \in Int
  <2> HIDE DEF post, fee, tax
  <2> QED BY <1>4, <1>5
<1>7. MoneyNotIncreasing(c, post - fee - tax, 1) \in Int
  <2> HIDE DEF post, fee, tax
  <2> QED BY <1>2, <1>6, MoneyIsInt
<1> QED
  BY <1>7 DEF NetProceeds

(* So is the cost of one unit. *)
LEMMA UnitCostIsInt ==
  ASSUME NEW r \in Requests
  PROVE  PurchaseCost(r.config, r.price, 1) \in Int
<1> DEFINE c == r.config
           gross == Money(c, 1 * r.price, 1)
           slippage == Money(c, gross * c.buySlip, BasisPoints)
           fee == Money(c, (gross + slippage) * c.buyFee, BasisPoints)
<1>1. r.price \in Nat /\ c.buySlip \in Nat /\ c.buyFee \in Nat
  BY RequestFacts
<1>2. BasisPoints \in Nat \ {0} /\ 1 \in Nat \ {0}
  BY DEF BasisPoints
<1>3. gross \in Int
  BY <1>1, <1>2, MoneyIsInt, ProductIsInt
<1>4. slippage \in Int
  <2>1. gross * c.buySlip \in Int
    <3> HIDE DEF gross
    <3> QED BY <1>1, <1>3, ProductIsInt
  <2> QED BY <2>1, <1>2, MoneyIsInt
<1>5. fee \in Int
  <2>1. (gross + slippage) * c.buyFee \in Int
    <3> HIDE DEF gross, slippage
    <3> QED BY <1>1, <1>3, <1>4, ProductIsInt
  <2> QED BY <2>1, <1>2, MoneyIsInt
<1>6. gross + slippage + fee \in Int
  <2> HIDE DEF gross, slippage, fee
  <2> QED BY <1>3, <1>4, <1>5
<1>7. Money(c, gross + slippage + fee, 1) \in Int
  <2> HIDE DEF gross, slippage, fee
  <2> QED BY <1>2, <1>6, MoneyIsInt
<1> QED
  BY <1>7 DEF PurchaseCost

-----------------------------------------------------------------------------
(* Quantities. *)

WholeLot(r, q) ==
  \/ q = 0
  \/ /\ q >= r.config.minimum
     /\ \E n \in 1 .. q : q = n * Increment(r.config)

(* Whole increments are whole lots. *)
LEMMA MultipleIsWholeLot ==
  ASSUME NEW r \in Requests, NEW n \in Nat
  PROVE  /\ n * Increment(r.config) \in Nat
         /\ WholeLot(r, n * Increment(r.config))
<1> DEFINE inc == Increment(r.config)
<1>1. inc \in Nat \ {0} /\ inc >= r.config.minimum /\ r.config.minimum \in Nat
  BY IncrementFacts, RequestFacts
<1> HIDE DEF inc
<1>2. n * inc \in Nat
  BY <1>1, ProductIsNat
<1>3. CASE n = 0
  <2>1. n * inc = 0
    BY <1>1, <1>3
  <2> QED
    BY <1>2, <2>1 DEF WholeLot, inc
<1>4. CASE n # 0
  <2>1. n * inc >= n /\ inc * n >= inc /\ n * inc = inc * n
    BY <1>1, <1>4, MultipleIsNoSmaller
  <2>2. n \in 1 .. n * inc
    BY <1>2, <1>4, <2>1
  <2>3. n * inc >= r.config.minimum
    BY <1>1, <1>2, <2>1
  <2> QED
    BY <1>2, <2>2, <2>3 DEF WholeLot, inc
<1> QED
  BY <1>3, <1>4

(* The first estimate gives every stage a whole lot or nothing. *)
LEMMA EstimateIsSound ==
  ASSUME NEW r \in Requests, Funding(r) >= r.config.reserve
  PROVE  /\ Targets(r) \in [DOMAIN r.config.weights -> Nat]
         /\ InitialQuantities(r) \in [DOMAIN r.config.weights -> Nat]
         /\ \A i \in DOMAIN r.config.weights : WholeLot(r, InitialQuantities(r)[i])
<1> DEFINE c == r.config
           unitCost == PurchaseCost(c, r.price, 1)
           inc == Increment(c)
<1>1. /\ r.cash \in Nat /\ c.reserve \in Nat /\ BasisPoints \in Nat \ {0}
      /\ c.minimum \in Nat \ {0}
      /\ \A i \in DOMAIN c.weights : c.weights[i] \in Nat
  BY RequestFacts DEF BasisPoints
<1>2. Spendable(r) \in Nat
  BY <1>1, NetProceedsIsInt DEF Spendable, Funding
<1>3. ASSUME NEW i \in DOMAIN c.weights
      PROVE  Targets(r)[i] \in Nat
  <2>1. Spendable(r) * c.weights[i] \in Nat
    BY <1>1, <1>2, ProductIsNat
  <2>2. MoneyNotIncreasing(c, Spendable(r) * c.weights[i], BasisPoints) \in Nat
    BY <1>1, <2>1, MoneyIsInt
  <2> QED
    BY <2>2 DEF Targets
<1>4. Targets(r) \in [DOMAIN c.weights -> Nat]
  BY <1>3 DEF Targets
<1>5. unitCost \in Int
  BY UnitCostIsInt
<1>6. CASE unitCost <= 0
  <2>1. InitialQuantities(r) = Zeros(c)
    BY <1>6 DEF InitialQuantities
  <2> QED
    BY <1>4, <2>1 DEF Zeros, WholeLot
<1>7. CASE unitCost > 0
  <2>1. ASSUME NEW i \in DOMAIN c.weights
        PROVE  /\ InitialQuantities(r)[i] \in Nat
               /\ WholeLot(r, InitialQuantities(r)[i])
    <3> DEFINE target == Targets(r)[i]
               n == target \div (unitCost * inc)
    <3>1. inc \in Nat \ {0} /\ target \in Nat
      BY <1>3, IncrementFacts
    <3>2. unitCost * inc \in Nat \ {0}
      <4> HIDE DEF unitCost, inc
      <4> QED BY <1>5, <1>7, <3>1
    <3>3. n \in Nat
      <4>1. ASSUME NEW d \in Nat \ {0} PROVE target \div d \in Nat
        BY <3>1, DivisionIsNat
      <4> QED BY <3>2, <4>1
    <3>4. n * inc \in Nat /\ WholeLot(r, n * inc)
      BY <3>3, MultipleIsWholeLot
    <3>5. InitialQuantities(r)[i] = QuantityForTarget(c, target, unitCost)
      BY <1>5, <1>7 DEF InitialQuantities
    <3>6. InitialQuantities(r)[i] = n * inc \/ InitialQuantities(r)[i] = 0
      BY <3>5 DEF QuantityForTarget
    <3> QED
      BY <3>4, <3>6 DEF WholeLot
  <2>2. InitialQuantities(r) = [i \in DOMAIN c.weights |-> InitialQuantities(r)[i]]
    BY <1>5, <1>7 DEF InitialQuantities
  <2> QED
    BY <1>4, <2>1, <2>2
<1> QED
  BY <1>5, <1>6, <1>7

-----------------------------------------------------------------------------
(* The invariant. *)

(* WholeLots, stage by stage. *)
LEMMA WholeLotsByStage ==
  ASSUME TypeOK
  PROVE  WholeLots <=> \A i \in DOMAIN Config.weights : WholeLot(request, quantities[i])
BY DEF TypeOK, WholeLots, WholeLot, Config

(* A request starts without quantities. *)
LEMMA InitIInv == Init => IInv
<1> SUFFICES ASSUME Init PROVE IInv
  OBVIOUS
<1>1. Len(Config.weights) \in Nat /\ request \in Requests
  BY RequestFacts DEF Init, Config
<1>2. TypeOK
  BY <1>1 DEF Init, TypeOK, Statuses, Zeros, Config
<1>3. WholeLots
  BY DEF Init, WholeLots, Zeros
<1> QED
  BY <1>2, <1>3 DEF Init, IInv, SearchBracket, Searching, AnswerIsAffordable, Unanswered

(* What the search writes into a stage keeps the type and the lots. *)
LEMMA WithIsSound ==
  ASSUME TypeOK, WholeLots, index \in 1 .. Len(Config.weights), NEW n \in Nat
  PROVE  /\ With(n) \in [DOMAIN Config.weights -> Nat]
         /\ \A i \in DOMAIN Config.weights : WholeLot(request, With(n)[i])
         /\ With(n)[index] = n * Increment(Config)
<1>1. request \in Requests /\ quantities \in [DOMAIN Config.weights -> Nat]
  BY DEF TypeOK
<1>2. DOMAIN Config.weights = 1 .. Len(Config.weights)
  BY <1>1, RequestFacts DEF Config
<1>3. n * Increment(Config) \in Nat /\ WholeLot(request, n * Increment(Config))
  BY <1>1, MultipleIsWholeLot DEF Config
<1>4. \A i \in DOMAIN Config.weights : WholeLot(request, quantities[i])
  BY WholeLotsByStage
<1> QED
  BY <1>1, <1>2, <1>3, <1>4 DEF With

(* Nothing at all is a sound allocation. *)
LEMMA ZerosAreSound ==
  ASSUME request \in Requests
  PROVE  /\ Zeros(Config) \in [DOMAIN Config.weights -> Nat]
         /\ \A i \in DOMAIN Config.weights : WholeLot(request, Zeros(Config)[i])
BY DEF Zeros, WholeLot

(* A step that leaves the search alone and ends outside of it. *)
LEMMA StepKeepsInvariant ==
  ASSUME IInv, UNCHANGED request,
         phase' \in {"start", "adjust", "done"}, status' \in Statuses,
         targets' \in [DOMAIN Config.weights -> Nat],
         quantities' \in [DOMAIN Config.weights -> Nat],
         \A i \in DOMAIN Config.weights : WholeLot(request, quantities'[i]),
         index' \in 0 .. Len(Config.weights),
         UNCHANGED <<lower, upper, steps>>,
         status' = "ACTIONABLE" => Affordable(request, quantities'),
         phase' # "done" => status' = "none"
  PROVE  IInv'
<1>1. Config' = Config
  BY DEF Config
<1>2. TypeOK'
  BY <1>1 DEF IInv, TypeOK
<1>3. WholeLots'
  BY <1>1 DEF WholeLots, WholeLot, Config
<1> QED
  BY <1>2, <1>3 DEF IInv, SearchBracket, Searching, AnswerIsAffordable, Unanswered

(* Every step keeps the invariant. *)
LEMMA NextIInv == IInv /\ [Next]_vars => IInv'
<1> SUFFICES ASSUME IInv, [Next]_vars PROVE IInv'
  OBVIOUS
<1>1. /\ request \in Requests
      /\ targets \in [DOMAIN Config.weights -> Nat]
      /\ quantities \in [DOMAIN Config.weights -> Nat]
      /\ index \in 0 .. Len(Config.weights)
      /\ lower \in Nat /\ upper \in Nat /\ steps \in Nat
      /\ status \in Statuses
  BY DEF IInv, TypeOK
<1>2. /\ Len(Config.weights) \in Nat
      /\ DOMAIN Config.weights = 1 .. Len(Config.weights)
      /\ Config.minimum \in Nat \ {0}
  BY <1>1, RequestFacts DEF Config
<1>3. Increment(Config) \in Nat \ {0}
  BY <1>1, IncrementFacts DEF Config
<1>4. \A i \in DOMAIN Config.weights : WholeLot(request, quantities[i])
  BY WholeLotsByStage DEF IInv
<1>5. /\ Zeros(Config) \in [DOMAIN Config.weights -> Nat]
      /\ \A i \in DOMAIN Config.weights : WholeLot(request, Zeros(Config)[i])
  BY <1>1, ZerosAreSound
<1>6. CASE Refuse
  BY <1>1, <1>4, <1>6, StepKeepsInvariant DEF Refuse, Unsearched, Statuses
<1>7. CASE InsufficientCash
  BY <1>1, <1>4, <1>7, StepKeepsInvariant DEF InsufficientCash, Unsearched, Answer, Statuses
<1>8. CASE Estimate
  <2>1. /\ Targets(request) \in [DOMAIN Config.weights -> Nat]
        /\ InitialQuantities(request) \in [DOMAIN Config.weights -> Nat]
        /\ \A i \in DOMAIN Config.weights : WholeLot(request, InitialQuantities(request)[i])
    BY <1>1, <1>8, EstimateIsSound DEF Estimate, Config
  <2>2. status = "none"
    BY <1>8 DEF Estimate, IInv, Unanswered
  <2> QED
    BY <1>1, <1>2, <1>8, <2>1, <2>2, StepKeepsInvariant DEF Estimate, Unsearched
<1>9. CASE SkipStage
  <2>1. status = "none"
    BY <1>9 DEF SkipStage, IInv, Unanswered
  <2>2. index - 1 \in 0 .. Len(Config.weights)
    BY <1>1, <1>2, <1>9 DEF SkipStage
  <2> QED
    BY <1>1, <1>4, <1>9, <2>1, <2>2, StepKeepsInvariant DEF SkipStage, Unsearched
<1>10. CASE StartSearch
  <2>1. index \in 1 .. Len(Config.weights)
    BY <1>1, <1>2, <1>10 DEF StartSearch
  <2>2. quantities[index] \in Nat /\ quantities[index] >= Config.minimum
    BY <1>1, <1>2, <1>10, <2>1 DEF StartSearch
  <2>3. PICK n \in 1 .. quantities[index] : quantities[index] = n * Increment(Config)
    BY <1>2, <1>4, <2>1, <2>2 DEF WholeLot, Config
  <2>4. upper' = n
    <3>1. \A m \in Nat, d \in Nat \ {0} : (m * d) \div d = m
      OBVIOUS
    <3> QED
      BY <1>3, <1>10, <2>2, <2>3, <3>1 DEF StartSearch
  <2>5. Config' = Config
    BY <1>10 DEF StartSearch, Config
  <2>6. TypeOK'
    BY <1>1, <1>10, <2>2, <2>3, <2>4, <2>5 DEF IInv, TypeOK, StartSearch
  <2>7. WholeLots'
    BY <1>10, <2>5 DEF IInv, WholeLots, StartSearch
  <2>8. SearchBracket'
    BY <1>10, <2>2, <2>3, <2>4, <2>5 DEF SearchBracket, StartSearch
  <2> QED
    BY <1>10, <2>1, <2>5, <2>6, <2>7, <2>8
       DEF IInv, StartSearch, Searching, AnswerIsAffordable, Unanswered
<1>11. CASE Probe
  <2> DEFINE midpoint == (lower + upper + 1) \div 2
  <2>1. midpoint \in Nat /\ lower < midpoint /\ midpoint <= upper
    BY <1>1, <1>11, Halfway DEF Probe
  <2>2. Config' = Config /\ \A n : With(n)' = With(n)
    BY <1>11 DEF Probe, Config, With
  <2>3. /\ lower <= upper /\ upper * Increment(Config) <= quantities[index]
        /\ lower > 0 => Affordable(request, With(lower))
        /\ upper * Increment(Config) < quantities[index] =>
             ~Affordable(request, With(upper + 1))
        /\ quantities[index] \in Nat
    BY <1>1, <1>2, <1>11 DEF IInv, SearchBracket, Searching, Probe
  <2>4. WholeLots'
    BY <1>11, <2>2 DEF IInv, WholeLots, Probe
  <2>5. /\ Searching' /\ AnswerIsAffordable' /\ Unanswered'
    BY <1>11, <2>2 DEF IInv, Searching, AnswerIsAffordable, Unanswered, Probe
  <2>6. CASE Affordable(request, With(midpoint))
    <3>1. lower' = midpoint /\ upper' = upper
      BY <1>11, <2>6 DEF Probe
    <3> HIDE DEF midpoint
    <3>2. TypeOK'
      BY <1>1, <1>11, <2>1, <2>2, <3>1 DEF IInv, TypeOK, Probe
    <3>3. SearchBracket'
      BY <1>11, <2>1, <2>2, <2>3, <2>6, <3>1 DEF SearchBracket, Probe
    <3> QED
      BY <2>4, <2>5, <3>2, <3>3 DEF IInv
  <2>7. CASE ~Affordable(request, With(midpoint))
    <3>1. lower' = lower /\ upper' = midpoint - 1
      BY <1>11, <2>7 DEF Probe
    <3> HIDE DEF midpoint
    <3>2. midpoint - 1 \in Nat /\ (midpoint - 1) + 1 = midpoint /\ lower <= midpoint - 1
      BY <1>1, <2>1
    <3>3. TypeOK'
      BY <1>1, <1>11, <2>2, <3>1, <3>2 DEF IInv, TypeOK, Probe
    <3>4. (midpoint - 1) * Increment(Config) <= upper * Increment(Config)
      <4>1. \A a, b, d \in Nat : a <= b => a * d <= b * d
        OBVIOUS
      <4> QED
        BY <1>1, <1>3, <2>1, <3>2, <4>1
    <3>5. (midpoint - 1) * Increment(Config) <= quantities[index]
      <4>1. (midpoint - 1) * Increment(Config) \in Nat /\ upper * Increment(Config) \in Nat
        BY <1>1, <1>3, <3>2, ProductIsNat
      <4> QED
        BY <2>3, <3>4, <4>1
    <3>6. SearchBracket'
      BY <1>11, <2>1, <2>2, <2>3, <2>7, <3>1, <3>2, <3>5 DEF SearchBracket, Probe
    <3> QED
      BY <2>4, <2>5, <3>3, <3>6 DEF IInv
  <2> QED
    BY <2>6, <2>7
<1>12. CASE GiveUp
  BY <1>1, <1>5, <1>12, StepKeepsInvariant DEF GiveUp, Unsearched, Answer, Statuses
<1>13. CASE Settle
  <2>1. index \in 1 .. Len(Config.weights) /\ TypeOK /\ WholeLots
    BY <1>13 DEF IInv, Searching, Settle
  <2>2. /\ With(lower) \in [DOMAIN Config.weights -> Nat]
        /\ \A i \in DOMAIN Config.weights : WholeLot(request, With(lower)[i])
    BY <1>1, <2>1, WithIsSound
  <2>3. status = "none"
    BY <1>13 DEF Settle, IInv, Unanswered
  <2>4. index - 1 \in 0 .. Len(Config.weights)
    BY <1>2, <2>1
  <2> QED
    BY <1>1, <1>13, <2>2, <2>3, <2>4, StepKeepsInvariant DEF Settle, Unsearched
<1>14. CASE Finish
  <2>1. CASE Affordable(request, quantities)
    BY <1>1, <1>4, <1>14, <2>1, StepKeepsInvariant DEF Finish, Unsearched, Answer, Statuses
  <2>2. CASE ~Affordable(request, quantities)
    BY <1>1, <1>5, <1>14, <2>2, StepKeepsInvariant DEF Finish, Unsearched, Answer, Statuses
  <2> QED
    BY <2>1, <2>2
<1>15. CASE UNCHANGED vars
  BY <1>15 DEF vars, IInv, TypeOK, WholeLots, SearchBracket, Searching,
               AnswerIsAffordable, Unanswered, Config, With
<1> QED
  BY <1>6, <1>7, <1>8, <1>9, <1>10, <1>11, <1>12, <1>13, <1>14, <1>15 DEF Next

-----------------------------------------------------------------------------
(* size() keeps its amounts and stages well formed, for every request.     *)
THEOREM SizingTypeOK == Spec => []TypeOK
<1>1. IInv => TypeOK
  BY DEF IInv
<1> QED
  BY <1>1, InitIInv, NextIInv, PTL DEF Spec

(* docs/domain-model.md 27, the lot rules: every stage buys whole          *)
(* increments and at least the minimum, or nothing.                        *)
THEOREM SizingWholeLots == Spec => []WholeLots
<1>1. IInv => WholeLots
  BY DEF IInv
<1> QED
  BY <1>1, InitIInv, NextIInv, PTL DEF Spec

(* _max_affordable_stage_quantity brackets its answer, whatever the costs  *)
(* and their rounding are: no assumption on their monotonicity is needed.  *)
THEOREM SizingSearchBracket == Spec => []SearchBracket
<1>1. IInv => SearchBracket
  BY DEF IInv
<1> QED
  BY <1>1, InitIInv, NextIInv, PTL DEF Spec

(* docs/domain-model.md 27, the funding inequality: an actionable result   *)
(* never requires more cash than there is after the reserve.               *)
THEOREM SizingNeverOverspends == Spec => []NeverOverspends
<1>1. IInv => NeverOverspends
  BY DEF IInv, AnswerIsAffordable, NeverOverspends, Affordable, TotalCash, TotalRequiredCash
<1> QED
  BY <1>1, InitIInv, NextIInv, PTL DEF Spec

-----------------------------------------------------------------------------
(* Costs grow with quantities, whatever the rounding is. *)

(* Rounding keeps the order, in every mode.                                *)
LEMMA RoundRatioGrows ==
  ASSUME NEW m \in Nat, NEW n \in Nat, m <= n, NEW d \in Nat \ {0}, NEW mode \in RoundingModes
  PROVE  /\ RoundRatio(m, d, mode) \in Nat
         /\ RoundRatio(m, d, mode) <= RoundRatio(n, d, mode)
<1> DEFINE mq == m \div d
           nq == n \div d
           mr == m % d
           nr == n % d
           up(q, r) == IF mode = "DOWN" \/ 2 * r < d THEN q
                       ELSE IF 2 * r > d \/ mode = "HALF_UP" THEN q + 1
                       ELSE q + (q % 2)
<1>1. mq \in Nat /\ nq \in Nat /\ mr \in 0 .. d - 1 /\ nr \in 0 .. d - 1
  OBVIOUS
<1>2. mq <= nq /\ (mq = nq => mr <= nr)
  BY DivisionGrows
<1>3. RoundRatio(m, d, mode) = up(mq, mr) /\ RoundRatio(n, d, mode) = up(nq, nr)
  <2>1. mode = "DOWN" \/ mode = "HALF_UP" \/ mode = "HALF_EVEN"
    BY DEF RoundingModes
  <2>2. ASSUME NEW k \in Nat PROVE RoundRatio(k, d, mode) = up(k \div d, k % d)
    <3> DEFINE q == k \div d
               r == k % d
    <3>1. q \in Nat /\ r \in Nat
      OBVIOUS
    <3>2. 2 * r < d \/ 2 * r > d \/ 2 * r = d
      BY <3>1
    <3>3. k >= 0
      OBVIOUS
    <3>4. CASE mode = "DOWN"
      BY <3>3, <3>4 DEF RoundRatio
    <3>5. CASE mode # "DOWN" /\ 2 * r < d
      BY <3>1, <3>5 DEF RoundRatio
    <3>6. CASE mode # "DOWN" /\ 2 * r > d
      BY <3>1, <3>6 DEF RoundRatio
    <3>7. CASE mode = "HALF_UP" /\ 2 * r = d
      BY <3>1, <3>3, <3>7 DEF RoundRatio
    <3>8. CASE mode = "HALF_EVEN" /\ 2 * r = d
      BY <3>1, <3>8 DEF RoundRatio
    <3> HIDE DEF q, r, up
    <3> QED BY <2>1, <3>2, <3>4, <3>5, <3>6, <3>7, <3>8
  <2> QED BY <2>2
<1> HIDE DEF mq, nq, mr, nr
<1>4. mq % 2 \in {0, 1} /\ nq % 2 \in {0, 1}
  BY <1>1
<1>5. up(mq, mr) \in Nat /\ up(mq, mr) <= mq + 1 /\ up(nq, nr) >= nq
  BY <1>1, <1>4
<1>6. mq = nq => up(mq, mr) <= up(nq, nr)
  BY <1>1, <1>2, <1>4
<1>7. up(nq, nr) \in Nat
  BY <1>1, <1>4
<1> HIDE DEF up
<1> QED
  BY <1>1, <1>2, <1>3, <1>5, <1>6, <1>7

(* So does counting in quanta.                                             *)
LEMMA MoneyGrows ==
  ASSUME NEW r \in Requests, NEW m \in Nat, NEW n \in Nat, m <= n, NEW d \in Nat \ {0}
  PROVE  /\ Money(r.config, m, d) \in Nat /\ Money(r.config, n, d) \in Nat
         /\ Money(r.config, m, d) <= Money(r.config, n, d)
<1>1. r.config.quantum \in Nat \ {0} /\ r.config.mode \in RoundingModes
  BY RequestFacts
<1>2. d * r.config.quantum \in Nat \ {0}
  BY <1>1
<1> DEFINE x == RoundRatio(m, d * r.config.quantum, r.config.mode)
           y == RoundRatio(n, d * r.config.quantum, r.config.mode)
<1>3. x \in Nat /\ x <= y
  BY <1>1, <1>2, RoundRatioGrows
<1>4. y \in Nat
  <2>1. n <= n
    OBVIOUS
  <2> QED BY <1>1, <1>2, <2>1, RoundRatioGrows
<1> HIDE DEF x, y
<1>5. /\ x * r.config.quantum \in Nat /\ y * r.config.quantum \in Nat
      /\ x * r.config.quantum <= y * r.config.quantum
  BY <1>1, <1>3, <1>4, ProductGrows
<1> QED
  BY <1>5 DEF Money, x, y

(* The cost of a purchase grows with its quantity, however its parts are   *)
(* rounded.                                                                *)
LEMMA PurchaseCostGrows ==
  ASSUME NEW r \in Requests, NEW m \in Nat, NEW n \in Nat, m <= n
  PROVE  /\ PurchaseCost(r.config, r.price, m) \in Nat
         /\ PurchaseCost(r.config, r.price, n) \in Nat
         /\ PurchaseCost(r.config, r.price, m) <= PurchaseCost(r.config, r.price, n)
<1> DEFINE c == r.config
           gross(q) == Money(c, q * r.price, 1)
           slippage(q) == Money(c, gross(q) * c.buySlip, BasisPoints)
           both(q) == gross(q) + slippage(q)
           fee(q) == Money(c, both(q) * c.buyFee, BasisPoints)
<1>1. r.price \in Nat /\ c.buySlip \in Nat /\ c.buyFee \in Nat
  BY RequestFacts
<1>2. BasisPoints \in Nat \ {0} /\ 1 \in Nat \ {0}
  BY DEF BasisPoints
<1>3. gross(m) \in Nat /\ gross(n) \in Nat /\ gross(m) <= gross(n)
  <2>1. m * r.price \in Nat /\ n * r.price \in Nat /\ m * r.price <= n * r.price
    BY <1>1, ProductGrows
  <2> QED BY <1>2, <2>1, MoneyGrows
<1>4. slippage(m) \in Nat /\ slippage(n) \in Nat /\ slippage(m) <= slippage(n)
  <2> HIDE DEF gross
  <2>1. /\ gross(m) * c.buySlip \in Nat /\ gross(n) * c.buySlip \in Nat
        /\ gross(m) * c.buySlip <= gross(n) * c.buySlip
    BY <1>1, <1>3, ProductGrows
  <2> QED BY <1>2, <2>1, MoneyGrows
<1>5. both(m) \in Nat /\ both(n) \in Nat /\ both(m) <= both(n)
  <2> HIDE DEF gross, slippage
  <2> QED BY <1>3, <1>4
<1>6. fee(m) \in Nat /\ fee(n) \in Nat /\ fee(m) <= fee(n)
  <2> HIDE DEF both
  <2>1. /\ both(m) * c.buyFee \in Nat /\ both(n) * c.buyFee \in Nat
        /\ both(m) * c.buyFee <= both(n) * c.buyFee
    BY <1>1, <1>5, ProductGrows
  <2> QED BY <1>2, <2>1, MoneyGrows
<1>7. /\ both(m) + fee(m) \in Nat /\ both(n) + fee(n) \in Nat
      /\ both(m) + fee(m) <= both(n) + fee(n)
  <2> HIDE DEF both, fee
  <2> QED BY <1>5, <1>6
<1>8. /\ Money(c, both(m) + fee(m), 1) \in Nat /\ Money(c, both(n) + fee(n), 1) \in Nat
      /\ Money(c, both(m) + fee(m), 1) <= Money(c, both(n) + fee(n), 1)
  <2> HIDE DEF both, fee
  <2> QED BY <1>2, <1>7, MoneyGrows
<1> QED
  BY <1>8 DEF PurchaseCost

(* What a smaller purchase costs is affordable if the larger one is, and   *)
(* it buys less.                                                           *)
LEMMA LessIsAffordable ==
  ASSUME NEW r \in Requests,
         NEW p \in [DOMAIN r.config.weights -> Nat],
         NEW q \in [DOMAIN r.config.weights -> Nat],
         \A i \in DOMAIN r.config.weights : p[i] <= q[i]
  PROVE  /\ Affordable(r, q) => Affordable(r, p)
         /\ SumFunction(p) <= SumFunction(q)
<1> DEFINE D == DOMAIN r.config.weights
           cost(x) == [i \in DOMAIN x |-> PurchaseCost(r.config, r.price, x[i])]
<1>1. IsFiniteSet(D)
  <2>1. D = 1 .. Len(r.config.weights) /\ Len(r.config.weights) \in Nat
    BY RequestFacts
  <2>2. 1 \in Int /\ Len(r.config.weights) \in Int
    BY <2>1
  <2> QED BY <2>1, <2>2, FS_Interval
<1>2. DOMAIN p = D /\ DOMAIN q = D
  OBVIOUS
<1>3. SumFunction(p) <= SumFunction(q)
  <2>1. \A i \in D : p[i] \in Int /\ q[i] \in Int /\ p[i] <= q[i]
    OBVIOUS
  <2> HIDE DEF D
  <2> QED BY <1>1, <1>2, <2>1, SumFunctionGrows
<1>4. /\ SumFunction(cost(p)) \in Int /\ SumFunction(cost(q)) \in Int
      /\ SumFunction(cost(p)) <= SumFunction(cost(q))
  <2>1. DOMAIN cost(p) = D /\ DOMAIN cost(q) = D
    OBVIOUS
  <2>2. ASSUME NEW i \in D
        PROVE  cost(p)[i] \in Int /\ cost(q)[i] \in Int /\ cost(p)[i] <= cost(q)[i]
    <3>1. p[i] \in Nat /\ q[i] \in Nat /\ p[i] <= q[i]
      OBVIOUS
    <3>2. /\ PurchaseCost(r.config, r.price, p[i]) \in Nat
          /\ PurchaseCost(r.config, r.price, q[i]) \in Nat
          /\ PurchaseCost(r.config, r.price, p[i]) <= PurchaseCost(r.config, r.price, q[i])
      BY <3>1, PurchaseCostGrows
    <3> QED BY <1>2, <3>2
  <2> HIDE DEF cost, D
  <2> QED BY <1>1, <2>1, <2>2, SumFunctionGrows
<1>5. r.config.reserve \in Nat /\ Funding(r) \in Int
  BY RequestFacts, NetProceedsIsInt DEF Funding
<1>6. StageCash(r, p) = SumFunction(cost(p)) /\ StageCash(r, q) = SumFunction(cost(q))
  BY DEF StageCash
<1> HIDE DEF cost
<1> QED
  BY <1>3, <1>4, <1>5, <1>6 DEF Affordable, TotalCash

-----------------------------------------------------------------------------
(* The cuts of an estimate. *)

Estimated(r) == InitialQuantities(r) \in [DOMAIN r.config.weights -> Nat]

(* A cut keeps the estimate up to a stage, cuts this one to some number of *)
(* increments and drops what is after it.                                  *)
IsCut(r, cut, at, n) ==
  \A i \in DOMAIN r.config.weights :
    cut[i] = IF i < at THEN InitialQuantities(r)[i]
             ELSE IF i = at THEN n * Increment(r.config) ELSE 0

(* The quantities of a cut, the estimate itself being one.                 *)
LEMMA CutFacts ==
  ASSUME NEW r \in Requests, Estimated(r), NEW cut \in Cuts(r)
  PROVE  /\ cut \in [DOMAIN r.config.weights -> Nat]
         /\ \/ cut = InitialQuantities(r)
            \/ \E at \in DOMAIN r.config.weights, n \in Nat : IsCut(r, cut, at, n)
<1> DEFINE start == InitialQuantities(r)
           inc == Increment(r.config)
           D == DOMAIN r.config.weights
           top == start[CHOOSE m \in DOMAIN start : \A j \in DOMAIN start : start[m] >= start[j]]
<1>1. inc \in Nat \ {0}
  BY IncrementFacts
<1>2. start \in [D -> Nat] /\ DOMAIN start = D
  BY DEF Estimated
<1>3. CASE cut = start
  BY <1>2, <1>3
<1>4. CASE cut # start
  <2>1. PICK at \in D, n \in 0 .. top \div inc :
          cut = [i \in D |-> IF i < at THEN start[i] ELSE IF i = at THEN n * inc ELSE 0]
    <3>1. \E at \in DOMAIN start, n \in 0 .. top \div inc :
            cut = [i \in DOMAIN start |->
                     IF i < at THEN start[i] ELSE IF i = at THEN n * inc ELSE 0]
      <4> DEFINE Made == {[i \in DOMAIN start |->
                             IF i < at THEN start[i] ELSE IF i = at THEN n * inc ELSE 0] :
                            at \in DOMAIN start, n \in 0 .. top \div inc}
      <4>1. Cuts(r) = {start} \cup Made
        BY DEF Cuts
      <4>2. cut \in Made
        <5> HIDE DEF Made, start
        <5> QED BY <1>4, <4>1
      <4> HIDE DEF start, inc, top
      <4> QED BY <4>2
    <3> HIDE DEF inc, start, D, top
    <3> QED BY <1>2, <3>1
  <2>2. n \in Nat
    OBVIOUS
  <2>3. n * inc \in Nat
    BY <1>1, <2>2, ProductIsNat
  <2>4. IsCut(r, cut, at, n)
    BY <2>1 DEF IsCut
  <2>5. cut \in [D -> Nat]
    <3> HIDE DEF inc, start, D
    <3> QED BY <1>2, <2>1, <2>3
  <2> QED BY <2>2, <2>4, <2>5
<1> QED
  BY <1>3, <1>4

(* No affordable cut of the estimate buys more than q.                     *)
BuysMost(r, q) ==
  \A cut \in Cuts(r) :
    /\ \A i \in DOMAIN cut : cut[i] <= InitialQuantities(r)[i]
    /\ Affordable(r, cut)
    => SumFunction(cut) <= SumFunction(q)

(* The estimate up to stage k, and nothing after it.                       *)
KeptUpTo(r, q, k) ==
  \A i \in DOMAIN r.config.weights :
    q[i] = IF i <= k THEN InitialQuantities(r)[i] ELSE 0

(* If the estimate is too dear although all after stage k is dropped, a    *)
(* cut of a later stage is too dear, and so is the estimate.               *)
LEMMA LaterCutsAreUnaffordable ==
  ASSUME NEW r \in Requests, Estimated(r), NEW k \in Nat,
         NEW q \in [DOMAIN r.config.weights -> Nat],
         KeptUpTo(r, q, k), ~ Affordable(r, q)
  PROVE  /\ ~ Affordable(r, InitialQuantities(r))
         /\ \A cut \in [DOMAIN r.config.weights -> Nat],
               at \in DOMAIN r.config.weights, n \in Nat :
               IsCut(r, cut, at, n) /\ at > k => ~ Affordable(r, cut)
<1>1. DOMAIN r.config.weights \subseteq Nat
  BY RequestFacts
<1>2. InitialQuantities(r) \in [DOMAIN r.config.weights -> Nat]
  BY DEF Estimated
<1>3. ~ Affordable(r, InitialQuantities(r))
  <2>1. \A i \in DOMAIN r.config.weights : q[i] <= InitialQuantities(r)[i]
    BY <1>2 DEF KeptUpTo
  <2> QED BY <1>2, <2>1, LessIsAffordable
<1>4. ASSUME NEW cut \in [DOMAIN r.config.weights -> Nat],
             NEW at \in DOMAIN r.config.weights, NEW n \in Nat,
             IsCut(r, cut, at, n), at > k
      PROVE  ~ Affordable(r, cut)
  <2>1. ASSUME NEW i \in DOMAIN r.config.weights PROVE q[i] <= cut[i]
    <3>1. i \in Nat /\ at \in Nat /\ q[i] \in Nat /\ cut[i] \in Nat
      BY <1>1
    <3>2. CASE i <= k
      BY <1>4, <3>1, <3>2 DEF KeptUpTo, IsCut
    <3>3. CASE ~ (i <= k)
      BY <3>1, <3>3 DEF KeptUpTo
    <3> QED BY <3>2, <3>3
  <2> QED BY <2>1, LessIsAffordable
<1> QED
  BY <1>3, <1>4

(* A stage cut to the most increments that are affordable makes the best   *)
(* of the estimate, if it is too dear with that stage uncut.               *)
LEMMA BestCut ==
  ASSUME NEW r \in Requests, Estimated(r), NEW k \in DOMAIN r.config.weights,
         NEW q \in [DOMAIN r.config.weights -> Nat],
         KeptUpTo(r, q, k), ~ Affordable(r, q),
         NEW low \in Nat, low * Increment(r.config) <= q[k],
         (low + 1) * Increment(r.config) <= q[k] =>
           ~ Affordable(r, [q EXCEPT ![k] = (low + 1) * Increment(r.config)])
  PROVE  BuysMost(r, [q EXCEPT ![k] = low * Increment(r.config)])
<1> DEFINE D == DOMAIN r.config.weights
           inc == Increment(r.config)
           start == InitialQuantities(r)
           more == [q EXCEPT ![k] = (low + 1) * Increment(r.config)]
           new == [q EXCEPT ![k] = low * Increment(r.config)]
<1>1. D \subseteq Nat /\ inc \in Nat \ {0} /\ start \in [D -> Nat]
  BY RequestFacts, IncrementFacts DEF Estimated
<1>2. low * inc \in Nat /\ (low + 1) * inc \in Nat
  <2> HIDE DEF inc
  <2> QED BY <1>1, ProductIsNat
<1>3. /\ new \in [D -> Nat] /\ more \in [D -> Nat]
      /\ \A i \in D : new[i] = IF i = k THEN low * inc ELSE q[i]
      /\ \A i \in D : more[i] = IF i = k THEN (low + 1) * inc ELSE q[i]
  <2> HIDE DEF inc
  <2> QED BY <1>2 DEF inc
<1>4. \A i \in D : q[i] = IF i <= k THEN start[i] ELSE 0
  BY DEF KeptUpTo
<1> SUFFICES ASSUME NEW cut \in Cuts(r),
                    \A i \in DOMAIN cut : cut[i] <= start[i], Affordable(r, cut)
             PROVE  SumFunction(cut) <= SumFunction(new)
  BY DEF BuysMost
<1>5. cut \in [D -> Nat]
  BY CutFacts
<1>6. k \in Nat
  BY <1>1
<1>7. PICK at \in D, n \in Nat : IsCut(r, cut, at, n) /\ at <= k
  <2>1. cut # start
    BY <1>6, LaterCutsAreUnaffordable
  <2>2. PICK at \in D, n \in Nat : IsCut(r, cut, at, n)
    BY <2>1, CutFacts
  <2>3. ~ (at > k)
    BY <1>5, <1>6, <2>2, LaterCutsAreUnaffordable
  <2> QED BY <1>1, <1>6, <2>2, <2>3
<1>8. \A i \in D : cut[i] = IF i < at THEN start[i] ELSE IF i = at THEN n * inc ELSE 0
  BY <1>7 DEF IsCut
<1>9. \A i \in D : cut[i] \in Nat /\ start[i] \in Nat /\ q[i] \in Nat /\ cut[i] <= start[i]
  BY <1>1, <1>5
<1>10. at \in Nat /\ at <= k
  BY <1>1, <1>7
<1>11. (at = k) => n <= low
  <2> SUFFICES ASSUME at = k, ~ (n <= low) PROVE FALSE
    OBVIOUS
  <2>1. n * inc = cut[k] /\ q[k] = start[k] /\ cut[k] <= q[k] /\ q[k] \in Nat
    <3> HIDE DEF inc, start
    <3> QED BY <1>4, <1>6, <1>8, <1>9, <1>10
  <2>2. (low + 1) * inc <= n * inc /\ n * inc \in Nat
    <3>1. low + 1 \in Nat /\ low + 1 <= n
      OBVIOUS
    <3> HIDE DEF inc
    <3> QED BY <1>1, <3>1, ProductGrows
  <2>3. (low + 1) * inc <= q[k]
    <3> HIDE DEF inc
    <3> QED BY <1>2, <2>1, <2>2
  <2>4. ~ Affordable(r, more)
    BY <2>3
  <2>5. ASSUME NEW i \in D PROVE more[i] <= cut[i]
    <3>1. i \in Nat
      BY <1>1
    <3> HIDE DEF inc, start, more, new
    <3>2. CASE i = k
      BY <1>2, <1>3, <2>1, <2>2, <3>2
    <3>3. CASE i < k
      BY <1>3, <1>4, <1>8, <1>9, <1>6, <3>1, <3>3
    <3>4. CASE i > k
      BY <1>3, <1>4, <1>8, <1>9, <1>6, <3>1, <3>4
    <3> QED BY <1>6, <3>1, <3>2, <3>3, <3>4
  <2> HIDE DEF more, new, start, inc
  <2> QED BY <1>3, <1>5, <2>4, <2>5, LessIsAffordable
<1>12. ASSUME NEW i \in D PROVE cut[i] <= new[i]
  <2>1. i \in Nat
    BY <1>1
  <2>2. (at = k) => n * inc <= low * inc
    <3> HIDE DEF inc
    <3> QED BY <1>1, <1>11, ProductGrows
  <2> HIDE DEF inc, start, more, new
  <2>3. CASE at = k
    BY <1>2, <1>3, <1>4, <1>6, <1>8, <1>9, <2>1, <2>2, <2>3
  <2>4. CASE at < k
    <3>1. CASE i <= at
      BY <1>3, <1>4, <1>6, <1>9, <1>10, <2>1, <2>4, <3>1
    <3>2. CASE i > at
      <4>1. cut[i] = 0 /\ new[i] \in Nat
        BY <1>3, <1>8, <1>10, <2>1, <3>2
      <4> QED BY <4>1
    <3> QED BY <1>10, <2>1, <3>1, <3>2
  <2> QED BY <1>6, <1>10, <2>3, <2>4
<1> HIDE DEF new
<1> QED
  BY <1>3, <1>5, <1>12, LessIsAffordable

-----------------------------------------------------------------------------
(* While the estimate is cut down, the stages that were not looked at yet  *)
(* keep theirs, those after them buy nothing as long as it is too dear,    *)
(* and what is affordable at last is the best cut.                         *)
Cutting ==
  phase \in {"adjust", "search"} =>
    /\ Estimated(request)
    /\ ~ Affordable(request, quantities) => KeptUpTo(request, quantities, index)
    /\ Affordable(request, quantities) => BuysMost(request, quantities)

(* Each probe halves what is left to search, so that an estimate within    *)
(* the limit is searched to the end.                                       *)
Halving ==
  phase = "search" /\ WithinLimit(request) =>
    /\ steps <= SearchLimit
    /\ (upper - lower) * 2 ^ steps < 2 ^ SearchLimit

BestInv == Cutting /\ Halving /\ BestAffordable

(* A step that answers, or leaves the engine adjusting.                    *)
LEMMA StepKeepsBest ==
  ASSUME BestInv, UNCHANGED request, phase' \in {"start", "adjust", "done"},
         phase' = "adjust" =>
           /\ Estimated(request)
           /\ ~ Affordable(request, quantities') => KeptUpTo(request, quantities', index')
           /\ Affordable(request, quantities') => BuysMost(request, quantities'),
         status' \in {"ACTIONABLE", "NO_PURCHASE_QUANTITY"} /\ WithinLimit(request) =>
           BuysMost(request, quantities')
  PROVE  BestInv'
<1>1. Cutting'
  BY DEF Cutting
<1>2. Halving'
  BY DEF Halving
<1>3. BestAffordable'
  BY DEF BestAffordable, BuysMost
<1> QED
  BY <1>1, <1>2, <1>3 DEF BestInv

(* A probe at least halves the gap between the bounds.                     *)
LEMMA ProbeHalves ==
  ASSUME NEW l \in Nat, NEW u \in Nat, l < u
  PROVE  /\ u - (l + u + 1) \div 2 \in Nat
         /\ 2 * (u - (l + u + 1) \div 2) <= u - l
         /\ ((l + u + 1) \div 2) - 1 - l \in Nat
         /\ 2 * (((l + u + 1) \div 2) - 1 - l) <= u - l
OBVIOUS

(* A gap that is halved fits twice the power of two it fitted.             *)
LEMMA HalvedGapFits ==
  ASSUME NEW g \in Nat, NEW h \in Nat, 2 * h <= g,
         NEW p \in Nat, NEW m \in Nat, g * p < m
  PROVE  h * (2 * p) < m
<1>1. (2 * h) * p <= g * p /\ g * p \in Nat /\ (2 * h) * p \in Nat
  <2>1. 2 * h \in Nat
    OBVIOUS
  <2> QED BY <2>1, ProductGrows
<1>2. h * (2 * p) = (2 * h) * p
  OBVIOUS
<1> QED
  BY <1>1, <1>2

(* A search ends within the limit if its stage does.                       *)
LEMMA SearchEndsWithinLimit ==
  ASSUME Halving, TypeOK, WithinLimit(request), phase = "search", lower < upper
  PROVE  steps < SearchLimit
<1> SUFFICES ASSUME steps >= SearchLimit PROVE FALSE
  BY SearchLimitAssumption DEF TypeOK
<1>1. steps = SearchLimit /\ (upper - lower) * 2 ^ SearchLimit < 2 ^ SearchLimit
  BY SearchLimitAssumption DEF Halving, TypeOK
<1>2. upper - lower \in Nat /\ upper - lower >= 1
  BY DEF TypeOK
<1>3. 2 ^ SearchLimit \in Nat
  BY SearchLimitAssumption, PowersOfTwo
<1> DEFINE p == 2 ^ SearchLimit
           g == upper - lower
<1>4. p \in Nat /\ g \in Nat /\ 1 <= g /\ g * p < p
  BY <1>1, <1>2, <1>3
<1> HIDE DEF p, g
<1>5. 1 * p <= g * p /\ g * p \in Nat
  BY <1>4, ProductGrows
<1> QED
  BY <1>4, <1>5

(* A request starts with no answer.                                        *)
LEMMA InitBestInv == Init => BestInv
BY DEF Init, BestInv, Cutting, Halving, BestAffordable

(* Every step keeps what makes the answer the best.                        *)
LEMMA NextBestInv == IInv /\ BestInv /\ [Next]_vars => BestInv'
<1> SUFFICES ASSUME IInv, BestInv, [Next]_vars PROVE BestInv'
  OBVIOUS
<1>1. /\ request \in Requests
      /\ quantities \in [DOMAIN Config.weights -> Nat]
      /\ index \in 0 .. Len(Config.weights)
      /\ lower \in Nat /\ upper \in Nat /\ steps \in Nat
  BY DEF IInv, TypeOK
<1>2. /\ Len(Config.weights) \in Nat
      /\ DOMAIN Config.weights = 1 .. Len(Config.weights)
  BY <1>1, RequestFacts DEF Config
<1>3. phase # "done" => status = "none"
  BY DEF IInv, Unanswered
<1>4. phase \in {"adjust", "search"} =>
        /\ Estimated(request)
        /\ ~ Affordable(request, quantities) => KeptUpTo(request, quantities, index)
        /\ Affordable(request, quantities) => BuysMost(request, quantities)
  BY DEF BestInv, Cutting
<1>5. Increment(Config) \in Nat \ {0}
  BY <1>1, IncrementFacts DEF Config
<1>6. CASE Refuse
  BY <1>6, StepKeepsBest DEF Refuse
<1>7. CASE InsufficientCash
  BY <1>7, StepKeepsBest DEF InsufficientCash, Answer
<1>8. CASE Estimate
  <2>1. Estimated(request)
    BY <1>1, <1>8, EstimateIsSound DEF Estimate, Estimated, Config
  <2>2. KeptUpTo(request, quantities', index')
    BY <1>2, <1>8 DEF Estimate, KeptUpTo, Config
  <2>3. BuysMost(request, quantities')
    <3> SUFFICES ASSUME NEW cut \in Cuts(request),
                        \A i \in DOMAIN cut : cut[i] <= InitialQuantities(request)[i]
                 PROVE  SumFunction(cut) <= SumFunction(InitialQuantities(request))
      BY <1>8 DEF Estimate, BuysMost
    <3>1. cut \in [DOMAIN request.config.weights -> Nat]
      BY <1>1, <2>1, CutFacts
    <3>2. \A i \in DOMAIN request.config.weights : cut[i] <= InitialQuantities(request)[i]
      BY <3>1
    <3> QED BY <1>1, <2>1, <3>1, <3>2, LessIsAffordable DEF Estimated
  <2> QED
    BY <1>3, <1>8, <2>1, <2>2, <2>3, StepKeepsBest DEF Estimate
<1>9. CASE SkipStage
  <2>1. index \in DOMAIN Config.weights /\ quantities[index] \in Nat
    BY <1>1, <1>2, <1>9 DEF SkipStage
  <2>2. quantities[index] = 0
    <3>1. Config.minimum \in Nat
      BY <1>1, RequestFacts DEF Config
    <3>2. ~ (quantities[index] >= Config.minimum)
      BY <1>9, <2>1, <3>1 DEF SkipStage
    <3> QED BY <1>1, <2>1, <3>2 DEF IInv, WholeLots
  <2>3. KeptUpTo(request, quantities, index)
    BY <1>4, <1>9 DEF SkipStage
  <2>4. KeptUpTo(request, quantities, index - 1)
    <3>1. ASSUME NEW i \in DOMAIN Config.weights
          PROVE  quantities[i] = IF i <= index - 1 THEN InitialQuantities(request)[i] ELSE 0
      <4>1. i \in Nat /\ index \in Nat
        BY <1>1, <1>2
      <4>2. quantities[i] = IF i <= index THEN InitialQuantities(request)[i] ELSE 0
        BY <2>3 DEF KeptUpTo, Config
      <4> QED BY <2>2, <4>1, <4>2
    <3> QED BY <3>1 DEF KeptUpTo, Config
  <2> QED
    BY <1>3, <1>4, <1>9, <2>4, StepKeepsBest DEF SkipStage
<1>10. CASE StartSearch
  <2>1. index \in DOMAIN Config.weights
    BY <1>1, <1>2, <1>10 DEF StartSearch
  <2>2. KeptUpTo(request, quantities, index)
    BY <1>4, <1>10 DEF StartSearch
  <2>3. quantities[index] = InitialQuantities(request)[index]
    BY <1>1, <1>2, <2>1, <2>2 DEF KeptUpTo, Config
  <2>4. Cutting'
    BY <1>4, <1>10 DEF StartSearch, Cutting
  <2>5. BestAffordable'
    BY <1>3, <1>10 DEF StartSearch, BestAffordable
  <2>6. WithinLimit(request) => (upper' - lower') * 2 ^ 0 < 2 ^ SearchLimit
    <3>1. upper' = quantities[index] \div Increment(Config) /\ lower' = 0
      BY <1>10 DEF StartSearch
    <3>2. WithinLimit(request) => upper' < 2 ^ SearchLimit
      BY <2>1, <2>3, <3>1 DEF WithinLimit, Config
    <3>3. upper' \in Nat
      <4>1. quantities[index] \in Nat
        BY <1>1, <2>1
      <4> QED BY <1>5, <3>1, <4>1, DivisionIsNat
    <3>4. 2 ^ 0 = 1
      BY PowersOfTwo
    <3>5. (upper' - lower') * 2 ^ 0 = upper'
      BY <3>1, <3>3, <3>4
    <3> QED BY <3>2, <3>5
  <2>7. Halving'
    BY <1>10, <2>6, SearchLimitAssumption DEF StartSearch, Halving, WithinLimit
  <2> QED
    BY <2>4, <2>5, <2>7 DEF BestInv
<1>11. CASE Probe
  <2> DEFINE midpoint == (lower + upper + 1) \div 2
  <2>1. lower < upper /\ steps < SearchLimit /\ steps' = steps + 1 /\ phase = "search"
    BY <1>11 DEF Probe
  <2>2. Cutting'
    BY <1>4, <1>11 DEF Probe, Cutting
  <2>3. BestAffordable'
    BY <1>3, <1>11 DEF Probe, BestAffordable
  <2>4. upper' - lower' \in Nat /\ 2 * (upper' - lower') <= upper - lower
    <3>1. /\ upper - midpoint \in Nat /\ 2 * (upper - midpoint) <= upper - lower
          /\ midpoint - 1 - lower \in Nat /\ 2 * (midpoint - 1 - lower) <= upper - lower
      BY <1>1, <2>1, ProbeHalves
    <3>2. \/ lower' = midpoint /\ upper' = upper
          \/ upper' = midpoint - 1 /\ lower' = lower
      BY <1>11 DEF Probe
    <3> HIDE DEF midpoint
    <3> QED BY <3>1, <3>2
  <2>5. WithinLimit(request) =>
          (upper' - lower') * 2 ^ (steps + 1) < 2 ^ SearchLimit
    <3> SUFFICES ASSUME WithinLimit(request)
                 PROVE  (upper' - lower') * 2 ^ (steps + 1) < 2 ^ SearchLimit
      OBVIOUS
    <3>1. (upper - lower) * 2 ^ steps < 2 ^ SearchLimit
      BY <2>1 DEF BestInv, Halving
    <3>2. 2 ^ steps \in Nat /\ 2 ^ SearchLimit \in Nat /\ 2 ^ (steps + 1) = 2 * 2 ^ steps
      BY <1>1, SearchLimitAssumption, PowersOfTwo
    <3>3. upper - lower \in Nat
      BY <1>1, <2>1
    <3> DEFINE p == 2 ^ steps
               m == 2 ^ SearchLimit
               g == upper - lower
               h == upper' - lower'
    <3>4. p \in Nat /\ m \in Nat /\ g \in Nat /\ h \in Nat /\ 2 * h <= g /\ g * p < m
      BY <2>4, <3>1, <3>2, <3>3
    <3> HIDE DEF p, m, g, h
    <3>5. h * (2 * p) < m
      BY <3>4, HalvedGapFits
    <3> QED BY <3>2, <3>5 DEF p, m, h
  <2>6. Halving'
    BY <1>1, <1>11, <2>1, <2>5, SearchLimitAssumption DEF Probe, Halving, WithinLimit
  <2> QED
    BY <2>2, <2>3, <2>6 DEF BestInv
<1>12. CASE GiveUp
  <2>1. ~ WithinLimit(request)
    BY <1>1, <1>12, SearchEndsWithinLimit, SearchLimitAssumption DEF GiveUp, IInv, BestInv
  <2> QED
    BY <1>12, <2>1, StepKeepsBest DEF GiveUp, Answer
<1>13. CASE Settle
  <2>1. index \in DOMAIN Config.weights /\ ~ Affordable(request, quantities)
    BY <1>2, <1>13 DEF Settle, IInv, Searching
  <2>2. KeptUpTo(request, quantities, index) /\ Estimated(request)
    BY <1>4, <1>13, <2>1 DEF Settle
  <2>3. /\ lower = upper /\ lower * Increment(Config) <= quantities[index]
        /\ lower > 0 => Affordable(request, With(lower))
        /\ lower * Increment(Config) < quantities[index] =>
              ~ Affordable(request, With(lower + 1))
    BY <1>1, <1>13 DEF Settle, IInv, SearchBracket
  <2>4. lower * Increment(Config) \in Nat /\ quantities[index] \in Nat
    BY <1>1, <1>5, <2>1, ProductIsNat
  <2>5. (lower + 1) * Increment(Config) <= quantities[index] =>
          ~ Affordable(request, With(lower + 1))
    <3>1. (lower + 1) * Increment(Config) = lower * Increment(Config) + Increment(Config)
      BY <1>1, <1>5
    <3>2. (lower + 1) * Increment(Config) <= quantities[index] =>
            lower * Increment(Config) < quantities[index]
      BY <1>5, <2>4, <3>1
    <3> QED BY <2>3, <3>2
  <2>6. BuysMost(request, With(lower))
    BY <1>1, <2>1, <2>2, <2>3, <2>5, BestCut DEF With, Config
  <2>7. ~ Affordable(request, With(lower)) => KeptUpTo(request, With(lower), index - 1)
    <3> SUFFICES ASSUME ~ Affordable(request, With(lower))
                 PROVE  KeptUpTo(request, With(lower), index - 1)
      OBVIOUS
    <3>1. lower = 0
      BY <1>1, <2>3
    <3>2. lower * Increment(Config) = 0
      BY <1>5, <3>1
    <3>3. ASSUME NEW i \in DOMAIN Config.weights
          PROVE  With(lower)[i] = IF i <= index - 1 THEN InitialQuantities(request)[i] ELSE 0
      <4>1. i \in Nat /\ index \in Nat
        BY <1>1, <1>2
      <4>2. quantities[i] = IF i <= index THEN InitialQuantities(request)[i] ELSE 0
        BY <2>2 DEF KeptUpTo, Config
      <4>3. With(lower)[i] = IF i = index THEN 0 ELSE quantities[i]
        BY <1>1, <2>1, <3>2 DEF With
      <4> QED BY <4>1, <4>2, <4>3
    <3> QED BY <3>3 DEF KeptUpTo, Config
  <2>8. /\ quantities' = With(lower) /\ index' = index - 1 /\ phase' = "adjust"
        /\ UNCHANGED <<request, status>> /\ status = "none"
    BY <1>3, <1>13 DEF Settle
  <2> QED
    BY <2>2, <2>6, <2>7, <2>8, StepKeepsBest
<1>14. CASE Finish
  <2>1. CASE Affordable(request, quantities)
    BY <1>4, <1>14, <2>1, StepKeepsBest DEF Finish, Answer
  <2>2. CASE ~ Affordable(request, quantities)
    <3>1. index = 0 /\ KeptUpTo(request, quantities, 0) /\ Estimated(request)
      BY <1>4, <1>14, <2>2 DEF Finish
    <3>2. BuysMost(request, quantities')
      <4> SUFFICES ASSUME NEW cut \in Cuts(request) PROVE ~ Affordable(request, cut)
        BY DEF BuysMost
      <4>1. \A at \in DOMAIN request.config.weights : at > 0
        BY <1>2 DEF Config
      <4> QED
        BY <1>1, <2>2, <3>1, <4>1, CutFacts, LaterCutsAreUnaffordable DEF Config
    <3> QED
      BY <1>14, <3>2, StepKeepsBest DEF Finish, Answer
  <2> QED
    BY <2>1, <2>2
<1>15. CASE UNCHANGED vars
  BY <1>15 DEF vars, BestInv, Cutting, Halving, BestAffordable, Config
<1> QED
  BY <1>6, <1>7, <1>8, <1>9, <1>10, <1>11, <1>12, <1>13, <1>14, <1>15 DEF Next

(* The engine gives up no more than it has to: unless a search ran out of  *)
(* steps, no affordable cut of the estimate buys more than the answer.     *)
THEOREM SizingBestAffordable == Spec => []BestAffordable
<1>1. BestInv => BestAffordable
  BY DEF BestInv
<1> QED
  BY <1>1, InitIInv, NextIInv, InitBestInv, NextBestInv, PTL DEF Spec
=============================================================================
