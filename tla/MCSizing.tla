------------------------------ MODULE MCSizing ------------------------------
(* Requests whose unit cost rounds below what a lot costs, so that the     *)
(* estimate overshoots, with one to three stages and both lot policies.    *)
EXTENDS Sizing

Config1(weights, mode, reserve, lot, oddLot, fees) ==
  [weights |-> weights, quantum |-> 10, mode |-> mode,
   buyFee |-> fees[1], buySlip |-> fees[2], saleFee |-> fees[3], saleTax |-> fees[4],
   saleSlip |-> fees[5], reserve |-> reserve, minimum |-> 2, lot |-> lot, oddLot |-> oddLot]

NoFees == <<0, 0, 0, 0, 0>>
SomeFees == <<4000, 4000, 300, 1000, 500>>
HighFees == <<0, 0, 9000, 9000, 0>>

MCConfigs ==
  { Config1(w, m, reserve, lot, odd, fees) :
      w \in {<<10000>>, <<7000, 3000>>, <<5000, 3000, 2000>>, <<4000, 200, 5800>>},
      m \in RoundingModes, reserve \in {0, 45}, lot \in {2, 3}, odd \in BOOLEAN,
      fees \in {NoFees, SomeFees, HighFees} }

Request(config, cash, price, saleQuantity, source, candidate) ==
  [config |-> config, cash |-> cash, price |-> price, saleQuantity |-> saleQuantity,
   salePrice |-> 12, held |-> 2, source |-> source, candidate |-> candidate]

Authorized ==
  { Request(c, cash, price, sold, "authorized", "grouped") :
      c \in MCConfigs, cash \in {0, 60, 115, 190}, price \in {4, 6, 14}, sold \in {1, 2} }

Unauthorized ==
  LET c == CHOOSE x \in MCConfigs : TRUE IN
  { Request(c, 60, 6, sold, source, candidate) :
      sold \in {0, 1, 3}, source \in SourceKinds, candidate \in CandidateKinds }

MCRequests == Authorized \cup Unauthorized
=============================================================================
