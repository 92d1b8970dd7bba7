--------------------------- MODULE MCOrderDecoder ---------------------------
(* Instances of OrderDecoder for TLC: the server_versions constants of     *)
(* src/src/server_versions.rs that gate order, execution and commission    *)
(* fields, versions on both sides of each gate, and order shapes.          *)
EXTENDS OrderDecoder

MCThreshold ==
  [PEGGED_TO_BENCHMARK |-> 102, MODELS_SUPPORT |-> 103,
   SOFT_DOLLAR_TIER |-> 106, CASH_QTY |-> 111, MARKET_CAP_PRICE |-> 131,
   LAST_LIQUIDITY |-> 136, AUTO_PRICE_FOR_HEDGE |-> 141,
   WHAT_IF_EXT_FIELDS |-> 142, ORDER_CONTAINER |-> 145, D_PEG_ORDERS |-> 148,
   PRICE_MGMT_ALGO |-> 151, DURATION |-> 158, POST_TO_ATS |-> 160,
   AUTO_CANCEL_PARENT |-> 162, PEGBEST_PEGMID_OFFSETS |-> 170,
   FA_PROFILE_DESUPPORT |-> 177, PENDING_PRICE_REVISION |-> 178,
   CUSTOMER_ACCOUNT |-> 183, PROFESSIONAL_CUSTOMER |-> 184,
   BOND_ACCRUED_INTEREST |-> 185, INCLUDE_OVERNIGHT |-> 189,
   CME_TAGGING_FIELDS_IN_OPEN_ORDER |-> 193, FULL_ORDER_PREVIEW_FIELDS |-> 195,
   SUBMITTER |-> 198, IMBALANCE_ONLY |-> 199]

(* Every gate, the version just below it, and the newest version. *)
MCGateVersions ==
  {MCThreshold[t] : t \in DOMAIN MCThreshold}
  \cup {MCThreshold[t] - 1 : t \in DOMAIN MCThreshold} \cup {200}

(* The oldest, a middle and the newest of the versions the shapes matter at. *)
MCShapeVersions == {101, 176, 200}

(* Pre-FA_PROFILE_DESUPPORT servers. *)
MCOldVersions == {150, 176}

MCAllKinds == Kinds

MCOrderKinds == {"open", "completed"}

(* The non-default values each steering attribute is tried with. *)
MaxCount == 2

FeatureValues ==
  [dn |-> {TRUE}, legs |-> 1 .. MaxCount, olegs |-> 1 .. MaxCount,
   smart |-> 1 .. MaxCount, scale |-> {TRUE}, hedge |-> {TRUE},
   dnc |-> {TRUE}, algo |-> 0 .. MaxCount, allocs |-> 1 .. MaxCount,
   pegbench |-> {TRUE},
   conds |-> {<<c>> : c \in {1, 3, 4, 5, 6, 7, 99}}
             \cup {<<c, d>> : c, d \in {1, 5, 99}}]

(* The default order and every order that departs from it in one or two  *)
(* attributes.                                                            *)
Vary(s, f) == {[s EXCEPT ![f] = v] : v \in FeatureValues[f]}

MCShapes ==
  LET one == UNION {Vary(DefaultShape, f) : f \in DOMAIN FeatureValues}
  IN {DefaultShape} \cup one
     \cup UNION {Vary(s, g) : s \in one, g \in DOMAIN FeatureValues}

MCDefaultShapes == {DefaultShape}

=============================================================================
