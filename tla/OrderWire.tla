----------------------------- MODULE OrderWire -----------------------------
(***************************************************************************)
(* The server side of the order messages: the fields a TWS/Gateway server *)
(* sends for an open order, a completed order, an order status, an        *)
(* execution and a commission report, at a given server version and for a *)
(* given order shape.  This is the reference the decoder (OrderDecoder) is *)
(* checked against.  It is taken from the message fixtures of the tests   *)
(* in src/src/orders/common/decoders.rs (whose comments name the version  *)
(* gate of every gated field), the live capture at server version 173 in  *)
(* the same file, and spec 4.G for the parts the fixtures leave at zero.  *)
(*                                                                         *)
(* A field is [blk, slot, val]: the group of fields it belongs to (named   *)
(* after the decoder function that reads that group), its place in the    *)
(* group, and, for the fields that steer decoding (counts, flags, the      *)
(* order type, condition types), its value.  All other fields carry 0.     *)
(***************************************************************************)
EXTENDS Naturals, Sequences, SequencesExt, TLC

CONSTANT Threshold   \* the server_versions constants, by name

ASSUME ThresholdAssumption == \A t \in DOMAIN Threshold : Threshold[t] \in Nat

(* The data that steers decoding.  dn: delta_neutral_order_type is set;   *)
(* legs, olegs: contract and order combo legs; smart: smart combo routing *)
(* params; scale: scale_price_increment > 0; hedge: hedge_type is set;    *)
(* dnc: a delta-neutral contract is present; algo: -1 for no algo         *)
(* strategy, else the number of its params; allocs: order allocations of *)
(* the full order preview; pegbench: order type "PEG BENCH"; conds: the   *)
(* condition type codes.                                                  *)
DefaultShape ==
  [dn |-> FALSE, legs |-> 0, olegs |-> 0, smart |-> 0, scale |-> FALSE,
   hedge |-> FALSE, dnc |-> FALSE, algo |-> -1, allocs |-> 0,
   pegbench |-> FALSE, conds |-> << >>]

Kinds == {"open", "completed", "status", "execution", "commission"}

At(t, sv) == sv >= Threshold[t]

B(b) == IF b THEN 1 ELSE 0

Zeros(n) == [i \in 1 .. n |-> 0]

If(c, s) == IF c THEN s ELSE << >>

(* A group of fields with the given values, numbered from 1. *)
Blk(b, vals) == [i \in 1 .. Len(vals) |-> [blk |-> b, slot |-> i, val |-> vals[i]]]

Plain(b, n) == Blk(b, Zeros(n))

Gated(t, sv, b, n) == If(At(t, sv), Plain(b, n))

(* The field the decoder finds past the end of a frame. *)
Missing == [blk |-> "none", slot |-> 0, val |-> 0]

-----------------------------------------------------------------------------
(* Message type, then the message version on servers that still send it. *)
Header(sv, sendsVersion) == Plain("header", 1 + B(sendsVersion))

FaParams(sv) == Plain("fa_params", 3 + B(~At("FA_PROFILE_DESUPPORT", sv)))

Volatility(attrs, s) ==
  Blk("volatility",
      <<0, 0, B(s.dn), 0>>
      \o If(s.dn, Zeros(1 + (IF attrs THEN 4 ELSE 0) + 3))
      \o Zeros(2))

ComboLegs(s) ==
  Blk("combo_legs", <<0, s.legs>> \o Zeros(8 * s.legs) \o <<s.olegs>> \o Zeros(s.olegs))

SmartCombo(s) == Blk("smart_combo", <<s.smart>> \o Zeros(2 * s.smart))

Scale(s) == Blk("scale", <<0, 0, B(s.scale)>> \o If(s.scale, Zeros(7)))

Hedge(s) == Blk("hedge", <<B(s.hedge)>> \o If(s.hedge, Zeros(1)))

DeltaNeutral(s) == Blk("delta_neutral", <<B(s.dnc)>> \o If(s.dnc, Zeros(3)))

Algo(s) ==
  Blk("algo", IF s.algo < 0 THEN <<0>> ELSE <<1, s.algo>> \o Zeros(2 * s.algo))

WhatIf(sv, s) ==
  Blk("what_if",
      Zeros(2) \o If(At("WHAT_IF_EXT_FIELDS", sv), Zeros(6)) \o Zeros(7)
      \o If(At("FULL_ORDER_PREVIEW_FIELDS", sv),
            Zeros(12) \o <<s.allocs>> \o Zeros(7 * s.allocs))
      \o Zeros(1))

PegToBench(sv, s) ==
  If(At("PEGGED_TO_BENCHMARK", sv) /\ s.pegbench, Plain("peg_to_bench", 5))

(* The fields an order condition of each type carries after its type and  *)
(* conjunction flag (encode_condition); a type the client does not know   *)
(* is sent with one field of its own.                                     *)
ConditionPayload ==
  (1 :> 5) @@ (3 :> 2) @@ (4 :> 2) @@ (5 :> 3) @@ (6 :> 4) @@ (7 :> 4)

PayloadOf(c) == IF c \in DOMAIN ConditionPayload THEN ConditionPayload[c] ELSE 1

Conditions(sv, s) ==
  If(At("PEGGED_TO_BENCHMARK", sv),
     Blk("conditions",
         <<Len(s.conds)>>
         \o FlattenSeq([k \in 1 .. Len(s.conds) |->
                          <<s.conds[k], 0>> \o Zeros(PayloadOf(s.conds[k]))])
         \o If(Len(s.conds) > 0, Zeros(2))))

-----------------------------------------------------------------------------
(* build_open_order_base_fields and the fields the v200 tests append. *)
OpenOrder(sv, s) == FlattenSeq(<<
  Header(sv, ~At("ORDER_CONTAINER", sv)),
  Plain("order_id", 1), Plain("contract_fields", 11),
  Plain("action", 1), Plain("total_quantity", 1),
  Blk("order_type", <<B(s.pegbench)>>),
  Plain("limit_price", 1), Plain("aux_price", 1), Plain("tif", 1),
  Plain("oca_group", 1), Plain("account", 1), Plain("open_close", 1),
  Plain("origin", 1), Plain("order_ref", 1), Plain("client_id", 1),
  Plain("perm_id", 1), Plain("outside_rth", 1), Plain("hidden", 1),
  Plain("discretionary_amt", 1), Plain("good_after_time", 1),
  Plain("shares_allocation", 1), FaParams(sv),
  Gated("MODELS_SUPPORT", sv, "model_code", 1),
  Plain("good_till_date", 1), Plain("rule_80_a", 1),
  Plain("percent_offset", 1), Plain("settling_firm", 1),
  Plain("short_sale_params", 3), Plain("auction_strategy", 1),
  Plain("box_order_params", 3), Plain("peg_to_stock_or_vol", 2),
  Plain("display_size", 1), Plain("block_order", 1),
  Plain("sweep_to_fill", 1), Plain("all_or_none", 1), Plain("min_qty", 1),
  Plain("oca_type", 1), Plain("etrade_only", 1), Plain("firm_quote_only", 1),
  Plain("nbbo_price_cap", 1), Plain("parent_id", 1),
  Plain("trigger_method", 1), Volatility(TRUE, s),
  Plain("trail_params", 2), Plain("basis_points", 2), ComboLegs(s),
  SmartCombo(s), Scale(s), Hedge(s), Plain("opt_out_smart_routing", 1),
  Plain("clearing_params", 2), Plain("not_held", 1), DeltaNeutral(s),
  Algo(s), Plain("solicited", 1), WhatIf(sv, s),
  Plain("vol_randomize_flags", 2), PegToBench(sv, s), Conditions(sv, s),
  Gated("PEGGED_TO_BENCHMARK", sv, "adjusted_order_params", 8),
  Gated("SOFT_DOLLAR_TIER", sv, "soft_dollar_tier", 3),
  Gated("CASH_QTY", sv, "cash_qty", 1),
  Gated("AUTO_PRICE_FOR_HEDGE", sv, "dont_use_auto_price_for_hedge", 1),
  Gated("ORDER_CONTAINER", sv, "is_oms_container", 1),
  Gated("D_PEG_ORDERS", sv, "discretionary_up_to_limit_price", 1),
  Gated("PRICE_MGMT_ALGO", sv, "use_price_mgmt_algo", 1),
  Gated("DURATION", sv, "duration", 1),
  Gated("POST_TO_ATS", sv, "post_to_ats", 1),
  Gated("AUTO_CANCEL_PARENT", sv, "auto_cancel_parent", 1),
  Gated("PEGBEST_PEGMID_OFFSETS", sv, "peg_best_peg_mid", 5),
  Gated("CUSTOMER_ACCOUNT", sv, "customer_account", 1),
  Gated("PROFESSIONAL_CUSTOMER", sv, "professional_customer", 1),
  Gated("BOND_ACCRUED_INTEREST", sv, "bond_accrued_interest", 1),
  Gated("INCLUDE_OVERNIGHT", sv, "include_overnight", 1),
  Gated("CME_TAGGING_FIELDS_IN_OPEN_ORDER", sv, "cme_tagging_fields", 2),
  Gated("SUBMITTER", sv, "submitter", 1),
  Gated("IMBALANCE_ONLY", sv, "imbalance_only", 1) >>)

(* build_completed_order_base_fields, the live captures at version 173    *)
(* and the fields the v200 test appends.                                   *)
CompletedOrder(sv, s) == FlattenSeq(<<
  Header(sv, ~At("ORDER_CONTAINER", sv)), Plain("contract_fields", 11),
  Plain("action", 1), Plain("total_quantity", 1),
  Blk("order_type", <<B(s.pegbench)>>),
  Plain("limit_price", 1), Plain("aux_price", 1), Plain("tif", 1),
  Plain("oca_group", 1), Plain("account", 1), Plain("open_close", 1),
  Plain("origin", 1), Plain("order_ref", 1), Plain("perm_id", 1),
  Plain("outside_rth", 1), Plain("hidden", 1),
  Plain("discretionary_amt", 1), Plain("good_after_time", 1), FaParams(sv),
  Gated("MODELS_SUPPORT", sv, "model_code", 1),
  Plain("good_till_date", 1), Plain("rule_80_a", 1),
  Plain("percent_offset", 1), Plain("settling_firm", 1),
  Plain("short_sale_params", 3), Plain("box_order_params", 3),
  Plain("peg_to_stock_or_vol", 2), Plain("display_size", 1),
  Plain("sweep_to_fill", 1), Plain("all_or_none", 1), Plain("min_qty", 1),
  Plain("oca_type", 1), Plain("trigger_method", 1), Volatility(FALSE, s),
  Plain("trail_params", 2), ComboLegs(s), SmartCombo(s), Scale(s),
  Hedge(s), Plain("clearing_params", 2), Plain("not_held", 1),
  DeltaNeutral(s), Algo(s), Plain("solicited", 1),
  Plain("order_status", 1), Plain("vol_randomize_flags", 2),
  PegToBench(sv, s), Conditions(sv, s),
  Plain("stop_price_and_limit_price_offset", 2),
  Gated("CASH_QTY", sv, "cash_qty", 1),
  Gated("AUTO_PRICE_FOR_HEDGE", sv, "dont_use_auto_price_for_hedge", 1),
  Gated("ORDER_CONTAINER", sv, "is_oms_container", 1),
  Plain("auto_cancel_date", 1), Plain("filled_quantity", 1),
  Plain("ref_futures_contract_id", 1),
  Gated("AUTO_CANCEL_PARENT", sv, "auto_cancel_parent", 1),
  Plain("shareholder", 1), Plain("imbalance_only", 1),
  Plain("route_marketable_to_bbo", 1), Plain("parent_perm_id", 1),
  Plain("completed_time", 1), Plain("completed_status", 1),
  Gated("PEGBEST_PEGMID_OFFSETS", sv, "peg_best_peg_mid", 5),
  Gated("CUSTOMER_ACCOUNT", sv, "customer_account", 1),
  Gated("PROFESSIONAL_CUSTOMER", sv, "professional_customer", 1),
  Gated("SUBMITTER", sv, "submitter", 1) >>)

(* Order status (spec 4.G): version below MARKET_CAP_PRICE, ten fields,   *)
(* market_cap_price from MARKET_CAP_PRICE on.                              *)
OrderStatus(sv) ==
  Header(sv, ~At("MARKET_CAP_PRICE", sv)) \o Plain("order_status_fields", 10)
  \o Gated("MARKET_CAP_PRICE", sv, "market_cap_price", 1)

(* The execution fixtures of the v200 and v177 tests. *)
Execution(sv) == FlattenSeq(<<
  Header(sv, ~At("LAST_LIQUIDITY", sv)), Plain("execution_fields", 28),
  Gated("MODELS_SUPPORT", sv, "execution_model_code", 1),
  Gated("LAST_LIQUIDITY", sv, "last_liquidity", 1),
  Gated("PENDING_PRICE_REVISION", sv, "pending_price_revision", 1),
  Gated("SUBMITTER", sv, "execution_submitter", 1) >>)

(* Commission report: type, version, six fields. *)
CommissionReport(sv) == Header(sv, TRUE) \o Plain("commission_fields", 6)

Wire(kind, sv, s) ==
  CASE kind = "open"       -> OpenOrder(sv, s)
    [] kind = "completed"  -> CompletedOrder(sv, s)
    [] kind = "status"     -> OrderStatus(sv)
    [] kind = "execution"  -> Execution(sv)
    [] kind = "commission" -> CommissionReport(sv)

(* The steering values the server sends for a shape: what a decoder that  *)
(* reads the frame right must end up with.  Only order messages carry a   *)
(* shape; allocations are sent only in open orders from                  *)
(* FULL_ORDER_PREVIEW_FIELDS on, conditions only from PEGGED_TO_BENCHMARK *)
(* on.                                                                    *)
Sent(kind, sv, s) ==
  IF kind \notin {"open", "completed"} THEN DefaultShape
  ELSE [s EXCEPT
          !.allocs = IF kind = "open" /\ At("FULL_ORDER_PREVIEW_FIELDS", sv)
                     THEN @ ELSE 0,
          !.conds = IF At("PEGGED_TO_BENCHMARK", sv) THEN @ ELSE << >>]

(* The server sends a condition type the client does not know. *)
SendsUnknownCondition(kind, sv, s) ==
  \E k \in 1 .. Len(Sent(kind, sv, s).conds) :
    Sent(kind, sv, s).conds[k] \notin DOMAIN ConditionPayload

=============================================================================
