---------------------------- MODULE OrderDecoder ----------------------------
(***************************************************************************)
(* The order message decoders of src/src/orders/common/decoders.rs:       *)
(* decode_open_order, decode_completed_order (both through OrderDecoder), *)
(* decode_order_status, decode_execution_data and decode_commission_report.*)
(* A decoder is a cursor over the fields of one frame; each call of a      *)
(* read_* function is one step that consumes the fields it reads.  Version *)
(* gates and the values read from the frame (counts, flags, the order type *)
(* and the condition types) decide how many fields each step takes.        *)
(*                                                                         *)
(* The frame is the one the server sends (OrderWire) for a version, a      *)
(* message kind and an order shape.  Two ghost sets record what went      *)
(* wrong: bad, the frame positions the decoder read while it took them for *)
(* another field group or another place in the group; moved, the frame    *)
(* positions whose value it stored into an attribute other than the one   *)
(* the server sent there.                                                  *)
(***************************************************************************)
EXTENDS OrderWire

CONSTANTS
  Versions,   \* the server versions negotiated
  MsgKinds,   \* the message kinds decoded
  Shapes      \* the order shapes the server sends

VARIABLES
  sv,       \* server_version
  kind,     \* the decoder called
  shape,    \* the order the server encoded
  frame,    \* the fields of the message
  pc,       \* the index of the next read_* call in the decoder's program
  pos,      \* the message's cursor: the next field to read
  status,   \* "running", "ok" or "err"
  dec,      \* the steering values decoded so far
  cond,     \* read_conditions' loop: phase, conditions left, count, start
  bad,      \* ghost: positions read as the wrong field
  moved     \* ghost: positions stored into the wrong attribute

vars == <<sv, kind, shape, frame, pc, pos, status, dec, cond, bad, moved>>

-----------------------------------------------------------------------------
(* The read_* functions of OrderDecoder that read a fixed number of       *)
(* fields, whatever the version and the data.                             *)
FieldWidth ==
  [order_id |-> 1, contract_fields |-> 11, action |-> 1, total_quantity |-> 1,
   limit_price |-> 1, aux_price |-> 1, tif |-> 1, oca_group |-> 1,
   account |-> 1, open_close |-> 1, origin |-> 1, order_ref |-> 1,
   client_id |-> 1, perm_id |-> 1, outside_rth |-> 1, hidden |-> 1,
   discretionary_amt |-> 1, good_after_time |-> 1, shares_allocation |-> 1,
   good_till_date |-> 1, rule_80_a |-> 1, percent_offset |-> 1,
   settling_firm |-> 1, short_sale_params |-> 3, auction_strategy |-> 1,
   box_order_params |-> 3, peg_to_stock_or_vol |-> 2, display_size |-> 1,
   block_order |-> 1, sweep_to_fill |-> 1, all_or_none |-> 1, min_qty |-> 1,
   oca_type |-> 1, etrade_only |-> 1, firm_quote_only |-> 1,
   nbbo_price_cap |-> 1, parent_id |-> 1, trigger_method |-> 1,
   trail_params |-> 2, basis_points |-> 2, opt_out_smart_routing |-> 1,
   clearing_params |-> 2, not_held |-> 1, solicited |-> 1,
   vol_randomize_flags |-> 2]

(* The read_* functions used by decode_completed_order only. *)
CompletedFieldWidth ==
  [order_status |-> 1, stop_price_and_limit_price_offset |-> 2,
   auto_cancel_date |-> 1, filled_quantity |-> 1,
   ref_futures_contract_id |-> 1, shareholder |-> 1,
   imbalance_only_always |-> 1, route_marketable_to_bbo |-> 1,
   parent_perm_id |-> 1, completed_time |-> 1, completed_status |-> 1]

(* The ungated bodies of decode_order_status, decode_execution_data and   *)
(* decode_commission_report.                                              *)
MessageFieldWidth ==
  [order_status_fields |-> 10, execution_fields |-> 28,
   commission_fields |-> 6]

Width == FieldWidth @@ CompletedFieldWidth @@ MessageFieldWidth

(* The read_* functions that read their fields only from a version on. *)
GatedWidth ==
  [model_code |-> <<"MODELS_SUPPORT", 1>>,
   adjusted_order_params |-> <<"PEGGED_TO_BENCHMARK", 8>>,
   soft_dollar_tier |-> <<"SOFT_DOLLAR_TIER", 3>>,
   cash_qty |-> <<"CASH_QTY", 1>>,
   dont_use_auto_price_for_hedge |-> <<"AUTO_PRICE_FOR_HEDGE", 1>>,
   is_oms_container |-> <<"ORDER_CONTAINER", 1>>,
   discretionary_up_to_limit_price |-> <<"D_PEG_ORDERS", 1>>,
   use_price_mgmt_algo |-> <<"PRICE_MGMT_ALGO", 1>>,
   duration |-> <<"DURATION", 1>>, post_to_ats |-> <<"POST_TO_ATS", 1>>,
   auto_cancel_parent |-> <<"AUTO_CANCEL_PARENT", 1>>,
   peg_best_peg_mid |-> <<"PEGBEST_PEGMID_OFFSETS", 5>>,
   customer_account |-> <<"CUSTOMER_ACCOUNT", 1>>,
   professional_customer |-> <<"PROFESSIONAL_CUSTOMER", 1>>,
   bond_accrued_interest |-> <<"BOND_ACCRUED_INTEREST", 1>>,
   include_overnight |-> <<"INCLUDE_OVERNIGHT", 1>>,
   cme_tagging_fields |-> <<"CME_TAGGING_FIELDS_IN_OPEN_ORDER", 2>>,
   submitter |-> <<"SUBMITTER", 1>>,
   imbalance_only |-> <<"IMBALANCE_ONLY", 1>>,
   market_cap_price |-> <<"MARKET_CAP_PRICE", 1>>,
   execution_model_code |-> <<"MODELS_SUPPORT", 1>>,
   last_liquidity |-> <<"LAST_LIQUIDITY", 1>>,
   pending_price_revision |-> <<"PENDING_PRICE_REVISION", 1>>,
   execution_submitter |-> <<"SUBMITTER", 1>>]

(* The field group a read_* function reads. *)
Label(f) == IF f = "imbalance_only_always" THEN "imbalance_only" ELSE f

(* The fields each condition decoder reads after type and conjunction. *)
DecodedPayload ==
  (1 :> 5) @@ (3 :> 2) @@ (4 :> 2) @@ (5 :> 3) @@ (6 :> 4) @@ (7 :> 4)

-----------------------------------------------------------------------------
(* The calls each decoder makes, in order. *)
OpenOrderProgram == <<
  "header", "order_id", "contract_fields", "action", "total_quantity",
  "order_type", "limit_price", "aux_price", "tif", "oca_group", "account",
  "open_close", "origin", "order_ref", "client_id", "perm_id", "outside_rth",
  "hidden", "discretionary_amt", "good_after_time", "shares_allocation",
  "fa_params", "model_code", "good_till_date", "rule_80_a", "percent_offset",
  "settling_firm", "short_sale_params", "auction_strategy",
  "box_order_params", "peg_to_stock_or_vol", "display_size", "block_order",
  "sweep_to_fill", "all_or_none", "min_qty", "oca_type", "etrade_only",
  "firm_quote_only", "nbbo_price_cap", "parent_id", "trigger_method",
  "volatility", "trail_params", "basis_points", "combo_legs", "smart_combo",
  "scale", "hedge", "opt_out_smart_routing", "clearing_params", "not_held",
  "delta_neutral", "algo", "solicited", "what_if", "vol_randomize_flags",
  "peg_to_bench", "conditions", "adjusted_order_params", "soft_dollar_tier",
  "cash_qty", "dont_use_auto_price_for_hedge", "is_oms_container",
  "discretionary_up_to_limit_price", "use_price_mgmt_algo", "duration",
  "post_to_ats", "auto_cancel_parent", "peg_best_peg_mid",
  "customer_account", "professional_customer", "bond_accrued_interest",
  "include_overnight", "cme_tagging_fields", "submitter", "imbalance_only" >>

CompletedOrderProgram == <<
  "header", "contract_fields", "action", "total_quantity", "order_type",
  "limit_price", "aux_price", "tif", "oca_group", "account", "open_close",
  "origin", "order_ref", "perm_id", "outside_rth", "hidden",
  "discretionary_amt", "good_after_time", "fa_params", "model_code",
  "good_till_date", "rule_80_a", "percent_offset", "settling_firm",
  "short_sale_params", "box_order_params", "peg_to_stock_or_vol",
  "display_size", "sweep_to_fill", "all_or_none", "min_qty", "oca_type",
  "trigger_method", "volatility", "trail_params", "combo_legs",
  "smart_combo", "scale", "hedge", "clearing_params", "not_held",
  "delta_neutral", "algo", "solicited", "order_status",
  "vol_randomize_flags", "peg_to_bench", "conditions",
  "stop_price_and_limit_price_offset", "cash_qty",
  "dont_use_auto_price_for_hedge", "is_oms_container", "auto_cancel_date",
  "filled_quantity", "ref_futures_contract_id", "auto_cancel_parent",
  "shareholder", "imbalance_only_always", "route_marketable_to_bbo",
  "parent_perm_id", "completed_time", "completed_status",
  "peg_best_peg_mid", "customer_account", "professional_customer",
  "submitter" >>

OrderStatusProgram == <<"header", "order_status_fields", "market_cap_price">>

ExecutionProgram ==
  <<"header", "execution_fields", "execution_model_code", "last_liquidity",
    "pending_price_revision", "execution_submitter">>

CommissionProgram == <<"header", "commission_fields">>

Program ==
  [open |-> OpenOrderProgram, completed |-> CompletedOrderProgram,
   status |-> OrderStatusProgram, execution |-> ExecutionProgram,
   commission |-> CommissionProgram]

(* Whether the decoder skips a message version after the message type. *)
VersionSkipped(k, v) ==
  CASE k \in {"open", "completed"} -> v < Threshold["ORDER_CONTAINER"]
    [] k = "status"                -> v < Threshold["MARKET_CAP_PRICE"]
    [] k = "execution"             -> v < Threshold["LAST_LIQUIDITY"]
    [] k = "commission"            -> TRUE

-----------------------------------------------------------------------------
(* The field at a position; a read past the end finds Missing. *)
F(p) == IF p \in 1 .. Len(frame) THEN frame[p] ELSE Missing

V(p) == F(p).val

(* The decoder's next call is f. *)
Call(f) ==
  /\ status = "running"
  /\ pc \in 1 .. Len(Program[kind])
  /\ Program[kind][pc] = f

(* Read Len(into) fields as the fields of group b from place pos-start+1 *)
(* on, storing the k-th into the group's attribute into[k].               *)
Take(b, start, into) ==
  LET P == pos .. pos + Len(into) - 1
  IN /\ bad' = bad \cup {p \in P : F(p).blk # b \/ F(p).slot # p - start + 1}
     /\ moved' = moved \cup {p \in P : F(p).blk # b \/ F(p).slot # into[p - pos + 1]}
     /\ pos' = pos + Len(into)

(* Read n fields of group b, each into its own attribute; a next_* call   *)
(* past the end of the message fails.                                     *)
Consume(b, n) ==
  /\ Take(b, pos, [k \in 1 .. n |-> k])
  /\ status' = IF pos + n - 1 > Len(frame) THEN "err" ELSE status

Fixed == <<sv, kind, shape, frame>>

-----------------------------------------------------------------------------
(* OrderDecoder::new and the heads of the other decoders: skip the message *)
(* type and, on older servers, the message version.                        *)
ReadHeader ==
  /\ Call("header")
  /\ Consume("header", 1 + B(VersionSkipped(kind, sv)))
  /\ pc' = pc + 1
  /\ UNCHANGED <<Fixed, dec, cond>>

ReadFixed(f) ==
  /\ Call(f)
  /\ Consume(Label(f), Width[f])
  /\ pc' = pc + 1
  /\ UNCHANGED <<Fixed, dec, cond>>

(* Mutant: a gated field read only above its gate (> for >=). *)
ReadGatedStrict(f) ==
  /\ Call(f)
  /\ Consume(f, IF sv > Threshold[GatedWidth[f][1]] THEN GatedWidth[f][2] ELSE 0)
  /\ pc' = pc + 1
  /\ UNCHANGED <<Fixed, dec, cond>>

ReadGated(f) ==
  /\ Call(f)
  /\ Consume(f, IF At(GatedWidth[f][1], sv) THEN GatedWidth[f][2] ELSE 0)
  /\ pc' = pc + 1
  /\ UNCHANGED <<Fixed, dec, cond>>

(* read_order_type: the order type decides read_peg_to_bench_params. *)
ReadOrderType ==
  /\ Call("order_type")
  /\ Consume("order_type", 1)
  /\ dec' = [dec EXCEPT !.pegbench = (V(pos) = 1)]
  /\ pc' = pc + 1
  /\ UNCHANGED <<Fixed, cond>>

(* Mutant: the profile field read on the new servers instead of the old. *)
ReadFaParamsGateReversed ==
  /\ Call("fa_params")
  /\ Take("fa_params", pos,
          <<1, 2, 3>> \o If(At("FA_PROFILE_DESUPPORT", sv), <<3>>))
  /\ status' = IF pos + 2 + B(At("FA_PROFILE_DESUPPORT", sv)) > Len(frame)
               THEN "err" ELSE status
  /\ pc' = pc + 1
  /\ UNCHANGED <<Fixed, dec, cond>>

(* read_fa_params: group, method, percentage, and below                   *)
(* FA_PROFILE_DESUPPORT one more field, stored into fa_percentage.         *)
ReadFaParams ==
  /\ Call("fa_params")
  /\ Take("fa_params", pos,
          <<1, 2, 3>> \o If(~At("FA_PROFILE_DESUPPORT", sv), <<3>>))
  /\ status' = IF pos + 2 + B(~At("FA_PROFILE_DESUPPORT", sv)) > Len(frame)
               THEN "err" ELSE status
  /\ pc' = pc + 1
  /\ UNCHANGED <<Fixed, dec, cond>>

(* Mutant: the open-order delta-neutral attributes read for every order. *)
ReadVolatilityAlwaysAttrs ==
  /\ Call("volatility")
  /\ LET dn == V(pos + 2) = 1
     IN /\ Consume("volatility", 4 + (IF dn THEN 1 + 4 + 3 ELSE 0) + 2)
        /\ dec' = [dec EXCEPT !.dn = dn]
  /\ pc' = pc + 1
  /\ UNCHANGED <<Fixed, cond>>

(* read_volatility_order_params(read_open_order_attributes): the          *)
(* delta-neutral block when delta_neutral_order_type is set (the third    *)
(* field), with four more fields for open orders.                          *)
ReadVolatility ==
  /\ Call("volatility")
  /\ LET dn == V(pos + 2) = 1
         attrs == kind = "open"
     IN /\ Consume("volatility",
                   4 + (IF dn THEN 1 + (IF attrs THEN 4 ELSE 0) + 3 ELSE 0) + 2)
        /\ dec' = [dec EXCEPT !.dn = dn]
  /\ pc' = pc + 1
  /\ UNCHANGED <<Fixed, cond>>

(* read_combo_legs: description, count and 8 fields per leg, then a count *)
(* and one field per order combo leg.                                     *)
ReadComboLegs ==
  /\ Call("combo_legs")
  /\ LET legs == V(pos + 1)
         olegs == V(pos + 2 + 8 * legs)
     IN /\ Consume("combo_legs", 3 + 8 * legs + olegs)
        /\ dec' = [dec EXCEPT !.legs = legs, !.olegs = olegs]
  /\ pc' = pc + 1
  /\ UNCHANGED <<Fixed, cond>>

(* read_smart_combo_routing_params: a count and a tag and value each. *)
ReadSmartCombo ==
  /\ Call("smart_combo")
  /\ Consume("smart_combo", 1 + 2 * V(pos))
  /\ dec' = [dec EXCEPT !.smart = V(pos)]
  /\ pc' = pc + 1
  /\ UNCHANGED <<Fixed, cond>>

(* read_scale_order_params: seven more fields when the price increment   *)
(* (the third field) is set and positive.                                  *)
ReadScale ==
  /\ Call("scale")
  /\ LET inc == V(pos + 2) = 1
     IN /\ Consume("scale", 3 + (IF inc THEN 7 ELSE 0))
        /\ dec' = [dec EXCEPT !.scale = inc]
  /\ pc' = pc + 1
  /\ UNCHANGED <<Fixed, cond>>

(* read_hedge_params: hedge_param only when hedge_type is not empty. *)
ReadHedge ==
  /\ Call("hedge")
  /\ Consume("hedge", 1 + B(V(pos) = 1))
  /\ dec' = [dec EXCEPT !.hedge = (V(pos) = 1)]
  /\ pc' = pc + 1
  /\ UNCHANGED <<Fixed, cond>>

(* read_delta_neutral: three contract fields when the flag is set. *)
ReadDeltaNeutral ==
  /\ Call("delta_neutral")
  /\ Consume("delta_neutral", 1 + 3 * B(V(pos) = 1))
  /\ dec' = [dec EXCEPT !.dnc = (V(pos) = 1)]
  /\ pc' = pc + 1
  /\ UNCHANGED <<Fixed, cond>>

(* read_algo_params: a count and its params only when the strategy is set. *)
ReadAlgo ==
  /\ Call("algo")
  /\ LET set == V(pos) # 0
         n == IF set THEN V(pos + 1) ELSE 0
     IN /\ Consume("algo", 1 + (IF set THEN 1 + 2 * n ELSE 0))
        /\ dec' = [dec EXCEPT !.algo = IF set THEN n ELSE -1]
  /\ pc' = pc + 1
  /\ UNCHANGED <<Fixed, cond>>

(* read_what_if_info_and_commission: what_if and status, six margins from *)
(* WHAT_IF_EXT_FIELDS, seven fields, then from FULL_ORDER_PREVIEW_FIELDS  *)
(* twelve fields, a count and seven fields per allocation; warning_text.   *)
ReadWhatIf ==
  /\ Call("what_if")
  /\ LET full == At("FULL_ORDER_PREVIEW_FIELDS", sv)
         head == 2 + 6 * B(At("WHAT_IF_EXT_FIELDS", sv)) + 7
         allocs == IF full THEN V(pos + head + 12) ELSE 0
     IN /\ Consume("what_if", head + (IF full THEN 13 + 7 * allocs ELSE 0) + 1)
        /\ dec' = [dec EXCEPT !.allocs = allocs]
  /\ pc' = pc + 1
  /\ UNCHANGED <<Fixed, cond>>

(* read_peg_to_bench_params: five fields from PEGGED_TO_BENCHMARK when the *)
(* order type is PEG BENCH.                                                *)
ReadPegToBench ==
  /\ Call("peg_to_bench")
  /\ Consume("peg_to_bench",
             IF At("PEGGED_TO_BENCHMARK", sv) /\ dec.pegbench THEN 5 ELSE 0)
  /\ pc' = pc + 1
  /\ UNCHANGED <<Fixed, dec, cond>>

-----------------------------------------------------------------------------
(* read_conditions below PEGGED_TO_BENCHMARK: nothing is read. *)
SkipConditions ==
  /\ Call("conditions")
  /\ ~At("PEGGED_TO_BENCHMARK", sv)
  /\ Consume("conditions", 0)
  /\ pc' = pc + 1
  /\ UNCHANGED <<Fixed, dec, cond>>

ReadConditionsCount ==
  /\ Call("conditions")
  /\ At("PEGGED_TO_BENCHMARK", sv)
  /\ cond.phase = "count"
  /\ Consume("conditions", 1)
  /\ cond' = [phase |-> "items", left |-> V(pos), count |-> V(pos), start |-> pos]
  /\ UNCHANGED <<Fixed, pc, dec>>

(* Mutant: the decoded condition is not pushed onto order.conditions. *)
ReadConditionUnpushed ==
  /\ Call("conditions")
  /\ cond.phase = "items" /\ cond.left > 0
  /\ V(pos) \in DOMAIN DecodedPayload
  /\ LET n == 2 + DecodedPayload[V(pos)]
     IN /\ Take("conditions", cond.start,
                [k \in 1 .. n |-> pos - cond.start + k])
        /\ status' = IF pos + n - 1 > Len(frame) THEN "err" ELSE status
  /\ cond' = [cond EXCEPT !.left = @ - 1]
  /\ UNCHANGED <<Fixed, pc, dec>>

(* One pass of the loop: condition_type and is_conjunction, then the      *)
(* decoder of that type (decode_price_condition ...).                      *)
ReadCondition ==
  /\ Call("conditions")
  /\ cond.phase = "items" /\ cond.left > 0
  /\ V(pos) \in DOMAIN DecodedPayload
  /\ LET n == 2 + DecodedPayload[V(pos)]
     IN /\ Take("conditions", cond.start,
                [k \in 1 .. n |-> pos - cond.start + k])
        /\ status' = IF pos + n - 1 > Len(frame) THEN "err" ELSE status
  /\ cond' = [cond EXCEPT !.left = @ - 1]
  /\ dec' = [dec EXCEPT !.conds = Append(@, V(pos))]
  /\ UNCHANGED <<Fixed, pc>>

(* An unknown condition type: Err(Parse), the message is dropped. *)
ReadUnknownCondition ==
  /\ Call("conditions")
  /\ cond.phase = "items" /\ cond.left > 0
  /\ V(pos) \notin DOMAIN DecodedPayload
  /\ Take("conditions", cond.start, [k \in 1 .. 2 |-> pos - cond.start + k])
  /\ status' = "err"
  /\ UNCHANGED <<Fixed, pc, dec, cond>>

(* After the loop: the two flags when there was a condition. *)
ReadConditionsTail ==
  /\ Call("conditions")
  /\ cond.phase = "items" /\ cond.left <= 0
  /\ LET n == IF cond.count > 0 THEN 2 ELSE 0
     IN /\ Take("conditions", cond.start,
                [k \in 1 .. n |-> pos - cond.start + k])
        /\ status' = IF pos + n - 1 > Len(frame) THEN "err" ELSE status
  /\ cond' = [cond EXCEPT !.phase = "count"]
  /\ pc' = pc + 1
  /\ UNCHANGED <<Fixed, dec>>

-----------------------------------------------------------------------------
(* Every call returned Ok: the decoder returns the decoded record. *)
Finish ==
  /\ status = "running"
  /\ pc = Len(Program[kind]) + 1
  /\ status' = "ok"
  /\ UNCHANGED <<Fixed, pc, pos, dec, cond, bad, moved>>

Init ==
  /\ sv \in Versions
  /\ kind \in MsgKinds
  /\ shape \in IF kind \in {"open", "completed"} THEN Shapes ELSE {DefaultShape}
  /\ frame = Wire(kind, sv, shape)
  /\ pc = 1
  /\ pos = 1
  /\ status = "running"
  /\ dec = DefaultShape
  /\ cond = [phase |-> "count", left |-> 0, count |-> 0, start |-> 0]
  /\ bad = {}
  /\ moved = {}

Next ==
  \/ ReadHeader
  \/ \E f \in DOMAIN Width : ReadFixed(f)
  \/ \E f \in DOMAIN GatedWidth : ReadGated(f)
  \/ ReadOrderType \/ ReadFaParams \/ ReadVolatility \/ ReadComboLegs
  \/ ReadSmartCombo \/ ReadScale \/ ReadHedge \/ ReadDeltaNeutral
  \/ ReadAlgo \/ ReadWhatIf \/ ReadPegToBench
  \/ SkipConditions \/ ReadConditionsCount \/ ReadCondition
  \/ ReadUnknownCondition \/ ReadConditionsTail
  \/ Finish

Spec == Init /\ [][Next]_vars

-----------------------------------------------------------------------------
TypeOK ==
  /\ sv \in Versions
  /\ kind \in MsgKinds
  /\ pc \in Nat /\ pos \in Nat \ {0}
  /\ status \in {"running", "ok", "err"}
  /\ cond.phase \in {"count", "items"}
  /\ bad \subseteq Nat /\ moved \subseteq Nat

(* Every field the decoder reads is the field it takes it for: the server *)
(* sent that field of that group at that place.  A wrong version gate or  *)
(* a wrong count in one read_* function shifts every later read.          *)
NoMisalignedRead == bad = {}

(* Every value read lands in the attribute the server sent it for: no     *)
(* field's value is stored into another attribute (spec 8, invariant 1:   *)
(* encode(decode(frame)) = frame).                                         *)
NoMisplacedValue == moved = {}

(* When the decoder returns: it fails exactly when the server sent a      *)
(* condition type it does not know; when it succeeds it has consumed the  *)
(* whole frame and recovered every count, flag and condition type the     *)
(* server encoded.                                                         *)
DecodeOutcome ==
  status # "running" =>
    /\ (status = "err") = SendsUnknownCondition(kind, sv, shape)
    /\ status = "ok" => pos = Len(frame) + 1 /\ dec = Sent(kind, sv, shape)

=============================================================================
