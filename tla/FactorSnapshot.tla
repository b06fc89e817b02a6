---------------------------- MODULE FactorSnapshot ----------------------------
(***************************************************************************)
(* The factors of one decision: FactorCaptureEngine computes them in       *)
(* groups, each until an item of its input cannot be read; the gateway     *)
(* sorts them into values and failures; the snapshot is stored, and the    *)
(* decision goes on whether or not that succeeded.                         *)
(***************************************************************************)
EXTENDS Integers, Sequences, FiniteSetsExt, Bags

CONSTANT MaxUnreadable  \* bound: items that cannot be read

VARIABLES
  item,       \* input item -> given, absent or unreadable
  length,     \* candles: none, one, or enough for a return
  stage,      \* of the build of the decision's bundle
  stored,     \* the snapshot has a row
  persist_ok, \* snapshot_persist_ok of the bundle
  healthy     \* the component factor_snapshots of the health service

factorVars == <<item, length, stage, stored, persist_ok, healthy>>

\* A group computes its factors in this order, and reads these items before each of them.
F(name, reads) == [name |-> name, reads |-> reads]

FACTOR_GROUPS == [
  price |-> <<F("return", {"close"}), F("momentum", {}), F("trend", {}),
              F("breakout", {"high"}), F("mean_reversion", {})>>,
  volume |-> <<F("volume_change", {"volume"}), F("volume_anomaly", {}),
               F("volume_divergence", {"close"})>>,
  volatility |-> <<F("atr", {"high", "close"}), F("realized_volatility", {}),
                   F("volatility_regime", {})>>,
  orderflow |-> <<F("orderbook_imbalance", {"book"}), F("buy_sell_imbalance", {}),
                  F("cvd", {"cvd"}), F("aggressive_trading_ratio", {"aggressive"})>>,
  derivatives |-> <<F("funding_rate", {"funding"}), F("funding_change", {"previous_funding"}),
                    F("open_interest", {"oi"}), F("oi_divergence", {"price_change"}),
                    F("liquidation_pressure", {"liquidation"})>>]

Group  == DOMAIN FACTOR_GROUPS
Candle == {"close", "high", "volume"}
Market == {"book", "cvd", "aggressive", "funding", "previous_funding", "oi", "price_change", "liquidation"}

\* An absent number is read as 0, which only the volumes and the book tell from a given one.
Item == Candle \cup Market

Names(g) == {FACTOR_GROUPS[g][i].name : i \in DOMAIN FACTOR_GROUPS[g]}
EXPECTED_FACTOR_IDS == UNION {Names(g) : g \in Group}

FactorInit ==
  /\ item = [i \in Item |-> "given"] /\ length = 0
  /\ stage = "idle" /\ stored = FALSE /\ persist_ok = TRUE /\ healthy = TRUE

-----------------------------------------------------------------------------
(* capture: a group's results so far stay when the group raises.           *)

Unreadable(in, f) == \E i \in f.reads : in[i] = "unreadable"

Raises(in, g) ==
  /\ g \in {"price", "volume", "volatility"} => length = 2
  /\ \E i \in DOMAIN FACTOR_GROUPS[g] : Unreadable(in, FACTOR_GROUPS[g][i])

\* Candles without volume have no average, and without a return nothing is computed.
Skips(in, g) ==
  \/ g \in {"price", "volume", "volatility"} /\ length < 2
  \/ g = "volume" /\ in["volume"] = "absent"

Computed(in, g) ==
  IF Skips(in, g) THEN {}
  ELSE {FACTOR_GROUPS[g][i].name : i \in
          {i \in DOMAIN FACTOR_GROUPS[g] : \A j \in 1..i : ~Unreadable(in, FACTOR_GROUPS[g][j])}}

\* Variant: one handler around all groups, and prices are computed first.
OneHandler(in) ==
  UNION {Computed(in, g) : g \in {g \in Group : Raises(in, "price") => g = "price"}}

capture(in) == UNION {Computed(in, g) : g \in Group}

\* last_calculation_errors: a group that raises is blamed with all its factors.
errors(in) == UNION {Names(g) : g \in {g \in Group : Raises(in, g) /\ ~Skips(in, g)}}

\* report_from_legacy_result, is_usable: without a book the two factors of it are marked.
usable(in, n) == n \in {"orderbook_imbalance", "buy_sell_imbalance"} => in["book"] = "given"

-----------------------------------------------------------------------------
(* calculate_snapshot.                                                     *)

factors(in) == {n \in capture(in) : usable(in, n)}

included_factors == {"trend", "momentum", "volatility", "volume", "orderflow", "funding", "open_interest"}

\* Three loops append to the failures, which are a tuple: a bag of names, as their order is read by nobody.
failed_factors(in) ==
  IF length = 0 THEN SetToBag(included_factors)
  ELSE SetToBag({n \in capture(in) : ~usable(in, n)})
       (+) SetToBag(EXPECTED_FACTOR_IDS \ (capture(in) \cup errors(in)))
       (+) SetToBag(errors(in) \ capture(in))

-----------------------------------------------------------------------------
(* build: the snapshot is stored, then the bundle is made.                 *)

calculate_snapshot ==
  /\ stage = "idle"
  /\ \E bad \in UNION {kSubset(k, Item) : k \in 0..MaxUnreadable}, absent \in SUBSET {"volume", "book"} :
       item' = [i \in Item |-> IF i \in bad THEN "unreadable"
                               ELSE IF i \in absent THEN "absent" ELSE "given"]
  /\ length' \in 0..2
  /\ stage' = "calculated" /\ UNCHANGED <<stored, persist_ok, healthy>>

\* The row is there and the call returned.
PersistSucceeds ==
  /\ stage = "calculated"
  /\ stage' = "built" /\ stored' = TRUE /\ persist_ok' = TRUE /\ healthy' = TRUE
  /\ UNCHANGED <<item, length>>

\* It raised, with or without a commit: an audit event, a health flag, and a mark.
PersistFails ==
  /\ stage = "calculated"
  /\ stage' = "built" /\ stored' \in BOOLEAN /\ persist_ok' = FALSE /\ healthy' = FALSE
  /\ UNCHANGED <<item, length>>

FactorNext == calculate_snapshot \/ PersistSucceeds \/ PersistFails

-----------------------------------------------------------------------------

\* The snapshot's share of the type invariant.
FactorTypeOK ==
  /\ item \in [Item -> {"given", "absent", "unreadable"}] /\ length \in 0..2
  /\ stage \in {"idle", "calculated", "built"}
  /\ stored \in BOOLEAN /\ persist_ok \in BOOLEAN /\ healthy \in BOOLEAN

\* Every expected factor is reported exactly once, with a value or as a failure, whichever
\* groups raise and however far they had come.
EveryFactorOnce ==
  length > 0 => failed_factors(item) = [n \in EXPECTED_FACTOR_IDS \ factors(item) |-> 1]

\* An item that cannot be read costs factors of the groups that read it, and of no other.
ErrorsStayInTheirGroup ==
  \A i \in DOMAIN item : item[i] = "unreadable" =>
    \A g \in Group :
      \/ \E j \in DOMAIN FACTOR_GROUPS[g] : i \in FACTOR_GROUPS[g][j].reads
      \/ factors(item) \cap Names(g) = factors([item EXCEPT ![i] = "given"]) \cap Names(g)

\* The mark that the decision keeps with its snapshot id is true: the id resolves unless the
\* mark says that it may not, and then the health service says so, too.
SnapshotIdResolves == stage = "built" => (persist_ok => stored) /\ (healthy <=> persist_ok)
=============================================================================
