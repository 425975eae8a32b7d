------------------------------- MODULE ProxyCost -------------------------------
(***************************************************************************)
(* The usage that a model call reports, and what the call costs            *)
(* (proxy/sse.rs, core/cost.rs).                                           *)
(***************************************************************************)
EXTENDS Naturals

CONSTANTS
  Prices,     \* model -> [input, output, read, create, turn]
  Mtok, U32,  \* the tokens a price is for, the values of a u32
  None

NoUsage == [tokens_in |-> None, tokens_out |-> None, reasoning |-> None,
            create |-> None, read |-> None, stop_reason |-> None]

PriceFor(model) == Prices[IF model \in DOMAIN Prices THEN model ELSE "cursor"]

Or0(n) == IF n = None THEN 0 ELSE n

SaturatingAdd(a, b) == IF a + b < U32 THEN a + b ELSE U32 - 1

Charge(tokens, price) == (tokens * price) \div Mtok

\* Without tokens: the average turn of the model.
Estimate(model, tokens_in, tokens_out) ==
  LET price == PriceFor(model)
      guess == tokens_in = 0 /\ tokens_out = 0 /\ price.turn > 0
  IN Charge(IF guess THEN (price.turn * 4) \div 5 ELSE tokens_in, price.input)
       + Charge(IF guess THEN price.turn \div 5 ELSE tokens_out, price.output)

EstimateUsageCost(model, u) ==
  LET price == PriceFor(model)
  IN Charge(Or0(u.tokens_in), price.input)
       + Charge(SaturatingAdd(Or0(u.tokens_out), Or0(u.reasoning)), price.output)
       + Charge(Or0(u.read), price.read)
       + Charge(Or0(u.create), price.create)

\* A call that failed without a usage costs nothing.
ProxyEventCost(model, u, failed) ==
  LET saw == [u EXCEPT !.stop_reason = None] # NoUsage
  IN IF failed /\ ~saw THEN None
     ELSE IF ~failed /\ ~saw THEN Estimate(None, 0, 0)
     ELSE EstimateUsageCost(model, u)
================================================================================
