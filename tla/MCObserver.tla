----------------------------- MODULE MCObserver -----------------------------
(***************************************************************************)
(* Small instances of Observer.  The trackers are "whole", which is        *)
(* aggregated, "single", with one payment method, and "double", with two;  *)
(* a configuration takes some of them, all of user "me" and in the market  *)
(* it names.                                                               *)
(***************************************************************************)
EXTENDS Observer

CONSTANTS cash, bank, here, there, binance, bybit, r1

MCPaymentOf ==
    [t \in Tracker |-> IF t = "single" THEN {cash} ELSE {cash, bank}]

MCAggregated == Tracker \cap {"whole"}

MCUsername == [t \in Tracker |-> "me"]

(* One market for all trackers, or one of its own for "whole".             *)
OneMarket == [t \in Tracker |-> here]
TwoMarkets == [t \in Tracker |-> IF t = "whole" THEN there ELSE here]

MCExchangeOf == [m \in Market |-> IF m = here THEN binance ELSE bybit]

Ad(name, price, pays) == [name |-> name, price |-> price, pays |-> pays]

(* Nothing to see; on top of both methods; outbid on both at another price *)
(* and at the same price; outbid on one method only, on top of the other.  *)
MCBooks ==
    { <<>>,
      <<Ad("me", 1, {cash, bank})>>,
      <<Ad("rival", 2, {cash, bank}), Ad("me", 1, {cash, bank})>>,
      <<Ad("rival", 1, {cash})>>,
      <<Ad("rival", 2, {bank}), Ad("me", 1, {cash, bank})>> }

(* On top of both methods, and outbid on one of them.                     *)
MCFewBooks ==
    { <<Ad("me", 1, {cash, bank})>>,
      <<Ad("rival", 2, {cash}), Ad("me", 1, {cash, bank})>> }
=============================================================================
