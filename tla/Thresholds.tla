----------------------------- MODULE Thresholds -----------------------------
(***************************************************************************)
(* How routing turns what a card and a request share into a confidence,    *)
(* and confidences into a decision (confidence.py), in ten-thousandths.    *)
(***************************************************************************)
EXTENDS Integers, FiniteSets, FiniteSetsExt

LoadFloor     == 7500   \* RELIANCE_FLOOR
OfferFloor    == 2500
TextFloor     == 3500   \* TEXT_ONLY_OFFER_FLOOR
SoloFloor     == 6000
AmbiguityBand == 500
NoSolo        == 10001  \* no confidence reaches it

(* SIGNAL_STRENGTH                                                         *)
Strength(kind) == CASE kind \in {"trigger", "label"} -> 100 [] kind = "name" -> 70
                    [] kind \in {"digest", "target"} -> 50 [] kind = "text" -> 30

(* The strongest signal of any token, blended with the share of the tokens *)
(* that signal at all.  signals: the strengths of those that do, by token. *)
Strongest(signals) == Max({0} \cup {signals[t] : t \in DOMAIN signals})

RouteConfidence(signals, tokens) ==
  LET n == Cardinality(tokens) IN
  IF n = 0 THEN 0 ELSE 60 * Strongest(signals) + (8000 * Cardinality(DOMAIN signals) + n) \div (2 * n)

(* decide, over a confidence for each candidate                            *)
Best(conf) == Max({0} \cup {conf[i] : i \in DOMAIN conf})
InBand(conf) == {i \in DOMAIN conf : conf[i] >= Best(conf) - AmbiguityBand}

Decision(conf, solo) ==
  IF Best(conf) < OfferFloor THEN "no-match"
  ELSE IF Best(conf) >= LoadFloor /\ Cardinality(InBand(conf)) = 1 THEN "load"
  ELSE IF Cardinality(DOMAIN conf) = 1 /\ Best(conf) >= solo THEN "load"
  ELSE "offer"

(* authorize: a load covers each candidate that reaches the floor itself.  *)
Authorized(conf, solo) ==
  LET reached == {i \in DOMAIN conf : conf[i] >= LoadFloor} IN
  CASE Decision(conf, solo) = "no-match" -> {}
    [] Decision(conf, solo) = "offer" -> InBand(conf)
    [] Decision(conf, solo) = "load" -> IF reached = {} THEN DOMAIN conf ELSE reached
=============================================================================
