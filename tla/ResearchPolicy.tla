--------------------------- MODULE ResearchPolicy ---------------------------
(***************************************************************************)
(* What a wiki's research policy says of a source (policy.py).  A policy is*)
(* a record [permitted, tiers, video, ceiling, authorities, freshness],    *)
(* its tiers in order, each [quality, claimTypes, matchers]; a matcher is a*)
(* function from the fields it names to the values it wants.               *)
(***************************************************************************)
EXTENDS Integers, Sequences, FiniteSetsExt, Functions

NoPolicy == [permitted |-> FALSE, tiers |-> <<>>, video |-> [quality |-> "prior", claimTypes |-> {}],
             ceiling |-> 1000, authorities |-> {}, freshness |-> <<>>]

Qualities == {"primary", "synthesis", "hypothesis", "prior"}
ClaimTypes == {"fact", "decision", "hypothesis", "procedure", "example", "guidance",
               "attributed-statement"}
SourceClasses == {"primary-literature", "systematic-review", "official-guidance",
                  "practitioner", "video", "dataset"}

(* _validate_matcher                                                       *)
MatcherValid(matcher) ==
  /\ DOMAIN matcher # {}
  /\ DOMAIN matcher \subseteq {"registry", "host", "publisher", "document_type", "jurisdiction", "max_tier"}
  /\ "document_type" \in DOMAIN matcher => matcher.document_type \in SourceClasses

(* from_data: what a policy that is read from a card can be.  Research is  *)
(* permitted only with tiers; 0 is a half-life or a date that is not set.  *)
PolicyValid(rules) ==
  /\ rules.tiers \in Seq(Range(rules.tiers))
  /\ rules.permitted => rules.tiers # <<>>
  /\ \A i \in DOMAIN rules.tiers :
       /\ rules.tiers[i].quality \in Qualities
       /\ rules.tiers[i].claimTypes \subseteq ClaimTypes
       /\ \A matcher \in rules.tiers[i].matchers : MatcherValid(matcher)
  /\ rules.video.quality \in Qualities /\ rules.video.claimTypes \subseteq ClaimTypes
  /\ rules.ceiling > 0
  /\ DOMAIN rules.freshness \subseteq ClaimTypes
  /\ \A type \in DOMAIN rules.freshness :
       rules.freshness[type].halfLife \in Nat /\ rules.freshness[type].expires \in Nat

(* QUALITY_BASE, in hundredths.                                            *)
QualityBase(q) == CASE q = "primary" -> 90 [] q = "synthesis" -> 70
                    [] q = "hypothesis" -> 50 [] q = "prior" -> 20

(* _matcher_matches: a field the facts do not have never matches, which    *)
(* leaves out registry, host and max_tier: acceptance has no such facts.   *)
Matches(matcher, facts) == \A k \in DOMAIN matcher : k \in DOMAIN facts /\ facts[k] = matcher[k]

(* tier_for_facts: the first tier that admits the claim type and matches,  *)
(* as a sequence of at most one.                                           *)
TierFor(rules, facts, type) ==
  LET fitting == {i \in DOMAIN rules.tiers :
                    /\ type \in rules.tiers[i].claimTypes
                    /\ \E m \in rules.tiers[i].matchers : Matches(m, facts)}
  IN IF ~rules.permitted \/ fitting = {} THEN <<>> ELSE <<rules.tiers[Min(fitting)]>>

ClampQuality(p, q) == IF QualityBase(p) <= QualityBase(q) THEN p ELSE q

(* admitted_quality: a video is worth no more than the policy's ceiling.   *)
AdmittedQuality(rules, tier, class) ==
  IF class = "video" THEN ClampQuality(tier.quality, rules.video.quality) ELSE tier.quality

AdmitsClaimType(rules, class, type) == class = "video" => type \in rules.video.claimTypes

(* freshness_state over days; 0 is a date that is absent.                  *)
FreshnessState(rules, type, asOf, today) ==
  IF type \notin DOMAIN rules.freshness THEN "unknown"
  ELSE LET entry == rules.freshness[type] IN
       IF entry.expires # 0 /\ today > entry.expires THEN "stale"
       ELSE IF entry.halfLife # 0
            THEN IF asOf = 0 THEN "unknown"
                 ELSE IF today - asOf > entry.halfLife THEN "stale" ELSE "fresh"
            ELSE IF entry.expires # 0 THEN "fresh" ELSE "unknown"
=============================================================================
