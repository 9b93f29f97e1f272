----------------------------- MODULE Acceptance -----------------------------
(***************************************************************************)
(* From artifacts to claims that are relied on (evidence.py, confidence.py)*)
(* over the commands that record them (cli.py).  An artifact's acceptance  *)
(* is derived when it is recorded and then stays in the store, while       *)
(* quotations, correction notices, contradictions and the wiki's policy    *)
(* move on; a claim's score is computed from what holds now.               *)
(***************************************************************************)
EXTENDS ResearchPolicy, FiniteSets, FiniteSetsExt

CONSTANTS Artifacts,    \* frozen retrievals
          Facts,        \* what is frozen of each
          Spans,        \* quotations
          SpanOf,       \* [artifact, length, resolves] of each
          Claims,
          ClaimOf,      \* [type, supports]: the spans a claim cites
          Policies,     \* what the wiki's policy may be
          Lifecycles,   \* the ones that claims are recorded with
          Postures,     \* the statuses that notices are recorded with
          Today,
          MaxNotices, MaxPolicies

(* validate_evidence: what can be frozen of an artifact.  `asOf` is the day *)
(* it speaks of, else the day it was published; 0 if neither is known.     *)
FactsValid(facts) ==
  /\ facts.class \in SourceClasses
  /\ facts.basis \in {"authority-registry", "host", "unresolved"}
  /\ facts.frozen \in {"clean", "corrected", "expression_of_concern", "retracted", "unknown"}
  /\ facts.dated => facts.asOf # 0
  /\ facts.lineage \in {"pass", "fail", "unknown"}

ASSUME AcceptanceConstants ==
  /\ \A e \in Artifacts : FactsValid(Facts[e])
  /\ \A rules \in Policies : PolicyValid(rules)
  /\ \A c \in Claims : ClaimOf[c].supports \subseteq Spans
  /\ \A s \in Spans : SpanOf[s].artifact \in Artifacts
  /\ IsFiniteSet(Spans)
  /\ Lifecycles \subseteq {"proposed", "shaky", "rejected", "superseded", "confirmed", "active"}
  /\ MaxNotices \in Nat /\ MaxPolicies \in Nat

VARIABLES policy,       \* the wiki's policy now
          acceptance,   \* [decision, quality] of each recorded artifact
          quoted,       \* the quotations recorded
          notices,      \* the correction chain of each artifact
          lifecycle,    \* of each claim; "none" if it is not recorded
          disputes,     \* the unresolved contradictions, each the set of its claims
          policies      \* how often the policy changed

acVars == <<policy, acceptance, quoted, notices, lifecycle, disputes, policies>>

Unrecorded == [decision |-> "none", quality |-> "prior"]
Recorded(e) == acceptance[e] # Unrecorded

AcceptanceInit ==
  /\ policy \in Policies
  /\ acceptance = [e \in Artifacts |-> Unrecorded]
  /\ quoted = {}
  /\ notices = [e \in Artifacts |-> <<>>]
  /\ lifecycle = [c \in Claims |-> "none"]
  /\ disputes = {}
  /\ policies = 0

-----------------------------------------------------------------------------
(* acceptance_gates                                                        *)

(* resolve_corrections: the last notice, else what was frozen.             *)
Posture(e) == IF notices[e] = <<>> THEN Facts[e].frozen ELSE notices[e][Len(notices[e])]

PublisherVerdict(e, p) ==
  IF Facts[e].basis = "unresolved" THEN "fail"
  ELSE IF p = NoPolicy THEN "unknown"
  ELSE IF Facts[e].basis = "authority-registry" /\ Facts[e].publisher \notin p.authorities
       THEN "fail" ELSE "pass"

QuotationVerdict(spans, ceiling) ==
  IF spans = {} THEN "unknown"
  ELSE IF \E s \in spans : SpanOf[s].length <= ceiling /\ SpanOf[s].resolves
       THEN "pass" ELSE "fail"

PassIf(condition, otherwise) == IF condition THEN "pass" ELSE otherwise

TierOf(e, p, type) ==
  TierFor(p, [publisher |-> Facts[e].publisher, jurisdiction |-> Facts[e].jurisdiction,
              document_type |-> Facts[e].class], type)

(* G1, G2, G7, G8 and G12 pass for every record that is valid.  The gates  *)
(* of a video judge its lineage, as one.                                   *)
Gates(e, p, type, spans) ==
  [dated       |-> PassIf(Facts[e].dated, "unknown"),
   updates     |-> PassIf(Facts[e].updates, "unknown"),
   author      |-> PassIf(Facts[e].attributed, "fail"),
   publisher   |-> PublisherVerdict(e, p),
   corrections |-> PassIf(Posture(e) = "clean", "fail"),
   quotation   |-> QuotationVerdict(spans, p.ceiling),
   policy      |-> PassIf(TierOf(e, p, type) # <<>> /\ AdmitsClaimType(p, Facts[e].class, type), "unknown"),
   video       |-> IF Facts[e].class = "video" THEN Facts[e].lineage ELSE "pass"]

(* decide_acceptance                                                       *)
Decide(gates) ==
  LET verdicts == {gates[g] : g \in DOMAIN gates} IN
  IF "fail" \in verdicts THEN "rejected" ELSE IF "unknown" \in verdicts THEN "deferred" ELSE "accepted"

AcceptedFor(e, p, type, spans) == Decide(Gates(e, p, type, spans)) = "accepted"

-----------------------------------------------------------------------------
(* claim_confidence, in hundredths; 0 stands for unknown.                  *)

Supporting(c) == {SpanOf[s].artifact : s \in ClaimOf[c].supports}
Conflicted(c) == \E S \in disputes : c \in S

(* Faulty: a source counts as it did when it was accepted.                 *)
GoodAsAccepted(e) == acceptance[e].decision = "accepted"

Good(e) == acceptance[e].decision = "accepted" /\ Posture(e) = "clean"

Cap(life) == CASE life = "proposed" -> 50 [] life = "shaky" -> 60
               [] life \in {"rejected", "superseded"} -> 10
               [] life \in {"confirmed", "active"} -> 100

Smallest(S) == CHOOSE x \in S : \A y \in S : x <= y

(* The oldest date of the artifacts it cites, good or not.                 *)
Freshness(c, p) ==
  LET dates == {Facts[e].asOf : e \in {x \in Supporting(c) : Recorded(x)}} \ {0} IN
  FreshnessState(p, ClaimOf[c].type, IF dates = {} THEN 0 ELSE Smallest(dates), Today)

Score(c, p) ==
  LET good    == {e \in Supporting(c) : Good(e)}
      base    == Max({QualityBase(acceptance[e].quality) : e \in good})
      origins == {Facts[e].origin : e \in {x \in good : acceptance[x].quality \in {"primary", "synthesis"}}}
      bonus   == IF origins = {} THEN -5 ELSE Min({5 * (Cardinality(origins) - 1), 10})
      caps    == {Cap(lifecycle[c]), 100}
                 \cup (CASE Freshness(c, p) = "fresh" -> {} [] Freshness(c, p) = "stale" -> {60}
                         [] OTHER -> {70})
                 \cup (IF Conflicted(c) THEN {50} ELSE {})
  IN IF good = {} THEN 0 ELSE Min(caps \cup {base + (IF bonus > 0 THEN bonus ELSE 0)})

RelianceFloor == 75
MeetsFloor(c, p) == Score(c, p) >= RelianceFloor

-----------------------------------------------------------------------------
(* The commands.  Each is given the policy of the wiki it names, or none.  *)

RecordArtifact(e, p, type) ==
  /\ LET decision == Decide(Gates(e, p, type, {s \in quoted : SpanOf[s].artifact = e}))
         tier     == TierOf(e, p, type)
     IN acceptance' = [acceptance EXCEPT ![e] =
          [decision |-> decision,
           quality  |-> IF tier = <<>> THEN "prior" ELSE AdmittedQuality(p, tier[1], Facts[e].class)]]
  /\ UNCHANGED <<policy, quoted, notices, lifecycle, disputes, policies>>

RecordQuotation(s, p) ==
  /\ Recorded(SpanOf[s].artifact)
  /\ SpanOf[s].length <= p.ceiling
  /\ quoted' = quoted \cup {s}
  /\ UNCHANGED <<policy, acceptance, notices, lifecycle, disputes, policies>>

RecordCorrection(e, status) ==
  /\ Recorded(e) /\ Len(notices[e]) < MaxNotices
  /\ notices' = [notices EXCEPT ![e] = Append(@, status)]
  /\ UNCHANGED <<policy, acceptance, quoted, lifecycle, disputes, policies>>

(* Faulty: the acceptance that is stored is good enough.                   *)
ClaimValidAsStored(c, life, p) ==
  LET spans == ClaimOf[c].supports IN
  /\ spans \subseteq quoted
  /\ life = "active" =>
       /\ spans # {}
       /\ \A s \in spans : SpanOf[s].resolves /\ acceptance[SpanOf[s].artifact].decision = "accepted"

(* validate_claim: what a claim cites is stored, and an active one is      *)
(* supported by what is accepted and clean now, by that span alone.        *)
ClaimValid(c, life, p) ==
  LET spans == ClaimOf[c].supports IN
  /\ spans \subseteq quoted
  /\ life = "active" =>
       /\ spans # {}
       /\ \A s \in spans :
            LET e == SpanOf[s].artifact IN
            /\ SpanOf[s].resolves
            /\ acceptance[e].decision = "accepted" /\ Posture(e) = "clean"
            /\ AcceptedFor(e, p, ClaimOf[c].type, {s})

RecordClaim(c, life, p) ==
  /\ ClaimValid(c, life, p)
  /\ lifecycle' = [lifecycle EXCEPT ![c] = life]
  /\ UNCHANGED <<policy, acceptance, quoted, notices, disputes, policies>>

(* reconcile: claims that are stored, or are stored with it.               *)
RecordContradiction(S) ==
  /\ Cardinality(S) >= 2
  /\ \A c \in S : lifecycle[c] # "none"
  /\ disputes' = disputes \cup {S}
  /\ UNCHANGED <<policy, acceptance, quoted, notices, lifecycle, policies>>

ResolveContradiction(S) ==
  /\ S \in disputes
  /\ disputes' = disputes \ {S}
  /\ UNCHANGED <<policy, acceptance, quoted, notices, lifecycle, policies>>

WikiPolicyChanges ==
  /\ policies < MaxPolicies /\ policies' = policies + 1
  /\ policy' \in Policies \ {policy}
  /\ UNCHANGED <<acceptance, quoted, notices, lifecycle, disputes>>

AcceptanceNext ==
  \/ \E p \in {policy, NoPolicy} :
       \/ \E e \in Artifacts : RecordArtifact(e, p, "fact")
       \/ \E s \in Spans : RecordQuotation(s, p)
       \/ \E c \in Claims, life \in Lifecycles : RecordClaim(c, life, p)
  \/ \E e \in Artifacts, status \in Postures : RecordCorrection(e, status)
  \/ \E S \in SUBSET Claims : RecordContradiction(S) \/ ResolveContradiction(S)
  \/ WikiPolicyChanges

AcceptanceSpec == AcceptanceInit /\ [][AcceptanceNext]_acVars

-----------------------------------------------------------------------------
(* Faulty: what was accepted stays so.                                     *)
PendingEvidenceOnce == {e \in Artifacts : acceptance[e].decision \in {"deferred", "rejected"}}

(* What review lists as work to do: artifacts that are not accepted, and   *)
(* those whose acceptance a notice has overtaken.                          *)
PendingEvidence ==
  {e \in Artifacts :
     \/ acceptance[e].decision \in {"deferred", "rejected"}
     \/ acceptance[e].decision = "accepted" /\ Posture(e) # "clean"}

-----------------------------------------------------------------------------

AcceptanceTypeOK ==
  /\ policy \in Policies
  /\ \A e \in Artifacts : acceptance[e].quality \in Qualities
                          /\ acceptance[e].decision \in {"none", "accepted", "rejected", "deferred"}
  /\ quoted \subseteq Spans /\ disputes \subseteq SUBSET Claims
  /\ lifecycle \in [Claims -> Lifecycles \cup {"none"}]

(* A claim is relied on exactly if it is confirmed or active, fresh, in no *)
(* open contradiction, and an artifact that is accepted and clean now is   *)
(* primary, or one is a synthesis and another origin corroborates it:      *)
(* whatever was retracted, contradicted or changed after it was recorded   *)
(* (evidence.py:1147, confidence.py:269).                                  *)
RelianceIsEarned ==
  \A c \in Claims : lifecycle[c] # "none" =>
    LET good == {e \in Supporting(c) : acceptance[e].decision = "accepted" /\ Posture(e) = "clean"}
        of(q) == {e \in good : acceptance[e].quality = q}
    IN MeetsFloor(c, policy) <=>
       /\ lifecycle[c] \in {"confirmed", "active"}
       /\ ~Conflicted(c)
       /\ Freshness(c, policy) = "fresh"
       /\ \/ of("primary") # {}
          \/ \E e, f \in of("synthesis") : Facts[e].origin # Facts[f].origin

(* A claim becomes active only on artifacts that would be accepted were    *)
(* they recorded again at that moment, under the policy that is named, and *)
(* not on an acceptance that a retraction or a stricter policy has         *)
(* overtaken (evidence.py:1003, 1015).                                     *)
ActiveRestsOnThePresent ==
  [][\A c \in Claims : lifecycle[c] # lifecycle'[c] /\ lifecycle'[c] = "active" =>
       \A e \in Supporting(c) :
         AcceptedFor(e, policy, ClaimOf[c].type, {s \in quoted : SpanOf[s].artifact = e})]_acVars

(* A claim that stops being relied on shows in what review lists, as an    *)
(* artifact of its own or an open contradiction, unless somebody changed   *)
(* the policy, the claim itself or an artifact's quality (review.py:180).  *)
LossIsListed ==
  [][\A c \in Claims :
       (/\ lifecycle[c] # "none" /\ lifecycle'[c] = lifecycle[c] /\ policy' = policy
        /\ \A e \in Supporting(c) : acceptance'[e].quality = acceptance[e].quality
        /\ MeetsFloor(c, policy) /\ ~MeetsFloor(c, policy)')
       => (Supporting(c) \cap PendingEvidence # {} \/ Conflicted(c))']_acVars
=============================================================================
