------------------------------- MODULE Access -------------------------------
(***************************************************************************)
(* What a wiki's card lets a local and a cloud model receive (access.py),  *)
(* and the migration of a card from schema 1 to 2 (registry.py).  A card   *)
(* is a record with at least [version, privacy, sensitivity, local, cloud, *)
(* mode, visibility, provisional, halfLife]; an empty field is "unset".    *)
(***************************************************************************)
EXTENDS Integers

Rank(level) == CASE level = "none" -> 0 [] level = "digest-only" -> 1 [] level = "full" -> 2

SensitivityRank(s) == CASE s = "public-reference" -> 0 [] s \in {"company-private", "collaborative"} -> 1
                        [] s = "personal-local" -> 2 [] s = "unclassified" -> 3

Narrower(a, b) == IF Rank(a) <= Rank(b) THEN a ELSE b

Stated(value, otherwise) == IF value = "unset" THEN otherwise ELSE value

(* PRIVACY_SENSITIVITY: digest-only, pointer-only and unset have none.     *)
Classed == {"public-reference", "company-private", "personal-local"}

(* _wiki_from_json: the fields that schema 1 does not have.                *)
FitsVersion(card) ==
  card.version = 1 =>
    /\ \A f \in {"sensitivity", "local", "cloud", "mode", "visibility"} : card[f] = "unset"
    /\ ~card.provisional /\ ~card.halfLife

(* What a registry, or a wiki's own card, is read as; all else is broken.  *)
(* Only a card of its own may do without a privacy class.                  *)
EntryValid(card, registered) ==
  /\ {"version", "privacy", "sensitivity", "local", "cloud", "mode", "visibility", "provisional", "halfLife"}
       \subseteq DOMAIN card
  /\ card.version \in (IF registered THEN {1, 2} ELSE {2}) /\ FitsVersion(card)
  /\ card.privacy \in Classed \cup {"digest-only", "pointer-only"}
                     \cup (IF registered THEN {} ELSE {"unset"})
  /\ card.sensitivity \in Classed \cup {"collaborative", "unclassified", "unset"}
  /\ {card.local, card.cloud} \subseteq {"full", "digest-only", "none", "unset"}
  /\ card.mode \in {"full", "pointer", "unset"}
  /\ card.visibility \in {"full", "redacted", "hidden", "unset"}

(* _PRIVACY_DEFAULTS                                                       *)
DefaultLocal(p) == CASE p = "pointer-only" -> "none" [] p = "digest-only" -> "digest-only" [] OTHER -> "full"
DefaultCloud(p) == CASE p = "public-reference" -> "full"
                     [] p \in {"personal-local", "digest-only"} -> "digest-only" [] OTHER -> "none"

(* The ceilings.                                                           *)
PrivacyLocal(p) == IF p \in {"digest-only", "pointer-only"} THEN DefaultLocal(p) ELSE "full"
PrivacyCloud(p) == IF p \in {"personal-local", "digest-only", "pointer-only"} THEN DefaultCloud(p) ELSE "full"
SensitivityCloud(s) == CASE s = "personal-local" -> "digest-only" [] s = "unclassified" -> "none" [] OTHER -> "full"

(* The stated sensitivity, unless the privacy class implies a stricter one.*)
EffectiveSensitivity(card) ==
  IF card.sensitivity = "unset" THEN IF card.privacy \in Classed THEN card.privacy ELSE "unclassified"
  ELSE IF card.privacy \in Classed /\ SensitivityRank(card.privacy) > SensitivityRank(card.sensitivity)
       THEN card.privacy ELSE card.sensitivity

EffectiveCloud(card) ==
  LET s       == EffectiveSensitivity(card)
      default == Narrower(DefaultCloud(card.privacy),
                          IF s \in {"company-private", "collaborative"} THEN "none" ELSE "full")
      governed == card.sensitivity = "unset" /\ card.privacy \in {"digest-only", "pointer-only"}
  IN Narrower(Narrower(Stated(card.cloud, default), IF governed THEN "full" ELSE SensitivityCloud(s)),
              PrivacyCloud(card.privacy))

EffectiveLocal(card) == Narrower(Stated(card.local, DefaultLocal(card.privacy)), PrivacyLocal(card.privacy))

EffectiveMode(card) == IF card.privacy = "pointer-only" THEN "pointer" ELSE Stated(card.mode, "full")

EffectiveVisibility(card) ==
  Stated(card.visibility,
         IF "personal-local" \in {card.privacy, EffectiveSensitivity(card)} THEN "redacted" ELSE "full")

(* effective_policy                                                        *)
EffectivePolicy(card) ==
  [sensitivity |-> EffectiveSensitivity(card), local |-> EffectiveLocal(card), cloud |-> EffectiveCloud(card),
   mode |-> EffectiveMode(card), visibility |-> EffectiveVisibility(card)]

(* policy_findings: the errors, a card that states more than it is given.  *)
PolicyErrors(card) ==
  {f \in {"sensitivity", "local", "cloud", "mode"} :
     card[f] # "unset" /\ card[f] # EffectivePolicy(card)[f]
     /\ (f = "mode" => card.privacy = "pointer-only")}

(* Faulty: a class that says nothing of sensitivity is unclassified.       *)
MigratedUnclassified(card) ==
  LET p == card.privacy
      classed == [card EXCEPT !.version = 2, !.sensitivity = IF p \in Classed THEN p ELSE "unclassified"]
  IN IF p = "company-private" THEN classed
     ELSE [classed EXCEPT !.local = DefaultLocal(p), !.cloud = DefaultCloud(p),
                          !.mode = IF p = "pointer-only" THEN "pointer" ELSE @]

(* migrate_registry, for one of its wikis: a schema 1 card states none of  *)
(* the schema 2 fields, and what it implied is written out.                *)
Migrated(card) ==
  LET p == card.privacy
      classed == [card EXCEPT !.version = 2, !.sensitivity = IF p \in Classed THEN p ELSE "unset"]
  IN IF p = "company-private" THEN classed
     ELSE [classed EXCEPT !.local = DefaultLocal(p), !.cloud = DefaultCloud(p),
                          !.mode = IF p = "pointer-only" THEN "pointer" ELSE @]
=============================================================================
