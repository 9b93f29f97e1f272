------------------------------- MODULE Estate -------------------------------
(***************************************************************************)
(* An estate of wiki roots (catalog.py), routed to at the level of their   *)
(* cards (preflight.py).  A host records what preflight said and later     *)
(* asks for one of its offers (selection.py), or picks from the list of    *)
(* the existing wikis; cards, files, pages and the date move in between.   *)
(* The order in which results are listed, semantic reranking with it, is   *)
(* left out: it decides nothing.                                           *)
(***************************************************************************)
EXTENDS Access, Thresholds

CONSTANTS Roots,        \* each projects one wiki
          Registered,   \* those that have a registry; the others have a card only
          NameOf,       \* the name of each root's wiki
          Words,        \* [trigger, name, scope]: the tokens of its card
          CardsOf,      \* the cards the owner of each root writes
          Asks,         \* requests: [tokens, vetoes], vetoes the roots it declines
          Broken, NoPacket, MaxEdits

ModelClasses == {"local", "cloud"}

ASSUME EstateConstants ==
  /\ Registered \subseteq Roots /\ MaxEdits \in Nat
  /\ \A r \in Roots : \A card \in CardsOf[r] \ {Broken} :
       EntryValid(card, r \in Registered) /\ "paths" \in DOMAIN card
  /\ \A a \in Asks : a.vetoes \subseteq Roots

VARIABLES cards,      \* the card of each root, Broken if it cannot be read
          artifacts,  \* the roots whose declared files are there
          grown,      \* the roots that have gained a page or a proposal
          aged,       \* the half-lives are over
          packet,     \* the preflight the host recorded
          chosen,     \* what a selection has authorised
          edits

esVars == <<cards, artifacts, grown, aged, packet, chosen, edits>>

-----------------------------------------------------------------------------
(* build_catalog                                                           *)

Usable(card) == card # Broken

CatalogRow(r) ==
  IF Usable(cards[r])
  THEN [card |-> cards[r], policy |-> EffectivePolicy(cards[r]),
        stale |-> aged /\ cards[r].halfLife, grown |-> r \in grown]
  ELSE Broken

Catalog == [r \in Roots |-> CatalogRow(r)]

(* What cannot be read is neither a card nor a row.                        *)
ASSUME BrokenIsNone ==
  \A r \in Roots : \A c \in CardsOf[r] \ {Broken} : \A card \in {c, Migrated(c)}, stale, more \in BOOLEAN :
    Broken \notin {card, [card |-> card, policy |-> EffectivePolicy(card), stale |-> stale, grown |-> more]}

Ok(rows) == {r \in DOMAIN rows : rows[r] # Broken}

AccessLevel(row, model) == IF model = "cloud" THEN row.policy.cloud ELSE row.policy.local

(* allowed_paths and _follow_up                                            *)
AllowedPaths(row, access) ==
  IF row.policy.mode = "pointer" THEN {}
  ELSE IF access = "digest-only" THEN row.card.paths \cap {"digest"}
  ELSE row.card.paths

FollowUpLoads(row, access) ==
  row.policy.mode # "pointer" /\ (access = "digest-only" => "digest" \in row.card.paths)

-----------------------------------------------------------------------------
(* run_preflight, over the rows of a catalog                               *)

(* _score_row: the strongest signal class of each token.                   *)
SignalsOf(r, ask) ==
  LET hit == ask.tokens \cap (Words[r].trigger \cup Words[r].name \cup Words[r].scope) IN
  [t \in hit |-> Strength(IF t \in Words[r].trigger THEN "trigger"
                          ELSE IF t \in Words[r].name THEN "name" ELSE "text")]

Lexical == [r \in Roots, ask \in Asks |->
  [matched    |-> Cardinality(DOMAIN SignalsOf(r, ask)),
   strongest  |-> Strongest(SignalsOf(r, ask)),
   named      |-> ask.tokens \cap Words[r].name # {},
   confidence |-> RouteConfidence(SignalsOf(r, ask), ask.tokens)]]

Hidden(rows) == {r \in Ok(rows) : rows[r].policy.visibility = "hidden"}
Declined(rows, ask) == (Ok(rows) \ Hidden(rows)) \cap ask.vetoes

Scored(rows, ask) ==
  {r \in Ok(rows) \ (Hidden(rows) \cup ask.vetoes) : Lexical[r, ask].matched > 0}

(* A pointer exposes no content, and is shown whatever the access level.   *)
Eligible(rows, ask, model) ==
  {r \in Scored(rows, ask) : rows[r].policy.mode = "pointer" \/ AccessLevel(rows[r], model) # "none"}

Offerable(r, ask) ==
  /\ Lexical[r, ask].confidence >= OfferFloor
  /\ Lexical[r, ask].strongest >= Strength("name") \/ Lexical[r, ask].confidence >= TextFloor

(* Faulty: access is left to whoever loads the matches.                    *)
StrongScored(rows, ask, model) == {r \in Scored(rows, ask) : Offerable(r, ask)}

Strong(rows, ask, model) == {r \in Eligible(rows, ask, model) : Offerable(r, ask)}

(* The floor of a wiki that is alone: two tokens, or its name, and trusted.*)
SoloOf(rows, ask, strong) ==
  IF \E r \in strong : strong = {r} /\ ~rows[r].card.provisional
                       /\ (Lexical[r, ask].matched >= 2 \/ Lexical[r, ask].named)
  THEN SoloFloor ELSE NoSolo

(* What is said of the wikis that are strong enough, the domain of conf.   *)
Results(rows, ask, scored, eligible, conf, decision, authorized) ==
  LET matches == IF decision = "load" THEN {r \in authorized : ~rows[r].card.provisional} ELSE {}
      offers  == IF decision = "load" THEN DOMAIN conf \ matches
                 ELSE IF Best(conf) >= LoadFloor THEN authorized ELSE DOMAIN conf
      status  == CASE Ok(rows) = {} -> "unavailable"
                   [] Ok(rows) # {} /\ DOMAIN conf # {} -> IF matches # {} THEN "matched" ELSE "ambiguous"
                   [] Ok(rows) # {} /\ DOMAIN conf = {} /\ scored = {} ->
                        IF ask.tokens # {} /\ Hidden(rows) # {} THEN "privacy-filtered" ELSE "no-match"
                   [] OTHER -> IF eligible = {} THEN "privacy-filtered" ELSE "no-match"
  IN [status |-> status, matches |-> matches, offers |-> offers, filtered |-> scored \ eligible,
      declined |-> IF ask.tokens = {} THEN {} ELSE Declined(rows, ask),
      redacted |-> Cardinality(Hidden(rows)), issues |-> DOMAIN rows \ Ok(rows), confidence |-> Best(conf)]

Weighed(rows, ask, scored, eligible, conf, solo) ==
  Results(rows, ask, scored, eligible, conf, Decision(conf, solo), Authorized(conf, solo))

Preflight(rows, ask, model) ==
  Weighed(rows, ask, Scored(rows, ask), Eligible(rows, ask, model),
          [r \in Strong(rows, ask, model) |-> Lexical[r, ask].confidence],
          SoloOf(rows, ask, Strong(rows, ask, model)))

-----------------------------------------------------------------------------
(* _selected_row and the checks of select_offer that follow it             *)

Loadable(row, access) == access \in {"full", "digest-only"} /\ FollowUpLoads(row, access)

Selectable(rows, r, model) ==
  /\ r \in Ok(rows)
  /\ {q \in DOMAIN rows : rows[q] # Broken /\ NameOf[q] = NameOf[r]} = {r}
  /\ rows[r].policy.visibility \in {"full", "redacted"}
  /\ ~rows[r].card.provisional
  /\ rows[r].policy.mode # "pointer"
  /\ Loadable(rows[r], AccessLevel(rows[r], model))

(* _validate_root_and_paths                                                *)
Resolves(rows, r, model) == AllowedPaths(rows[r], AccessLevel(rows[r], model)) # {} => r \in artifacts

(* _existing_candidates                                                    *)
ExistingCandidates(rows, model) ==
  {r \in Roots : /\ Selectable(rows, r, model)
                 /\ ~rows[r].stale
                 /\ AllowedPaths(rows[r], AccessLevel(rows[r], model)) # {}
                 /\ Resolves(rows, r, model)}

-----------------------------------------------------------------------------

EstateInit ==
  /\ cards \in {c \in [Roots -> UNION {CardsOf[r] : r \in Roots}] : \A r \in Roots : c[r] \in CardsOf[r]}
  /\ artifacts = Roots /\ grown = {} /\ aged = FALSE
  /\ packet = NoPacket /\ chosen = {} /\ edits = 0

(* The host records the packet of a preflight, whole (--full).             *)
RecordPreflight(ask, model) ==
  /\ \E rows \in {Catalog} :
       packet' = [ask |-> ask, model |-> model, rows |-> rows, result |-> Preflight(rows, ask, model)]
  /\ UNCHANGED <<cards, artifacts, grown, aged, chosen, edits>>

(* Faulty: the same results are enough, whatever has become of the cards.  *)
ValidatedByResult(ask, model) ==
  /\ packet # NoPacket
  /\ packet.ask = ask /\ packet.model = model
  /\ packet.result = Preflight(Catalog, ask, model)

(* _validate_original: the request, the model and everything the preflight *)
(* said are those of a preflight that is run again.                        *)
Validated(ask, model) ==
  /\ packet # NoPacket
  /\ packet.ask = ask /\ packet.model = model
  /\ packet.rows = Catalog
  /\ packet.result = Preflight(packet.rows, ask, model)

(* select_offer                                                            *)
SelectOffer(ask, model, name) ==
  /\ Validated(ask, model)
  /\ \E r \in packet.result.offers :
       /\ {q \in packet.result.offers : NameOf[q] = name} = {r}
       /\ Selectable(packet.rows, r, model)
       /\ Resolves(packet.rows, r, model)
       /\ chosen' = {[root |-> r, ask |-> ask, model |-> model,
                      allows |-> AllowedPaths(packet.rows[r], AccessLevel(packet.rows[r], model))]}
  /\ UNCHANGED <<cards, artifacts, grown, aged, packet, edits>>

Work == chosen' = {} /\ UNCHANGED <<packet>>
Edited == edits < MaxEdits /\ edits' = edits + 1 /\ Work

EditCard(r, card) ==
  /\ Edited /\ card # cards[r] /\ cards' = [cards EXCEPT ![r] = card]
  /\ UNCHANGED <<artifacts, grown, aged>>

(* migrate_registry                                                        *)
Migrate(r) ==
  /\ r \in Registered /\ Usable(cards[r]) /\ cards[r].version = 1
  /\ cards' = [cards EXCEPT ![r] = Migrated(@)]
  /\ Work /\ UNCHANGED <<artifacts, grown, aged, edits>>

FilesMove(r) ==
  /\ Edited /\ artifacts' = IF r \in artifacts THEN artifacts \ {r} ELSE artifacts \cup {r}
  /\ UNCHANGED <<cards, grown, aged>>

(* A page is compiled or a proposal captured: both are counted in the row. *)
Grow(r) == Edited /\ r \notin grown /\ grown' = grown \cup {r} /\ UNCHANGED <<cards, artifacts, aged>>

DayPasses == Edited /\ ~aged /\ aged' = TRUE /\ UNCHANGED <<cards, artifacts, grown>>

EstateNext ==
  \/ \E ask \in Asks, model \in ModelClasses :
       RecordPreflight(ask, model) \/ \E r \in Roots : SelectOffer(ask, model, NameOf[r])
  \/ \E r \in Roots : Migrate(r) \/ FilesMove(r) \/ Grow(r) \/ \E card \in CardsOf[r] : EditCard(r, card)
  \/ DayPasses

EstateSpec == EstateInit /\ [][EstateNext]_esVars

-----------------------------------------------------------------------------

EstateTypeOK ==
  /\ \A r \in Roots : cards[r] \in CardsOf[r] \cup {Migrated(c) : c \in CardsOf[r] \ {Broken}}
  /\ artifacts \subseteq Roots /\ grown \subseteq Roots /\ aged \in BOOLEAN /\ edits \in 0..MaxEdits

(* A selection is authorised only while every row of the catalog is the one*)
(* its preflight saw and a preflight run now would offer that wiki; it     *)
(* hands out files that exist, of a wiki that is visible, trusted and open *)
(* to the model, and of a digest-only wiki the digest (selection.py:802).  *)
OffersAreCurrent ==
  [][\A c \in chosen' \ chosen :
       /\ packet.rows = Catalog
       /\ c.root \in Preflight(packet.rows, c.ask, c.model).offers
       /\ cards[c.root] # Broken /\ ~cards[c.root].provisional
       /\ LET p == EffectivePolicy(cards[c.root]) IN
          /\ p.visibility # "hidden" /\ p.mode # "pointer" /\ p[c.model] # "none"
          /\ p[c.model] = "digest-only" => c.allows = {"digest"}
       /\ c.allows # {} => c.root \in artifacts]_esVars

(* Migrating a registry changes nothing a request can observe: the same    *)
(* results for either model, the same existing wikis, and no finding of    *)
(* doctor's that was not there (registry.py:553, "the derived access       *)
(* posture is written out explicitly").                                    *)
MigrationIsInvisible ==
  [][\A r \in Roots :
       cards[r] # Broken /\ cards[r].version = 1 /\ cards'[r] = Migrated(cards[r]) =>
         /\ PolicyErrors(cards'[r]) = PolicyErrors(cards[r])
         /\ \A rows \in {Catalog}, after \in {Catalog'}, model \in ModelClasses :
              /\ ExistingCandidates(after, model) = ExistingCandidates(rows, model)
              /\ \A ask \in Asks : Preflight(after, ask, model) = Preflight(rows, ask, model)]_esVars

(* A wiki that is hidden, declined or closed to the model has no influence *)
(* on what is loaded or offered: the estate without it gives the same      *)
(* matches and offers (preflight.py:559, "filtered wikis never enter").    *)
WithheldIsSilent ==
  \A rows \in {Catalog}, ask \in Asks, model \in ModelClasses :
    LET whole    == Preflight(rows, ask, model)
        withheld == Hidden(rows) \cup whole.declined \cup whole.filtered
        without  == Preflight([r \in Roots \ withheld |-> rows[r]], ask, model)
    IN whole.matches = without.matches /\ whole.offers = without.offers
=============================================================================
