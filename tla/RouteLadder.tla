----------------------------- MODULE RouteLadder -----------------------------
(***************************************************************************)
(* The ladder that routes a query inside one vault (routing.py): the wikis *)
(* that match best, down to the pages their indexes link, through the      *)
(* thresholds, the trust in each wiki and the budgets.  A vault is         *)
(* [privacy, provisional, chars], the first two by wiki, chars by path.  A *)
(* wiki w has the paths <<w, a>> of its artifacts and <<w, "pointer">>, its*)
(* folder, which has no characters.                                        *)
(***************************************************************************)
EXTENDS Thresholds, Sequences, Functions

CONSTANTS Shelf,          \* the vault's wikis, in the order of their names
          Paths,          \* all paths of the vault, in their order
          Lexicon,        \* [keyword, name, description, card, digest, has, links] of each
          MaxDescended,   \* MAX_WIKIS_DESCENDED
          MaxCandidates, MaxChars

VaultWikis == {Shelf[i] : i \in DOMAIN Shelf}
VaultPaths == {Paths[i] : i \in DOMAIN Paths}
Position(w) == CHOOSE i \in DOMAIN Shelf : Shelf[i] = w
PathPosition(p) == CHOOSE i \in DOMAIN Paths : Paths[i] = p

ASSUME LadderConstants ==
  /\ MaxDescended \in Nat /\ MaxCandidates \in Nat \ {0} /\ MaxChars \in Nat
  /\ Shelf \in Seq(VaultWikis) /\ Paths \in Seq(VaultPaths)
  /\ \A w \in VaultWikis :
       LET words == Lexicon[w] IN
       /\ words.has \subseteq {"digest", "index", "card"}
       /\ {<<w, a>> : a \in words.has \cup {"pointer"}} \subseteq VaultPaths
       /\ words.links \in Seq(Range(words.links)) /\ \A l \in Range(words.links) : l.page \in VaultPaths

(* The strongest of the signals that each token was given, as pairs.       *)
Merged(pairs) == [t \in {p[1] : p \in pairs} |-> Max({p[2] : p \in {q \in pairs : q[1] = t}})]
Signal(tokens, kind) == tokens \X {Strength(kind)}

(* _score_wiki                                                             *)
WikiScore(w, query) ==
  LET words == Lexicon[w] IN
  3 * Cardinality(query \cap words.keyword) + 2 * Cardinality(query \cap words.name)
    + Cardinality(query \cap words.description) + Cardinality(query \cap (words.card \ words.keyword))

WikiSignals(w, query) ==
  LET words == Lexicon[w] IN
  Signal(query \cap words.keyword, "trigger") \cup Signal(query \cap words.name, "name")
    \cup Signal(query \cap (words.description \cup words.card), "text")

DigestWords(w, query) == IF "digest" \in Lexicon[w].has THEN query \cap Lexicon[w].digest ELSE {}

(* nth: of a page, which link of the index it is.                          *)
Candidate(w, at, kind, score, signals, query, place, nth) ==
  [wiki |-> w, at |-> at, kind |-> kind, score |-> score, provisional |-> place.provisional[w],
   confidence |-> RouteConfidence(Merged(signals), query), chars |-> place.chars[at],
   matched |-> WikiScore(w, query), nth |-> nth]

(* _index_candidates: a link whose label or path has a token of the query. *)
(* A page that is linked twice is a candidate twice.                       *)
PageCandidates(w, query, place) ==
  LET labelled(l) == query \cap l.label
      targeted(l) == query \cap (l.target \ l.label)
      signals(l)  == WikiSignals(w, query) \cup Signal(DigestWords(w, query), "digest")
                       \cup Signal(labelled(l), "label") \cup Signal(targeted(l), "target")
      score(l)    == WikiScore(w, query) + Cardinality(DigestWords(w, query))
                       + 2 * Cardinality(labelled(l)) + Cardinality(targeted(l))
      links       == IF "index" \in Lexicon[w].has THEN Lexicon[w].links ELSE <<>>
  IN {Candidate(w, links[i].page, "page", score(links[i]), signals(links[i]), query, place, i) :
        i \in {j \in DOMAIN links : query \cap (links[j].label \cup links[j].target) # {}}}

(* _fallback_artifact                                                      *)
Fallback(w) ==
  LET has == Lexicon[w].has IN
  CASE "digest" \in has -> "digest" [] "digest" \notin has /\ "index" \in has -> "index"
    [] has \cap {"digest", "index"} = {} /\ "card" \in has -> "card" [] has = {} -> "pointer"

(* What the ladder finds in one wiki of a vault, by its privacy class.     *)
Rungs(w, query, place) ==
  LET score   == WikiScore(w, query)
      bonus   == DigestWords(w, query)
      plain   == WikiSignals(w, query)
      digest  == IF "digest" \in Lexicon[w].has THEN "digest" ELSE "pointer"
      pages   == PageCandidates(w, query, place)
  IN CASE place.privacy[w] = "pointer-only" ->
            {Candidate(w, <<w, "pointer">>, "pointer", score, plain, query, place, 0)}
       [] place.privacy[w] = "digest-only" ->
            {Candidate(w, <<w, digest>>, "digest", score, plain, query, place, 0)}
       [] OTHER -> IF pages # {} THEN pages
            ELSE {Candidate(w, <<w, Fallback(w)>>, Fallback(w), score + Cardinality(bonus),
                            plain \cup Signal(bonus, "digest"), query, place, 0)}

Descended(query) ==
  LET scored    == {w \in VaultWikis : WikiScore(w, query) > 0}
      ahead(v, w) == \/ WikiScore(v, query) > WikiScore(w, query)
                     \/ WikiScore(v, query) = WikiScore(w, query) /\ Position(v) < Position(w)
  IN {w \in scored : Cardinality({v \in scored : ahead(v, w)}) < MaxDescended}

-----------------------------------------------------------------------------

(* The best score first, then by path.  The sort is stable: candidates of  *)
(* one path stay in the order in which the wikis and their links are read. *)
SortKeys(c) == <<-c.score, PathPosition(c.at), -c.matched, Position(c.wiki), c.nth>>

Ahead(a, b) ==
  \E i \in 1..5 : SortKeys(a)[i] < SortKeys(b)[i] /\ \A j \in 1..(i - 1) : SortKeys(a)[j] = SortKeys(b)[j]

Ranked(S) ==
  [i \in 1..Cardinality(S) |-> CHOOSE c \in S : Cardinality({d \in S : Ahead(d, c)}) = i - 1]

Counted(c) == c.kind # "pointer" /\ c.chars > 0
Size(c) == IF Counted(c) THEN c.chars ELSE 0

NoContext == [selected |-> <<>>, chars |-> 0]
Keep(taken, c) == [selected |-> Append(taken.selected, c), chars |-> taken.chars + Size(c)]

(* Faulty: what does not fit is only noticed afterwards.                   *)
TakeLate(taken, c) ==
  IF Len(taken.selected) >= MaxCandidates THEN taken
  ELSE IF Counted(c) /\ taken.selected # <<>> /\ taken.chars > MaxChars THEN taken
  ELSE Keep(taken, c)

(* The budgets: the first is always kept, what does not fit is passed over.*)
Take(taken, c) ==
  IF Len(taken.selected) >= MaxCandidates THEN taken
  ELSE IF Counted(c) /\ taken.selected # <<>> /\ taken.chars + c.chars > MaxChars THEN taken
  ELSE Keep(taken, c)

(* What is selected of candidates that are read in this order.             *)
Context(s) ==
  LET taken[k \in 0..Len(s)] == IF k = 0 THEN NoContext ELSE Take(taken[k - 1], s[k])
  IN taken[Len(s)].selected

(* route: the candidates that reach the floor, with their confidence ...   *)
Found(query, place) ==
  {c \in UNION {Rungs(w, query, place) : w \in Descended(query)} : c.confidence >= OfferFloor}

(* ... and what is loaded or offered of them: a load covers trusted wikis  *)
(* only, and is an offer when there is none.  `offered` is what the budget *)
(* of offers is then applied to.                                           *)
Packed(conf, decision, covered) ==
  LET trusted == {c \in covered : ~c.provisional}
      loads   == decision = "load" /\ trusted # {}
      context == Context(Ranked(IF loads THEN trusted ELSE DOMAIN conf))
  IN [decision |-> IF context = <<>> THEN "no-match" ELSE IF loads THEN "load" ELSE "offer",
      packet |-> context,
      offered |-> IF loads THEN covered \ trusted ELSE {}]

Routed(conf) == Packed(conf, Decision(conf, NoSolo), Authorized(conf, NoSolo))

Route(query, place) == Routed([c \in Found(query, place) |-> c.confidence])
=============================================================================
