------------------------------ MODULE MCStores ------------------------------
(***************************************************************************)
(* The components that share no state, side by side: a behaviour is one of *)
(* `subject`, and all the others rest in one of their initial states.      *)
(***************************************************************************)
EXTENDS Stores, TLC

CONSTANT Subjects

-----------------------------------------------------------------------------
(* The gap journal, the evidence store, the legacy journal and adoption.   *)

CONSTANTS c1, e1, q1, x1, n1, n2

(* An excerpt, a claim and a contradiction that cite each other in a row,  *)
(* and two notices that would both be the first.                           *)
MCCites == e1 :> {} @@ q1 :> {e1} @@ x1 :> {q1} @@ n1 :> {e1} @@ n2 :> {e1}
MCItem(k, b) == [key |-> k, body |-> b]
MCBatches == {<<>>, <<MCItem(q1, "v1"), MCItem(x1, "v1")>>, <<MCItem(q1, "v2")>>}
MCSingles == {MCItem(e1, "v1"), MCItem(n1, "v1"), MCItem(n2, "v1")}
MCSupersedes == n1 :> NoNotice @@ n2 :> NoNotice

(* A journal that is about to leave the state whose artifacts are kept.    *)
MCEvent(state) == [job |-> "j1", state |-> state, attempt |-> "a1", digest |-> "d1", artifacts |-> {}]
MCPath == <<MCEvent("gap-open"), MCEvent("permission-check"), MCEvent("planned"),
            MCEvent("discovering"), MCEvent("retrieving"), MCEvent("accepting")>>
MCPrior == {<<>>, MCPath}

MCScaffold == <<"index", "card", "gaps">>
MCDirectories == <<"raw", "wiki">>
MCDirOf == "index" :> "wiki" @@ "card" :> "mega" @@ "gaps" :> "mega"

-----------------------------------------------------------------------------
(* Acceptance: a primary study, a review of it and a video.                *)

Fact(class, publisher, source, date) ==
  [class |-> class, publisher |-> publisher, jurisdiction |-> "eu", basis |-> "authority-registry",
   dated |-> TRUE, updates |-> TRUE, attributed |-> TRUE, frozen |-> "clean",
   asOf |-> date, origin |-> source, lineage |-> "pass"]
MCFacts == "study"  :> Fact("primary-literature", "journal", "o1", 5)
        @@ "review" :> Fact("systematic-review", "review", "o2", 6)
        @@ "video"  :> Fact("video", "review", "o3", 5)
Quote(artifact, length) == [artifact |-> artifact, length |-> length, resolves |-> TRUE]
MCSpanOf == "sA" :> Quote("study", 10) @@ "sB" :> Quote("review", 500) @@ "sV" :> Quote("video", 10)
MCClaimOf == "k1" :> [type |-> "fact", supports |-> {"sA", "sB"}]
          @@ "k2" :> [type |-> "fact", supports |-> {"sB", "sV"}]
MCPolicy ==
  [permitted |-> TRUE,
   tiers |-> <<[quality |-> "primary", claimTypes |-> {"fact"},
                matchers |-> {[document_type |-> "primary-literature"]}],
               [quality |-> "synthesis", claimTypes |-> {"fact"}, matchers |-> {[publisher |-> "review"]}]>>,
   video |-> [quality |-> "synthesis", claimTypes |-> {"fact"}],
   ceiling |-> 1000, authorities |-> {"journal", "review"},
   freshness |-> [fact |-> [halfLife |-> 5, expires |-> 0]]]
MCPolicies == {MCPolicy, [MCPolicy EXCEPT !.ceiling = 100, !.freshness.fact = [halfLife |-> 0, expires |-> 9],
                                          !.authorities = {"review"}]}

-----------------------------------------------------------------------------
(* The estate: a root with cards of schema 1, and two whose wikis have the *)
(* same name, one of them without a registry entry that can be read.       *)

V1(p) == [version |-> 1, privacy |-> p, sensitivity |-> "unset", local |-> "unset", cloud |-> "unset",
          mode |-> "unset", visibility |-> "unset", provisional |-> FALSE,
          paths |-> {"index", "digest"}, halfLife |-> FALSE]
V2(card) == [card EXCEPT !.version = 2]
MCRegistered == {"ra", "rc"}
MCNameOf == "ra" :> "alpha" @@ "rb" :> "beta" @@ "rc" :> "beta"
MCWords == "ra" :> [trigger |-> {"t1"}, name |-> {}, scope |-> {"t2"}]
        @@ "rb" :> [trigger |-> {}, name |-> {"t1", "t2"}, scope |-> {"t3"}]
        @@ "rc" :> [trigger |-> {"t1", "t2"}, name |-> {}, scope |-> {}]
MCCardsOf ==
  "ra" :> {V1(p) : p \in {"company-private", "personal-local", "digest-only",
                          "pointer-only"}}
          \cup {[V2(V1("public-reference")) EXCEPT !.provisional = TRUE, !.halfLife = TRUE]}
  @@ "rb" :> {[V2(V1("unset")) EXCEPT !.paths = {"digest"}],
              [V2(V1("company-private")) EXCEPT !.visibility = "hidden"],
              [V2(V1("public-reference")) EXCEPT !.sensitivity = "collaborative", !.cloud = "digest-only",
                                                 !.halfLife = TRUE]}
  @@ "rc" :> {Broken, V1("public-reference")}
Ask(tokens, vetoes) == [tokens |-> tokens, vetoes |-> vetoes]
MCAsks == {Ask({"t2"}, {"rc"}), Ask({"t1", "t2", "t3"}, {})}

-----------------------------------------------------------------------------
(* Capture: three wikis, of which one has no page that can be loaded.      *)

CONSTANTS wa, wb, wc, p1, p2, p3

MCShelf == <<wa, wb, wc>>
Link(page, label, target) == [page |-> page, label |-> label, target |-> target]
MCLexicon ==
     wa :> [keyword |-> {"u1"}, name |-> {}, description |-> {"u2"}, card |-> {"u1", "u2"}, digest |-> {"u2"},
            has |-> {"digest", "index"},
            links |-> <<Link(p1, {"u1"}, {"u2"}), Link(p2, {}, {"u2"}), Link(p2, {}, {"u2"})>>]
  @@ wb :> [keyword |-> {"u1", "u2"}, name |-> {}, description |-> {}, card |-> {}, digest |-> {},
            has |-> {"index", "card"}, links |-> <<Link(p3, {"u3"}, {})>>]
  @@ wc :> [keyword |-> {}, name |-> {"u2"}, description |-> {"u3"}, card |-> {}, digest |-> {},
            has |-> {}, links |-> <<>>]
MCChars == p1 :> 3 @@ p2 :> 2 @@ p3 :> 6 @@ <<wa, "digest">> :> 2 @@ <<wa, "index">> :> 1
             @@ <<wb, "index">> :> 1 @@ <<wb, "card">> :> 1
             @@ [at \in {wa, wb, wc} \X {"pointer"} |-> 0]
MCPaths == <<p1, p2, p3, <<wa, "digest">>, <<wa, "index">>, <<wa, "pointer">>,
             <<wb, "card">>, <<wb, "index">>, <<wb, "pointer">>, <<wc, "pointer">> >>
Place(x, y, P) ==
  [privacy |-> wa :> x @@ wb :> y @@ wc :> "public-reference",
   provisional |-> [w \in {wa, wb, wc} |-> w \in P], chars |-> MCChars]
MCVaults == {Place("public-reference", "personal-local", {}), Place("digest-only", "pointer-only", {}),
             Place("public-reference", "pointer-only", {wa, wb}), Place("digest-only", "personal-local", {wa, wb})}
MCTexts == {{"u1", "u2"}, {"u2", "u3"}}

-----------------------------------------------------------------------------
(* Experiment: three versions of the inputs and two qualities of answers.  *)

Version(tasks, gates) == [tasks |-> tasks, rubric |-> 1, gates |-> gates]
MCInputs == {Version(1, 1), Version(1, 2), Version(2, 1)}
MCAssignmentOf ==
  [q \in {"key"} \X MCInputs |->
     IF q[2] = Version(1, 1) THEN 0 :> "no-wiki" @@ 1 :> "current-wiki" @@ 2 :> "updated-wiki"
     ELSE 0 :> "updated-wiki" @@ 1 :> "no-wiki" @@ 2 :> "current-wiki"]
Accuracy(n) == [target |-> n, adjacent |-> n, provenance |-> 100]
MCGrade == [q \in {"good", "poor"} \X {1, 2} |-> Accuracy(IF q[2] = 2 \/ q[1] = "good" THEN 100 ELSE 50)]
Improve(n) == [binding |-> 1, improvement |-> n, adjacent |-> 0, provenance |-> 0]
MCGate == <<Improve(10), Improve(60)>>
MCFits == "good" :> {1, 2} @@ "poor" :> {1, 2}
Ran(label, of, answers) == [label |-> label, of |-> of, answers |-> answers]
MCArmRuns == {Ran(0, 0, "poor"), Ran(1, 1, "poor"), Ran(2, 2, "good"), Ran(2, 1, "good"), Ran(1, 2, "poor")}

-----------------------------------------------------------------------------

(* Each component starts in all of its initial states only as the subject. *)
Only(s, start) == subject = s \/ start

StoresInit ==
  /\ subject \in Subjects
  /\ SelectInit /\ GapInit /\ EvidenceInit /\ ResearchInit
  /\ LegacyInit     /\ Only("legacy", legacy = <<>>)
  /\ AdoptInit      /\ Only("adopt", \A f \in AdFiles : tree[f] = "absent")
  /\ AcceptanceInit /\ policy = MCPolicy
  /\ EstateInit     /\ Only("estate", cards = [r \in Roots |-> CHOOSE c \in CardsOf[r] : TRUE])
  /\ CaptureInit    /\ vault = Place("public-reference", "personal-local", {})
  /\ ExperimentInit /\ inputs = Version(1, 1)

Rests(s, vars) == IF subject = s THEN TRUE ELSE UNCHANGED vars

StoresNext ==
  /\ CASE subject = "selection"  -> SelectNext
       [] subject = "gaps"       -> GapNext
       [] subject = "evidence"   -> EvidenceNext
       [] subject = "jobs"       -> ResearchNext
       [] subject = "legacy"     -> LegacyNext
       [] subject = "adopt"      -> AdoptNext
       [] subject = "acceptance" -> AcceptanceNext
       [] subject = "estate"     -> EstateNext
       [] subject = "capture"    -> CaptureNext
       [] subject = "experiment" -> ExperimentNext
  /\ UNCHANGED subject
  /\ Rests("selection", selectVars) /\ Rests("gaps", gapVars) /\ Rests("evidence", evVars)
  /\ Rests("jobs", rsVars) /\ Rests("legacy", lgVars) /\ Rests("adopt", adVars)
  /\ Rests("acceptance", acVars) /\ Rests("estate", esVars) /\ Rests("capture", cpVars)
  /\ Rests("experiment", xpVars)

storesVars == <<subject, selectVars, gapVars, evVars, rsVars, lgVars, adVars, acVars, esVars, cpVars, xpVars>>

StoresSpec ==
  StoresInit /\ [][StoresNext]_storesVars /\ SelectFairness /\ GapFairness /\ EvidenceFairness

=============================================================================
