----------------------------- MODULE MCEvolveTxn -----------------------------
(***************************************************************************)
(* Instances of EvolveTxn for TLC.  Wiki W is registered, with a card, an  *)
(* index and two existing pages; directory V is not registered and holds   *)
(* nothing.                                                                *)
(***************************************************************************)
EXTENDS EvolveRefinement, TLC

CONSTANTS p1, p2, shared, fresh, stale, index, wcard, vpage, vcard, vindex, W, V, q1, q2

MCProposals == {p1, p2}
MCPages == {shared, fresh, stale, index, wcard, vpage, vcard, vindex}
MCHome  == [g \in MCPages |-> IF g \in {vpage, vcard, vindex} THEN V ELSE W]
MCCard  == [w \in {V, W} |-> IF w = V THEN vcard ELSE wcard]
MCIndex == [w \in {V, W} |-> IF w = V THEN vindex ELSE index]
(* Wikis that declare no index: a merge changes the page and no more.      *)
NoIndex == [w \in {V, W} |-> NoPage]

TwoTitles == [p \in MCProposals |-> p]
OneTitle  == [p \in MCProposals |-> "the title"]

Ask(p, d, s) == [proposal |-> p, dest |-> d, supersedes |-> s]

(* A merge, and a new page that supersedes another: the two plans meet in  *)
(* the declared index.                                                     *)
MergeAndSupersede == {Ask(p1, shared, NoPage), Ask(p2, fresh, stale)}

(* The same, and a second destination asked for the first proposal.       *)
ThreeRequests == MergeAndSupersede \cup {Ask(p1, fresh, NoPage)}

(* Two proposals merged into one page.                                     *)
TwoMerges == {Ask(p1, shared, NoPage), Ask(p2, shared, NoPage)}

(* The same, but the second destination is a page of a wiki that does not  *)
(* exist yet, so that it is registered.                                    *)
WithNewWiki == MergeAndSupersede \cup {Ask(p1, vpage, NoPage)}

(* A proposal whose destination is the page that the registration of its   *)
(* wiki creates as the index.                                              *)
PageIsTheNewIndex == {Ask(p1, vindex, NoPage)}

Alike == Permutations({q1, q2})

MCTree == [f \in Paths |->
             IF f \in {shared, stale, index, wcard} \cup Proposals THEN {}
             ELSE IF f = Registry THEN {Wiki(W)}
             ELSE IF f = Router THEN {Header, Wiki(W)}
             ELSE Absent]
=============================================================================
