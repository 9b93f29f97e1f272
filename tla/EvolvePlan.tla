----------------------------- MODULE EvolvePlan -----------------------------
(***************************************************************************)
(* The planner of `evolve` (src/src/megamind/evolve.py): what a proposal   *)
(* would change, computed from the bytes on disk without writing any.      *)
(*                                                                         *)
(* A file is what the planner and the recovery paths can tell apart in it: *)
(* the set of marks it carries, or Absent.  A mark is a section merged     *)
(* from a proposal, a link to a page, a superseded pointer, a registered   *)
(* wiki, the header of a generated router, the applied status of a         *)
(* proposal file, or a foreign edit.  The order of sections in a page and  *)
(* all wording are abstracted.                                             *)
(***************************************************************************)
EXTENDS Naturals, Sequences

CONSTANTS
  Proposals,   \* the captured proposals; p also names the proposal's file
  Pages,       \* every page, card and index the plans can touch
  Wikis,       \* the wikis those pages live in, registered or not
  Registry,    \* .megamind/registry.json
  Router,      \* ROUTER.md
  Requests,    \* what a caller may ask for: a proposal, its destination page
               \* (--dest or the suggested one) and its --supersedes page
  Home,        \* [Pages -> Wikis]: the wiki directory a page lies in
  Card,        \* [Wikis -> Pages]
  Index,       \* [Wikis -> Pages \cup {NoPage}]: the declared index
  Title,       \* of each proposal: the first heading, which labels a link
  NoPage,      \* no --supersedes given, no index declared
  Absent       \* the content of a path that holds no file

Paths == Pages \cup Proposals \cup {Registry, Router}

Section(p)      == <<"section", p>>
Titled(p)       == <<"titled", p>>
Link(g, label)  == <<"link", g, label>>
SupersededBy(g) == <<"superseded", g>>
Wiki(w)         == <<"wiki", w>>
Header          == <<"header", Router>>
Skeleton(w)     == <<"card", w>>
Applied(p, g)   == <<"applied", p, g>>
ForeignEdit(f)  == <<"edit", f>>

(* A registered wiki labels its first link with the name of the page.      *)
Labels == {Title[p] : p \in Proposals} \cup Pages
Links(g) == {Link(g, label) : label \in Labels}

Supersessions == {SupersededBy(g) : g \in Pages}
WikiMarks     == {Wiki(w) : w \in Wikis}
Marks == {Section(p) : p \in Proposals} \cup {Titled(p) : p \in Proposals}
         \cup (UNION {Links(g) : g \in Pages})
         \cup Supersessions \cup WikiMarks \cup {Header}
         \cup {Skeleton(w) : w \in Wikis} \cup {Applied(p, g) : p \in Proposals, g \in Pages}
         \cup {ForeignEdit(f) : f \in Paths}

Content == {Absent} \cup SUBSET Marks

ASSUME PlanConstants ==
  /\ Requests \subseteq [proposal : Proposals, dest : Pages,
                         supersedes : Pages \cup {NoPage}]
  /\ Home  \in [Pages -> Wikis]
  /\ Card  \in [Wikis -> Pages]
  /\ Index \in [Wikis -> Pages \cup {NoPage}]
  /\ NoPage \notin Pages

(* A page lies in a wiki directory: it is neither a file of the vault's    *)
(* .megamind directory nor the router.                                     *)
ASSUME PathKinds ==
  /\ Pages \cap Proposals = {}
  /\ {Registry, Router} \cap (Pages \cup Proposals) = {}
  /\ Registry # Router

-----------------------------------------------------------------------------
(* The marks of a file; an absent file carries none.                       *)
Text(c) == IF c = Absent THEN {} ELSE c

Change(path, old, new) == [path |-> path, old |-> old, new |-> new]
Changes == [path : Paths, old : Content, new : SUBSET Marks]

Known(tree, w) == Wiki(w) \in Text(tree[Registry])
CreatesNewWiki(tree, r) == ~ Known(tree, Home[r.dest])

(* A merge appends the proposal's section; a new page has a title and      *)
(* frontmatter of its own.                                                 *)
PageChange(tree, r) ==
  LET p == r.proposal IN
  <<Change(r.dest, tree[r.dest],
           IF tree[r.dest] = Absent THEN {Titled(p), Section(p)}
                                    ELSE tree[r.dest] \cup {Section(p)})>>

(* status and superseded_by are frontmatter keys: an earlier pointer goes. *)
SupersedeChange(tree, r) ==
  LET s == r.supersedes IN
  IF s = NoPage THEN <<>>
  ELSE <<Change(s, tree[s], (Text(tree[s]) \ Supersessions) \cup {SupersededBy(r.dest)})>>

(* The index is read from disk: a change the plan already makes to the     *)
(* same file is not part of what this one starts from.                     *)
IndexChange(tree, r) ==
  LET i == Index[Home[r.dest]] IN
  IF i \in {NoPage, r.dest} THEN <<>>
  ELSE IF tree[i] = Absent \/ Links(r.dest) \cap tree[i] # {} THEN <<>>
  ELSE <<Change(i, tree[i], tree[i] \cup {Link(r.dest, Title[r.proposal])})>>

(* A wiki evolve registers declares both a card and an index.              *)
SkeletonChange(tree, path, text) ==
  IF path = NoPage THEN <<>>
  ELSE IF tree[path] # Absent THEN <<>>
  ELSE <<Change(path, Absent, text)>>

RouterChange(tree, registered) ==
  LET router == {Header} \cup (registered \cap WikiMarks) IN
  IF tree[Router] # Absent /\ Header \notin tree[Router] THEN <<>>  \* hand-edited
  ELSE IF tree[Router] = router THEN <<>>
  ELSE <<Change(Router, tree[Router], router)>>

RegistrationChanges(tree, r) ==
  LET w == Home[r.dest]
      registered == Text(tree[Registry]) \cup {Wiki(w)} IN
  SkeletonChange(tree, Card[w], {Skeleton(w)})
    \o SkeletonChange(tree, Index[w], {Link(r.dest, r.dest)})
    \o <<Change(Registry, tree[Registry], registered)>>
    \o RouterChange(tree, registered)

PlanChanges(tree, r) ==
  PageChange(tree, r) \o SupersedeChange(tree, r)
    \o (IF CreatesNewWiki(tree, r) THEN RegistrationChanges(tree, r)
                                   ELSE IndexChange(tree, r))

PlanAction(tree, r) ==
  IF r.supersedes # NoPage THEN "supersede"
  ELSE IF tree[r.dest] = Absent THEN "create" ELSE "merge"

(* Faulty: only the destination page is looked at.                         *)
IsNoopByMarker(tree, r) == Section(r.proposal) \in Text(tree[r.dest])

(* The proposal is already applied, or its marker is already in the page.  *)
IsNoop(tree, r) ==
  \/ \E g \in Pages : Applied(r.proposal, g) \in Text(tree[r.proposal])
  \/ Section(r.proposal) \in Text(tree[r.dest])

(* The planner returns a plan with changes, neither a no-op nor a refusal. *)
Plannable(tree, r) ==
  /\ tree[r.proposal] # Absent
  /\ ~ IsNoop(tree, r)
  /\ r.supersedes # NoPage => /\ r.supersedes # r.dest
                              /\ tree[r.supersedes] # Absent

(* The plan id hashes the proposal, the action and the new bytes of every  *)
(* path; the old bytes are not part of it.                                 *)
PlanId(tree, r) ==
  LET changes == PlanChanges(tree, r) IN
  [proposal |-> r.proposal,
   action   |-> PlanAction(tree, r),
   news     |-> [i \in DOMAIN changes |-> <<changes[i].path, changes[i].new>>]]

(* What the transaction writes: the plan's changes, then the proposal      *)
(* file with its status and the page it went to.                           *)
Entries(tree, r) ==
  LET p == r.proposal IN
  Append(PlanChanges(tree, r), Change(p, tree[p], Text(tree[p]) \cup {Applied(p, r.dest)}))

(* No path is the target of two entries.                                   *)
Distinct(entries) ==
  \A i, j \in DOMAIN entries : entries[i].path = entries[j].path => i = j
=============================================================================
