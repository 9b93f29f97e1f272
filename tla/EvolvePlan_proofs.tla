-------------------------- MODULE EvolvePlan_proofs --------------------------
(***************************************************************************)
(* Facts about the planner that hold of every vault: what it returns is a  *)
(* sequence of changes, and each change starts from the bytes on disk.     *)
(***************************************************************************)
EXTENDS EvolvePlan, SequenceTheorems, TLAPS

Trees == [Paths -> Content]

(* Every change of s replaces what its path holds in tree.                 *)
StartsFrom(tree, s) == \A i \in 1 .. Len(s) : s[i].old = tree[s[i].path]

Planned(tree, s) == s \in Seq(Changes) /\ StartsFrom(tree, s)

-----------------------------------------------------------------------------
(* The marks of any content are marks.                                     *)
LEMMA TextIsMarks == ASSUME NEW c \in Content PROVE Text(c) \in SUBSET Marks
  BY DEF Content, Text

LEMMA ContentCases ==
  ASSUME NEW c \in Content, c # Absent PROVE c \in SUBSET Marks
  BY DEF Content

LEMMA MarksAreContent == SUBSET Marks \subseteq Content
  BY DEF Content

(* A path, its bytes and new marks for it make a planned change.           *)
LEMMA OneChange ==
  ASSUME NEW tree \in Trees, NEW path \in Paths, NEW new \in SUBSET Marks
  PROVE  Planned(tree, <<Change(path, tree[path], new)>>)
<1> DEFINE c == Change(path, tree[path], new)
<1>1. c \in Changes
  BY DEF Trees, Change, Changes
<1>2. c.old = tree[c.path]
  BY DEF Change
<1> HIDE DEF c
<1>3. /\ <<c>> \in Seq(Changes)
      /\ \A i \in 1 .. Len(<<c>>) : <<c>>[i] = c
  BY <1>1
<1>4. QED
  BY <1>2, <1>3 DEF Planned, StartsFrom, c

LEMMA NoChange == ASSUME NEW tree PROVE Planned(tree, <<>>)
  BY DEF Planned, StartsFrom

(* Plans of one vault can be put one after the other.                      *)
LEMMA ConcatPlanned ==
  ASSUME NEW tree, NEW s, NEW t, Planned(tree, s), Planned(tree, t)
  PROVE  Planned(tree, s \o t)
<1>1. s \in Seq(Changes) /\ t \in Seq(Changes)
  BY DEF Planned
<1>2. /\ s \o t \in Seq(Changes)
      /\ Len(s \o t) = Len(s) + Len(t)
      /\ \A i \in 1 .. Len(s) + Len(t) :
           (s \o t)[i] = IF i <= Len(s) THEN s[i] ELSE t[i - Len(s)]
  BY <1>1, ConcatProperties
<1>3. Len(s) \in Nat /\ Len(t) \in Nat
  BY <1>1, LenProperties
<1>4. ASSUME NEW i \in 1 .. Len(s \o t) PROVE (s \o t)[i].old = tree[(s \o t)[i].path]
  <2>1. CASE i <= Len(s)
    <3>1. i \in 1 .. Len(s) /\ (s \o t)[i] = s[i]
      BY <2>1, <1>2, <1>3
    <3>2. QED
      BY <3>1 DEF Planned, StartsFrom
  <2>2. CASE ~ (i <= Len(s))
    <3>1. i - Len(s) \in 1 .. Len(t) /\ (s \o t)[i] = t[i - Len(s)]
      BY <2>2, <1>2, <1>3
    <3>2. QED
      BY <3>1 DEF Planned, StartsFrom
  <2>3. QED
    BY <2>1, <2>2
<1>5. QED
  BY <1>2, <1>4 DEF Planned, StartsFrom

-----------------------------------------------------------------------------
(* Each part of a plan                                                     *)

LEMMA RequestParts ==
  ASSUME NEW r \in Requests
  PROVE  /\ r.proposal \in Proposals /\ r.proposal \in Paths
         /\ r.dest \in Pages /\ r.dest \in Paths
         /\ r.supersedes # NoPage => r.supersedes \in Paths
         /\ Home[r.dest] \in Wikis
  BY PlanConstants DEF Paths

LEMMA PageChangePlanned ==
  ASSUME NEW tree \in Trees, NEW r \in Requests
  PROVE  Planned(tree, PageChange(tree, r))
<1> DEFINE new == IF tree[r.dest] = Absent THEN {Titled(r.proposal), Section(r.proposal)}
                                           ELSE tree[r.dest] \cup {Section(r.proposal)}
<1>1. {Titled(r.proposal), Section(r.proposal)} \in SUBSET Marks
  BY RequestParts DEF Marks
<1>2. tree[r.dest] # Absent => tree[r.dest] \in SUBSET Marks
  BY RequestParts, ContentCases DEF Trees
<1>3. new \in SUBSET Marks
  BY <1>1, <1>2
<1> HIDE DEF new
<1>4. Planned(tree, <<Change(r.dest, tree[r.dest], new)>>)
  BY <1>3, RequestParts, OneChange
<1>5. QED
  BY <1>4 DEF PageChange, new

LEMMA SupersedeChangePlanned ==
  ASSUME NEW tree \in Trees, NEW r \in Requests
  PROVE  Planned(tree, SupersedeChange(tree, r))
<1> DEFINE s == r.supersedes
           new == (Text(tree[s]) \ Supersessions) \cup {SupersededBy(r.dest)}
<1>1. CASE s = NoPage
  BY <1>1, NoChange DEF SupersedeChange
<1>2. CASE s # NoPage
  <2>1. s \in Paths /\ tree[s] \in Content
    BY <1>2, RequestParts DEF Trees
  <2>2. SupersededBy(r.dest) \in Marks
    BY RequestParts DEF Marks, Supersessions
  <2>3. new \in SUBSET Marks
    BY <2>1, <2>2, TextIsMarks
  <2>4. Planned(tree, <<Change(s, tree[s], new)>>)
    BY <2>1, <2>3, OneChange
  <2>5. QED
    BY <1>2, <2>4 DEF SupersedeChange
<1>3. QED
  BY <1>1, <1>2

LEMMA LinkIsMark ==
  ASSUME NEW g \in Pages, NEW label \in Labels PROVE Link(g, label) \in Marks
  BY DEF Marks, Links

LEMMA IndexChangePlanned ==
  ASSUME NEW tree \in Trees, NEW r \in Requests
  PROVE  Planned(tree, IndexChange(tree, r))
<1> DEFINE i == Index[Home[r.dest]]
           new == tree[i] \cup {Link(r.dest, Title[r.proposal])}
<1>1. CASE i \in {NoPage, r.dest} \/ tree[i] = Absent \/ Links(r.dest) \cap tree[i] # {}
  BY <1>1, NoChange DEF IndexChange
<1>2. CASE i \notin {NoPage, r.dest} /\ tree[i] # Absent /\ Links(r.dest) \cap tree[i] = {}
  <2>1. i \in Paths
    BY <1>2, RequestParts, PlanConstants DEF Paths
  <2>2. tree[i] \in SUBSET Marks
    BY <1>2, <2>1, ContentCases DEF Trees
  <2>3. Link(r.dest, Title[r.proposal]) \in Marks
    BY RequestParts, LinkIsMark DEF Labels
  <2>4. Planned(tree, <<Change(i, tree[i], new)>>)
    BY <2>1, <2>2, <2>3, OneChange
  <2>5. QED
    BY <1>2, <2>4 DEF IndexChange
<1>3. QED
  BY <1>1, <1>2

LEMMA SkeletonChangePlanned ==
  ASSUME NEW tree \in Trees, NEW path \in Pages \cup {NoPage}, NEW text \in SUBSET Marks
  PROVE  Planned(tree, SkeletonChange(tree, path, text))
<1>1. CASE path = NoPage \/ tree[path] # Absent
  BY <1>1, NoChange DEF SkeletonChange
<1>2. CASE path # NoPage /\ tree[path] = Absent
  <2>1. path \in Paths
    BY <1>2 DEF Paths
  <2>2. Planned(tree, <<Change(path, tree[path], text)>>)
    BY <2>1, OneChange
  <2>3. QED
    BY <1>2, <2>2 DEF SkeletonChange
<1>3. QED
  BY <1>1, <1>2

LEMMA RouterChangePlanned ==
  ASSUME NEW tree \in Trees, NEW registered
  PROVE  Planned(tree, RouterChange(tree, registered))
<1> DEFINE router == {Header} \cup (registered \cap WikiMarks)
<1>1. Router \in Paths
  BY DEF Paths
<1>2. router \in SUBSET Marks
  BY DEF Marks
<1>3. Planned(tree, <<Change(Router, tree[Router], router)>>)
  BY <1>1, <1>2, OneChange
<1>4. QED
  BY <1>3, NoChange DEF RouterChange

LEMMA RegistrationChangesPlanned ==
  ASSUME NEW tree \in Trees, NEW r \in Requests
  PROVE  Planned(tree, RegistrationChanges(tree, r))
<1> DEFINE w == Home[r.dest]
           registered == Text(tree[Registry]) \cup {Wiki(w)}
           card  == SkeletonChange(tree, Card[w], {Skeleton(w)})
           index == SkeletonChange(tree, Index[w], {Link(r.dest, r.dest)})
           entry == <<Change(Registry, tree[Registry], registered)>>
           router == RouterChange(tree, registered)
<1>1. w \in Wikis /\ Card[w] \in Pages /\ Index[w] \in Pages \cup {NoPage}
  BY RequestParts, PlanConstants
<1>2. {Skeleton(w)} \in SUBSET Marks /\ Wiki(w) \in Marks
  BY <1>1 DEF Marks, WikiMarks
<1>3. Link(r.dest, r.dest) \in Marks
  BY RequestParts, LinkIsMark DEF Labels
<1>4. Registry \in Paths /\ tree[Registry] \in Content
  BY DEF Paths, Trees
<1>5. registered \in SUBSET Marks
  BY <1>2, <1>4, TextIsMarks
<1>6. Planned(tree, card) /\ Planned(tree, index)
  BY <1>1, <1>2, <1>3, SkeletonChangePlanned
<1>7. Planned(tree, entry)
  BY <1>4, <1>5, OneChange
<1>8. Planned(tree, router)
  BY RouterChangePlanned
<1> HIDE DEF card, index, entry, router
<1>9. Planned(tree, card \o index \o entry \o router)
  BY <1>6, <1>7, <1>8, ConcatPlanned
<1>10. QED
  BY <1>9 DEF RegistrationChanges, card, index, entry, router

(* The planner is read-only and exact: each change it returns replaces the *)
(* bytes its path holds (evolve.plan reads every file it changes).         *)
THEOREM PlanStartsFromDisk ==
  ASSUME NEW tree \in Trees, NEW r \in Requests
  PROVE  Planned(tree, PlanChanges(tree, r))
<1>1. Planned(tree, PageChange(tree, r)) /\ Planned(tree, SupersedeChange(tree, r))
  BY PageChangePlanned, SupersedeChangePlanned
<1>2. Planned(tree, IF CreatesNewWiki(tree, r) THEN RegistrationChanges(tree, r)
                                              ELSE IndexChange(tree, r))
  BY RegistrationChangesPlanned, IndexChangePlanned
<1>3. QED
  BY <1>1, <1>2, ConcatPlanned DEF PlanChanges

(* The same of the entries a transaction records: its last one is the      *)
(* proposal file with its new status.                                      *)
THEOREM EntriesStartFromDisk ==
  ASSUME NEW tree \in Trees, NEW r \in Requests
  PROVE  Planned(tree, Entries(tree, r))
<1> DEFINE p == r.proposal
           new == Text(tree[p]) \cup {Applied(p, r.dest)}
           changes == PlanChanges(tree, r)
           last == Change(p, tree[p], new)
<1>1. p \in Paths /\ tree[p] \in Content
  BY RequestParts DEF Trees
<1>2. Applied(p, r.dest) \in Marks
  BY RequestParts DEF Marks
<1>3. new \in SUBSET Marks
  BY <1>1, <1>2, TextIsMarks
<1>4. Planned(tree, <<last>>) /\ Planned(tree, changes)
  BY <1>1, <1>3, OneChange, PlanStartsFromDisk
<1> HIDE DEF changes, last
<1>5. Planned(tree, changes \o <<last>>)
  BY <1>4, ConcatPlanned
<1>6. changes \o <<last>> = Append(changes, last)
  BY <1>4 DEF Planned
<1>7. QED
  BY <1>5, <1>6 DEF Entries, changes, last

-----------------------------------------------------------------------------
(* What each change of a plan does to its file                             *)

IsPage(c, r) ==
  /\ c.path = r.dest
  /\ c.new = IF c.old = Absent THEN {Titled(r.proposal), Section(r.proposal)}
                               ELSE c.old \cup {Section(r.proposal)}

IsSuperseded(c, r) ==
  /\ c.path = r.supersedes /\ r.supersedes # NoPage
  /\ c.new = (Text(c.old) \ Supersessions) \cup {SupersededBy(r.dest)}

IsLink(c, r) ==
  /\ c.path = Index[Home[r.dest]] /\ c.path # NoPage
  /\ c.old # Absent /\ Links(r.dest) \cap c.old = {}
  /\ c.new = c.old \cup {Link(r.dest, Title[r.proposal])}

IsCard(c, r) ==
  c.path = Card[Home[r.dest]] /\ c.old = Absent /\ c.new = {Skeleton(Home[r.dest])}

IsNewIndex(c, r) ==
  /\ c.path = Index[Home[r.dest]] /\ c.path # NoPage
  /\ c.old = Absent /\ c.new = {Link(r.dest, r.dest)}

IsRegistry(c, r) ==
  /\ c.path = Registry /\ Wiki(Home[r.dest]) \notin Text(c.old)
  /\ c.new = Text(c.old) \cup {Wiki(Home[r.dest])}

IsRouter(tree, c, r) ==
  /\ c.path = Router /\ CreatesNewWiki(tree, r)
  /\ c.old = Absent \/ Header \in c.old
  /\ c.new = {Header} \cup ((Text(tree[Registry]) \cup {Wiki(Home[r.dest])}) \cap WikiMarks)

IsStatus(c, r) ==
  /\ c.path = r.proposal
  /\ c.new = Text(c.old) \cup {Applied(r.proposal, r.dest)}

(* The changes a plan of this vault may have.                              *)
Kinds(tree, r) ==
  {c \in Changes :
     /\ c.old = tree[c.path]
     /\ \/ IsPage(c, r) \/ IsSuperseded(c, r) \/ IsLink(c, r) \/ IsCard(c, r)
        \/ IsNewIndex(c, r) \/ IsRegistry(c, r) \/ IsRouter(tree, c, r) \/ IsStatus(c, r)}

LEMMA OneOf == ASSUME NEW S, NEW c \in S PROVE <<c>> \in Seq(S)
  OBVIOUS

LEMMA NoneOf == ASSUME NEW S PROVE <<>> \in Seq(S)
  OBVIOUS

(* A change that is all there is of a planned sequence.                    *)
LEMMA OnlyChange ==
  ASSUME NEW tree, NEW c, Planned(tree, <<c>>) PROVE c \in Changes /\ c.old = tree[c.path]
<1>1. <<c>> \in Seq(Changes) /\ Len(<<c>>) = 1 /\ <<c>>[1] = c
  BY DEF Planned
<1>2. 1 \in 1 .. Len(<<c>>)
  BY <1>1
<1>3. <<c>>[1] \in Changes
  BY <1>1, <1>2, ElementOfSeq
<1>4. <<c>>[1].old = tree[<<c>>[1].path]
  BY <1>2 DEF Planned, StartsFrom
<1>5. QED
  BY <1>1, <1>3, <1>4

LEMMA PageKind ==
  ASSUME NEW tree \in Trees, NEW r \in Requests
  PROVE  /\ PageChange(tree, r) \in Seq(Kinds(tree, r))
         /\ Len(PageChange(tree, r)) = 1
         /\ IsPage(PageChange(tree, r)[1], r)
<1> DEFINE c == PageChange(tree, r)[1]
<1>1. PageChange(tree, r) = <<c>>
  BY DEF PageChange
<1>2. IsPage(c, r)
  BY DEF PageChange, Change, IsPage
<1>3. Planned(tree, <<c>>)
  BY <1>1, PageChangePlanned
<1> HIDE DEF c
<1>4. c \in Kinds(tree, r)
  BY <1>2, <1>3, OnlyChange DEF Kinds
<1>5. QED
  BY <1>1, <1>2, <1>4, OneOf DEF c

LEMMA SupersedeKind ==
  ASSUME NEW tree \in Trees, NEW r \in Requests
  PROVE  SupersedeChange(tree, r) \in Seq(Kinds(tree, r))
<1>1. CASE r.supersedes = NoPage
  BY <1>1, NoneOf DEF SupersedeChange
<1>2. CASE r.supersedes # NoPage
  <2> DEFINE c == SupersedeChange(tree, r)[1]
  <2>1. SupersedeChange(tree, r) = <<c>>
    BY <1>2 DEF SupersedeChange
  <2>2. IsSuperseded(c, r)
    BY <1>2 DEF SupersedeChange, Change, IsSuperseded
  <2>3. Planned(tree, <<c>>)
    BY <2>1, SupersedeChangePlanned
  <2> HIDE DEF c
  <2>4. c \in Kinds(tree, r)
    BY <2>2, <2>3, OnlyChange DEF Kinds
  <2>5. QED
    BY <2>1, <2>4, OneOf
<1>3. QED
  BY <1>1, <1>2

LEMMA LinkKind ==
  ASSUME NEW tree \in Trees, NEW r \in Requests
  PROVE  IndexChange(tree, r) \in Seq(Kinds(tree, r))
<1> DEFINE i == Index[Home[r.dest]]
<1>1. CASE i \in {NoPage, r.dest} \/ tree[i] = Absent \/ Links(r.dest) \cap tree[i] # {}
  BY <1>1, NoneOf DEF IndexChange
<1>2. CASE ~ (i \in {NoPage, r.dest} \/ tree[i] = Absent \/ Links(r.dest) \cap tree[i] # {})
  <2> DEFINE c == Change(i, tree[i], tree[i] \cup {Link(r.dest, Title[r.proposal])})
  <2>1. IndexChange(tree, r) = <<c>>
    BY <1>2 DEF IndexChange
  <2>2. IsLink(c, r)
    BY <1>2 DEF Change, IsLink
  <2>3. Planned(tree, <<c>>)
    BY <2>1, IndexChangePlanned
  <2> HIDE DEF c
  <2>4. c \in Kinds(tree, r)
    BY <2>2, <2>3, OnlyChange DEF Kinds
  <2>5. QED
    BY <2>1, <2>4, OneOf
<1>3. QED
  BY <1>1, <1>2

(* The four parts of a registration.                                       *)
LEMMA SkeletonKinds ==
  ASSUME NEW tree \in Trees, NEW r \in Requests
  PROVE  /\ SkeletonChange(tree, Card[Home[r.dest]], {Skeleton(Home[r.dest])})
              \in Seq(Kinds(tree, r))
         /\ SkeletonChange(tree, Index[Home[r.dest]], {Link(r.dest, r.dest)})
              \in Seq(Kinds(tree, r))
<1> DEFINE w == Home[r.dest]
<1>1. w \in Wikis /\ Card[w] \in Pages /\ Index[w] \in Pages \cup {NoPage}
  BY RequestParts, PlanConstants
<1>2. {Skeleton(w)} \in SUBSET Marks
  BY <1>1 DEF Marks
<1>3. {Link(r.dest, r.dest)} \in SUBSET Marks
  BY RequestParts, LinkIsMark DEF Labels
<1>4. ASSUME NEW path \in Pages \cup {NoPage}, NEW text \in SUBSET Marks,
             \A c : c.path = path /\ path # NoPage /\ c.old = Absent /\ c.new = text
                     => IsCard(c, r) \/ IsNewIndex(c, r)
      PROVE  SkeletonChange(tree, path, text) \in Seq(Kinds(tree, r))
  <2>1. CASE path = NoPage \/ tree[path] # Absent
    BY <2>1, NoneOf DEF SkeletonChange
  <2>2. CASE ~ (path = NoPage \/ tree[path] # Absent)
    <3> DEFINE c == Change(path, Absent, text)
    <3>1. SkeletonChange(tree, path, text) = <<c>>
      BY <2>2 DEF SkeletonChange
    <3>2. IsCard(c, r) \/ IsNewIndex(c, r)
      BY <1>4, <2>2 DEF Change
    <3>3. Planned(tree, <<c>>)
      BY <3>1, SkeletonChangePlanned
    <3> HIDE DEF c
    <3>4. c \in Kinds(tree, r)
      BY <3>2, <3>3, OnlyChange DEF Kinds
    <3>5. QED
      BY <3>1, <3>4, OneOf
  <2>3. QED
    BY <2>1, <2>2
<1>5. \A c : c.path = Card[w] /\ c.old = Absent /\ c.new = {Skeleton(w)} => IsCard(c, r)
  BY DEF IsCard
<1>6. \A c : c.path = Index[w] /\ Index[w] # NoPage /\ c.old = Absent
               /\ c.new = {Link(r.dest, r.dest)} => IsNewIndex(c, r)
  BY DEF IsNewIndex
<1>7. QED
  BY <1>1, <1>2, <1>3, <1>4, <1>5, <1>6

RegistryChange(tree, r) ==
  Change(Registry, tree[Registry], Text(tree[Registry]) \cup {Wiki(Home[r.dest])})

StatusChange(tree, r) ==
  Change(r.proposal, tree[r.proposal],
         Text(tree[r.proposal]) \cup {Applied(r.proposal, r.dest)})

LEMMA RegistryKinds ==
  ASSUME NEW tree \in Trees, NEW r \in Requests, CreatesNewWiki(tree, r)
  PROVE  /\ <<RegistryChange(tree, r)>> \in Seq(Kinds(tree, r))
         /\ RouterChange(tree, Text(tree[Registry]) \cup {Wiki(Home[r.dest])})
              \in Seq(Kinds(tree, r))
<1> DEFINE w == Home[r.dest]
           registered == Text(tree[Registry]) \cup {Wiki(w)}
           router == {Header} \cup (registered \cap WikiMarks)
           d == Change(Router, tree[Router], router)
<1>1. Registry \in Paths /\ Router \in Paths
  BY DEF Paths
<1>2. tree[Registry] \in Content /\ w \in Wikis
  BY <1>1, RequestParts DEF Trees
<1>3. Wiki(w) \in Marks
  BY <1>2 DEF Marks, WikiMarks
<1>4. registered \in SUBSET Marks
  BY <1>2, <1>3, TextIsMarks
<1>5. <<RegistryChange(tree, r)>> \in Seq(Kinds(tree, r))
  <2> DEFINE c == RegistryChange(tree, r)
  <2>1. IsRegistry(c, r)
    BY DEF RegistryChange, Change, IsRegistry, CreatesNewWiki, Known
  <2>2. Planned(tree, <<c>>)
    BY <1>1, <1>4, OneChange DEF RegistryChange
  <2> HIDE DEF c
  <2>3. c \in Kinds(tree, r)
    BY <2>1, <2>2, OnlyChange DEF Kinds
  <2>4. QED
    BY <2>3, OneOf DEF c
<1>6. RouterChange(tree, registered) \in Seq(Kinds(tree, r))
  <2>1. CASE (tree[Router] # Absent /\ Header \notin tree[Router]) \/ tree[Router] = router
    BY <2>1, NoneOf DEF RouterChange
  <2>2. CASE ~ ((tree[Router] # Absent /\ Header \notin tree[Router]) \/ tree[Router] = router)
    <3>1. RouterChange(tree, registered) = <<d>>
      BY <2>2 DEF RouterChange
    <3>2. IsRouter(tree, d, r)
      BY <2>2 DEF IsRouter, Change
    <3>3. Planned(tree, <<d>>)
      BY <3>1, RouterChangePlanned
    <3> HIDE DEF d
    <3>4. d \in Kinds(tree, r)
      BY <3>2, <3>3, OnlyChange DEF Kinds
    <3>5. QED
      BY <3>1, <3>4, OneOf
  <2>3. QED
    BY <2>1, <2>2
<1>7. QED
  BY <1>5, <1>6

(* c is one of the changes of s.                                           *)
Has(s, c) == \E i \in 1 .. Len(s) : s[i] = c

LEMMA ConcatHas ==
  ASSUME NEW S, NEW s \in Seq(S), NEW t \in Seq(S), NEW c, Has(s, c) \/ Has(t, c)
  PROVE  Has(s \o t, c)
<1>1. /\ Len(s \o t) = Len(s) + Len(t)
      /\ \A i \in 1 .. Len(s) + Len(t) :
           (s \o t)[i] = IF i <= Len(s) THEN s[i] ELSE t[i - Len(s)]
  BY ConcatProperties
<1>2. Len(s) \in Nat /\ Len(t) \in Nat
  OBVIOUS
<1>3. CASE Has(s, c)
  <2>1. PICK i \in 1 .. Len(s) : s[i] = c
    BY <1>3 DEF Has
  <2>2. i \in 1 .. Len(s \o t) /\ (s \o t)[i] = c
    BY <1>1, <1>2, <2>1
  <2>3. QED
    BY <2>2 DEF Has
<1>4. CASE Has(t, c)
  <2>1. PICK i \in 1 .. Len(t) : t[i] = c
    BY <1>4 DEF Has
  <2>2. i + Len(s) \in 1 .. Len(s \o t) /\ ~ (i + Len(s) <= Len(s)) /\ (i + Len(s)) - Len(s) = i
    BY <1>1, <1>2
  <2>3. (s \o t)[i + Len(s)] = c
    BY <1>1, <1>2, <2>1, <2>2
  <2>4. QED
    BY <2>2, <2>3 DEF Has
<1>5. QED
  BY <1>3, <1>4

(* What stands first stays first.                                          *)
LEMMA ConcatStart ==
  ASSUME NEW S, NEW s \in Seq(S), NEW t \in Seq(S), Len(s) >= 1
  PROVE  /\ s \o t \in Seq(S)
         /\ Len(s \o t) >= 1
         /\ (s \o t)[1] = s[1]
<1>1. /\ s \o t \in Seq(S)
      /\ Len(s \o t) = Len(s) + Len(t)
      /\ \A i \in 1 .. Len(s) + Len(t) :
           (s \o t)[i] = IF i <= Len(s) THEN s[i] ELSE t[i - Len(s)]
  BY ConcatProperties
<1>2. Len(s) \in Nat /\ Len(t) \in Nat
  OBVIOUS
<1>3. 1 \in 1 .. Len(s) + Len(t) /\ 1 <= Len(s)
  BY <1>2
<1>4. QED
  BY <1>1, <1>2, <1>3

LEMMA HasOnly == ASSUME NEW c PROVE Has(<<c>>, c)
<1>1. 1 \in 1 .. Len(<<c>>) /\ <<c>>[1] = c
  OBVIOUS
<1>2. QED
  BY <1>1 DEF Has

(* The changes of a plan, each of a kind the planner knows; the first is   *)
(* to the destination, and a registration is among those of a new wiki.    *)
LEMMA ChangesKinds ==
  ASSUME NEW tree \in Trees, NEW r \in Requests
  PROVE  /\ PlanChanges(tree, r) \in Seq(Kinds(tree, r))
         /\ Len(PlanChanges(tree, r)) >= 1
         /\ IsPage(PlanChanges(tree, r)[1], r)
         /\ CreatesNewWiki(tree, r) => Has(PlanChanges(tree, r), RegistryChange(tree, r))
<1> DEFINE K == Kinds(tree, r)
           page == PageChange(tree, r)
           super == SupersedeChange(tree, r)
           card == SkeletonChange(tree, Card[Home[r.dest]], {Skeleton(Home[r.dest])})
           index == SkeletonChange(tree, Index[Home[r.dest]], {Link(r.dest, r.dest)})
           entry == <<RegistryChange(tree, r)>>
           router == RouterChange(tree, Text(tree[Registry]) \cup {Wiki(Home[r.dest])})
           rest == IF CreatesNewWiki(tree, r) THEN card \o index \o entry \o router
                                              ELSE IndexChange(tree, r)
<1>1. PlanChanges(tree, r) = page \o super \o rest
  BY DEF PlanChanges, RegistrationChanges, RegistryChange
<1>2. /\ page \in Seq(K) /\ super \in Seq(K) /\ card \in Seq(K) /\ index \in Seq(K)
      /\ Len(page) = 1 /\ IsPage(page[1], r)
  BY PageKind, SupersedeKind, SkeletonKinds
<1>3. rest \in Seq(K) /\ (CreatesNewWiki(tree, r) => Has(rest, RegistryChange(tree, r)))
  <2>1. CASE CreatesNewWiki(tree, r)
    <3>1. entry \in Seq(K) /\ router \in Seq(K) /\ Has(entry, RegistryChange(tree, r))
      BY <2>1, RegistryKinds, HasOnly
    <3> HIDE DEF entry, router, K, card, index
    <3>2. card \o index \in Seq(K)
      BY <1>2, ConcatProperties
    <3>3. (card \o index) \o entry \in Seq(K) /\ Has((card \o index) \o entry, RegistryChange(tree, r))
      BY <3>1, <3>2, ConcatProperties, ConcatHas
    <3>4. ((card \o index) \o entry) \o router \in Seq(K)
          /\ Has(((card \o index) \o entry) \o router, RegistryChange(tree, r))
      BY <3>1, <3>3, ConcatProperties, ConcatHas
    <3>5. QED
      BY <2>1, <3>4
  <2>2. CASE ~ CreatesNewWiki(tree, r)
    BY <2>2, LinkKind
  <2>3. QED
    BY <2>1, <2>2
<1> HIDE DEF K, page, super, rest
<1>4. page \o super \in Seq(K) /\ Len(page \o super) >= 1 /\ (page \o super)[1] = page[1]
  <2>1. page \in Seq(K) /\ super \in Seq(K) /\ Len(page) >= 1
    BY <1>2
  <2>2. QED
    BY <2>1, ConcatStart
<1>5. /\ (page \o super) \o rest \in Seq(K)
      /\ Len((page \o super) \o rest) >= 1
      /\ ((page \o super) \o rest)[1] = page[1]
  BY <1>3, <1>4, ConcatStart
<1>6. CreatesNewWiki(tree, r) => Has((page \o super) \o rest, RegistryChange(tree, r))
  BY <1>3, <1>4, ConcatHas
<1>7. QED
  BY <1>1, <1>2, <1>5, <1>6 DEF K

LEMMA StatusKind ==
  ASSUME NEW tree \in Trees, NEW r \in Requests
  PROVE  StatusChange(tree, r) \in Kinds(tree, r)
<1> DEFINE c == StatusChange(tree, r)
<1>1. r.proposal \in Paths /\ tree[r.proposal] \in Content
  BY RequestParts DEF Trees
<1>2. Applied(r.proposal, r.dest) \in Marks
  BY RequestParts DEF Marks
<1>3. Text(tree[r.proposal]) \cup {Applied(r.proposal, r.dest)} \in SUBSET Marks
  BY <1>1, <1>2, TextIsMarks
<1>4. Planned(tree, <<c>>)
  BY <1>1, <1>3, OneChange DEF StatusChange
<1>5. IsStatus(c, r)
  BY DEF StatusChange, Change, IsStatus
<1> HIDE DEF c
<1>6. c \in Kinds(tree, r)
  BY <1>4, <1>5, OnlyChange DEF Kinds
<1>7. QED
  BY <1>6 DEF c

(* The entries of a transaction: a change to the destination first, the    *)
(* status of the proposal among them, and nothing the planner does not do. *)
THEOREM EntriesKinds ==
  ASSUME NEW tree \in Trees, NEW r \in Requests
  PROVE  /\ Entries(tree, r) \in Seq(Kinds(tree, r))
         /\ Len(Entries(tree, r)) >= 2
         /\ IsPage(Entries(tree, r)[1], r)
         /\ Has(Entries(tree, r), StatusChange(tree, r))
         /\ CreatesNewWiki(tree, r) => Has(Entries(tree, r), RegistryChange(tree, r))
<1> DEFINE K == Kinds(tree, r)
           changes == PlanChanges(tree, r)
           last == StatusChange(tree, r)
<1>1. Entries(tree, r) = Append(changes, last)
  BY DEF Entries, StatusChange
<1>2. /\ changes \in Seq(K) /\ last \in K /\ Len(changes) >= 1 /\ IsPage(changes[1], r)
      /\ CreatesNewWiki(tree, r) => Has(changes, RegistryChange(tree, r))
  BY ChangesKinds, StatusKind
<1> HIDE DEF changes, last, K
<1>3. /\ Append(changes, last) \in Seq(K)
      /\ Len(Append(changes, last)) = Len(changes) + 1
      /\ \A i \in 1 .. Len(changes) : Append(changes, last)[i] = changes[i]
      /\ Append(changes, last)[Len(changes) + 1] = last
      /\ Append(changes, last) = changes \o <<last>>
      /\ Len(changes) \in Nat
  BY <1>2, AppendProperties, AppendIsConcat
<1>4. 1 \in 1 .. Len(changes) /\ Len(Append(changes, last)) >= 2
  BY <1>2, <1>3
<1>5. <<last>> \in Seq(K) /\ Has(<<last>>, last)
  BY <1>2, OneOf, HasOnly
<1>6. /\ Has(changes \o <<last>>, last)
      /\ CreatesNewWiki(tree, r) => Has(changes \o <<last>>, RegistryChange(tree, r))
  BY <1>2, <1>5, ConcatHas
<1>7. IsPage(Append(changes, last)[1], r)
  BY <1>2, <1>3, <1>4
<1>8. QED
  BY <1>1, <1>3, <1>4, <1>6, <1>7 DEF last, K

-----------------------------------------------------------------------------
(* Plans that change each file once                                        *)

(* The page of a plan, the one it supersedes and the card and the index of *)
(* the wiki are different files.  The planner does not see to it: it plans *)
(* a second change of the same file from the bytes the first one replaces. *)
SeparatePages ==
  \A r \in Requests :
    /\ r.dest \notin {Card[Home[r.dest]], Index[Home[r.dest]]}
    /\ Card[Home[r.dest]] # Index[Home[r.dest]]
    /\ r.supersedes \in {Card[Home[r.dest]], Index[Home[r.dest]]} => r.supersedes = NoPage

Targets(s) == {s[i].path : i \in 1 .. Len(s)}

LEMMA DistinctConcat ==
  ASSUME NEW S, NEW s \in Seq(S), NEW t \in Seq(S), Distinct(s), Distinct(t),
         Targets(s) \cap Targets(t) = {}
  PROVE  /\ s \o t \in Seq(S)
         /\ Distinct(s \o t)
         /\ Targets(s \o t) \subseteq Targets(s) \cup Targets(t)
<1>1. /\ s \o t \in Seq(S)
      /\ Len(s \o t) = Len(s) + Len(t)
      /\ \A i \in 1 .. Len(s) + Len(t) :
           (s \o t)[i] = IF i <= Len(s) THEN s[i] ELSE t[i - Len(s)]
  BY ConcatProperties
<1>2. /\ Len(s) \in Nat /\ Len(t) \in Nat
      /\ DOMAIN s = 1 .. Len(s) /\ DOMAIN t = 1 .. Len(t)
      /\ DOMAIN (s \o t) = 1 .. Len(s) + Len(t)
  BY <1>1, LenProperties
<1>3. ASSUME NEW i \in 1 .. Len(s) + Len(t)
      PROVE  \/ i \in 1 .. Len(s) /\ (s \o t)[i] = s[i]
             \/ i - Len(s) \in 1 .. Len(t) /\ (s \o t)[i] = t[i - Len(s)]
  BY <1>1, <1>2
<1>4. \A i \in 1 .. Len(s) : s[i].path \in Targets(s)
  BY DEF Targets
<1>5. \A i \in 1 .. Len(t) : t[i].path \in Targets(t)
  BY DEF Targets
<1>6. Targets(s \o t) \subseteq Targets(s) \cup Targets(t)
  BY <1>1, <1>3, <1>4, <1>5 DEF Targets
<1>7. ASSUME NEW i \in 1 .. Len(s) + Len(t), NEW j \in 1 .. Len(s) + Len(t),
             (s \o t)[i].path = (s \o t)[j].path
      PROVE  i = j
  <2>1. CASE i \in 1 .. Len(s) /\ (s \o t)[i] = s[i]
    <3>1. j \in 1 .. Len(s) /\ (s \o t)[j] = s[j]
      BY <1>3, <1>4, <1>5, <1>7, <2>1
    <3>2. QED
      BY <1>2, <1>7, <2>1, <3>1 DEF Distinct
  <2>2. CASE i - Len(s) \in 1 .. Len(t) /\ (s \o t)[i] = t[i - Len(s)]
    <3>1. j - Len(s) \in 1 .. Len(t) /\ (s \o t)[j] = t[j - Len(s)]
      BY <1>3, <1>4, <1>5, <1>7, <2>2
    <3>2. i - Len(s) = j - Len(s)
      BY <1>2, <1>7, <2>2, <3>1 DEF Distinct
    <3>3. QED
      BY <1>2, <3>2
  <2>3. QED
    BY <1>3, <2>1, <2>2
<1>8. Distinct(s \o t)
  BY <1>2, <1>7 DEF Distinct
<1>9. QED
  BY <1>1, <1>6, <1>8

LEMMA DistinctOnly ==
  ASSUME NEW c PROVE Distinct(<<c>>) /\ Targets(<<c>>) = {c.path}
<1>1. DOMAIN <<c>> = 1 .. 1 /\ Len(<<c>>) = 1 /\ <<c>>[1] = c
  OBVIOUS
<1>2. \A i \in 1 .. 1 : i = 1
  OBVIOUS
<1>3. Distinct(<<c>>)
  BY <1>1, <1>2 DEF Distinct
<1>4. Targets(<<c>>) = {c.path}
  BY <1>1, <1>2 DEF Targets
<1>5. QED
  BY <1>3, <1>4

LEMMA DistinctNone == Distinct(<<>>) /\ Targets(<<>>) = {}
  BY DEF Distinct, Targets

(* Each part of a plan changes one file at most, or four of them once.     *)
LEMMA PartTargets ==
  ASSUME NEW tree \in Trees, NEW r \in Requests
  PROVE  /\ Distinct(PageChange(tree, r)) /\ Targets(PageChange(tree, r)) = {r.dest}
         /\ Distinct(SupersedeChange(tree, r))
         /\ Targets(SupersedeChange(tree, r)) \subseteq {r.supersedes} \ {NoPage}
         /\ Distinct(IndexChange(tree, r))
         /\ Targets(IndexChange(tree, r)) \subseteq {Index[Home[r.dest]]} \ {NoPage}
<1>1. Distinct(PageChange(tree, r)) /\ Targets(PageChange(tree, r)) = {r.dest}
  BY DistinctOnly DEF PageChange, Change
<1>2. Distinct(SupersedeChange(tree, r))
      /\ Targets(SupersedeChange(tree, r)) \subseteq {r.supersedes} \ {NoPage}
  <2>1. CASE r.supersedes = NoPage
    BY <2>1, DistinctNone DEF SupersedeChange
  <2>2. CASE r.supersedes # NoPage
    <3> DEFINE c == SupersedeChange(tree, r)[1]
    <3>1. SupersedeChange(tree, r) = <<c>> /\ c.path = r.supersedes
      BY <2>2 DEF SupersedeChange, Change
    <3> HIDE DEF c
    <3>2. QED
      BY <2>2, <3>1, DistinctOnly
  <2>3. QED
    BY <2>1, <2>2
<1>3. Distinct(IndexChange(tree, r))
      /\ Targets(IndexChange(tree, r)) \subseteq {Index[Home[r.dest]]} \ {NoPage}
  <2> DEFINE i == Index[Home[r.dest]]
             c == Change(i, tree[i], tree[i] \cup {Link(r.dest, Title[r.proposal])})
  <2>1. IndexChange(tree, r) = <<>> \/ (i # NoPage /\ IndexChange(tree, r) = <<c>>)
    BY DEF IndexChange
  <2>2. c.path = i
    BY DEF Change
  <2> HIDE DEF c
  <2>3. QED
    BY <2>1, <2>2, DistinctNone, DistinctOnly
<1>4. QED
  BY <1>1, <1>2, <1>3

LEMMA SkeletonTargets ==
  ASSUME NEW tree, NEW path, NEW text
  PROVE  /\ Distinct(SkeletonChange(tree, path, text))
         /\ Targets(SkeletonChange(tree, path, text)) \subseteq {path} \ {NoPage}
<1> DEFINE c == Change(path, Absent, text)
<1>1. SkeletonChange(tree, path, text) = <<>>
      \/ (path # NoPage /\ SkeletonChange(tree, path, text) = <<c>>)
  BY DEF SkeletonChange
<1>2. c.path = path
  BY DEF Change
<1> HIDE DEF c
<1>3. QED
  BY <1>1, <1>2, DistinctNone, DistinctOnly

LEMMA RouterTargets ==
  ASSUME NEW tree, NEW registered
  PROVE  /\ Distinct(RouterChange(tree, registered))
         /\ Targets(RouterChange(tree, registered)) \subseteq {Router}
<1> DEFINE c == Change(Router, tree[Router], {Header} \cup (registered \cap WikiMarks))
<1>1. RouterChange(tree, registered) = <<>> \/ RouterChange(tree, registered) = <<c>>
  BY DEF RouterChange
<1>2. c.path = Router
  BY DEF Change
<1> HIDE DEF c
<1>3. QED
  BY <1>1, <1>2, DistinctNone, DistinctOnly

(* When the pages are separate no file is changed twice.                   *)
THEOREM EntriesDistinct ==
  ASSUME SeparatePages, NEW tree \in Trees, NEW r \in Requests, Plannable(tree, r)
  PROVE  Distinct(Entries(tree, r))
<1> DEFINE K == Kinds(tree, r)
           w == Home[r.dest]
           page == PageChange(tree, r)
           super == SupersedeChange(tree, r)
           card == SkeletonChange(tree, Card[w], {Skeleton(w)})
           index == SkeletonChange(tree, Index[w], {Link(r.dest, r.dest)})
           entry == <<RegistryChange(tree, r)>>
           router == RouterChange(tree, Text(tree[Registry]) \cup {Wiki(w)})
           rest == IF CreatesNewWiki(tree, r) THEN ((card \o index) \o entry) \o router
                                              ELSE IndexChange(tree, r)
           last == <<StatusChange(tree, r)>>
<1>1. PlanChanges(tree, r) = (page \o super) \o rest
  BY DEF PlanChanges, RegistrationChanges, RegistryChange
<1>2. /\ PlanChanges(tree, r) \in Seq(K) /\ StatusChange(tree, r) \in K
      /\ page \in Seq(K) /\ super \in Seq(K) /\ card \in Seq(K) /\ index \in Seq(K)
      /\ IndexChange(tree, r) \in Seq(K)
  BY ChangesKinds, StatusKind, PageKind, SupersedeKind, SkeletonKinds, LinkKind
<1>3. Entries(tree, r) = PlanChanges(tree, r) \o last /\ last \in Seq(K)
  BY <1>2, AppendIsConcat, OneOf DEF Entries, StatusChange
<1>4. /\ r.dest \in Pages /\ r.proposal \in Proposals /\ w \in Wikis
      /\ Card[w] \in Pages /\ Index[w] \in Pages \cup {NoPage}
      /\ r.supersedes \in Pages \cup {NoPage}
      /\ r.dest \notin {Card[w], Index[w]} /\ Card[w] # Index[w]
      /\ r.supersedes \in {Card[w], Index[w]} => r.supersedes = NoPage
      /\ r.supersedes # NoPage => r.supersedes # r.dest
  BY RequestParts, PlanConstants DEF SeparatePages, Plannable
<1>5. /\ Distinct(page) /\ Targets(page) = {r.dest}
      /\ Distinct(super) /\ Targets(super) \subseteq {r.supersedes} \ {NoPage}
      /\ Distinct(IndexChange(tree, r))
      /\ Targets(IndexChange(tree, r)) \subseteq {Index[w]} \ {NoPage}
  BY PartTargets
<1>6. Distinct(last) /\ Targets(last) = {r.proposal}
  BY DistinctOnly DEF StatusChange, Change
<1> HIDE DEF last
<1>7. /\ rest \in Seq(K) /\ Distinct(rest)
      /\ Targets(rest) \subseteq ({Card[w], Index[w]} \ {NoPage}) \cup {Registry, Router}
  <2>1. CASE CreatesNewWiki(tree, r)
    <3>1. /\ Distinct(card) /\ Targets(card) \subseteq {Card[w]} \ {NoPage}
          /\ Distinct(index) /\ Targets(index) \subseteq {Index[w]} \ {NoPage}
          /\ Distinct(router) /\ Targets(router) \subseteq {Router}
      BY SkeletonTargets, RouterTargets
    <3>2. Distinct(entry) /\ Targets(entry) = {Registry}
      BY DistinctOnly DEF RegistryChange, Change
    <3>3. entry \in Seq(K) /\ router \in Seq(K)
      BY <2>1, RegistryKinds
    <3> HIDE DEF entry, router, card, index, K
    <3>4. Targets(card) \cap Targets(index) = {}
      BY <1>4, <3>1
    <3>5. /\ card \o index \in Seq(K) /\ Distinct(card \o index)
          /\ Targets(card \o index) \subseteq {Card[w], Index[w]} \ {NoPage}
      BY <1>2, <3>1, <3>4, DistinctConcat
    <3>6. Targets(card \o index) \cap Targets(entry) = {}
      BY <1>4, <3>2, <3>5, PathKinds
    <3>7. /\ (card \o index) \o entry \in Seq(K) /\ Distinct((card \o index) \o entry)
          /\ Targets((card \o index) \o entry)
               \subseteq ({Card[w], Index[w]} \ {NoPage}) \cup {Registry}
      BY <3>2, <3>3, <3>5, <3>6, DistinctConcat
    <3> DEFINE three == (card \o index) \o entry
    <3>8. /\ three \in Seq(K) /\ Distinct(three)
          /\ Targets(three) \subseteq ({Card[w], Index[w]} \ {NoPage}) \cup {Registry}
      BY <3>7
    <3>9. rest = three \o router
      BY <2>1
    <3> HIDE DEF three, rest
    <3>10. Targets(three) \cap Targets(router) = {}
      BY <1>4, <3>1, <3>8, PathKinds
    <3>11. /\ three \o router \in Seq(K) /\ Distinct(three \o router)
           /\ Targets(three \o router) \subseteq Targets(three) \cup Targets(router)
      BY <3>1, <3>3, <3>8, <3>10, DistinctConcat
    <3>12. QED
      BY <3>1, <3>8, <3>9, <3>11
  <2>2. CASE ~ CreatesNewWiki(tree, r)
    BY <1>2, <1>5, <2>2
  <2>3. QED
    BY <2>1, <2>2
<1> HIDE DEF page, super, rest, K
<1>8. Targets(page) \cap Targets(super) = {}
  BY <1>4, <1>5
<1>9. /\ page \o super \in Seq(K) /\ Distinct(page \o super)
      /\ Targets(page \o super) \subseteq {r.dest} \cup ({r.supersedes} \ {NoPage})
  BY <1>2, <1>5, <1>8, DistinctConcat
<1>10. Targets(page \o super) \cap Targets(rest) = {}
  BY <1>4, <1>7, <1>9, PathKinds
<1>11. /\ (page \o super) \o rest \in Seq(K) /\ Distinct((page \o super) \o rest)
       /\ Targets((page \o super) \o rest) \subseteq Pages \cup {Registry, Router}
  <2>1. /\ (page \o super) \o rest \in Seq(K) /\ Distinct((page \o super) \o rest)
        /\ Targets((page \o super) \o rest) \subseteq Targets(page \o super) \cup Targets(rest)
    BY <1>7, <1>9, <1>10, DistinctConcat
  <2>2. QED
    BY <1>4, <1>7, <1>9, <2>1
<1>12. Targets((page \o super) \o rest) \cap Targets(last) = {}
  BY <1>4, <1>6, <1>11, PathKinds
<1>13. Distinct(((page \o super) \o rest) \o last)
  BY <1>3, <1>6, <1>11, <1>12, DistinctConcat
<1>14. QED
  BY <1>1, <1>3, <1>13
=============================================================================
