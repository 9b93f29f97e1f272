------------------------ MODULE ProvisionTxn_proofs ------------------------
(***************************************************************************)
(* Theorems about ProvisionTxn for every set of wikis, every number of     *)
(* transactions, failures and edits, and every path that may be edited.    *)
(***************************************************************************)
EXTENDS ProvisionTxn, SequenceTheorems, TLAPS

-----------------------------------------------------------------------------
(* The inductive invariant of every run                                    *)

(* The shape a plan has had since it was computed.                         *)
WellPlanned(id) ==
  LET w == id.wiki
      c == id.changes IN
  /\ id \in PlanIds
  /\ Len(c) \in {3, 4}
  /\ /\ c[1].path = Registry
     /\ c[1].old \in SUBSET Marks /\ Wiki(w) \notin c[1].old
     /\ c[1].new = c[1].old \cup {Wiki(w)}
  /\ c[2].path = Card(w) /\ c[2].old = Absent /\ c[2].new = {Generated}
  /\ c[3].path = Log(w)  /\ c[3].old = Absent
  /\ 4 \in DOMAIN c =>
       /\ c[4].path = Router
       /\ c[4].old = Absent \/ Header \in c[4].old
       /\ c[4].new = {Header} \cup ((c[1].old \cup {Wiki(w)}) \cap WikiMarks)

(* The entries of a record are the changes of its plan; what the log has   *)
(* become since is all that may differ.                                    *)
Fits(entries, id) ==
  /\ entries \in Seq(Changes)
  /\ Len(entries) = Len(id.changes)
  /\ \A i \in DOMAIN entries :
       /\ entries[i].path = id.changes[i].path
       /\ entries[i].old = id.changes[i].old
       /\ i # 3 => entries[i].new = id.changes[i].new
  /\ Generated \in entries[3].new /\ entries[3].new \cap WikiMarks = {}

RecordsFit ==
  \A id \in Recorded : WellPlanned(id) /\ Fits(manifest[id].entries, id)

(* What a run holds in memory belongs to its plan, and to its record.      *)
RunFits ==
  /\ run.phase = "idle" => run = Idle
  /\ run # Idle => run.op # "none" /\ WellPlanned(run.id) /\ Fits(run.entries, run.id)
  /\ run.phase \in {"write", "commit", "undo", "restore", "audit"} => run.id \in Recorded
  /\ run.op = "apply" => run.phase \in {"record", "write", "commit", "audit", "undo"}
  /\ run.op = "resume" => run.phase \in {"write", "commit", "audit"}
  /\ run.op = "rollback" => run.phase \in {"restore", "audit"}
  /\ (run.op \in {"apply", "resume"} /\ run.phase # "undo") => run.next >= 1

(* A file lies in a directory; the generated files name no wiki, and a log *)
(* keeps the text it was generated with.                                   *)
OwnFiles ==
  \A w \in Wikis :
    /\ w \notin dirs => \A f \in Own(w) : tree[f] = Absent
    /\ tree[Card(w)] # Absent => tree[Card(w)] \cap WikiMarks = {}
    /\ tree[Log(w)] # Absent => Generated \in tree[Log(w)] /\ tree[Log(w)] \cap WikiMarks = {}

(* What a run has read of its targets still explains them, but for those   *)
(* that somebody has changed since.                                        *)
ReadsExplain ==
  /\ \A i \in DOMAIN run.entries :
       \/ Done(run.entries[i]) \/ Incomplete(run.entries[i])
       \/ run.entries[i].path \in run.raced
  /\ run.raced \subseteq edited

BaseInv == TypeOK /\ RecordsFit /\ RunFits /\ OwnFiles /\ ReadsExplain

-----------------------------------------------------------------------------
(* What the invariants say when a transaction is settled before another    *)
(* one is started                                                          *)

Working == run.phase \in {"write", "commit", "undo", "restore", "audit"}

OneOpen ==
  /\ \A id \in Recorded : run # Idle /\ id # run.id => ~ Open(id)
  /\ \A id, other \in Recorded : Open(id) /\ Open(other) => id = other

(* In t, a target is done, has grown or is as it was before.               *)
Settles(t, e) ==
  \/ t[e.path] = e.new
  \/ \E w \in Wikis : /\ e.path = Log(w) /\ t[e.path] # Absent
                      /\ e.new \subseteq t[e.path] /\ t[e.path] \ e.new \subseteq {Event, Later}
  \/ t[e.path] \in {Absent, e.old}
Explained(t, entries, changed) ==
  \A i \in DOMAIN entries : Settles(t, entries[i]) \/ entries[i].path \in changed

(* The state of the record a run works on.                                 *)
InHand ==
  /\ run.phase \in {"write", "restore"} => run.entries = manifest[run.id].entries
  /\ run.phase \in {"write", "commit", "undo", "restore"} =>
       manifest[run.id].state # "rolled_back"
  /\ run.phase = "audit" =>
       manifest[run.id].state = IF run.op = "rollback" THEN "rolled_back" ELSE "applied"
  /\ run.phase = "record" /\ run.id \in Recorded => manifest[run.id].state = "rolled_back"

(* Only what is standing is written to.                                    *)
RolledBackSettled ==
  \A id \in unsettled : manifest[id].state # "rolled_back"

Recoverable ==
  \A id \in Recorded :
    Open(id) \/ (Working /\ id = run.id) => Explained(tree, manifest[id].entries, edited)

OpenInv == OneOpen /\ InHand /\ RolledBackSettled /\ Recoverable

-----------------------------------------------------------------------------
(* ... and what it leaves of the wikis                                     *)

Settled(id) == id \in Recorded /\ manifest[id].state = "applied" /\ id \notin unsettled
Standing ==
  {id \in Recorded : manifest[id].state # "rolled_back"}
  \cup (IF run.phase = "record" THEN {run.id} ELSE {})

Prior(id)  == id.changes[1].old
Marked(id) == (Prior(id) \cap WikiMarks) \cup {Wiki(id.wiki)}
Text(c)    == IF c = Absent THEN {} ELSE c
Routed(id) == 4 \in DOMAIN id.changes

(* Whose router it is was decided before the first plan.                   *)
Handwritten == tree[Router] # Absent /\ Header \notin tree[Router]
RouterKept ==
  Router \notin edited =>
    IF Handwritten
    THEN tree[Router] \cap WikiMarks = {} /\ \A id \in Standing : ~ Routed(id)
    ELSE \A id \in Standing : Routed(id)

(* How far a run has come.                                                 *)
Targeted == run.todo \subseteq DOMAIN run.entries
Counted ==
  /\ run.op = "apply" /\ run.phase \in {"record", "write"} => run.count + 1 = run.next
  /\ run.op \in {"apply", "resume"} => run.next <= Len(run.entries) + 1
  /\ run.op = "apply" /\ run.phase \in {"commit", "audit"} =>
       run.count = Len(run.entries) /\ run.next = Len(run.entries) + 1
  /\ run.phase = "undo" => run.next <= run.count /\ run.count <= Len(run.entries)
  /\ run.phase = "restore" => run.next <= Len(run.entries)

(* In t, a target holds what it held before; if somebody changed it since, *)
(* it is gone or names the wikis it named.                                 *)
AsBefore(t, e, changed) ==
  \/ t[e.path] = e.old
  \/ /\ e.path \in changed
     /\ \/ t[e.path] = Absent
        \/ e.old # Absent /\ t[e.path] \cap WikiMarks = e.old \cap WikiMarks

Unwritten ==
  run.op = "apply" /\ run.phase \in {"record", "write", "undo"} =>
    \A i \in DOMAIN run.entries :
      i > run.count => \/ AsBefore(tree, run.entries[i], edited)
                       \/ run.entries[i].path \in torn
Restored ==
  run.phase = "restore" =>
    \A i \in DOMAIN run.entries :
      i > run.next => AsBefore(tree, run.entries[i], edited)

(* A record that says applied was committed with the event in its log, and *)
(* once a recovery has begun to take it back it is not settled.            *)
Committed ==
  /\ \A id \in Recorded : manifest[id].state = "applied" => Event \in manifest[id].entries[3].new
  /\ run.phase = "commit" =>
       tree[Log(run.id.wiki)] = Absent \/ Event \in run.entries[3].new
  /\ run.op = "apply" /\ run.phase \in {"write", "commit"} => manifest[run.id].state = "pending"
  /\ run.phase \in {"undo", "restore"} /\ run.next < Len(run.entries) => ~ Settled(run.id)

OneEach ==
  /\ \A id, other \in Standing : id.wiki = other.wiki => id = other
  /\ \A id \in Recorded : Settled(id) => id.wiki \in dirs

OwnWhole ==
  \A id \in Recorded : Settled(id) =>
    LET w == id.wiki IN
    /\ Card(w) \in edited \/ tree[Card(w)] = {Generated}
    /\ Log(w) \in edited \/ (tree[Log(w)] # Absent /\ {Generated, Event} \subseteq tree[Log(w)])

(* The registry answers for the wikis as long as nobody edited it, or as   *)
(* long as a generated router does and neither is torn.                    *)
RegistryTrusted == Registry \notin edited
RouterTrusted   == Router \notin edited /\ ~ Handwritten
Whole           == torn \cap Shared = {}
Trusted         == RegistryTrusted \/ (RouterTrusted /\ Whole)

Registered ==
  /\ RegistryTrusted => tree[Registry] # Absent
  /\ Trusted =>
      /\ \A id \in Recorded : Settled(id) /\ tree[Registry] # Absent =>
           Marked(id) \subseteq tree[Registry]
      /\ \A id, other \in Standing :
           id # other => ~ (Wiki(id.wiki) \in Prior(other) /\ Wiki(other.wiki) \in Prior(id))
      /\ \A id \in Recorded : Settled(id) /\ run # Idle /\ id # run.id =>
           Marked(id) \subseteq Prior(run.id)

Listed ==
  RouterTrusted /\ Trusted =>
    /\ \A id \in Recorded : Settled(id) =>
         tree[Router] # Absent /\ Marked(id) \subseteq tree[Router]
    /\ \A id, other \in Standing :
         id # other /\ Wiki(id.wiki) \in Prior(other) =>
           Marked(id) \subseteq Text(other.changes[4].old)
    /\ \A id \in Recorded : Settled(id) /\ run # Idle /\ id # run.id =>
         Marked(id) \subseteq Text(run.id.changes[4].old)

LiveMarks == {Wiki(w) : w \in {v \in Wikis : Live(v)}}

RegistryTraces ==
  Whole /\ (RegistryTrusted \/ RouterTrusted) =>
    /\ Text(tree[Registry]) \cap WikiMarks \subseteq LiveMarks
    /\ \A id \in Standing : Prior(id) \cap WikiMarks \subseteq LiveMarks

RouterTraces ==
  Whole /\ RouterTrusted =>
    /\ Text(tree[Router]) \cap WikiMarks \subseteq LiveMarks
    /\ \A id \in Standing : Text(id.changes[4].old) \cap WikiMarks \subseteq Prior(id)
    /\ (\A id \in Recorded : ~ Open(id)) /\ tree[Registry] # Absent =>
         Text(tree[Router]) \cap WikiMarks \subseteq tree[Registry]

OwnTraces ==
  \A w \in Wikis : ~ Live(w) =>
    /\ \A f \in Own(w) : tree[f] = Absent \/ f \in edited
    /\ w \in dirs => w \in authored \/ Own(w) \cap edited # {}

RunInv    == Counted /\ Unwritten /\ Restored /\ Committed
OwnInv    == OneEach /\ OwnWhole /\ OwnTraces
SharedInv == RouterKept /\ Registered /\ Listed /\ RegistryTraces /\ RouterTraces
WholeInv  == Targeted /\ RunInv /\ OwnInv /\ SharedInv

-----------------------------------------------------------------------------
(* Paths and marks                                                         *)

LEMMA OwnPaths ==
  ASSUME NEW w \in Wikis
  PROVE  /\ Card(w) \in Paths /\ Log(w) \in Paths /\ Own(w) = {Card(w), Log(w)}
         /\ Card(w) \notin Shared /\ Log(w) \notin Shared
         /\ Card(w) # Log(w)
<1>1. Own(w) = {Card(w), Log(w)}
  BY DEF Own
<1>2. Own(w) \cap Shared = {}
  BY ProvisionConstants
<1>3. Card(w) # Log(w)
  BY DEF Card, Log
<1>4. QED
  BY <1>1, <1>2, <1>3 DEF Paths

LEMMA SharedPaths ==
  Registry \in Paths /\ Router \in Paths /\ Registry # Router /\ Shared = {Registry, Router}
  BY ProvisionConstants DEF Paths, Shared

LEMMA OwnersDiffer ==
  ASSUME NEW v \in Wikis, NEW w \in Wikis
  PROVE  /\ Card(v) = Card(w) => v = w
         /\ Log(v) = Log(w) => v = w
         /\ Card(v) # Log(w)
  BY DEF Card, Log

LEMMA MarkFacts ==
  /\ {Generated} \in SUBSET Marks /\ {Event} \in SUBSET Marks /\ {Later} \in SUBSET Marks
  /\ {Header} \in SUBSET Marks /\ WikiMarks \in SUBSET Marks
  /\ \A w \in Wikis : Wiki(w) \in WikiMarks
  /\ \A f \in Paths : Edited(f) \in Marks /\ Edited(f) \notin WikiMarks
  /\ Generated \notin WikiMarks /\ Event \notin WikiMarks /\ Later \notin WikiMarks
  /\ Header \notin WikiMarks
  /\ Generated # Event /\ Generated # Later /\ Event # Later
<1>1. \A f \in Paths : Edited(f) \in Marks
  BY DEF Marks
<1>2. \A w \in Wikis, f \in Paths : Edited(f) # Wiki(w)
  BY DEF Edited, Wiki
<1>3. \A w \in Wikis : /\ Generated # Wiki(w) /\ Event # Wiki(w)
                       /\ Later # Wiki(w) /\ Header # Wiki(w)
  BY DEF Generated, Event, Later, Header, Wiki
<1>4. Generated # Event /\ Generated # Later /\ Event # Later
  BY DEF Generated, Event, Later
<1>5. QED
  BY <1>1, <1>2, <1>3, <1>4 DEF Marks, WikiMarks

LEMMA WikiMarksDiffer ==
  ASSUME NEW v \in Wikis, NEW w \in Wikis, Wiki(v) = Wiki(w) PROVE v = w
  BY DEF Wiki

(* A set of marks is the content of a file.                                *)
LEMMA MarksAreContent ==
  /\ SUBSET Marks \subseteq Content
  /\ \A c \in SUBSET Marks : c # Absent
  /\ \A c \in Content : c # Absent => c \in SUBSET Marks
  /\ Absent \in Content
  BY ProvisionConstants DEF Content

(* The entries of a run or a record, one by one.                           *)
LEMMA Parts ==
  ASSUME NEW id, NEW entries, WellPlanned(id), Fits(entries, id)
  PROVE  LET w == id.wiki IN
         /\ w \in Wikis /\ id \in PlanIds
         /\ entries \in Seq(Changes) /\ Len(entries) \in {3, 4} /\ DOMAIN entries = 1 .. Len(entries)
         /\ \A i \in DOMAIN entries :
              /\ entries[i].path \in Paths /\ entries[i].old \in Content
              /\ entries[i].new \in SUBSET Marks
         /\ entries[1].path = Registry /\ entries[1].old = Prior(id)
         /\ entries[1].new = Prior(id) \cup {Wiki(w)}
         /\ Prior(id) \in SUBSET Marks /\ Wiki(w) \notin Prior(id)
         /\ entries[2].path = Card(w) /\ entries[2].old = Absent /\ entries[2].new = {Generated}
         /\ entries[3].path = Log(w) /\ entries[3].old = Absent
         /\ Generated \in entries[3].new /\ entries[3].new \cap WikiMarks = {}
         /\ 4 \in DOMAIN entries =>
              /\ entries[4].path = Router
              /\ entries[4].old = id.changes[4].old
              /\ entries[4].old = Absent \/ Header \in entries[4].old
              /\ entries[4].new = {Header} \cup ((Prior(id) \cup {Wiki(w)}) \cap WikiMarks)
<1>1. /\ id \in PlanIds /\ id.wiki \in Wikis /\ id.changes \in Seq(Changes)
      /\ Len(id.changes) \in {3, 4}
  BY DEF WellPlanned, PlanIds
<1>2. /\ entries \in Seq(Changes) /\ Len(entries) = Len(id.changes)
      /\ DOMAIN entries = 1 .. Len(entries) /\ DOMAIN id.changes = 1 .. Len(entries)
  BY <1>1 DEF Fits
<1>3. 1 \in DOMAIN entries /\ 2 \in DOMAIN entries /\ 3 \in DOMAIN entries
  <2>1. Len(entries) = 3 \/ Len(entries) = 4
    BY <1>1, <1>2
  <2>2. 1 \in 1 .. Len(entries) /\ 2 \in 1 .. Len(entries) /\ 3 \in 1 .. Len(entries)
    BY <2>1
  <2>3. QED
    BY <1>2, <2>2
<1>4. \A i \in DOMAIN entries : entries[i] \in Changes
  BY <1>2
<1>5. \A i \in DOMAIN entries :
        /\ entries[i].path = id.changes[i].path
        /\ entries[i].old = id.changes[i].old
        /\ i # 3 => entries[i].new = id.changes[i].new
  BY DEF Fits
<1>6. QED
  BY <1>1, <1>2, <1>3, <1>4, <1>5 DEF Fits, WellPlanned, Prior, Changes

LEMMA TargetsDiffer ==
  ASSUME NEW id, NEW entries, WellPlanned(id), Fits(entries, id),
         NEW i \in DOMAIN entries, NEW j \in DOMAIN entries, entries[i].path = entries[j].path
  PROVE  i = j
<1> DEFINE w == id.wiki
<1>1. /\ w \in Wikis /\ i \in {1, 2, 3, 4} /\ j \in {1, 2, 3, 4}
      /\ entries[1].path = Registry /\ entries[2].path = Card(w) /\ entries[3].path = Log(w)
      /\ 4 \in DOMAIN entries => entries[4].path = Router
  BY Parts
<1>2. /\ Registry # Router /\ Card(w) # Log(w) /\ Registry # Card(w) /\ Registry # Log(w)
      /\ Router # Card(w) /\ Router # Log(w)
  BY <1>1, OwnPaths, SharedPaths
<1>3. QED
  BY <1>1, <1>2

LEMMA IdleFacts ==
  /\ Idle \in Runs /\ Idle.phase = "idle" /\ Idle.op = "none" /\ Idle.entries = <<>>
  /\ DOMAIN Idle.entries = {} /\ Idle.raced = {} /\ Idle.next = 0 /\ Idle.count = 0
<1>1. NoPlan \in PlanIds \cup {NoPlan}
  OBVIOUS
<1>2. Idle \in Runs
  BY <1>1 DEF Idle, Runs
<1>3. QED
  BY <1>2 DEF Idle

LEMMA RunFields ==
  ASSUME TypeOK
  PROVE  /\ run \in Runs
         /\ run.op \in {"none", "apply", "resume", "rollback"}
         /\ run.phase \in {"idle", "record", "write", "commit", "audit", "undo", "restore"}
         /\ run.entries \in Seq(Changes) /\ run.todo \in SUBSET Nat
         /\ run.next \in Nat /\ run.count \in Nat /\ run.raced \in SUBSET Paths
         /\ tree \in [Paths -> Content] /\ dirs \subseteq Wikis
  BY DEF TypeOK, Runs

LEMMA Busy ==
  ASSUME BaseInv, run.phase # "idle"
  PROVE  run # Idle /\ run.op # "none" /\ WellPlanned(run.id) /\ Fits(run.entries, run.id)
  BY IdleFacts DEF BaseInv, RunFits

-----------------------------------------------------------------------------
(* Writing a file                                                          *)

LEMMA PutFacts ==
  ASSUME TypeOK, NEW path \in Paths, NEW content \in Content, Put(path, content)
  PROVE  /\ tree' \in [Paths -> Content] /\ dirs' \subseteq Wikis
         /\ tree'[path] = content
         /\ \A f \in Paths : f # path => tree'[f] = tree[f]
         /\ dirs \subseteq dirs'
         /\ \A w \in Wikis : path \in Own(w) /\ content # Absent => w \in dirs'
         /\ \A w \in dirs' : w \in dirs \/ (path \in Own(w) /\ content # Absent)
  BY DEF Put, TypeOK

(* The files of the wikis stay what they were generated as when one of     *)
(* them is given bytes of its entry.                                       *)
LEMMA OwnFilesKept ==
  ASSUME TypeOK, OwnFiles, NEW path \in Paths, NEW content \in Content, Put(path, content),
         \A w \in Wikis : path = Card(w) /\ content # Absent => content \cap WikiMarks = {},
         \A w \in Wikis : path = Log(w) /\ content # Absent =>
                            Generated \in content /\ content \cap WikiMarks = {}
  PROVE  OwnFiles'
<1> SUFFICES ASSUME NEW w \in Wikis
             PROVE  /\ w \notin dirs' => \A f \in Own(w) : tree'[f] = Absent
                    /\ tree'[Card(w)] # Absent => tree'[Card(w)] \cap WikiMarks = {}
                    /\ tree'[Log(w)] # Absent => /\ Generated \in tree'[Log(w)]
                                                 /\ tree'[Log(w)] \cap WikiMarks = {}
  BY DEF OwnFiles
<1>1. /\ w \notin dirs => \A f \in Own(w) : tree[f] = Absent
      /\ tree[Card(w)] # Absent => tree[Card(w)] \cap WikiMarks = {}
      /\ tree[Log(w)] # Absent => Generated \in tree[Log(w)] /\ tree[Log(w)] \cap WikiMarks = {}
  BY DEF OwnFiles
<1>2. /\ tree'[path] = content /\ \A f \in Paths : f # path => tree'[f] = tree[f]
      /\ dirs \subseteq dirs' /\ (path \in Own(w) /\ content # Absent => w \in dirs')
  BY PutFacts
<1>3. Card(w) \in Paths /\ Log(w) \in Paths /\ Own(w) = {Card(w), Log(w)}
  BY OwnPaths
<1>4. w \notin dirs' => \A f \in Own(w) : tree'[f] = Absent
  BY <1>1, <1>2, <1>3
<1>5. tree'[Card(w)] # Absent => tree'[Card(w)] \cap WikiMarks = {}
  BY <1>1, <1>2, <1>3
<1>6. tree'[Log(w)] # Absent => Generated \in tree'[Log(w)] /\ tree'[Log(w)] \cap WikiMarks = {}
  BY <1>1, <1>2, <1>3
<1>7. QED
  BY <1>4, <1>5, <1>6

(* A target of a run is given the bytes from before or those of the plan.  *)
LEMMA TargetWritten ==
  ASSUME BaseInv, run.phase # "idle", NEW i \in DOMAIN run.entries,
         NEW content \in {run.entries[i].old, run.entries[i].new},
         Put(run.entries[i].path, content)
  PROVE  /\ run.entries[i].path \in Paths /\ content \in Content
         /\ tree' \in [Paths -> Content] /\ dirs' \subseteq Wikis /\ dirs \subseteq dirs'
         /\ tree'[run.entries[i].path] = content
         /\ \A f \in Paths : f # run.entries[i].path => tree'[f] = tree[f]
         /\ \A j \in DOMAIN run.entries :
              j # i => tree'[run.entries[j].path] = tree[run.entries[j].path]
         /\ OwnFiles'
<1> DEFINE e == run.entries[i]
           w == run.id.wiki
<1>1. WellPlanned(run.id) /\ Fits(run.entries, run.id)
  BY Busy
<1>2. /\ e.path \in Paths /\ e.old \in Content /\ e.new \in SUBSET Marks
      /\ \A j \in DOMAIN run.entries : run.entries[j].path \in Paths
      /\ i \in {1, 2, 3, 4} /\ w \in Wikis
  BY <1>1, Parts
<1>3. content \in Content /\ TypeOK /\ OwnFiles
  BY <1>2, MarksAreContent DEF BaseInv
<1>4. /\ tree' \in [Paths -> Content] /\ dirs' \subseteq Wikis /\ dirs \subseteq dirs'
      /\ tree'[e.path] = content /\ \A f \in Paths : f # e.path => tree'[f] = tree[f]
  BY <1>2, <1>3, PutFacts
<1>5. \A j \in DOMAIN run.entries : j # i => run.entries[j].path # e.path
  BY <1>1, TargetsDiffer
<1>6. /\ run.entries[1].path = Registry /\ run.entries[2].path = Card(w)
      /\ run.entries[3].path = Log(w)
      /\ 4 \in DOMAIN run.entries => run.entries[4].path = Router
      /\ run.entries[2].old = Absent /\ run.entries[2].new = {Generated}
      /\ run.entries[3].old = Absent /\ Generated \in run.entries[3].new
      /\ run.entries[3].new \cap WikiMarks = {}
  BY <1>1, Parts
<1>7. \A v \in Wikis : Card(v) \notin {Registry, Router} /\ Log(v) \notin {Registry, Router}
  BY OwnPaths, SharedPaths
<1>8. ASSUME NEW v \in Wikis, e.path = Card(v), content # Absent
      PROVE  content \cap WikiMarks = {}
  <2>1. i = 2
    BY <1>2, <1>6, <1>7, <1>8, OwnersDiffer
  <2>2. content = {Generated}
    BY <1>6, <1>8, <2>1
  <2>3. QED
    BY <2>2, MarkFacts
<1>9. ASSUME NEW v \in Wikis, e.path = Log(v), content # Absent
      PROVE  Generated \in content /\ content \cap WikiMarks = {}
  <2>1. i = 3
    BY <1>2, <1>6, <1>7, <1>9, OwnersDiffer
  <2>2. content = run.entries[3].new
    BY <1>6, <1>9, <2>1
  <2>3. QED
    BY <1>6, <2>2
<1>10. OwnFiles'
  BY <1>2, <1>3, <1>8, <1>9, OwnFilesKept
<1>11. QED
  BY <1>2, <1>3, <1>4, <1>5, <1>10

(* Only files of the plan and the memory of the run move.                  *)
LEMMA FileStep ==
  ASSUME BaseInv, run.phase # "idle", NEW i \in DOMAIN run.entries,
         NEW content \in {run.entries[i].old, run.entries[i].new},
         Put(run.entries[i].path, content),
         NEW new \in Runs, run' = new, new.phase # "idle",
         new.id = run.id, new.entries = run.entries, new.raced = run.raced, new.op = run.op,
         new.phase = "audit" \/ new.phase = run.phase \/ (run.op = "apply" /\ new.phase = "undo"),
         (new.op \in {"apply", "resume"} /\ new.phase # "undo") => new.next >= 1,
         UNCHANGED <<authored, manifest, reviewed, edited>>,
         run.phase # "record",
         faults' \in 0 .. MaxFaults, torn' \subseteq Paths, unsettled' \subseteq Recorded
  PROVE  BaseInv'
<1>1. /\ run.entries[i].path \in Paths
      /\ tree' \in [Paths -> Content] /\ dirs' \subseteq Wikis /\ dirs \subseteq dirs'
      /\ tree'[run.entries[i].path] = content
      /\ \A j \in DOMAIN run.entries :
           j # i => tree'[run.entries[j].path] = tree[run.entries[j].path]
      /\ OwnFiles'
  BY TargetWritten
<1>2. TypeOK'
  BY <1>1 DEF BaseInv, TypeOK, Recorded
<1>3. RecordsFit'
  BY DEF BaseInv, RecordsFit, Recorded
<1>4. RunFits'
  <2>1. run # Idle /\ run.op # "none" /\ WellPlanned(run.id) /\ Fits(run.entries, run.id)
    BY Busy
  <2>2. new # Idle
    BY IdleFacts
  <2>3. run.id \in Recorded'
    BY RunFields DEF BaseInv, RunFits, Recorded
  <2>4. QED
    BY <2>1, <2>2, <2>3, RunFields DEF BaseInv, RunFits
<1>5. ReadsExplain'
  <2>1. ASSUME NEW j \in DOMAIN run.entries
        PROVE  (Done(run.entries[j]) \/ Incomplete(run.entries[j])
                  \/ run.entries[j].path \in run.raced)'
    <3>1. CASE j = i
      BY <1>1, <3>1 DEF Done, Incomplete
    <3>2. CASE j # i
      <4>1. tree'[run.entries[j].path] = tree[run.entries[j].path]
        BY <1>1, <3>2
      <4>2. \/ Done(run.entries[j]) \/ Incomplete(run.entries[j])
            \/ run.entries[j].path \in run.raced
        BY DEF BaseInv, ReadsExplain
      <4>3. QED
        BY <4>1, <4>2 DEF Done, Incomplete, Grown
    <3>3. QED
      BY <3>1, <3>2
  <2>2. QED
    BY <2>1 DEF BaseInv, ReadsExplain
<1>6. QED
  BY <1>1, <1>2, <1>3, <1>4, <1>5 DEF BaseInv

(* The files stay; a directory may come, or go with nothing left in it.    *)
LEMMA QuietStep ==
  ASSUME BaseInv, UNCHANGED tree, dirs' \subseteq Wikis, authored' \subseteq dirs',
         \A w \in Wikis : w \in dirs /\ w \notin dirs' => Empty(w),
         NEW new \in Runs, run' = new,
         new = Idle \/ (/\ new # Idle /\ new.phase # "idle" /\ new.raced \subseteq edited'
                        /\ \A i \in DOMAIN new.entries :
                             \/ Done(new.entries[i]) \/ Incomplete(new.entries[i])
                             \/ new.entries[i].path \in new.raced),
         new # Idle => new.op # "none" /\ WellPlanned(new.id) /\ Fits(new.entries, new.id),
         new.phase \in {"write", "commit", "undo", "restore", "audit"} => new.id \in Recorded',
         new.op = "apply" => new.phase \in {"record", "write", "commit", "audit", "undo"},
         new.op = "resume" => new.phase \in {"write", "commit", "audit"},
         new.op = "rollback" => new.phase \in {"restore", "audit"},
         (new.op \in {"apply", "resume"} /\ new.phase # "undo") => new.next >= 1,
         \A id \in Recorded' : WellPlanned(id) /\ Fits(manifest'[id].entries, id)
                               /\ manifest'[id] \in [state : States, entries : Seq(Changes)],
         reviewed' \in [Wikis -> PlanIds \cup {NoPlan}],
         faults' \in 0 .. MaxFaults, edited' \subseteq Paths, torn' \subseteq Paths,
         unsettled' \subseteq Recorded'
  PROVE  BaseInv'
<1>1. TypeOK'
  <2>1. \A id \in Recorded' : id \in PlanIds
    BY DEF WellPlanned
  <2>2. QED
    BY <2>1 DEF BaseInv, TypeOK
<1>2. RecordsFit'
  BY DEF RecordsFit
<1>3. RunFits'
  BY IdleFacts DEF RunFits
<1>4. OwnFiles'
  <2>1. ASSUME NEW w \in Wikis, w \notin dirs' PROVE \A f \in Own(w) : tree[f] = Absent
    BY <2>1 DEF BaseInv, OwnFiles, Empty
  <2>2. QED
    BY <2>1 DEF BaseInv, OwnFiles
<1>5. ReadsExplain'
  <2>1. CASE new = Idle
    <3>1. DOMAIN run'.entries = {} /\ run'.raced = {}
      BY <2>1, IdleFacts
    <3>2. QED
      BY <3>1 DEF ReadsExplain
  <2>2. CASE new # Idle
    BY <2>2 DEF ReadsExplain, Done, Incomplete, Grown
  <2>3. QED
    BY <2>1, <2>2
<1>6. QED
  BY <1>1, <1>2, <1>3, <1>4, <1>5 DEF BaseInv

(* The same when the records and what everybody else sees stay as well.    *)
LEMMA MemoryStep ==
  ASSUME BaseInv, NEW new \in Runs, run' = new,
         new = Idle \/ (/\ new # Idle /\ new.phase # "idle" /\ new.raced \subseteq edited
                        /\ \A i \in DOMAIN new.entries :
                             \/ Done(new.entries[i]) \/ Incomplete(new.entries[i])
                             \/ new.entries[i].path \in new.raced),
         new # Idle => new.op # "none" /\ WellPlanned(new.id) /\ Fits(new.entries, new.id),
         new.phase \in {"write", "commit", "undo", "restore", "audit"} => new.id \in Recorded,
         new.op = "apply" => new.phase \in {"record", "write", "commit", "audit", "undo"},
         new.op = "resume" => new.phase \in {"write", "commit", "audit"},
         new.op = "rollback" => new.phase \in {"restore", "audit"},
         (new.op \in {"apply", "resume"} /\ new.phase # "undo") => new.next >= 1,
         UNCHANGED <<tree, dirs, authored, manifest, edited>>,
         reviewed' \in [Wikis -> PlanIds \cup {NoPlan}],
         faults' \in 0 .. MaxFaults, torn' \subseteq Paths, unsettled' \subseteq Recorded
  PROVE  BaseInv'
<1>1. \A id \in Recorded' : WellPlanned(id) /\ Fits(manifest'[id].entries, id)
                            /\ manifest'[id] \in [state : States, entries : Seq(Changes)]
  BY DEF BaseInv, RecordsFit, TypeOK, Recorded
<1>2. /\ dirs' \subseteq Wikis /\ authored' \subseteq dirs' /\ edited' \subseteq Paths
      /\ Recorded' = Recorded
  BY DEF BaseInv, TypeOK, Recorded
<1>3. QED
  BY <1>1, <1>2, QuietStep

-----------------------------------------------------------------------------
(* Planning                                                                *)

LEMMA OneMore ==
  ASSUME NEW S, NEW s \in Seq(S), NEW u \in Seq(S), NEW four \in Seq(S),
         Len(s) = 3, Len(u) = 1, Len(four) = 4,
         four[1] = s[1], four[2] = s[2], four[3] = s[3], four[4] = u[1]
  PROVE  s \o u = four
<1>1. Len(s) + Len(u) = 4
  OBVIOUS
<1>2. s \o u \in Seq(S) /\ Len(s \o u) = Len(s) + Len(u)
  BY ConcatProperties
<1>3. \A i \in 1 .. Len(s) + Len(u) : (s \o u)[i] = IF i <= Len(s) THEN s[i] ELSE u[i - Len(s)]
  BY ConcatProperties
<1>4. ASSUME NEW i \in 1 .. 4 PROVE (s \o u)[i] = four[i]
  <2>1. (s \o u)[i] = IF i <= 3 THEN s[i] ELSE u[i - 3]
    BY <1>1, <1>3
  <2>2. CASE i = 4
    <3>1. (s \o u)[i] = u[1]
      BY <2>1, <2>2
    <3>2. QED
      BY <2>2, <3>1
  <2>3. CASE i # 4
    <3>1. i \in {1, 2, 3}
      BY <2>3
    <3>2. (s \o u)[i] = s[i]
      BY <2>1, <3>1
    <3>3. QED
      BY <3>1, <3>2
  <2>4. QED
    BY <2>2, <2>3
<1>5. \A i \in 1 .. Len(s \o u) : (s \o u)[i] = four[i]
  BY <1>1, <1>2, <1>4
<1>6. Len(s \o u) = Len(four)
  BY <1>1, <1>2
<1>7. QED
  BY <1>2, <1>5, <1>6, SeqEqual

LEMMA ThreeAndMore ==
  ASSUME NEW S, NEW x \in S, NEW y \in S, NEW z \in S, NEW r \in S
  PROVE  /\ <<x, y, z>> \o <<>> = <<x, y, z>>
         /\ <<x, y, z>> \o <<r>> = <<x, y, z, r>>
<1>1. <<x, y, z>> \o <<>> = <<x, y, z>>
  OBVIOUS
<1>2. /\ <<x, y, z>> \in Seq(S) /\ <<r>> \in Seq(S) /\ <<x, y, z, r>> \in Seq(S)
      /\ Len(<<x, y, z>>) = 3 /\ Len(<<r>>) = 1 /\ Len(<<x, y, z, r>>) = 4
      /\ <<x, y, z, r>>[1] = <<x, y, z>>[1] /\ <<x, y, z, r>>[2] = <<x, y, z>>[2]
      /\ <<x, y, z, r>>[3] = <<x, y, z>>[3] /\ <<x, y, z, r>>[4] = <<r>>[1]
  OBVIOUS
<1>3. QED
  BY <1>1, <1>2, OneMore

LEMMA ThreeOrFour ==
  ASSUME NEW S, NEW x \in S, NEW y \in S, NEW z \in S, NEW r \in S, NEW c,
         c = <<x, y, z>> \/ c = <<x, y, z, r>>
  PROVE  /\ c \in Seq(S) /\ Len(c) \in {3, 4} /\ DOMAIN c = 1 .. Len(c)
         /\ c[1] = x /\ c[2] = y /\ c[3] = z
         /\ 4 \in DOMAIN c => c[4] = r /\ c = <<x, y, z, r>>
<1>1. CASE c = <<x, y, z>>
  BY <1>1
<1>2. CASE c = <<x, y, z, r>>
  BY <1>2
<1>3. QED
  BY <1>1, <1>2

LEMMA PlanIsWell ==
  ASSUME BaseInv, NEW w \in Wikis, Plannable(w)
  PROVE  /\ WellPlanned(PlanId(w)) /\ Fits(PlanChanges(w), PlanId(w))
         /\ PlanId(w) \in PlanIds /\ PlanId(w).wiki = w /\ PlanId(w).changes = PlanChanges(w)
         /\ \A i \in DOMAIN PlanChanges(w) :
              PlanChanges(w)[i].old = tree[PlanChanges(w)[i].path]
         /\ 4 \in DOMAIN PlanChanges(w) <=> tree[Router] = Absent \/ Header \in tree[Router]
<1> DEFINE registered == tree[Registry] \cup {Wiki(w)}
           c == PlanChanges(w)
           one == Change(Registry, tree[Registry], registered)
           two == Change(Card(w), Absent, {Generated})
           three == Change(Log(w), Absent, {Generated})
           four == Change(Router, tree[Router], {Header} \cup (registered \cap WikiMarks))
<1>1. /\ tree \in [Paths -> Content] /\ tree[Registry] \in SUBSET Marks /\ tree[Router] \in Content
      /\ Wiki(w) \notin tree[Registry]
  BY SharedPaths, MarksAreContent DEF BaseInv, TypeOK, Plannable
<1>2. tree[Card(w)] = Absent /\ tree[Log(w)] = Absent
  BY OwnPaths DEF BaseInv, OwnFiles, Plannable
<1>3. /\ one \in Changes /\ two \in Changes /\ three \in Changes /\ four \in Changes
  BY <1>1, OwnPaths, SharedPaths, MarkFacts, MarksAreContent DEF Change, Changes
<1>4. \/ /\ tree[Router] # Absent /\ Header \notin tree[Router]
         /\ c = <<one, two, three>>
      \/ /\ tree[Router] = Absent \/ Header \in tree[Router]
         /\ c = <<one, two, three, four>>
  <2>1. c = <<one, two, three>> \o RouterChange(registered)
    BY DEF PlanChanges
  <2>2. CASE tree[Router] # Absent /\ Header \notin tree[Router]
    <3>1. RouterChange(registered) = <<>>
      BY <2>2 DEF RouterChange
    <3> HIDE DEF c, one, two, three, four
    <3>2. c = <<one, two, three>>
      BY <2>1, <3>1, <1>3, ThreeAndMore
    <3>3. QED
      BY <2>2, <3>2
  <2>3. CASE ~ (tree[Router] # Absent /\ Header \notin tree[Router])
    <3>1. RouterChange(registered) = <<four>>
      BY <2>3 DEF RouterChange
    <3> HIDE DEF c, one, two, three, four
    <3>2. c = <<one, two, three, four>>
      BY <2>1, <3>1, <1>3, ThreeAndMore
    <3>3. QED
      BY <2>3, <3>2
  <2>4. QED
    BY <2>2, <2>3
<1>5. /\ one.path = Registry /\ one.old = tree[Registry] /\ one.new = registered
      /\ two.path = Card(w) /\ two.old = Absent /\ two.new = {Generated}
      /\ three.path = Log(w) /\ three.old = Absent /\ three.new = {Generated}
      /\ four.path = Router /\ four.old = tree[Router]
      /\ four.new = {Header} \cup (registered \cap WikiMarks)
  BY DEF Change
<1> HIDE DEF c, one, two, three, four
<1>6. /\ c \in Seq(Changes) /\ Len(c) \in {3, 4} /\ DOMAIN c = 1 .. Len(c)
      /\ c[1] = one /\ c[2] = two /\ c[3] = three
      /\ 4 \in DOMAIN c => c[4] = four
      /\ 4 \in DOMAIN c <=> tree[Router] = Absent \/ Header \in tree[Router]
  <2>1. /\ c \in Seq(Changes) /\ Len(c) \in {3, 4} /\ DOMAIN c = 1 .. Len(c)
        /\ c[1] = one /\ c[2] = two /\ c[3] = three
        /\ 4 \in DOMAIN c => c[4] = four
    BY <1>3, <1>4, ThreeOrFour
  <2>2. /\ c = <<one, two, three>> => 4 \notin DOMAIN c
        /\ c = <<one, two, three, four>> => 4 \in DOMAIN c
    OBVIOUS
  <2>3. QED
    BY <1>4, <2>1, <2>2
<1>7. PlanId(w).wiki = w /\ PlanId(w).changes = c /\ PlanId(w) \in PlanIds
  BY <1>6 DEF PlanId, PlanIds, c
<1>8. WellPlanned(PlanId(w))
  BY <1>1, <1>5, <1>6, <1>7 DEF WellPlanned
<1>9. Fits(c, PlanId(w))
  BY <1>5, <1>6, <1>7, MarkFacts DEF Fits
<1>10. ASSUME NEW i \in DOMAIN c PROVE c[i].old = tree[c[i].path]
  <2>1. i = 1 \/ i = 2 \/ i = 3 \/ i = 4
    BY <1>6
  <2>2. QED
    BY <1>2, <1>5, <1>6, <2>1
<1>11. QED
  BY <1>6, <1>7, <1>8, <1>9, <1>10 DEF c

-----------------------------------------------------------------------------
(* Every step preserves the invariant of the runs                          *)

LEMMA InitBase == Init => BaseInv
<1> SUFFICES ASSUME Init PROVE BaseInv
  OBVIOUS
<1>1. /\ tree \in [Paths -> Content] /\ tree[Registry] = {} /\ tree[Router] \in {Absent, {}}
      /\ \A f \in Paths : f # Registry /\ f # Router => tree[f] = Absent
  BY SharedPaths, MarksAreContent DEF Init
<1>2. Recorded = {} /\ run = Idle /\ dirs = {} /\ authored = {}
  BY DEF Init, Recorded
<1>3. TypeOK
  BY <1>1, <1>2, IdleFacts, ProvisionConstants DEF Init, TypeOK
<1>4. RecordsFit /\ RunFits /\ ReadsExplain
  BY <1>2, IdleFacts DEF RecordsFit, RunFits, ReadsExplain
<1>5. OwnFiles
  <2>1. \A w \in Wikis : tree[Card(w)] = Absent /\ tree[Log(w)] = Absent
    BY <1>1, OwnPaths DEF Shared
  <2>2. QED
    BY <2>1, OwnPaths DEF OwnFiles
<1>6. QED
  BY <1>3, <1>4, <1>5 DEF BaseInv

LEMMA DryRunBase ==
  ASSUME BaseInv, NEW w \in Wikis, DryRun(w) PROVE BaseInv'
<1>1. PlanId(w) \in PlanIds
  BY PlanIsWell DEF DryRun
<1>2. reviewed' \in [Wikis -> PlanIds \cup {NoPlan}]
  BY <1>1 DEF DryRun, BaseInv, TypeOK
<1>3. run' = Idle /\ Idle \in Runs /\ Idle.phase = "idle" /\ Idle.op = "none"
  BY IdleFacts DEF DryRun
<1>4. /\ UNCHANGED <<tree, dirs, authored, manifest, edited>>
      /\ faults' \in 0 .. MaxFaults /\ torn' \subseteq Paths /\ unsettled' \subseteq Recorded
  BY DEF DryRun, BaseInv, TypeOK, files
<1>5. QED
  BY <1>2, <1>3, <1>4, MemoryStep

LEMMA BeginApplyBase ==
  ASSUME BaseInv, NEW w \in Wikis, BeginApply(w) PROVE BaseInv'
<1> DEFINE entries == PlanChanges(w)
           new == [Idle EXCEPT !.op = "apply", !.phase = "record", !.id = reviewed[w],
                               !.entries = entries, !.todo = DOMAIN entries, !.next = 1]
<1>1. /\ WellPlanned(reviewed[w]) /\ Fits(entries, reviewed[w]) /\ reviewed[w] \in PlanIds
      /\ \A i \in DOMAIN entries : entries[i].old = tree[entries[i].path]
  BY PlanIsWell DEF BeginApply
<1>2. entries \in Seq(Changes) /\ DOMAIN entries \subseteq Nat
  BY <1>1 DEF Fits
<1>3. run' = new
  BY DEF BeginApply
<1> HIDE DEF entries
<1>4. /\ new \in Runs /\ new.phase = "record" /\ new.op = "apply" /\ new.id = reviewed[w]
      /\ new.entries = entries /\ new.next = 1 /\ new.raced = {}
  BY <1>1, <1>2, IdleFacts DEF Idle, Runs
<1> HIDE DEF new
<1>5. new # Idle
  BY <1>4, IdleFacts
<1>6. \A i \in DOMAIN new.entries : Incomplete(new.entries[i])
  BY <1>1, <1>4 DEF Incomplete
<1>7. /\ UNCHANGED <<tree, dirs, authored, manifest, edited>>
      /\ reviewed' \in [Wikis -> PlanIds \cup {NoPlan}]
      /\ faults' \in 0 .. MaxFaults /\ torn' \subseteq Paths /\ unsettled' \subseteq Recorded
  BY DEF BeginApply, BaseInv, TypeOK, files
<1>8. QED
  BY <1>1, <1>3, <1>4, <1>5, <1>6, <1>7, MemoryStep

LEMMA AuthorBase ==
  ASSUME BaseInv, NEW w \in Wikis, Author(w) PROVE BaseInv'
<1>1. TypeOK'
  BY DEF BaseInv, TypeOK, Author, files, Recorded
<1>2. RecordsFit' /\ RunFits' /\ OwnFiles' /\ ReadsExplain'
  BY DEF BaseInv, RecordsFit, RunFits, OwnFiles, ReadsExplain, Done, Incomplete, Grown,
         Author, files, Recorded
<1>3. QED
  BY <1>1, <1>2 DEF BaseInv

(* A file that exists and that no run looks at is given more marks.        *)
LEMMA AppendLaterBase ==
  ASSUME BaseInv, NEW w \in Wikis, AppendLater(w) PROVE BaseInv'
<1>1. /\ Log(w) \in Paths /\ tree \in [Paths -> Content] /\ tree[Log(w)] \in SUBSET Marks
      /\ tree[Log(w)] # Absent
  BY OwnPaths, MarksAreContent DEF BaseInv, TypeOK, AppendLater
<1>2. tree[Log(w)] \cup {Later} \in SUBSET Marks /\ tree[Log(w)] \cup {Later} \in Content
  BY <1>1, MarkFacts, MarksAreContent
<1>3. /\ tree' \in [Paths -> Content] /\ tree'[Log(w)] = tree[Log(w)] \cup {Later}
      /\ \A f \in Paths : f # Log(w) => tree'[f] = tree[f]
  BY <1>1, <1>2 DEF AppendLater
<1>4. TypeOK'
  BY <1>3 DEF BaseInv, TypeOK, AppendLater, Recorded
<1>5. RecordsFit' /\ RunFits'
  BY DEF BaseInv, RecordsFit, RunFits, AppendLater, Recorded
<1>6. ReadsExplain'
  BY IdleFacts DEF ReadsExplain, AppendLater
<1>7. OwnFiles'
  <2> SUFFICES ASSUME NEW v \in Wikis
               PROVE  /\ v \notin dirs => \A f \in Own(v) : tree'[f] = Absent
                      /\ tree'[Card(v)] # Absent => tree'[Card(v)] \cap WikiMarks = {}
                      /\ tree'[Log(v)] # Absent => /\ Generated \in tree'[Log(v)]
                                                   /\ tree'[Log(v)] \cap WikiMarks = {}
    BY DEF OwnFiles, AppendLater
  <2>1. /\ v \notin dirs => \A f \in Own(v) : tree[f] = Absent
        /\ tree[Card(v)] # Absent => tree[Card(v)] \cap WikiMarks = {}
        /\ tree[Log(v)] # Absent => Generated \in tree[Log(v)] /\ tree[Log(v)] \cap WikiMarks = {}
    BY DEF BaseInv, OwnFiles
  <2>2. /\ Own(v) = {Card(v), Log(v)} /\ Card(v) \in Paths /\ Log(v) \in Paths
        /\ Card(v) # Log(w) /\ Log(v) # Card(w) /\ (Log(v) = Log(w) => v = w)
    BY OwnPaths, OwnersDiffer
  <2>3. tree'[Card(v)] = tree[Card(v)]
    BY <1>3, <2>2
  <2>4. CASE v = w
    <3>1. tree'[Log(v)] = tree[Log(v)] \cup {Later} /\ tree[Log(v)] # Absent
      BY <1>1, <1>3, <2>4
    <3>2. v \in dirs
      BY <2>1, <2>2, <3>1
    <3>3. QED
      BY <2>1, <2>3, <3>1, <3>2, MarkFacts
  <2>5. CASE v # w
    <3>1. tree'[Log(v)] = tree[Log(v)]
      BY <1>3, <2>2, <2>5
    <3>2. QED
      BY <2>1, <2>2, <2>3, <3>1
  <2>6. QED
    BY <2>4, <2>5
<1>8. QED
  BY <1>4, <1>5, <1>6, <1>7 DEF BaseInv

LEMMA RecordFields ==
  ASSUME BaseInv, NEW id \in Recorded
  PROVE  /\ WellPlanned(id) /\ Fits(manifest[id].entries, id) /\ id \in PlanIds
         /\ manifest[id].entries \in Seq(Changes) /\ manifest[id].state \in States
         /\ DOMAIN manifest[id].entries \subseteq Nat /\ Len(manifest[id].entries) \in Nat
  BY DEF BaseInv, RecordsFit, TypeOK

LEMMA BeginResumeBase ==
  ASSUME BaseInv, NEW id \in Recorded, BeginResume(id) PROVE BaseInv'
<1> DEFINE entries == manifest[id].entries
           todo == {i \in DOMAIN entries : ~ Done(entries[i])}
           new == [Idle EXCEPT !.op = "resume", !.phase = "write", !.id = id,
                               !.entries = entries, !.todo = todo, !.next = 1]
<1>1. run' = new
  BY DEF BeginResume
<1>2. todo \in SUBSET Nat
  BY RecordFields
<1>3. \A i \in DOMAIN entries : Done(entries[i]) \/ Incomplete(entries[i])
  BY DEF BeginResume, NoForeign, Foreign
<1> HIDE DEF entries, todo
<1>4. entries \in Seq(Changes) /\ id \in PlanIds /\ WellPlanned(id) /\ Fits(entries, id)
  BY RecordFields DEF entries
<1>5. /\ new \in Runs /\ new.phase = "write" /\ new.op = "resume" /\ new.id = id
      /\ new.entries = entries /\ new.next = 1 /\ new.raced = {}
  BY <1>2, <1>4, IdleFacts DEF Idle, Runs
<1> HIDE DEF new
<1>6. new # Idle
  BY <1>5, IdleFacts
<1>7. /\ UNCHANGED <<tree, dirs, authored, manifest, edited>>
      /\ reviewed' \in [Wikis -> PlanIds \cup {NoPlan}]
      /\ faults' \in 0 .. MaxFaults /\ torn' \subseteq Paths /\ unsettled' \subseteq Recorded
  BY DEF BeginResume, BaseInv, TypeOK, files
<1>8. QED
  BY <1>1, <1>3, <1>4, <1>5, <1>6, <1>7, MemoryStep

LEMMA BeginRollbackBase ==
  ASSUME BaseInv, NEW id \in Recorded, BeginRollback(id) PROVE BaseInv'
<1> DEFINE entries == manifest[id].entries
           new == [Idle EXCEPT !.op = "rollback", !.phase = "restore", !.id = id,
                               !.entries = entries, !.next = Len(entries)]
<1>1. run' = new
  BY DEF BeginRollback
<1>2. \A i \in DOMAIN entries : Done(entries[i]) \/ Incomplete(entries[i])
  BY DEF BeginRollback, NoForeign, Foreign
<1> HIDE DEF entries
<1>3. /\ entries \in Seq(Changes) /\ id \in PlanIds /\ WellPlanned(id) /\ Fits(entries, id)
      /\ Len(entries) \in Nat
  BY RecordFields DEF entries
<1>4. /\ new \in Runs /\ new.phase = "restore" /\ new.op = "rollback" /\ new.id = id
      /\ new.entries = entries /\ new.raced = {}
  BY <1>3, IdleFacts DEF Idle, Runs
<1> HIDE DEF new
<1>5. new # Idle
  BY <1>4, IdleFacts
<1>6. /\ UNCHANGED <<tree, dirs, authored, manifest, edited>>
      /\ reviewed' \in [Wikis -> PlanIds \cup {NoPlan}]
      /\ faults' \in 0 .. MaxFaults /\ torn' \subseteq Paths /\ unsettled' \subseteq Recorded
  BY DEF BeginRollback, BaseInv, TypeOK, files
<1>7. QED
  BY <1>1, <1>2, <1>3, <1>4, <1>5, <1>6, MemoryStep

LEMMA VerifyBase ==
  ASSUME BaseInv, NEW id \in Recorded, Verify(id) PROVE BaseInv'
<1>1. run' = Idle /\ Idle \in Runs /\ Idle.phase = "idle" /\ Idle.op = "none"
  BY IdleFacts DEF Verify
<1>2. /\ UNCHANGED <<tree, dirs, authored, manifest, edited>>
      /\ reviewed' \in [Wikis -> PlanIds \cup {NoPlan}]
      /\ faults' \in 0 .. MaxFaults /\ torn' \subseteq Paths /\ unsettled' \subseteq Recorded
  BY DEF Verify, BaseInv, TypeOK, files
<1>3. QED
  BY <1>1, <1>2, MemoryStep

LEMMA WriteManifestBase ==
  ASSUME BaseInv, WriteManifest PROVE BaseInv'
<1> DEFINE new == [run EXCEPT !.phase = "write"]
<1>1. /\ run.phase = "record" /\ run # Idle /\ run.op # "none"
      /\ WellPlanned(run.id) /\ Fits(run.entries, run.id)
  BY Busy DEF WriteManifest
<1>2. run \in Runs /\ run.op = "apply" /\ run.next >= 1 /\ run.raced \subseteq edited
  BY <1>1, RunFields DEF BaseInv, RunFits, ReadsExplain, Runs
<1>3. /\ new \in Runs /\ new.phase = "write" /\ new.op = "apply" /\ new.id = run.id
      /\ new.entries = run.entries /\ new.raced = run.raced /\ new.next = run.next
  BY <1>2 DEF Runs
<1>4. run' = new
  BY DEF WriteManifest
<1> HIDE DEF new
<1>5. new # Idle
  BY <1>3, IdleFacts
<1>6. /\ Recorded' = Recorded \cup {run.id}
      /\ \A id \in Recorded' : manifest'[id] = IF id = run.id THEN Record("pending", run.entries)
                                                              ELSE manifest[id]
  BY DEF WriteManifest, With, Recorded
<1>7. ASSUME NEW id \in Recorded'
      PROVE  /\ WellPlanned(id) /\ Fits(manifest'[id].entries, id)
             /\ manifest'[id] \in [state : States, entries : Seq(Changes)]
  <2>1. CASE id = run.id
    <3>1. manifest'[id] = Record("pending", run.entries)
      BY <1>6, <1>7, <2>1
    <3>2. run.entries \in Seq(Changes)
      BY <1>1 DEF Fits
    <3>3. QED
      BY <1>1, <2>1, <3>1, <3>2 DEF Record, States
  <2>2. CASE id # run.id
    BY <1>6, <1>7, <2>2 DEF BaseInv, RecordsFit, TypeOK
  <2>3. QED
    BY <2>1, <2>2
<1>8. /\ UNCHANGED <<tree, dirs, authored, reviewed, faults, edited, torn>>
      /\ unsettled' \subseteq Recorded'
  BY <1>6 DEF WriteManifest, BaseInv, TypeOK, files
<1>9. \A i \in DOMAIN new.entries :
        \/ Done(new.entries[i]) \/ Incomplete(new.entries[i]) \/ new.entries[i].path \in new.raced
  BY <1>3 DEF BaseInv, ReadsExplain
<1>10. /\ dirs' \subseteq Wikis /\ authored' \subseteq dirs' /\ UNCHANGED tree
       /\ \A w \in Wikis : w \in dirs /\ w \notin dirs' => Empty(w)
       /\ reviewed' \in [Wikis -> PlanIds \cup {NoPlan}] /\ faults' \in 0 .. MaxFaults
       /\ edited' \subseteq Paths /\ torn' \subseteq Paths /\ new.raced \subseteq edited'
  BY <1>2, <1>3, <1>8 DEF BaseInv, TypeOK
<1>11. new.id \in Recorded'
  BY <1>3, <1>6
<1>12. QED
  BY <1>1, <1>2, <1>3, <1>4, <1>5, <1>7, <1>8, <1>9, <1>10, <1>11, QuietStep

(* A run whose memory alone moves.                                         *)
LEMMA Onward ==
  ASSUME BaseInv, run.phase \in {"write", "commit", "undo", "restore", "audit"},
         NEW phase \in {"write", "commit", "audit", "undo", "restore"},
         NEW next \in Nat, NEW count \in Nat,
         run' = [run EXCEPT !.phase = phase, !.next = next, !.count = count],
         run.op = "apply" => phase \in {"write", "commit", "audit", "undo"},
         run.op = "resume" => phase \in {"write", "commit", "audit"},
         run.op = "rollback" => phase \in {"restore", "audit"},
         (run.op \in {"apply", "resume"} /\ phase # "undo") => next >= 1,
         UNCHANGED <<tree, dirs, authored, manifest, edited, reviewed>>,
         faults' \in 0 .. MaxFaults, torn' \subseteq Paths, unsettled' \subseteq Recorded
  PROVE  BaseInv'
<1> DEFINE new == [run EXCEPT !.phase = phase, !.next = next, !.count = count]
<1>1. /\ new \in Runs /\ new # Idle /\ new.phase = phase /\ new.next = next
      /\ new.id = run.id /\ new.op = run.op
      /\ new.entries = run.entries /\ new.raced = run.raced
  <2>1. phase \in {"record", "write", "commit", "audit", "undo", "restore"}
    OBVIOUS
  <2>2. run.phase # "idle"
    OBVIOUS
  <2>3. QED
    BY <2>1, <2>2, RunFields, IdleFacts DEF BaseInv, Runs
<1>2. run' = new
  OBVIOUS
<1> HIDE DEF new
<1>3. /\ WellPlanned(run.id) /\ Fits(run.entries, run.id) /\ run.id \in Recorded
      /\ run.op # "none"
  BY Busy DEF BaseInv, RunFits
<1>4. /\ \A i \in DOMAIN new.entries :
           \/ Done(new.entries[i]) \/ Incomplete(new.entries[i]) \/ new.entries[i].path \in new.raced
      /\ new.raced \subseteq edited
  BY <1>1 DEF BaseInv, ReadsExplain
<1>5. reviewed' \in [Wikis -> PlanIds \cup {NoPlan}] /\ new.phase # "idle"
  BY <1>1 DEF BaseInv, TypeOK
<1>6. QED
  BY <1>1, <1>2, <1>3, <1>4, <1>5, MemoryStep

LEMMA WriteTargetBase ==
  ASSUME BaseInv, WriteTarget PROVE BaseInv'
<1> DEFINE new == [run EXCEPT !.phase = "write", !.next = run.next + 1, !.count = run.next]
<1>1. /\ run.phase = "write" /\ run.next \in DOMAIN run.entries /\ run \in Runs
      /\ run.next \in Nat /\ run.id \in Recorded
  BY RunFields DEF WriteTarget, BaseInv, RunFits
<1>2. /\ new \in Runs /\ new # Idle /\ new.phase = "write" /\ new.next = run.next + 1
      /\ new.id = run.id /\ new.op = run.op
      /\ new.entries = run.entries /\ new.raced = run.raced
  <2>1. run.phase # "idle" /\ run.next + 1 \in Nat
    BY <1>1
  <2>2. QED
    BY <1>1, <2>1, RunFields, IdleFacts DEF BaseInv, Runs
<1>3. run' = new
  BY <1>1 DEF WriteTarget, Runs
<1> HIDE DEF new
<1>4. /\ UNCHANGED <<authored, manifest, reviewed, faults, edited, torn>>
      /\ faults' \in 0 .. MaxFaults /\ torn' \subseteq Paths
  BY DEF WriteTarget, BaseInv, TypeOK
<1>5. new.next >= 1 /\ new.phase # "idle"
  BY <1>1, <1>2
<1>6. CASE run.next \in run.todo
  <2>1. Put(run.entries[run.next].path, run.entries[run.next].new)
    BY <1>6 DEF WriteTarget
  <2>2. unsettled' \subseteq Recorded
    BY <1>1, <1>6 DEF WriteTarget, BaseInv, TypeOK
  <2>3. run.phase # "idle" /\ run.phase # "record"
    BY <1>1
  <2>4. QED
    BY <1>1, <1>2, <1>3, <1>4, <1>5, <2>1, <2>2, <2>3, FileStep
<1>7. CASE run.next \notin run.todo
  <2>1. UNCHANGED <<tree, dirs, unsettled>>
    BY <1>7 DEF WriteTarget, files
  <2>2. /\ run.op = "apply" => run.phase \in {"write", "commit", "audit", "undo"}
        /\ run.op \notin {"rollback"}
    BY <1>1 DEF BaseInv, RunFits
  <2>3. unsettled' \subseteq Recorded /\ run.next + 1 \in Nat /\ run.next + 1 >= 1
    BY <1>1, <2>1 DEF BaseInv, TypeOK
  <2>4. QED
    BY <1>1, <1>3, <1>4, <2>1, <2>2, <2>3, Onward DEF new
<1>8. QED
  BY <1>6, <1>7

LEMMA AuditBase ==
  ASSUME BaseInv, run' = Idle, UNCHANGED <<tree, dirs, authored, manifest, edited, reviewed>>,
         faults' \in 0 .. MaxFaults, torn' \subseteq Paths, unsettled' \subseteq Recorded
  PROVE  BaseInv'
<1>1. reviewed' \in [Wikis -> PlanIds \cup {NoPlan}]
  BY DEF BaseInv, TypeOK
<1>2. QED
  BY <1>1, IdleFacts, MemoryStep

LEMMA AppendEventBase ==
  ASSUME BaseInv, AppendEvent PROVE BaseInv'
<1> DEFINE w == run.id.wiki
           log == Log(w)
           grown == tree[log] \cup {Event}
           entries == [i \in DOMAIN run.entries |->
                         IF run.entries[i].path = log
                         THEN [run.entries[i] EXCEPT !.new = grown] ELSE run.entries[i]]
           new == [run EXCEPT !.phase = "commit", !.entries = entries]
<1>1. /\ run.phase = "write" /\ run # Idle /\ run.op # "none" /\ run \in Runs
      /\ WellPlanned(run.id) /\ Fits(run.entries, run.id) /\ run.id \in Recorded
  BY Busy, RunFields DEF AppendEvent, BaseInv, RunFits
<1>2. run.op \in {"apply", "resume"} /\ run.next >= 1 /\ run.next \in Nat /\ run.count \in Nat
  BY <1>1, RunFields DEF BaseInv, RunFits
<1>3. /\ w \in Wikis /\ log \in Paths
      /\ tree \in [Paths -> Content] /\ tree[log] \in Content
  BY <1>1, Parts, OwnPaths DEF BaseInv, TypeOK
<1>4. CASE tree[log] = Absent
  <2>1. run' = [run EXCEPT !.phase = "commit", !.next = run.next, !.count = run.count]
    BY <1>1, <1>4 DEF AppendEvent, Runs
  <2>2. /\ UNCHANGED <<tree, dirs, authored, manifest, edited, reviewed>>
        /\ faults' \in 0 .. MaxFaults /\ torn' \subseteq Paths /\ unsettled' \subseteq Recorded
    BY <1>4 DEF AppendEvent, files, BaseInv, TypeOK
  <2>3. run.phase \in {"write", "commit", "undo", "restore", "audit"}
    BY <1>1
  <2>4. run.op # "rollback"
    BY <1>2
  <2>5. QED
    BY <1>2, <2>1, <2>2, <2>3, <2>4, Onward
<1>5. CASE tree[log] # Absent
  <2>1. /\ Put(log, grown) /\ run' = new
        /\ UNCHANGED <<authored, manifest, reviewed, faults, edited, torn, unsettled>>
    BY <1>5 DEF AppendEvent
  <2>2. /\ tree[log] \in SUBSET Marks /\ Generated \in tree[log]
        /\ tree[log] \cap WikiMarks = {}
    BY <1>3, <1>5, MarksAreContent DEF BaseInv, OwnFiles
  <2>3. /\ grown \in SUBSET Marks /\ grown \in Content /\ Generated \in grown
        /\ grown \cap WikiMarks = {}
    BY <2>2, MarkFacts, MarksAreContent
  <2>4. /\ \A v \in Wikis : log # Card(v)
        /\ \A f \in Paths : f # log => tree'[f] = tree[f]
        /\ tree'[log] = grown /\ tree' \in [Paths -> Content] /\ dirs' \subseteq Wikis
        /\ dirs \subseteq dirs'
    <3>1. TypeOK
      BY DEF BaseInv
    <3> HIDE DEF grown
    <3>2. QED
      BY <1>3, <2>1, <2>3, <3>1, PutFacts, OwnersDiffer
  <2> HIDE DEF grown
  <2>5. OwnFiles'
    <3>1. TypeOK /\ OwnFiles
      BY DEF BaseInv
    <3> HIDE DEF log
    <3>2. QED
      BY <1>3, <2>1, <2>3, <2>4, <3>1, OwnFilesKept
  <2>6. /\ DOMAIN entries = DOMAIN run.entries
        /\ \A i \in DOMAIN run.entries :
             /\ run.entries[i].path = log => i = 3
             /\ i # 3 => entries[i] = run.entries[i]
             /\ entries[i].path = run.entries[i].path
             /\ entries[i].old = run.entries[i].old
        /\ entries[3].new = grown /\ 3 \in DOMAIN run.entries
        /\ \A i \in DOMAIN run.entries : entries[i] \in Changes
    <3>1. /\ \A i \in DOMAIN run.entries : run.entries[i] \in Changes
          /\ 3 \in DOMAIN run.entries /\ run.entries[3].path = log
      BY <1>1, Parts
    <3>2. \A i \in DOMAIN run.entries : run.entries[i].path = log => i = 3
      BY <1>1, <3>1, TargetsDiffer
    <3>3. QED
      BY <3>1, <3>2, <2>3 DEF Changes
  <2> HIDE DEF entries
  <2>7. entries \in Seq(Changes) /\ Len(entries) = Len(run.entries)
    <3>1. run.entries \in Seq(Changes) /\ DOMAIN run.entries = 1 .. Len(run.entries)
      BY <1>1, Parts
    <3>2. entries = [i \in 1 .. Len(run.entries) |-> entries[i]]
      BY <2>6, <3>1 DEF entries
    <3>3. QED
      BY <2>6, <3>1, <3>2
  <2>8. Fits(entries, run.id)
    BY <1>1, <2>3, <2>6, <2>7 DEF Fits
  <2>9. /\ new \in Runs /\ new.phase = "commit" /\ new.op = run.op /\ new.id = run.id
        /\ new.entries = entries /\ new.raced = run.raced /\ new.next = run.next
    BY <1>1, <2>7 DEF Runs
  <2> HIDE DEF new
  <2>10. TypeOK'
    BY <2>1, <2>4, <2>9 DEF BaseInv, TypeOK, Recorded
  <2>11. RecordsFit'
    BY <2>1 DEF BaseInv, RecordsFit, Recorded
  <2>12. RunFits'
    <3>1. new # Idle
      BY <2>9, IdleFacts
    <3>2. QED
      BY <1>1, <1>2, <2>1, <2>8, <2>9, <3>1 DEF RunFits, Recorded
  <2>13. ReadsExplain'
    <3>1. ASSUME NEW i \in DOMAIN entries
          PROVE  \/ tree'[entries[i].path] = entries[i].new
                 \/ \E v \in Wikis : /\ entries[i].path = Log(v)
                                     /\ tree'[entries[i].path] # Absent
                                     /\ entries[i].new \subseteq tree'[entries[i].path]
                                     /\ tree'[entries[i].path] \ entries[i].new
                                          \subseteq {Event, Later}
                 \/ tree'[entries[i].path] \in {Absent, entries[i].old}
                 \/ entries[i].path \in run.raced
      <4>1. CASE i = 3
        BY <1>1, <2>4, <2>6, <4>1, Parts
      <4>2. CASE i # 3
        <5>1. /\ entries[i] = run.entries[i] /\ i \in DOMAIN run.entries
              /\ run.entries[i].path # log /\ run.entries[i].path \in Paths
          BY <1>1, <2>6, <3>1, <4>2, Parts
        <5>2. tree'[run.entries[i].path] = tree[run.entries[i].path]
          BY <2>4, <5>1
        <5>3. \/ Done(run.entries[i]) \/ Incomplete(run.entries[i])
              \/ run.entries[i].path \in run.raced
          BY <5>1 DEF BaseInv, ReadsExplain
        <5>4. QED
          BY <5>1, <5>2, <5>3 DEF Done, Incomplete, Grown
      <4>3. QED
        BY <4>1, <4>2
    <3>2. run'.entries = entries /\ run'.raced = run.raced /\ run.raced \subseteq edited
      BY <2>1, <2>9 DEF BaseInv, ReadsExplain
    <3>3. QED
      BY <2>1, <3>1, <3>2 DEF ReadsExplain, Done, Incomplete, Grown
  <2>14. QED
    BY <2>5, <2>10, <2>11, <2>12, <2>13 DEF BaseInv
<1>6. QED
  BY <1>4, <1>5

LEMMA CommitBase ==
  ASSUME BaseInv, Commit PROVE BaseInv'
<1> DEFINE new == [run EXCEPT !.phase = "audit"]
<1>1. /\ run.phase = "commit" /\ run # Idle /\ run.op # "none" /\ run \in Runs
      /\ WellPlanned(run.id) /\ Fits(run.entries, run.id) /\ run.id \in Recorded
      /\ run.raced \subseteq edited /\ run.op \in {"apply", "resume"} /\ run.next >= 1
      /\ run.next \in Nat /\ run.count \in Nat
  BY Busy, RunFields DEF Commit, BaseInv, RunFits, ReadsExplain
<1>2. /\ UNCHANGED <<tree, dirs, authored, reviewed, faults, edited, torn>>
  BY DEF Commit, files
<1>3. CASE \A i \in DOMAIN run.entries : Done(run.entries[i])
  <2>1. /\ manifest' = [manifest EXCEPT ![run.id] = Record("applied", run.entries)]
        /\ unsettled' = unsettled \ {run.id} /\ run' = new
    BY <1>3 DEF Commit
  <2>2. /\ new \in Runs /\ new.phase = "audit" /\ new.op = run.op /\ new.id = run.id
        /\ new.entries = run.entries /\ new.raced = run.raced /\ new.next = run.next
    BY <1>1 DEF Runs
  <2> HIDE DEF new
  <2>3. new # Idle
    BY <2>2, IdleFacts
  <2>4. /\ Recorded' = Recorded
        /\ \A id \in Recorded : manifest'[id] = IF id = run.id THEN Record("applied", run.entries)
                                                               ELSE manifest[id]
    BY <1>1, <2>1 DEF Recorded
  <2>5. ASSUME NEW id \in Recorded'
        PROVE  /\ WellPlanned(id) /\ Fits(manifest'[id].entries, id)
               /\ manifest'[id] \in [state : States, entries : Seq(Changes)]
    BY <1>1, <2>4, <2>5 DEF BaseInv, RecordsFit, TypeOK, Fits, Record, States
  <2>6. /\ dirs' \subseteq Wikis /\ authored' \subseteq dirs' /\ UNCHANGED tree
        /\ \A w \in Wikis : w \in dirs /\ w \notin dirs' => Empty(w)
        /\ reviewed' \in [Wikis -> PlanIds \cup {NoPlan}] /\ faults' \in 0 .. MaxFaults
        /\ edited' \subseteq Paths /\ torn' \subseteq Paths /\ new.raced \subseteq edited'
        /\ unsettled' \subseteq Recorded'
    BY <1>1, <1>2, <2>1, <2>2, <2>4 DEF BaseInv, TypeOK
  <2>7. \A i \in DOMAIN new.entries :
          \/ Done(new.entries[i]) \/ Incomplete(new.entries[i]) \/ new.entries[i].path \in new.raced
    BY <1>3, <2>2
  <2>8. QED
    BY <1>1, <2>1, <2>2, <2>3, <2>4, <2>5, <2>6, <2>7, QuietStep
<1>4. CASE ~ \A i \in DOMAIN run.entries : Done(run.entries[i])
  <2>1. /\ run' = IF run.op = "apply" THEN [run EXCEPT !.phase = "undo", !.next = @ - 1] ELSE Idle
        /\ UNCHANGED <<manifest, unsettled>>
    BY <1>4 DEF Commit
  <2>2. faults' \in 0 .. MaxFaults /\ torn' \subseteq Paths /\ unsettled' \subseteq Recorded
    BY <1>2, <2>1 DEF BaseInv, TypeOK
  <2>3. CASE run.op = "apply"
    <3>1. run' = [run EXCEPT !.phase = "undo", !.next = run.next - 1, !.count = run.count]
      BY <1>1, <2>1, <2>3 DEF Runs
    <3>2. run.next - 1 \in Nat /\ run.phase \in {"write", "commit", "undo", "restore", "audit"}
      BY <1>1
    <3>3. QED
      BY <1>1, <1>2, <2>1, <2>2, <2>3, <3>1, <3>2, Onward
  <2>4. CASE run.op # "apply"
    BY <1>2, <2>1, <2>2, <2>4, AuditBase
  <2>5. QED
    BY <2>3, <2>4
<1>5. QED
  BY <1>3, <1>4

LEMMA RaiseBase ==
  ASSUME BaseInv, Raise PROVE BaseInv'
<1> DEFINE new == [run EXCEPT !.phase = "undo", !.next = run.next - 1, !.count = run.count]
<1>1. /\ run.op = "apply" /\ run.phase \in {"write", "commit", "audit"} /\ run \in Runs
      /\ run.next \in Nat /\ run.next >= 1 /\ run.next - 1 \in Nat /\ run.count \in Nat
      /\ run.id \in Recorded
  BY RunFields DEF Raise, BaseInv, RunFits
<1>2. run' = new
  BY <1>1 DEF Raise, Runs
<1>3. /\ UNCHANGED <<authored, manifest, reviewed, edited>>
      /\ faults' \in 0 .. MaxFaults
  BY ProvisionConstants DEF Raise, BaseInv, TypeOK
<1>4. CASE UNCHANGED <<files, torn, unsettled>>
  <2>1. /\ UNCHANGED <<tree, dirs>> /\ torn' \subseteq Paths /\ unsettled' \subseteq Recorded
    BY <1>4 DEF files, BaseInv, TypeOK
  <2>2. run.phase \in {"write", "commit", "undo", "restore", "audit"}
    BY <1>1
  <2>3. QED
    BY <1>1, <1>2, <1>3, <2>1, <2>2, Onward
<1>5. CASE /\ run.phase = "write" /\ run.next \in DOMAIN run.entries
           /\ Put(run.entries[run.next].path, run.entries[run.next].new)
           /\ torn' = torn \cup {run.entries[run.next].path}
           /\ unsettled' = unsettled \cup {run.id}
  <2>1. /\ new \in Runs /\ new.phase = "undo" /\ new.op = run.op /\ new.id = run.id
        /\ new.entries = run.entries /\ new.raced = run.raced
    BY <1>1 DEF Runs
  <2> HIDE DEF new
  <2>2. run.entries[run.next].path \in Paths /\ run.phase # "idle"
    BY <1>5, Busy, Parts
  <2>3. torn' \subseteq Paths /\ unsettled' \subseteq Recorded
    BY <1>1, <1>5, <2>2 DEF BaseInv, TypeOK
  <2>4. new.phase # "idle" /\ run.phase # "record"
    BY <1>5, <2>1
  <2>5. QED
    BY <1>1, <1>2, <1>3, <1>5, <2>1, <2>2, <2>3, <2>4, FileStep
<1>6. QED
  BY <1>4, <1>5 DEF Raise

(* A step back: one target from the end is given its bytes from before.    *)
LEMMA BackwardBase ==
  ASSUME BaseInv, run.phase \in {"undo", "restore"}, run.next \in DOMAIN run.entries,
         Put(run.entries[run.next].path, run.entries[run.next].old),
         run' = [run EXCEPT !.next = @ - 1],
         unsettled' = unsettled \cup {run.id},
         UNCHANGED <<authored, manifest, reviewed, faults, edited, torn>>
  PROVE  BaseInv'
<1> DEFINE new == [run EXCEPT !.next = run.next - 1]
<1>1. /\ run.phase # "idle" /\ run.phase # "record" /\ run \in Runs /\ run.id \in Recorded
      /\ run.next \in Nat /\ run.next - 1 \in Nat
  <2>1. run.next \in 1 .. Len(run.entries) /\ Len(run.entries) \in Nat
    BY RunFields DEF BaseInv
  <2>2. run.id \in Recorded /\ run \in Runs /\ run.next \in Nat
    BY RunFields DEF BaseInv, RunFits
  <2>3. QED
    BY <2>1, <2>2
<1>2. /\ new \in Runs /\ new.phase = run.phase /\ new.op = run.op /\ new.id = run.id
      /\ new.entries = run.entries /\ new.raced = run.raced
  BY <1>1 DEF Runs
<1>3. run' = new
  BY <1>1 DEF Runs
<1> HIDE DEF new
<1>4. (new.op \in {"apply", "resume"} /\ new.phase # "undo") => new.next >= 1
  BY <1>2 DEF BaseInv, RunFits
<1>5. /\ faults' \in 0 .. MaxFaults /\ torn' \subseteq Paths /\ unsettled' \subseteq Recorded
      /\ new.phase # "idle"
  BY <1>1, <1>2 DEF BaseInv, TypeOK
<1>6. QED
  BY <1>1, <1>2, <1>3, <1>4, <1>5, FileStep

LEMMA UndoTargetBase ==
  ASSUME BaseInv, UndoTarget PROVE BaseInv'
  BY BackwardBase DEF UndoTarget

LEMMA RestoreTargetBase ==
  ASSUME BaseInv, RestoreTarget PROVE BaseInv'
  BY BackwardBase DEF RestoreTarget

LEMMA PrunedFacts ==
  ASSUME BaseInv, NEW w
  PROVE  /\ Pruned(w) \subseteq Wikis /\ authored \subseteq Pruned(w)
         /\ \A v \in Wikis : v \in dirs /\ v \notin Pruned(w) => v = w /\ Empty(v)
         /\ Pruned(w) \subseteq dirs
  BY DEF Pruned, Empty, BaseInv, TypeOK

LEMMA EndUndoBase ==
  ASSUME BaseInv, EndUndo PROVE BaseInv'
<1>1. /\ run.phase = "undo" /\ WellPlanned(run.id) /\ Fits(run.entries, run.id)
      /\ run.id \in Recorded /\ run.entries \in Seq(Changes)
  BY Busy, RunFields DEF EndUndo, BaseInv, RunFits
<1>2. /\ dirs' \subseteq Wikis /\ authored' \subseteq dirs' /\ UNCHANGED tree
      /\ \A v \in Wikis : v \in dirs /\ v \notin dirs' => Empty(v)
      /\ run' = Idle
  BY PrunedFacts DEF EndUndo
<1>3. /\ reviewed' \in [Wikis -> PlanIds \cup {NoPlan}] /\ faults' \in 0 .. MaxFaults
      /\ edited' \subseteq Paths /\ torn' \subseteq Paths
  BY DEF EndUndo, BaseInv, TypeOK
<1>4. \/ /\ manifest' = [id \in Recorded \ {run.id} |-> manifest[id]]
         /\ unsettled' = unsettled \ {run.id}
      \/ /\ manifest' = [manifest EXCEPT ![run.id] = Record("partial", run.entries)]
         /\ UNCHANGED unsettled
  BY DEF EndUndo
<1>5. /\ unsettled' \subseteq Recorded'
      /\ \A id \in Recorded' :
           /\ id \in Recorded
           /\ \/ manifest'[id] = manifest[id]
              \/ id = run.id /\ manifest'[id] = Record("partial", run.entries)
  BY <1>1, <1>4 DEF Recorded, BaseInv, TypeOK
<1>6. ASSUME NEW id \in Recorded'
      PROVE  /\ WellPlanned(id) /\ Fits(manifest'[id].entries, id)
             /\ manifest'[id] \in [state : States, entries : Seq(Changes)]
  BY <1>1, <1>5, <1>6 DEF BaseInv, RecordsFit, TypeOK, Record, States
<1>7. QED
  BY <1>2, <1>3, <1>5, <1>6, IdleFacts, QuietStep

LEMMA CrashBase ==
  ASSUME BaseInv, Crash PROVE BaseInv'
<1>1. /\ run' = Idle /\ dirs \subseteq dirs' /\ dirs' \subseteq Wikis
      /\ UNCHANGED <<tree, authored, manifest, reviewed, edited, torn, unsettled>>
      /\ faults' \in 0 .. MaxFaults
  BY ProvisionConstants DEF Crash, BaseInv, TypeOK
<1>2. /\ authored' \subseteq dirs' /\ reviewed' \in [Wikis -> PlanIds \cup {NoPlan}]
      /\ edited' \subseteq Paths /\ torn' \subseteq Paths /\ unsettled' \subseteq Recorded'
      /\ \A v \in Wikis : v \in dirs /\ v \notin dirs' => Empty(v)
  BY <1>1 DEF BaseInv, TypeOK, Recorded
<1>3. \A id \in Recorded' : WellPlanned(id) /\ Fits(manifest'[id].entries, id)
                            /\ manifest'[id] \in [state : States, entries : Seq(Changes)]
  BY <1>1 DEF BaseInv, RecordsFit, TypeOK, Recorded
<1>4. QED
  BY <1>1, <1>2, <1>3, IdleFacts, QuietStep

LEMMA EndRollbackBase ==
  ASSUME BaseInv, EndRollback PROVE BaseInv'
<1> DEFINE new == [run EXCEPT !.phase = "audit"]
<1>1. /\ run.phase = "restore" /\ run # Idle /\ run.op = "rollback" /\ run \in Runs
      /\ WellPlanned(run.id) /\ Fits(run.entries, run.id) /\ run.id \in Recorded
      /\ run.raced \subseteq edited /\ run.entries \in Seq(Changes)
  BY Busy, RunFields DEF EndRollback, BaseInv, RunFits, ReadsExplain
<1>2. /\ new \in Runs /\ new.phase = "audit" /\ new.op = "rollback" /\ new.id = run.id
      /\ new.entries = run.entries /\ new.raced = run.raced
  BY <1>1 DEF Runs
<1>3. run' = new
  BY DEF EndRollback
<1> HIDE DEF new
<1>4. new # Idle
  BY <1>2, IdleFacts
<1>5. /\ dirs' \subseteq Wikis /\ authored' \subseteq dirs' /\ UNCHANGED tree
      /\ \A v \in Wikis : v \in dirs /\ v \notin dirs' => Empty(v)
  BY PrunedFacts DEF EndRollback
<1>6. /\ Recorded' = Recorded
      /\ \A id \in Recorded : manifest'[id] = IF id = run.id THEN Record("rolled_back", run.entries)
                                                             ELSE manifest[id]
  BY <1>1 DEF EndRollback, Recorded
<1>7. /\ reviewed' \in [Wikis -> PlanIds \cup {NoPlan}] /\ faults' \in 0 .. MaxFaults
      /\ edited' \subseteq Paths /\ torn' \subseteq Paths /\ unsettled' \subseteq Recorded'
      /\ new.raced \subseteq edited'
  BY <1>1, <1>2, <1>6 DEF EndRollback, BaseInv, TypeOK
<1>8. ASSUME NEW id \in Recorded'
      PROVE  /\ WellPlanned(id) /\ Fits(manifest'[id].entries, id)
             /\ manifest'[id] \in [state : States, entries : Seq(Changes)]
  BY <1>1, <1>6, <1>8 DEF BaseInv, RecordsFit, TypeOK, Record, States
<1>9. \A i \in DOMAIN new.entries :
        \/ Done(new.entries[i]) \/ Incomplete(new.entries[i]) \/ new.entries[i].path \in new.raced
  BY <1>2 DEF BaseInv, ReadsExplain
<1>10. QED
  BY <1>1, <1>2, <1>3, <1>4, <1>5, <1>6, <1>7, <1>8, <1>9, QuietStep

LEMMA EditBase ==
  ASSUME BaseInv, NEW f \in Editable, Edit(f) PROVE BaseInv'
<1>1. /\ f \in Paths /\ tree \in [Paths -> Content] /\ tree[f] \in SUBSET Marks
      /\ tree[f] # Absent /\ run \in Runs
  BY ProvisionConstants, MarksAreContent, RunFields DEF Edit, BaseInv, TypeOK
<1>2. PICK content \in {tree[f] \cup {Edited(f)}, Absent} : tree' = [tree EXCEPT ![f] = content]
  BY DEF Edit
<1>3. /\ content \in Content /\ tree' \in [Paths -> Content] /\ tree'[f] = content
      /\ \A g \in Paths : g # f => tree'[g] = tree[g]
  BY <1>1, <1>2, MarkFacts, MarksAreContent
<1>4. /\ edited' = edited \cup {f} /\ edited' \subseteq Paths /\ faults' \in 0 .. MaxFaults
      /\ UNCHANGED <<dirs, authored, manifest, reviewed, torn, unsettled>>
  BY <1>1, ProvisionConstants DEF Edit, BaseInv, TypeOK
<1>5. \/ run = Idle /\ run' = Idle
      \/ run # Idle /\ run' = [run EXCEPT !.raced = run.raced \cup {f}]
  BY <1>1 DEF Edit, Noticed, Runs
<1>6. /\ run' \in Runs /\ run'.phase = run.phase /\ run'.op = run.op /\ run'.id = run.id
      /\ run'.entries = run.entries /\ run'.next = run.next
      /\ run.raced \subseteq run'.raced /\ run'.raced \subseteq run.raced \cup {f}
      /\ run # Idle => f \in run'.raced
  BY <1>1, <1>5, IdleFacts DEF Runs
<1>7. TypeOK'
  BY <1>3, <1>4, <1>6 DEF BaseInv, TypeOK, Recorded
<1>8. RecordsFit'
  BY <1>4 DEF BaseInv, RecordsFit, Recorded
<1>9. RunFits'
  <2>1. run' = Idle <=> run = Idle
    BY <1>5, <1>6, IdleFacts DEF BaseInv, RunFits
  <2>2. QED
    BY <1>4, <1>6, <2>1 DEF BaseInv, RunFits, Recorded
<1>10. OwnFiles'
  <2> SUFFICES ASSUME NEW v \in Wikis
               PROVE  /\ v \notin dirs => \A g \in Own(v) : tree'[g] = Absent
                      /\ tree'[Card(v)] # Absent => tree'[Card(v)] \cap WikiMarks = {}
                      /\ tree'[Log(v)] # Absent => /\ Generated \in tree'[Log(v)]
                                                   /\ tree'[Log(v)] \cap WikiMarks = {}
    BY <1>4 DEF OwnFiles
  <2>1. /\ v \notin dirs => \A g \in Own(v) : tree[g] = Absent
        /\ tree[Card(v)] # Absent => tree[Card(v)] \cap WikiMarks = {}
        /\ tree[Log(v)] # Absent => Generated \in tree[Log(v)] /\ tree[Log(v)] \cap WikiMarks = {}
    BY DEF BaseInv, OwnFiles
  <2>2. Own(v) = {Card(v), Log(v)} /\ Card(v) \in Paths /\ Log(v) \in Paths
    BY OwnPaths
  <2>3. \A g \in Paths : \/ tree'[g] = tree[g] \/ tree'[g] = Absent
                         \/ tree[g] # Absent /\ tree'[g] = tree[g] \cup {Edited(f)}
    BY <1>1, <1>3
  <2>4. Edited(f) \notin WikiMarks
    BY <1>1, MarkFacts
  <2>5. v \notin dirs => \A g \in Own(v) : tree'[g] = Absent
    BY <2>1, <2>2, <2>3
  <2>6. tree'[Card(v)] # Absent => tree'[Card(v)] \cap WikiMarks = {}
    BY <2>1, <2>2, <2>3, <2>4
  <2>7. tree'[Log(v)] # Absent => Generated \in tree'[Log(v)] /\ tree'[Log(v)] \cap WikiMarks = {}
    BY <2>1, <2>2, <2>3, <2>4
  <2>8. QED
    BY <2>5, <2>6, <2>7
<1>11. ReadsExplain'
  <2>1. ASSUME NEW i \in DOMAIN run.entries
        PROVE  (Done(run.entries[i]) \/ Incomplete(run.entries[i])
                  \/ run.entries[i].path \in run.raced)'
    <3>1. run # Idle
      BY IdleFacts
    <3>2. run.entries[i].path \in Paths
      BY <3>1, Parts DEF BaseInv, RunFits
    <3>3. CASE run.entries[i].path = f
      BY <1>6, <3>1, <3>3
    <3>4. CASE run.entries[i].path # f
      <4>1. tree'[run.entries[i].path] = tree[run.entries[i].path]
        BY <1>3, <3>2, <3>4
      <4>2. \/ Done(run.entries[i]) \/ Incomplete(run.entries[i])
            \/ run.entries[i].path \in run.raced
        BY DEF BaseInv, ReadsExplain
      <4>3. QED
        BY <1>6, <4>1, <4>2 DEF Done, Incomplete, Grown
    <3>5. QED
      BY <3>3, <3>4
  <2>2. run'.raced \subseteq edited'
    BY <1>4, <1>6 DEF BaseInv, ReadsExplain
  <2>3. QED
    BY <1>6, <2>1, <2>2 DEF ReadsExplain
<1>12. QED
  BY <1>7, <1>8, <1>9, <1>10, <1>11 DEF BaseInv

LEMMA NextBase ==
  ASSUME BaseInv, [Next]_vars PROVE BaseInv'
<1>1. CASE UNCHANGED vars
  <2>1. UNCHANGED <<tree, dirs, authored, manifest, reviewed, run, faults, edited, torn, unsettled>>
    BY <1>1 DEF vars, files
  <2>2. QED
    BY <2>1 DEF BaseInv, TypeOK, RecordsFit, RunFits, OwnFiles, ReadsExplain, Recorded,
                Done, Incomplete, Grown
<1>2. ASSUME NEW w \in Wikis, DryRun(w) \/ BeginApply(w) \/ Author(w) \/ AppendLater(w)
      PROVE  BaseInv'
  BY <1>2, DryRunBase, BeginApplyBase, AuthorBase, AppendLaterBase
<1>3. ASSUME NEW id \in Recorded, BeginResume(id) \/ Verify(id) \/ BeginRollback(id)
      PROVE  BaseInv'
  BY <1>3, BeginResumeBase, VerifyBase, BeginRollbackBase
<1>4. CASE Progress
  <2>1. ASSUME Audit PROVE BaseInv'
    <3>1. /\ run' = Idle /\ UNCHANGED <<tree, dirs, authored, manifest, edited, reviewed>>
          /\ faults' \in 0 .. MaxFaults /\ torn' \subseteq Paths /\ unsettled' \subseteq Recorded
      BY <2>1 DEF Audit, files, BaseInv, TypeOK
    <3>2. QED
      BY <3>1, AuditBase
  <2>2. QED
    BY <1>4, <2>1, WriteManifestBase, WriteTargetBase, AppendEventBase, CommitBase,
       UndoTargetBase, EndUndoBase, RestoreTargetBase, EndRollbackBase DEF Progress
<1>5. CASE Raise \/ Crash
  BY <1>5, RaiseBase, CrashBase
<1>6. ASSUME NEW f \in Editable, Edit(f) PROVE BaseInv'
  BY <1>6, EditBase
<1>7. QED
  BY <1>1, <1>2, <1>3, <1>4, <1>5, <1>6 DEF Next

(* Every behaviour keeps to the types, its plans and its files.            *)
THEOREM BaseInvariance == Spec => []BaseInv
  BY InitBase, NextBase, PTL DEF Spec

(* `provision-wiki` keeps the vault, the records and its own memory well   *)
(* typed, whatever fails, dies or is edited (gardening.py:1214).           *)
THEOREM TypeCorrect == Spec => []TypeOK
<1>1. BaseInv => TypeOK
  BY DEF BaseInv
<1>2. QED
  BY <1>1, BaseInvariance, PTL

(* A page somebody wrote keeps its directory: an undo and a rollback       *)
(* remove a directory only when nothing is left in it (gardening.py:1366). *)
THEOREM AuthoredIsKept == Spec => KeepsAuthored
<1>1. ASSUME BaseInv, BaseInv', [Next]_vars PROVE \A w \in authored : w \in dirs'
  <2>1. authored \subseteq authored'
    BY <1>1 DEF Next, Progress, DryRun, BeginApply, Author, AppendLater, BeginResume, Verify,
                BeginRollback, WriteManifest, WriteTarget, AppendEvent, Commit, Audit, Raise,
                UndoTarget, EndUndo, RestoreTarget, EndRollback, Crash, Edit, vars
  <2>2. authored' \subseteq dirs'
    BY <1>1 DEF BaseInv, TypeOK
  <2>3. QED
    BY <2>1, <2>2
<1>2. BaseInv /\ BaseInv' /\ [Next]_vars => [\A w \in authored : w \in dirs']_vars
  BY <1>1
<1>3. QED
  BY <1>2, BaseInvariance, PTL DEF Spec, KeepsAuthored

(* A write, an undo or a restore replaces only what recovery accepted: a   *)
(* target that somebody changed was changed after the check                *)
(* (gardening.py:1493).                                                    *)
THEOREM ForeignIsNotOverwritten == Spec => NoForeignOverwrite
<1>1. ASSUME BaseInv, (WriteTarget /\ run.next \in run.todo) \/ UndoTarget \/ RestoreTarget
      PROVE  Replaces
  <2>1. run.next \in DOMAIN run.entries
    BY <1>1 DEF WriteTarget, UndoTarget, RestoreTarget
  <2>2. QED
    BY <1>1, <2>1 DEF BaseInv, ReadsExplain, Replaces
<1>2. BaseInv /\ BaseInv' /\ [Next]_vars =>
        [(WriteTarget /\ run.next \in run.todo) \/ UndoTarget \/ RestoreTarget => Replaces]_vars
  BY <1>1
<1>3. QED
  BY <1>2, BaseInvariance, PTL DEF Spec, NoForeignOverwrite

-----------------------------------------------------------------------------
(* Recovery is never stuck                                                 *)

LEMMA ForeignOrSettled ==
  /\ \A e : Foreign(e) <=> ~ Settles(tree, e)
  /\ \A e : Done(e) \/ Incomplete(e) <=> Settles(tree, e)
  BY DEF Foreign, Done, Incomplete, Grown, Settles

LEMMA ExplainedKept ==
  ASSUME NEW t, NEW u, NEW entries, NEW changed, NEW more, changed \subseteq more,
         Explained(t, entries, changed),
         \A i \in DOMAIN entries :
           \/ u[entries[i].path] = t[entries[i].path]
           \/ Settles(u, entries[i]) \/ entries[i].path \in more
  PROVE  Explained(u, entries, more)
<1> SUFFICES ASSUME NEW i \in DOMAIN entries
             PROVE  Settles(u, entries[i]) \/ entries[i].path \in more
  BY DEF Explained
<1>1. Settles(t, entries[i]) \/ entries[i].path \in more
  BY DEF Explained
<1>2. CASE u[entries[i].path] = t[entries[i].path]
  BY <1>1, <1>2 DEF Settles
<1>3. QED
  BY <1>2

(* What a run holds is explained by what was edited.                       *)
LEMMA RunExplained ==
  ASSUME BaseInv PROVE Explained(tree, run.entries, edited)
  BY ForeignOrSettled DEF BaseInv, ReadsExplain, Explained

(* Others may be started only when nothing else is open.                   *)
LEMMA OneRunOpen ==
  ASSUME BaseInv, OpenInv, run # Idle, run' = Idle \/ run'.id = run.id,
         Recorded' \subseteq Recorded \cup {run.id},
         \A id \in Recorded' : id # run.id => manifest'[id] = manifest[id],
         unsettled' \subseteq unsettled \cup {run.id},
         run.id \in Recorded' /\ (\/ manifest'[run.id].state \in {"pending", "partial"}
                                 \/ run.id \in unsettled' \/ Working')
           => Explained(tree', manifest'[run.id].entries, edited')
  PROVE  OneOpen' /\ Recoverable'
<1>1. ASSUME NEW id \in Recorded', id # run.id PROVE ~ Open(id)'
  <2>1. id \in Recorded /\ ~ Open(id)
    BY <1>1 DEF OpenInv, OneOpen
  <2>2. QED
    BY <1>1, <2>1 DEF Open
<1> DEFINE mine == run.id
<1> HIDE DEF mine
<1>2. \A id \in Recorded' : Open(id)' => id = mine
  BY <1>1 DEF mine
<1>3. run' # Idle => run'.id = mine
  BY DEF mine
<1>4. OneOpen'
  BY <1>2, <1>3 DEF OneOpen
<1>5. ASSUME NEW id \in Recorded', Open(id)' \/ (Working' /\ id = run'.id)
      PROVE  Explained(tree', manifest'[id].entries, edited')
  <2>1. id = run.id
    <3>1. CASE Open(id)'
      BY <1>2, <3>1 DEF mine
    <3>2. CASE Working' /\ id = run'.id
      <4>1. run' # Idle
        BY <3>2, IdleFacts DEF Working
      <4>2. QED
        BY <3>2, <4>1
    <3>3. QED
      BY <1>5, <3>1, <3>2
  <2>2. \/ manifest'[run.id].state \in {"pending", "partial"}
        \/ run.id \in unsettled' \/ Working'
    BY <1>5, <2>1 DEF Open
  <2>3. QED
    BY <1>5, <2>1, <2>2
<1>6. QED
  BY <1>4, <1>5 DEF Recoverable

(* Nothing but a run changes what is on record.                            *)
LEMMA NobodyRuns ==
  ASSUME BaseInv, OpenInv, run = Idle, run' = Idle,
         UNCHANGED manifest, unsettled' \subseteq unsettled, edited \subseteq edited',
         \A id \in Recorded : Open(id) => Explained(tree', manifest[id].entries, edited')
  PROVE  OpenInv'
<1>1. \A id \in Recorded' : id \in Recorded /\ (Open(id)' => Open(id))
  BY DEF Recorded, Open
<1>2. OneOpen'
  BY <1>1 DEF OpenInv, OneOpen
<1>3. InHand'
  BY IdleFacts DEF InHand
<1>4. RolledBackSettled'
  BY DEF OpenInv, RolledBackSettled
<1>5. Recoverable'
  BY <1>1, IdleFacts DEF Recoverable, Working
<1>6. QED
  BY <1>2, <1>3, <1>4, <1>5 DEF OpenInv

(* A run begins while nothing else is open.                                *)
LEMMA BeginOpen ==
  ASSUME BaseInv, OpenInv, run = Idle, NEW id0, run' # Idle, run'.id = id0,
         \A other \in Recorded \ {id0} : ~ Open(other),
         UNCHANGED <<tree, manifest, edited>>, unsettled' = unsettled,
         run'.phase \in {"record", "write", "restore"},
         run'.phase \in {"write", "restore"} =>
           /\ id0 \in Recorded /\ run'.entries = manifest[id0].entries
           /\ NoForeign(manifest[id0].entries) /\ manifest[id0].state # "rolled_back",
         run'.phase = "record" /\ id0 \in Recorded => manifest[id0].state = "rolled_back"
  PROVE  OpenInv'
<1>1. Recorded' = Recorded /\ \A id \in Recorded : (Open(id)' <=> Open(id))
  BY DEF Recorded, Open
<1>2. OneOpen'
  BY <1>1 DEF OpenInv, OneOpen
<1>3. InHand'
  BY <1>1 DEF InHand
<1>4. RolledBackSettled'
  BY DEF OpenInv, RolledBackSettled
<1>5. Recoverable'
  <2>1. ASSUME NEW id \in Recorded, Open(id)
        PROVE  Explained(tree, manifest[id].entries, edited)
    BY <2>1 DEF OpenInv, Recoverable
  <2>2. run'.phase \in {"write", "restore"} => Explained(tree, manifest[id0].entries, edited)
    BY ForeignOrSettled DEF NoForeign, Explained
  <2>3. Working' => run'.phase \in {"write", "restore"}
    BY DEF Working
  <2>4. QED
    BY <1>1, <2>1, <2>2, <2>3 DEF Recoverable
<1>6. QED
  BY <1>2, <1>3, <1>4, <1>5 DEF OpenInv

LEMMA BeginSteps ==
  ASSUME FinishFirst, BaseInv, OpenInv,
         \/ \E w \in Wikis : BeginApply(w)
         \/ \E id \in Recorded : BeginResume(id) \/ BeginRollback(id)
  PROVE  OpenInv'
<1>1. ASSUME NEW w \in Wikis, BeginApply(w) PROVE OpenInv'
  <2>1. run'.phase = "record" /\ run'.id = reviewed[w] /\ run = Idle
    BY <1>1 DEF BeginApply, Idle
  <2>2. run' # Idle
    BY <2>1, IdleFacts
  <2>3. \A other \in Recorded \ {reviewed[w]} : ~ Open(other)
    BY <1>1 DEF BeginApply, MayStart
  <2>4. /\ UNCHANGED <<tree, manifest, edited>> /\ unsettled' = unsettled
        /\ reviewed[w] \in Recorded => manifest[reviewed[w]].state = "rolled_back"
    BY <1>1 DEF BeginApply, files
  <2>5. QED
    BY <2>1, <2>2, <2>3, <2>4, BeginOpen
<1>2. ASSUME NEW id \in Recorded, BeginResume(id) \/ BeginRollback(id) PROVE OpenInv'
  <2>1. /\ run'.phase \in {"write", "restore"} /\ run'.id = id /\ run = Idle
        /\ run'.entries = manifest[id].entries
    BY <1>2 DEF BeginResume, BeginRollback, Idle
  <2>2. run' # Idle
    BY <2>1, IdleFacts
  <2>3. \A other \in Recorded \ {id} : ~ Open(other)
    BY <1>2 DEF BeginResume, BeginRollback, MayStart
  <2>4. /\ UNCHANGED <<tree, manifest, edited>> /\ unsettled' = unsettled
        /\ NoForeign(manifest[id].entries) /\ manifest[id].state # "rolled_back"
    BY <1>2 DEF BeginResume, BeginRollback, files
  <2>5. QED
    BY <2>1, <2>2, <2>3, <2>4, BeginOpen
<1>3. QED
  BY <1>1, <1>2

LEMMA QuietOpen ==
  ASSUME BaseInv, OpenInv,
         \/ \E w \in Wikis : DryRun(w) \/ AppendLater(w)
         \/ \E id \in Recorded : Verify(id)
  PROVE  OpenInv'
<1>1. ASSUME UNCHANGED tree, run = Idle, run' = Idle, UNCHANGED <<manifest, edited>>,
             unsettled' \subseteq unsettled
      PROVE  OpenInv'
  <2>1. \A id \in Recorded : Open(id) => Explained(tree', manifest[id].entries, edited')
    BY <1>1 DEF OpenInv, Recoverable
  <2>2. QED
    BY <1>1, <2>1, NobodyRuns
<1>2. ASSUME NEW w \in Wikis, AppendLater(w) PROVE OpenInv'
  <2>1. /\ Log(w) \in Paths /\ tree \in [Paths -> Content] /\ tree[Log(w)] # Absent
        /\ tree' = [tree EXCEPT ![Log(w)] = @ \cup {Later}]
    BY <1>2, OwnPaths DEF BaseInv, TypeOK, AppendLater
  <2>2. /\ tree'[Log(w)] = tree[Log(w)] \cup {Later}
        /\ \A f \in Paths : f # Log(w) => tree'[f] = tree[f]
        /\ tree[Log(w)] \in SUBSET Marks /\ tree'[Log(w)] # Absent
    <3>1. tree[Log(w)] \in SUBSET Marks
      BY <2>1, MarksAreContent
    <3>2. tree[Log(w)] \cup {Later} # Absent
      BY <3>1, MarkFacts, MarksAreContent
    <3>3. QED
      BY <2>1, <3>1, <3>2
  <2>3. ASSUME NEW id \in Recorded, Open(id)
        PROVE  Explained(tree', manifest[id].entries, edited')
    <3> DEFINE entries == manifest[id].entries
    <3>1. Explained(tree, entries, edited)
      BY <2>3 DEF OpenInv, Recoverable
    <3>2. WellPlanned(id) /\ Fits(entries, id)
      BY RecordFields
    <3> HIDE DEF entries
    <3>3. ASSUME NEW i \in DOMAIN entries
          PROVE  \/ tree'[entries[i].path] = tree[entries[i].path]
                 \/ Settles(tree', entries[i]) \/ entries[i].path \in edited
      <4>1. entries[i].path \in Paths /\ i \in {1, 2, 3, 4}
        BY <3>2, Parts
      <4>2. CASE entries[i].path # Log(w)
        BY <2>2, <4>1, <4>2
      <4>3. CASE entries[i].path = Log(w)
        <5>1. entries[i].old = Absent
          <6>1. i = 3
            <7>1. /\ id.wiki \in Wikis /\ entries[1].path = Registry /\ entries[2].path = Card(id.wiki)
                  /\ 4 \in DOMAIN entries => entries[4].path = Router
              BY <3>2, Parts
            <7>2. Log(w) # Registry /\ Log(w) # Router /\ Log(w) # Card(id.wiki)
              BY <7>1, OwnPaths, SharedPaths, OwnersDiffer
            <7>3. QED
              BY <4>1, <4>3, <7>1, <7>2
          <6>2. QED
            BY <3>2, <6>1, Parts
        <5>2. Settles(tree, entries[i]) \/ entries[i].path \in edited
          BY <3>1 DEF Explained
        <5>3. ASSUME Settles(tree, entries[i])
              PROVE  /\ entries[i].new \subseteq tree[Log(w)]
                     /\ tree[Log(w)] \ entries[i].new \subseteq {Event, Later}
          BY <2>1, <4>3, <5>1, <5>3 DEF Settles
        <5>4. ASSUME Settles(tree, entries[i]) PROVE Settles(tree', entries[i])
          BY <2>2, <4>3, <5>3, <5>4 DEF Settles
        <5>5. QED
          BY <5>2, <5>4
      <4>4. QED
        BY <4>2, <4>3
    <3>4. UNCHANGED edited
      BY <1>2 DEF AppendLater
    <3>5. Explained(tree', entries, edited)
      BY <3>1, <3>3, ExplainedKept
    <3>6. QED
      BY <3>4, <3>5 DEF entries
  <2>4. /\ run = Idle /\ run' = Idle /\ UNCHANGED manifest
        /\ unsettled' \subseteq unsettled /\ edited \subseteq edited'
    BY <1>2 DEF AppendLater
  <2>5. QED
    BY <2>3, <2>4, NobodyRuns
<1>3. ASSUME NEW w \in Wikis, DryRun(w) PROVE OpenInv'
  BY <1>1, <1>3 DEF DryRun, files
<1>4. ASSUME NEW id \in Recorded, Verify(id) PROVE OpenInv'
  BY <1>1, <1>4 DEF Verify, files
<1>5. QED
  BY <1>2, <1>3, <1>4

(* The record of the run, whatever bytes of the plan its targets hold.     *)
LEMMA Explains ==
  ASSUME BaseInv, OpenInv, Working
  PROVE  /\ run # Idle /\ run.id \in Recorded
         /\ Explained(tree, manifest[run.id].entries, edited)
         /\ \A i \in DOMAIN manifest[run.id].entries :
              /\ i \in DOMAIN run.entries
              /\ manifest[run.id].entries[i].path = run.entries[i].path
              /\ manifest[run.id].entries[i].old = run.entries[i].old
<1>1. /\ run # Idle /\ run.id \in Recorded /\ Fits(run.entries, run.id)
  BY Busy DEF Working, BaseInv, RunFits
<1>2. Fits(manifest[run.id].entries, run.id)
  BY <1>1, RecordFields
<1>3. DOMAIN manifest[run.id].entries = DOMAIN run.entries
  BY <1>1, <1>2 DEF Fits
<1>4. QED
  BY <1>1, <1>2, <1>3 DEF Fits, OpenInv, Recoverable

(* One target of the run changes, the records do not.                      *)
LEMMA TargetOpen ==
  ASSUME BaseInv, OpenInv, Working, run' # Idle, run'.id = run.id,
         run'.op = run.op, run'.entries = run.entries,
         run'.phase = run.phase \/ run'.phase = "undo", run.phase \in {"write", "undo", "restore"},
         NEW i \in DOMAIN run.entries,
         NEW content \in {run.entries[i].old, run.entries[i].new},
         content = run.entries[i].old \/ run.phase = "write",
         Put(run.entries[i].path, content),
         UNCHANGED <<manifest, edited>>, unsettled' = unsettled \cup {run.id}
  PROVE  OpenInv'
<1> DEFINE entries == manifest[run.id].entries
<1>1. /\ run.id \in Recorded /\ Explained(tree, entries, edited) /\ run # Idle
      /\ \A j \in DOMAIN entries : /\ j \in DOMAIN run.entries
                                   /\ entries[j].path = run.entries[j].path
                                   /\ entries[j].old = run.entries[j].old
  BY Explains
<1>2. /\ tree'[run.entries[i].path] = content
      /\ \A j \in DOMAIN run.entries :
           j # i => tree'[run.entries[j].path] = tree[run.entries[j].path]
  BY TargetWritten DEF Working
<1>3. run.phase = "write" => entries = run.entries
  BY DEF OpenInv, InHand
<1> HIDE DEF entries
<1>4. ASSUME NEW j \in DOMAIN entries
      PROVE  tree'[entries[j].path] = tree[entries[j].path] \/ Settles(tree', entries[j])
  BY <1>1, <1>2, <1>3 DEF Settles
<1>5. Explained(tree', entries, edited)
  BY <1>1, <1>4, ExplainedKept
<1>6. OneOpen' /\ Recoverable'
  <2>1. Recorded' = Recorded /\ manifest' = manifest /\ edited' = edited
    BY DEF Recorded
  <2>2. Explained(tree', manifest'[run.id].entries, edited')
    BY <1>5, <2>1 DEF entries
  <2>3. QED
    BY <1>1, <2>1, <2>2, OneRunOpen
<1>7. InHand'
  BY DEF OpenInv, InHand, Recorded
<1>8. RolledBackSettled'
  BY DEF OpenInv, RolledBackSettled, InHand
<1>9. QED
  BY <1>6, <1>7, <1>8 DEF OpenInv

(* Nothing but the memory of the run changes.                              *)
LEMMA OnwardOpen ==
  ASSUME BaseInv, OpenInv, Working,
         run' = Idle \/ (/\ run'.id = run.id /\ run'.op = run.op /\ run'.entries = run.entries
                         /\ \/ run'.phase = run.phase
                            \/ run.phase = "write" /\ run'.phase = "commit"
                            \/ run.op = "apply" /\ run'.phase = "undo"),
         UNCHANGED <<tree, manifest, edited, unsettled>>
  PROVE  OpenInv'
<1>1. /\ run.id \in Recorded /\ Explained(tree, manifest[run.id].entries, edited) /\ run # Idle
  BY Explains
<1>2. OneOpen' /\ Recoverable'
  <2>1. Recorded' = Recorded
    BY DEF Recorded
  <2>2. Explained(tree', manifest'[run.id].entries, edited')
    BY <1>1
  <2>3. QED
    BY <1>1, <2>1, <2>2, OneRunOpen
<1>3. InHand'
  <2>1. CASE run' = Idle
    BY <2>1, IdleFacts DEF InHand
  <2>2. CASE run' # Idle
    BY <2>2 DEF OpenInv, InHand, Working, Recorded
  <2>3. QED
    BY <2>1, <2>2
<1>4. RolledBackSettled'
  BY DEF OpenInv, RolledBackSettled
<1>5. QED
  BY <1>2, <1>3, <1>4 DEF OpenInv

(* The record of the run is rewritten with what the run holds.             *)
LEMMA RecordOpen ==
  ASSUME BaseInv, OpenInv, run # Idle, UNCHANGED <<tree, edited>>,
         NEW state \in States, run.id \in Recorded', Recorded' = Recorded \cup {run.id},
         manifest'[run.id] = Record(state, run.entries),
         \A id \in Recorded' : id # run.id => manifest'[id] = manifest[id],
         unsettled' \subseteq unsettled,
         state = "rolled_back" => run.id \notin unsettled',
         run' = Idle \/ (run'.id = run.id /\ run'.entries = run.entries),
         InHand'
  PROVE  OpenInv'
<1>1. Explained(tree', manifest'[run.id].entries, edited')
  BY RunExplained DEF Record
<1>2. OneOpen' /\ Recoverable'
  BY <1>1, OneRunOpen
<1>3. RolledBackSettled'
  <2>1. ASSUME NEW id \in unsettled' PROVE manifest'[id].state # "rolled_back"
    <3>1. CASE id = run.id
      BY <2>1, <3>1 DEF Record
    <3>2. CASE id # run.id
      <4>1. id \in unsettled /\ id \in Recorded /\ id \in Recorded'
        BY <2>1 DEF BaseInv, TypeOK
      <4>2. QED
        BY <3>2, <4>1 DEF OpenInv, RolledBackSettled
    <3>3. QED
      BY <3>1, <3>2
  <2>2. QED
    BY <2>1 DEF RolledBackSettled
<1>4. QED
  BY <1>2, <1>3 DEF OpenInv

LEMMA WriteManifestOpen ==
  ASSUME BaseInv, OpenInv, WriteManifest PROVE OpenInv'
<1>1. /\ run.phase = "record" /\ run # Idle /\ run \in Runs /\ run.op = "apply"
  BY Busy, RunFields DEF WriteManifest, BaseInv, RunFits
<1>2. /\ run'.phase = "write" /\ run'.id = run.id /\ run'.entries = run.entries
      /\ UNCHANGED <<tree, edited>> /\ unsettled' = unsettled \ {run.id}
  BY <1>1 DEF WriteManifest, files, Runs
<1>3. /\ Recorded' = Recorded \cup {run.id}
      /\ manifest'[run.id] = Record("pending", run.entries)
      /\ \A id \in Recorded' : id # run.id => manifest'[id] = manifest[id]
  BY DEF WriteManifest, With, Recorded
<1>4. InHand'
  BY <1>2, <1>3 DEF InHand, Record
<1>5. "pending" \in States /\ unsettled' \subseteq unsettled
  BY <1>2 DEF States
<1>6. QED
  BY <1>1, <1>2, <1>3, <1>4, <1>5, RecordOpen

LEMMA WriteTargetOpen ==
  ASSUME BaseInv, OpenInv, WriteTarget PROVE OpenInv'
<1>1. /\ run.phase = "write" /\ run.next \in DOMAIN run.entries /\ run \in Runs /\ Working
  BY RunFields DEF WriteTarget, BaseInv, Working
<1>2. /\ run'.phase = "write" /\ run'.id = run.id /\ run'.op = run.op
      /\ run'.entries = run.entries /\ UNCHANGED <<manifest, edited>>
  BY <1>1 DEF WriteTarget, Runs
<1>3. run' # Idle
  BY <1>2, IdleFacts
<1>4. CASE run.next \in run.todo
  <2>1. /\ Put(run.entries[run.next].path, run.entries[run.next].new)
        /\ unsettled' = unsettled \cup {run.id}
    BY <1>4 DEF WriteTarget
  <2>2. QED
    BY <1>1, <1>2, <1>3, <2>1, TargetOpen
<1>5. CASE run.next \notin run.todo
  <2>1. UNCHANGED <<tree, unsettled>>
    BY <1>5 DEF WriteTarget, files
  <2>2. QED
    BY <1>1, <1>2, <2>1, OnwardOpen
<1>6. QED
  BY <1>4, <1>5

LEMMA AppendEventOpen ==
  ASSUME BaseInv, OpenInv, AppendEvent PROVE OpenInv'
<1> DEFINE log == Log(run.id.wiki)
           entries == manifest[run.id].entries
<1>1. /\ run.phase = "write" /\ run \in Runs /\ Working
      /\ UNCHANGED <<manifest, edited, unsettled>>
  BY RunFields DEF AppendEvent, BaseInv, Working
<1>2. run'.phase = "commit" /\ run'.id = run.id /\ run'.op = run.op
  BY <1>1 DEF AppendEvent, Runs
<1>3. CASE tree[log] = Absent
  <2>1. run'.entries = run.entries /\ UNCHANGED tree
    BY <1>1, <1>3 DEF AppendEvent, files, Runs
  <2>2. QED
    BY <1>1, <1>2, <2>1, OnwardOpen
<1>4. CASE tree[log] # Absent
  <2>1. /\ run.id \in Recorded /\ Explained(tree, entries, edited) /\ run # Idle
        /\ WellPlanned(run.id) /\ Fits(entries, run.id)
    BY <1>1, Explains, RecordFields
  <2>2. /\ run.id.wiki \in Wikis /\ log \in Paths /\ tree[log] \in SUBSET Marks
    BY <1>4, <2>1, Parts, OwnPaths, MarksAreContent DEF BaseInv, TypeOK
  <2>3. tree[log] \cup {Event} \in Content /\ tree[log] \cup {Event} # Absent
    BY <2>2, MarkFacts, MarksAreContent
  <2>4. Put(log, tree[log] \cup {Event})
    BY <1>4 DEF AppendEvent
  <2>5. /\ tree'[log] = tree[log] \cup {Event}
        /\ \A f \in Paths : f # log => tree'[f] = tree[f]
    <3>1. TypeOK
      BY DEF BaseInv
    <3>2. QED
      BY <2>2, <2>3, <2>4, <3>1, PutFacts
  <2>6. ASSUME NEW i \in DOMAIN entries
        PROVE  \/ tree'[entries[i].path] = tree[entries[i].path]
               \/ Settles(tree', entries[i]) \/ entries[i].path \in edited
    <3>1. entries[i].path \in Paths
      BY <2>1, Parts
    <3>2. CASE entries[i].path # log
      BY <2>5, <3>1, <3>2
    <3>3. CASE entries[i].path = log
      <4>1. i = 3 /\ entries[i].old = Absent
        <5>1. entries[3].path = log /\ entries[3].old = Absent /\ 3 \in DOMAIN entries
          BY <2>1, Parts
        <5>2. i = 3
          BY <2>1, <3>3, <5>1, TargetsDiffer
        <5>3. QED
          BY <5>1, <5>2
      <4>2. Settles(tree, entries[i]) \/ entries[i].path \in edited
        BY <2>1 DEF Explained
      <4>3. ASSUME Settles(tree, entries[i])
            PROVE  /\ entries[i].new \subseteq tree[log]
                   /\ tree[log] \ entries[i].new \subseteq {Event, Later}
        BY <1>4, <3>3, <4>1, <4>3 DEF Settles
      <4>4. ASSUME Settles(tree, entries[i]) PROVE Settles(tree', entries[i])
        BY <2>2, <2>3, <2>5, <3>3, <4>3, <4>4 DEF Settles
      <4>5. QED
        BY <4>2, <4>4
    <3>4. QED
      BY <3>2, <3>3
  <2>7. Explained(tree', entries, edited)
    <3> HIDE DEF entries, log
    <3>1. QED
      BY <2>1, <2>6, ExplainedKept
  <2>8. OneOpen' /\ Recoverable'
    <3>1. Recorded' = Recorded /\ Explained(tree', manifest'[run.id].entries, edited')
      BY <1>1, <2>7 DEF Recorded
    <3>2. QED
      BY <1>1, <1>2, <2>1, <3>1, OneRunOpen
  <2>9. InHand'
    BY <1>1, <1>2 DEF OpenInv, InHand
  <2>10. RolledBackSettled'
    BY <1>1 DEF OpenInv, RolledBackSettled
  <2>11. QED
    BY <2>8, <2>9, <2>10 DEF OpenInv
<1>5. QED
  BY <1>3, <1>4

LEMMA CommitOpen ==
  ASSUME BaseInv, OpenInv, Commit PROVE OpenInv'
<1>1. /\ run.phase = "commit" /\ run \in Runs /\ Working /\ run # Idle /\ run.id \in Recorded
      /\ run.op \in {"apply", "resume"} /\ UNCHANGED <<tree, edited>>
  BY Busy, RunFields DEF Commit, BaseInv, Working, RunFits, files
<1>2. CASE \A i \in DOMAIN run.entries : Done(run.entries[i])
  <2>1. /\ manifest' = [manifest EXCEPT ![run.id] = Record("applied", run.entries)]
        /\ unsettled' = unsettled \ {run.id} /\ run' = [run EXCEPT !.phase = "audit"]
    BY <1>2 DEF Commit
  <2>2. /\ run'.phase = "audit" /\ run'.id = run.id /\ run'.op = run.op
        /\ run'.entries = run.entries
    BY <1>1, <2>1 DEF Runs
  <2>3. /\ Recorded' = Recorded \cup {run.id} /\ run.id \in Recorded'
        /\ manifest'[run.id] = Record("applied", run.entries)
        /\ \A id \in Recorded' : id # run.id => manifest'[id] = manifest[id]
    BY <1>1, <2>1 DEF Recorded
  <2>4. InHand'
    BY <1>1, <2>2, <2>3 DEF InHand, Record
  <2>5. "applied" \in States /\ unsettled' \subseteq unsettled
    BY <2>1 DEF States
  <2>6. QED
    BY <1>1, <2>2, <2>3, <2>4, <2>5, RecordOpen
<1>3. CASE ~ \A i \in DOMAIN run.entries : Done(run.entries[i])
  <2>1. /\ run' = IF run.op = "apply" THEN [run EXCEPT !.phase = "undo", !.next = @ - 1] ELSE Idle
        /\ UNCHANGED <<manifest, unsettled>>
    BY <1>3 DEF Commit
  <2>2. run' = Idle \/ (/\ run'.id = run.id /\ run'.op = run.op /\ run'.entries = run.entries
                        /\ run.op = "apply" /\ run'.phase = "undo")
    BY <1>1, <2>1 DEF Runs
  <2>3. QED
    BY <1>1, <2>1, <2>2, OnwardOpen
<1>4. QED
  BY <1>2, <1>3

LEMMA StopOpen ==
  ASSUME BaseInv, OpenInv, run # Idle, run' = Idle,
         UNCHANGED <<tree, manifest, edited, unsettled>>
  PROVE  OpenInv'
<1>1. CASE Working
  BY <1>1, OnwardOpen
<1>2. CASE ~ Working
  <2>1. run.phase = "record"
    BY <1>2, RunFields DEF BaseInv, RunFits, Working
  <2>2. run.id \in Recorded => manifest[run.id].state = "rolled_back" /\ run.id \notin unsettled
    BY <2>1 DEF OpenInv, InHand, RolledBackSettled
  <2>3. Recorded' = Recorded /\ ~ Working'
    BY IdleFacts DEF Recorded, Working
  <2>4. OneOpen' /\ Recoverable'
    BY <2>2, <2>3, OneRunOpen
  <2>5. InHand'
    BY IdleFacts DEF InHand
  <2>6. RolledBackSettled'
    BY DEF OpenInv, RolledBackSettled
  <2>7. QED
    BY <2>4, <2>5, <2>6 DEF OpenInv
<1>3. QED
  BY <1>1, <1>2

LEMMA RaiseOpen ==
  ASSUME BaseInv, OpenInv, Raise PROVE OpenInv'
<1>1. /\ run.op = "apply" /\ run.phase \in {"write", "commit", "audit"} /\ run \in Runs /\ Working
      /\ UNCHANGED <<manifest, edited>>
  BY RunFields DEF Raise, BaseInv, Working
<1>2. /\ run'.phase = "undo" /\ run'.id = run.id /\ run'.op = run.op
      /\ run'.entries = run.entries
  BY <1>1 DEF Raise, Runs
<1>3. CASE UNCHANGED <<files, torn, unsettled>>
  <2>1. UNCHANGED <<tree, unsettled>>
    BY <1>3 DEF files
  <2>2. QED
    BY <1>1, <1>2, <2>1, OnwardOpen
<1>4. CASE /\ run.phase = "write" /\ run.next \in DOMAIN run.entries
           /\ Put(run.entries[run.next].path, run.entries[run.next].new)
           /\ torn' = torn \cup {run.entries[run.next].path}
           /\ unsettled' = unsettled \cup {run.id}
  <2>1. run' # Idle
    BY <1>2, IdleFacts
  <2>2. QED
    BY <1>1, <1>2, <1>4, <2>1, TargetOpen
<1>5. QED
  BY <1>3, <1>4 DEF Raise

LEMMA BackwardOpen ==
  ASSUME BaseInv, OpenInv, UndoTarget \/ RestoreTarget PROVE OpenInv'
<1>1. /\ run.phase \in {"undo", "restore"} /\ run.next \in DOMAIN run.entries /\ run \in Runs
      /\ Put(run.entries[run.next].path, run.entries[run.next].old)
      /\ unsettled' = unsettled \cup {run.id} /\ UNCHANGED <<manifest, edited>>
  BY RunFields DEF UndoTarget, RestoreTarget, BaseInv
<1>2. /\ run'.phase = run.phase /\ run'.id = run.id /\ run'.op = run.op
      /\ run'.entries = run.entries
  BY <1>1 DEF UndoTarget, RestoreTarget, Runs
<1>3. run' # Idle /\ Working
  BY <1>1, <1>2, IdleFacts DEF Working
<1>4. QED
  BY <1>1, <1>2, <1>3, TargetOpen

LEMMA EndUndoOpen ==
  ASSUME BaseInv, OpenInv, EndUndo PROVE OpenInv'
<1>1. /\ run.phase = "undo" /\ run # Idle /\ Working /\ run.id \in Recorded
      /\ run' = Idle /\ UNCHANGED <<tree, edited>>
  BY Busy DEF EndUndo, BaseInv, RunFits, Working
<1>2. InHand'
  BY <1>1, IdleFacts DEF InHand
<1>3. CASE /\ manifest' = [id \in Recorded \ {run.id} |-> manifest[id]]
           /\ unsettled' = unsettled \ {run.id}
  <2>1. /\ Recorded' = Recorded \ {run.id}
        /\ \A id \in Recorded' : manifest'[id] = manifest[id]
    BY <1>3 DEF Recorded
  <2>2. OneOpen' /\ Recoverable'
    BY <1>1, <1>3, <2>1, OneRunOpen
  <2>3. RolledBackSettled'
    BY <1>3, <2>1 DEF OpenInv, RolledBackSettled, BaseInv, TypeOK
  <2>4. QED
    BY <1>2, <2>2, <2>3 DEF OpenInv
<1>4. CASE /\ manifest' = [manifest EXCEPT ![run.id] = Record("partial", run.entries)]
           /\ UNCHANGED unsettled
  <2>1. /\ Recorded' = Recorded \cup {run.id} /\ run.id \in Recorded'
        /\ manifest'[run.id] = Record("partial", run.entries)
        /\ \A id \in Recorded' : id # run.id => manifest'[id] = manifest[id]
    BY <1>1, <1>4 DEF Recorded
  <2>2. "partial" \in States /\ unsettled' \subseteq unsettled
    BY <1>4 DEF States
  <2>3. QED
    BY <1>1, <1>2, <2>1, <2>2, RecordOpen
<1>5. QED
  BY <1>3, <1>4 DEF EndUndo

LEMMA EndRollbackOpen ==
  ASSUME BaseInv, OpenInv, EndRollback PROVE OpenInv'
<1>1. /\ run.phase = "restore" /\ run # Idle /\ run.op = "rollback" /\ run \in Runs
      /\ run.id \in Recorded /\ UNCHANGED <<tree, edited>> /\ unsettled' = unsettled \ {run.id}
  BY Busy, RunFields DEF EndRollback, BaseInv, RunFits
<1>2. /\ run'.phase = "audit" /\ run'.op = "rollback" /\ run'.id = run.id
      /\ run'.entries = run.entries
  BY <1>1 DEF EndRollback, Runs
<1>3. /\ Recorded' = Recorded \cup {run.id} /\ run.id \in Recorded'
      /\ manifest'[run.id] = Record("rolled_back", run.entries)
      /\ \A id \in Recorded' : id # run.id => manifest'[id] = manifest[id]
  BY <1>1 DEF EndRollback, Recorded
<1>4. InHand'
  BY <1>2, <1>3 DEF InHand, Record
<1>5. "rolled_back" \in States /\ unsettled' \subseteq unsettled /\ run.id \notin unsettled'
  BY <1>1 DEF States
<1>6. QED
  BY <1>1, <1>2, <1>3, <1>4, <1>5, RecordOpen

LEMMA AuthorOpen ==
  ASSUME BaseInv, OpenInv, NEW w \in Wikis, Author(w) PROVE OpenInv'
<1>1. UNCHANGED <<tree, manifest, run, edited, unsettled>>
  BY DEF Author, files
<1>2. QED
  BY <1>1 DEF OpenInv, OneOpen, InHand, RolledBackSettled, Recoverable, Open, Working, Recorded

LEMMA EditOpen ==
  ASSUME BaseInv, OpenInv, NEW f \in Editable, Edit(f) PROVE OpenInv'
<1>1. /\ f \in Paths /\ tree \in [Paths -> Content] /\ run \in Runs
      /\ edited' = edited \cup {f} /\ UNCHANGED <<manifest, unsettled>>
  BY ProvisionConstants, RunFields DEF Edit, BaseInv, TypeOK
<1>2. \A g \in Paths : g # f => tree'[g] = tree[g]
  BY <1>1 DEF Edit
<1>3. \/ run = Idle /\ run' = Idle
      \/ run # Idle /\ run' = [run EXCEPT !.raced = run.raced \cup {f}]
  BY <1>1 DEF Edit, Noticed, Runs
<1>4. /\ run'.phase = run.phase /\ run'.op = run.op /\ run'.id = run.id
      /\ run'.entries = run.entries
  BY <1>1, <1>3 DEF Runs
<1>5. run' = Idle => run = Idle
  BY <1>4, IdleFacts DEF BaseInv, RunFits
<1>6. /\ Recorded' = Recorded /\ (Working' <=> Working)
      /\ \A id \in Recorded : (Open(id)' <=> Open(id))
  BY <1>1, <1>4 DEF Recorded, Working, Open
<1>7. OneOpen'
  BY <1>3, <1>4, <1>6 DEF OpenInv, OneOpen
<1>8. InHand' /\ RolledBackSettled'
  BY <1>1, <1>4, <1>6 DEF OpenInv, InHand, RolledBackSettled
<1>9. ASSUME NEW id \in Recorded, Explained(tree, manifest[id].entries, edited)
      PROVE  Explained(tree', manifest[id].entries, edited')
  <2>1. \A i \in DOMAIN manifest[id].entries : manifest[id].entries[i].path \in Paths
    BY RecordFields, Parts
  <2>2. \A i \in DOMAIN manifest[id].entries :
          \/ tree'[manifest[id].entries[i].path] = tree[manifest[id].entries[i].path]
          \/ manifest[id].entries[i].path \in edited'
    BY <1>1, <1>2, <2>1
  <2>3. edited \subseteq edited'
    BY <1>1
  <2>4. QED
    BY <1>9, <2>2, <2>3, ExplainedKept
<1>10. Recoverable'
  BY <1>1, <1>4, <1>6, <1>9 DEF OpenInv, Recoverable
<1>11. QED
  BY <1>7, <1>8, <1>10 DEF OpenInv

LEMMA NextOpen ==
  ASSUME FinishFirst, BaseInv, OpenInv, [Next]_vars PROVE OpenInv'
<1>1. CASE UNCHANGED vars
  <2>1. UNCHANGED <<tree, manifest, run, edited, unsettled>>
    BY <1>1 DEF vars, files
  <2>2. QED
    BY <2>1 DEF OpenInv, OneOpen, InHand, RolledBackSettled, Recoverable, Open, Working, Recorded
<1>2. ASSUME NEW w \in Wikis, DryRun(w) \/ BeginApply(w) \/ Author(w) \/ AppendLater(w)
      PROVE  OpenInv'
  BY <1>2, QuietOpen, BeginSteps, AuthorOpen
<1>3. ASSUME NEW id \in Recorded, BeginResume(id) \/ Verify(id) \/ BeginRollback(id)
      PROVE  OpenInv'
  BY <1>3, QuietOpen, BeginSteps
<1>4. CASE Progress
  <2>1. ASSUME Audit PROVE OpenInv'
    BY <2>1, IdleFacts, StopOpen DEF Audit, files
  <2>2. QED
    BY <1>4, <2>1, WriteManifestOpen, WriteTargetOpen, AppendEventOpen, CommitOpen,
       BackwardOpen, EndUndoOpen, EndRollbackOpen DEF Progress
<1>5. CASE Raise
  BY <1>5, RaiseOpen
<1>6. CASE Crash
  BY <1>6, StopOpen DEF Crash
<1>7. ASSUME NEW f \in Editable, Edit(f) PROVE OpenInv'
  BY <1>7, EditOpen
<1>8. QED
  BY <1>1, <1>2, <1>3, <1>4, <1>5, <1>6, <1>7 DEF Next

LEMMA InitOpen == Init => OpenInv
  BY IdleFacts DEF Init, OpenInv, OneOpen, InHand, RolledBackSettled, Recoverable, Recorded

(* Settling one transaction before another leaves at most one open, and    *)
(* its targets explained.                                                  *)
THEOREM OpenInvariance == FinishFirst => (Spec => [](BaseInv /\ OpenInv))
<1> SUFFICES ASSUME FinishFirst PROVE Spec => [](BaseInv /\ OpenInv)
  OBVIOUS
<1>1. Init => BaseInv /\ OpenInv
  BY InitBase, InitOpen
<1>2. BaseInv /\ OpenInv /\ [Next]_vars => BaseInv' /\ OpenInv'
  BY NextBase, NextOpen
<1>3. QED
  BY <1>1, <1>2, PTL DEF Spec

(* Wherever a transaction stopped, in an apply, in its undo or in a        *)
(* rollback, both recovery paths accept every target nobody edited         *)
(* (gardening.py:1278).                                                    *)
THEOREM NeverIsWedged == FinishFirst => (Spec => []NeverWedged)
<1> SUFFICES ASSUME FinishFirst PROVE Spec => []NeverWedged
  OBVIOUS
<1>1. BaseInv /\ OpenInv => NeverWedged
  BY ForeignOrSettled DEF OpenInv, Recoverable, Explained, NeverWedged
<1>2. Spec => [](BaseInv /\ OpenInv)
  BY OpenInvariance
<1>3. QED
  BY <1>1, <1>2, PTL

-----------------------------------------------------------------------------
(* How far a run has come                                                  *)

EventCommitted ==
  \A id \in Recorded : manifest[id].state = "applied" => Event \in manifest[id].entries[3].new

LEMMA RunInvParts ==
  RunInv => EventCommitted
  BY DEF RunInv, Committed, EventCommitted

LEMMA NoRun ==
  ASSUME run' = Idle, EventCommitted' PROVE RunInv'
  BY IdleFacts DEF RunInv, Counted, Unwritten, Restored, Committed, EventCommitted

LEMMA RecordsStay ==
  ASSUME RunInv, UNCHANGED manifest PROVE EventCommitted'
  BY RunInvParts DEF EventCommitted, Recorded

LEMMA BeginRun ==
  ASSUME BaseInv, RunInv,
         \/ \E w \in Wikis : BeginApply(w)
         \/ \E id \in Recorded : BeginResume(id) \/ BeginRollback(id)
  PROVE  RunInv'
<1>1. ASSUME NEW w \in Wikis, BeginApply(w) PROVE RunInv'
  <2>1. /\ run'.phase = "record" /\ run'.op = "apply" /\ run'.entries = PlanChanges(w)
        /\ run'.next = 1 /\ run'.count = 0 /\ UNCHANGED <<tree, manifest>>
    BY <1>1 DEF BeginApply, Idle, files
  <2>2. /\ \A i \in DOMAIN PlanChanges(w) :
             PlanChanges(w)[i].old = tree[PlanChanges(w)[i].path]
        /\ WellPlanned(PlanId(w)) /\ Fits(PlanChanges(w), PlanId(w))
    BY <1>1, PlanIsWell DEF BeginApply
  <2>3. Len(PlanChanges(w)) \in {3, 4}
    BY <2>2, Parts
  <2>4. Counted' /\ Restored'
    BY <2>1, <2>3 DEF Counted, Restored
  <2>5. Unwritten'
    BY <2>1, <2>2 DEF Unwritten, AsBefore
  <2>6. Committed'
    BY <2>1, RecordsStay DEF Committed, EventCommitted
  <2>7. QED
    BY <2>4, <2>5, <2>6 DEF RunInv
<1>2. ASSUME NEW id \in Recorded, BeginResume(id) PROVE RunInv'
  <2>1. /\ run'.phase = "write" /\ run'.op = "resume" /\ run'.entries = manifest[id].entries
        /\ run'.next = 1 /\ UNCHANGED <<tree, manifest>>
    BY <1>2 DEF BeginResume, Idle, files
  <2>2. Len(manifest[id].entries) \in {3, 4}
    BY RecordFields, Parts
  <2>3. Counted' /\ Restored' /\ Unwritten'
    BY <2>1, <2>2 DEF Counted, Restored, Unwritten
  <2>4. Committed'
    BY <2>1, RecordsStay DEF Committed, EventCommitted
  <2>5. QED
    BY <2>3, <2>4 DEF RunInv
<1>3. ASSUME NEW id \in Recorded, BeginRollback(id) PROVE RunInv'
  <2>1. /\ run'.phase = "restore" /\ run'.op = "rollback" /\ run'.entries = manifest[id].entries
        /\ run'.next = Len(manifest[id].entries) /\ UNCHANGED <<tree, manifest>>
    BY <1>3 DEF BeginRollback, Idle, files
  <2>2. Len(manifest[id].entries) \in {3, 4}
        /\ DOMAIN manifest[id].entries = 1 .. Len(manifest[id].entries)
    BY RecordFields, Parts
  <2>3. Counted' /\ Restored' /\ Unwritten'
    BY <2>1, <2>2 DEF Counted, Restored, Unwritten
  <2>4. Committed'
    BY <2>1, <2>2, RecordsStay DEF Committed, EventCommitted
  <2>5. QED
    BY <2>3, <2>4 DEF RunInv
<1>4. QED
  BY <1>1, <1>2, <1>3

LEMMA WriteManifestRun ==
  ASSUME BaseInv, OpenInv, RunInv, WriteManifest PROVE RunInv'
<1>1. run.phase = "record" /\ run \in Runs /\ run.op = "apply"
  BY Busy, RunFields DEF WriteManifest, BaseInv, RunFits
<1>2. /\ run'.phase = "write" /\ run'.id = run.id /\ run'.op = "apply" /\ run'.next = run.next
      /\ run'.entries = run.entries /\ run'.count = run.count
      /\ UNCHANGED <<tree, edited, torn>>
  BY <1>1 DEF WriteManifest, files, Runs
<1>3. /\ Recorded' = Recorded \cup {run.id}
      /\ manifest'[run.id] = Record("pending", run.entries)
      /\ \A id \in Recorded' : id # run.id => manifest'[id] = manifest[id]
  BY DEF WriteManifest, With, Recorded
<1>4. Counted' /\ Restored' /\ Unwritten'
  BY <1>1, <1>2 DEF RunInv, Counted, Restored, Unwritten
<1>5. Committed'
  BY <1>2, <1>3 DEF RunInv, Committed, Record
<1>6. QED
  BY <1>4, <1>5 DEF RunInv

LEMMA Lengths ==
  ASSUME BaseInv, run.phase # "idle"
  PROVE  /\ run \in Runs /\ run.next \in Nat /\ run.count \in Nat
         /\ Len(run.entries) \in {3, 4} /\ DOMAIN run.entries = 1 .. Len(run.entries)
         /\ \A i \in DOMAIN run.entries : i \in Nat
  BY Busy, Parts, RunFields DEF BaseInv

LEMMA WriteTargetRun ==
  ASSUME BaseInv, OpenInv, RunInv, WriteTarget PROVE RunInv'
<1>1. /\ run.phase = "write" /\ run.next \in DOMAIN run.entries /\ run \in Runs
      /\ run.next \in Nat /\ run.count \in Nat /\ run.op \in {"apply", "resume"}
      /\ Len(run.entries) \in {3, 4} /\ DOMAIN run.entries = 1 .. Len(run.entries)
  <2>1. run.phase = "write" /\ run.next \in DOMAIN run.entries
    BY DEF WriteTarget
  <2>2. run.op \in {"apply", "resume"}
    BY <2>1, Busy, RunFields DEF BaseInv, RunFits
  <2>3. QED
    BY <2>1, <2>2, Lengths
<1>2. /\ run'.phase = "write" /\ run'.id = run.id /\ run'.op = run.op
      /\ run'.next = run.next + 1 /\ run'.count = run.next
      /\ run'.entries = run.entries /\ UNCHANGED <<manifest, edited, torn>>
  BY <1>1 DEF WriteTarget, Runs
<1>3. \A j \in DOMAIN run.entries :
        j # run.next => tree'[run.entries[j].path] = tree[run.entries[j].path]
  <2>1. CASE run.next \in run.todo
    <3>1. Put(run.entries[run.next].path, run.entries[run.next].new)
      BY <2>1 DEF WriteTarget
    <3>2. run.phase # "idle"
      BY <1>1
    <3>3. QED
      BY <1>1, <3>1, <3>2, TargetWritten
  <2>2. CASE run.next \notin run.todo
    BY <2>2 DEF WriteTarget, files
  <2>3. QED
    BY <2>1, <2>2
<1>4. Counted' /\ Restored'
  BY <1>1, <1>2 DEF RunInv, Counted, Restored
<1>5. Unwritten'
  <2>1. ASSUME run.op = "apply", NEW i \in DOMAIN run.entries, i > run.next
        PROVE  AsBefore(tree', run.entries[i], edited) \/ run.entries[i].path \in torn
    <3>1. run.count + 1 = run.next
      BY <1>1, <2>1 DEF RunInv, Counted
    <3>2. i > run.count /\ i # run.next
      BY <1>1, <2>1, <3>1
    <3>3. AsBefore(tree, run.entries[i], edited) \/ run.entries[i].path \in torn
      BY <1>1, <2>1, <3>2 DEF RunInv, Unwritten
    <3>4. QED
      BY <1>3, <3>2, <3>3 DEF AsBefore
  <2>2. QED
    BY <1>2, <2>1 DEF Unwritten
<1>6. Committed'
  BY <1>1, <1>2 DEF RunInv, Committed, Recorded
<1>7. QED
  BY <1>4, <1>5, <1>6 DEF RunInv

LEMMA NewBytes ==
  ASSUME NEW e \in Changes, NEW content
  PROVE  [e EXCEPT !.new = content].new = content
  BY DEF Changes

LEMMA AppendEventRun ==
  ASSUME BaseInv, OpenInv, RunInv, AppendEvent PROVE RunInv'
<1> DEFINE log == Log(run.id.wiki)
<1>1. /\ run.phase = "write" /\ run.next > Len(run.entries) /\ run \in Runs
      /\ run.next \in Nat /\ run.count \in Nat /\ run.op \in {"apply", "resume"}
      /\ Len(run.entries) \in {3, 4} /\ DOMAIN run.entries = 1 .. Len(run.entries)
      /\ UNCHANGED manifest
  <2>1. run.phase = "write" /\ run.next > Len(run.entries) /\ UNCHANGED manifest
    BY DEF AppendEvent
  <2>2. run.op \in {"apply", "resume"}
    BY <2>1, Busy, RunFields DEF BaseInv, RunFits
  <2>3. QED
    BY <2>1, <2>2, Lengths
<1>2. /\ run'.phase = "commit" /\ run'.id = run.id /\ run'.op = run.op /\ run'.next = run.next
      /\ run'.count = run.count
  BY <1>1 DEF AppendEvent, Runs
<1>3. Len(run'.entries) = Len(run.entries)
  <2>1. BaseInv'
    BY AppendEventBase
  <2>2. Fits(run.entries, run.id) /\ Fits(run'.entries, run.id)
    BY <1>1, <1>2, <2>1, Busy, IdleFacts DEF BaseInv, RunFits
  <2>3. QED
    BY <2>2 DEF Fits
<1>4. Counted' /\ Restored' /\ Unwritten'
  BY <1>1, <1>2, <1>3 DEF RunInv, Counted, Restored, Unwritten
<1>5. tree'[log] = Absent \/ Event \in run'.entries[3].new
  <2>1. CASE tree[log] = Absent
    BY <2>1 DEF AppendEvent, files
  <2>2. CASE tree[log] # Absent
    <3>1. /\ 3 \in DOMAIN run.entries /\ run.entries[3].path = log
          /\ run.entries[3] \in Changes
      BY <1>1, Busy, Parts
    <3>2. run'.entries[3] = [run.entries[3] EXCEPT !.new = tree[log] \cup {Event}]
      <4> DEFINE grown == [i \in DOMAIN run.entries |->
                            IF run.entries[i].path = log
                            THEN [run.entries[i] EXCEPT !.new = tree[log] \cup {Event}]
                            ELSE run.entries[i]]
      <4>1. run' = [run EXCEPT !.phase = "commit", !.entries = grown]
        BY <2>2 DEF AppendEvent
      <4>2. grown[3] = [run.entries[3] EXCEPT !.new = tree[log] \cup {Event}]
        BY <3>1
      <4> HIDE DEF grown
      <4>3. run'.entries = grown
        BY <1>1, <4>1 DEF Runs
      <4>4. QED
        BY <4>2, <4>3
    <3>3. run'.entries[3].new = tree[log] \cup {Event}
      BY <3>1, <3>2, NewBytes
    <3>4. QED
      BY <3>3
  <2>3. QED
    BY <2>1, <2>2
<1>6. Committed'
  BY <1>1, <1>2, <1>5 DEF RunInv, Committed, Recorded
<1>7. QED
  BY <1>4, <1>6 DEF RunInv

LEMMA CommitRun ==
  ASSUME BaseInv, OpenInv, RunInv, Commit PROVE RunInv'
<1>1. /\ run.phase = "commit" /\ run.op \in {"apply", "resume"} /\ UNCHANGED <<tree, edited, torn>>
      /\ run.id \in Recorded /\ WellPlanned(run.id) /\ Fits(run.entries, run.id)
  BY Busy, RunFields DEF Commit, BaseInv, RunFits, files
<1>2. /\ run \in Runs /\ run.next \in Nat /\ run.count \in Nat
      /\ Len(run.entries) \in {3, 4} /\ DOMAIN run.entries = 1 .. Len(run.entries)
  BY <1>1, Lengths
<1>3. CASE \A i \in DOMAIN run.entries : Done(run.entries[i])
  <2>1. /\ manifest' = [manifest EXCEPT ![run.id] = Record("applied", run.entries)]
        /\ run' = [run EXCEPT !.phase = "audit"]
    BY <1>3 DEF Commit
  <2>2. /\ run'.phase = "audit" /\ run'.id = run.id /\ run'.op = run.op
        /\ run'.entries = run.entries /\ run'.next = run.next /\ run'.count = run.count
    BY <1>2, <2>1 DEF Runs
  <2>3. /\ Recorded' = Recorded
        /\ manifest'[run.id] = Record("applied", run.entries)
        /\ \A id \in Recorded' : id # run.id => manifest'[id] = manifest[id]
    BY <1>1, <2>1 DEF Recorded
  <2>4. Event \in run.entries[3].new
    <3>1. /\ run.entries[3].path = Log(run.id.wiki) /\ 3 \in DOMAIN run.entries
          /\ run.entries[3].new \in SUBSET Marks
      BY <1>1, Parts
    <3>2. tree[Log(run.id.wiki)] # Absent
      BY <1>3, <3>1, MarksAreContent DEF Done, Grown
    <3>3. QED
      BY <1>1, <3>2 DEF RunInv, Committed
  <2>5. Counted' /\ Restored' /\ Unwritten'
    BY <1>1, <2>2 DEF RunInv, Counted, Restored, Unwritten
  <2>6. Committed'
    BY <1>1, <2>2, <2>3, <2>4 DEF RunInv, Committed, Record
  <2>7. QED
    BY <2>5, <2>6 DEF RunInv
<1>4. CASE ~ \A i \in DOMAIN run.entries : Done(run.entries[i])
  <2>1. /\ run' = IF run.op = "apply" THEN [run EXCEPT !.phase = "undo", !.next = @ - 1] ELSE Idle
        /\ UNCHANGED <<manifest, unsettled>>
    BY <1>4 DEF Commit
  <2>2. EventCommitted'
    BY <2>1, RecordsStay
  <2>3. CASE run.op = "apply"
    <3>1. /\ run'.phase = "undo" /\ run'.id = run.id /\ run'.op = run.op
          /\ run'.entries = run.entries /\ run'.next = run.next - 1 /\ run'.count = run.count
      BY <1>2, <2>1, <2>3 DEF Runs
    <3>2. run.count = Len(run.entries) /\ run.next = Len(run.entries) + 1
      BY <1>1, <2>3 DEF RunInv, Counted
    <3>3. Counted' /\ Restored' /\ Unwritten'
      BY <1>2, <3>1, <3>2 DEF Counted, Restored, Unwritten
    <3>4. Committed'
      BY <1>2, <2>2, <3>1, <3>2 DEF Committed, EventCommitted
    <3>5. QED
      BY <3>3, <3>4 DEF RunInv
  <2>4. CASE run.op # "apply"
    BY <2>1, <2>2, <2>4, NoRun
  <2>5. QED
    BY <2>3, <2>4
<1>5. QED
  BY <1>3, <1>4

LEMMA RaiseRun ==
  ASSUME BaseInv, OpenInv, RunInv, Raise PROVE RunInv'
<1>1. /\ run.op = "apply" /\ run.phase \in {"write", "commit", "audit"} /\ run \in Runs
      /\ run.next \in Nat /\ run.count \in Nat /\ UNCHANGED <<manifest, edited>>
      /\ Len(run.entries) \in {3, 4} /\ DOMAIN run.entries = 1 .. Len(run.entries)
  BY Lengths DEF Raise
<1>2. /\ run'.phase = "undo" /\ run'.id = run.id /\ run'.op = "apply"
      /\ run'.entries = run.entries /\ run'.next = run.next - 1 /\ run'.count = run.count
  BY <1>1 DEF Raise, Runs
<1>3. /\ run.next = run.count + 1 /\ run.count <= Len(run.entries)
      /\ run.phase # "write" => run.count = Len(run.entries)
  BY <1>1 DEF RunInv, Counted
<1>4. Counted' /\ Restored'
  BY <1>1, <1>2, <1>3 DEF Counted, Restored
<1>5. Unwritten'
  <2>1. ASSUME NEW i \in DOMAIN run.entries, i > run.count
        PROVE  AsBefore(tree', run.entries[i], edited) \/ run.entries[i].path \in torn'
    <3>1. run.phase = "write"
      BY <1>1, <1>3, <2>1
    <3>2. AsBefore(tree, run.entries[i], edited) \/ run.entries[i].path \in torn
      BY <1>1, <2>1, <3>1 DEF RunInv, Unwritten
    <3>3. CASE UNCHANGED <<files, torn, unsettled>>
      BY <3>2, <3>3 DEF files
    <3>4. CASE /\ run.next \in DOMAIN run.entries
               /\ Put(run.entries[run.next].path, run.entries[run.next].new)
               /\ torn' = torn \cup {run.entries[run.next].path}
      <4>1. run.phase # "idle"
        BY <3>1
      <4>2. i # run.next => tree'[run.entries[i].path] = tree[run.entries[i].path]
        BY <3>4, <4>1, TargetWritten
      <4>3. QED
        BY <3>2, <3>4, <4>2 DEF AsBefore
    <3>5. QED
      BY <3>3, <3>4 DEF Raise
  <2>2. QED
    BY <1>1, <1>2, <2>1 DEF Unwritten
<1>6. Committed'
  <2>1. EventCommitted'
    BY <1>1, RecordsStay
  <2>2. ASSUME run.next - 1 < Len(run.entries) PROVE manifest[run.id].state = "pending"
    <3>1. run.phase = "write"
      BY <1>1, <1>3, <2>2
    <3>2. QED
      BY <1>1, <3>1 DEF RunInv, Committed
  <2>3. run'.next < Len(run'.entries) => ~ Settled(run.id)'
    BY <1>1, <1>2, <2>2 DEF Settled
  <2>4. QED
    BY <1>2, <2>1, <2>3 DEF Committed, EventCommitted, Settled
<1>7. QED
  BY <1>4, <1>5, <1>6 DEF RunInv

LEMMA BackwardRun ==
  ASSUME BaseInv, OpenInv, RunInv, UndoTarget \/ RestoreTarget PROVE RunInv'
<1>1. /\ run.phase \in {"undo", "restore"} /\ run.next \in DOMAIN run.entries
      /\ Put(run.entries[run.next].path, run.entries[run.next].old)
      /\ unsettled' = unsettled \cup {run.id} /\ UNCHANGED <<manifest, edited, torn>>
  BY DEF UndoTarget, RestoreTarget
<1>2. /\ run \in Runs /\ run.next \in Nat /\ run.count \in Nat
      /\ Len(run.entries) \in {3, 4} /\ DOMAIN run.entries = 1 .. Len(run.entries)
      /\ run.op \notin {"resume"} /\ run.next - 1 \in Nat
  BY <1>1, Lengths DEF BaseInv, RunFits
<1>3. /\ run'.phase = run.phase /\ run'.id = run.id /\ run'.op = run.op
      /\ run'.entries = run.entries /\ run'.next = run.next - 1 /\ run'.count = run.count
  BY <1>2 DEF UndoTarget, RestoreTarget, Runs
<1>4. /\ tree'[run.entries[run.next].path] = run.entries[run.next].old
      /\ \A j \in DOMAIN run.entries :
           j # run.next => tree'[run.entries[j].path] = tree[run.entries[j].path]
  <2>1. run.phase # "idle"
    BY <1>1
  <2>2. QED
    BY <1>1, <2>1, TargetWritten
<1>5. Counted'
  BY <1>1, <1>2, <1>3 DEF RunInv, Counted, BaseInv, RunFits
<1>6. Unwritten'
  <2>1. ASSUME run.phase = "undo", NEW i \in DOMAIN run.entries, i > run.count, run.op = "apply"
        PROVE  AsBefore(tree', run.entries[i], edited) \/ run.entries[i].path \in torn
    <3>1. run.next <= run.count
      BY <2>1 DEF RunInv, Counted
    <3>2. i # run.next
      BY <1>2, <2>1, <3>1
    <3>3. QED
      BY <1>4, <2>1, <3>2 DEF RunInv, Unwritten, AsBefore
  <2>2. QED
    BY <1>1, <1>3, <2>1 DEF Unwritten
<1>7. Restored'
  <2>1. ASSUME run.phase = "restore", NEW i \in DOMAIN run.entries, i > run.next - 1
        PROVE  AsBefore(tree', run.entries[i], edited)
    <3>1. CASE i = run.next
      BY <1>4, <3>1 DEF AsBefore
    <3>2. CASE i # run.next
      <4>1. i > run.next
        BY <1>2, <2>1, <3>2
      <4>2. QED
        BY <1>4, <2>1, <3>2, <4>1 DEF RunInv, Restored, AsBefore
    <3>3. QED
      BY <3>1, <3>2
  <2>2. QED
    BY <1>1, <1>3, <2>1 DEF Restored
<1>8. Committed'
  <2>1. EventCommitted'
    BY <1>1, RecordsStay
  <2>2. run'.id \in unsettled'
    BY <1>1, <1>3
  <2>3. QED
    BY <1>1, <1>3, <2>1, <2>2 DEF Committed, EventCommitted, Settled
<1>9. QED
  BY <1>5, <1>6, <1>7, <1>8 DEF RunInv

LEMMA EndRun ==
  ASSUME BaseInv, OpenInv, RunInv, EndUndo \/ EndRollback PROVE RunInv'
<1>1. run.phase \in {"undo", "restore"} /\ run.id \in Recorded /\ run \in Runs
  BY RunFields DEF EndUndo, EndRollback, BaseInv, RunFits
<1>2. \A id \in Recorded' : /\ id \in Recorded
                            /\ manifest'[id] = manifest[id] \/ manifest'[id].state # "applied"
  BY <1>1 DEF EndUndo, EndRollback, Record, Recorded
<1>3. EventCommitted'
  BY <1>2, RunInvParts DEF EventCommitted
<1>4. CASE EndUndo
  <2>1. run' = Idle
    BY <1>4 DEF EndUndo
  <2>2. QED
    BY <1>3, <2>1, NoRun
<1>5. CASE EndRollback
  <2>1. run.phase = "restore" /\ run.op = "rollback"
    BY <1>5, Busy, RunFields DEF EndRollback, BaseInv, RunFits
  <2>2. run'.phase = "audit" /\ run'.op = "rollback"
    BY <1>1, <1>5, <2>1 DEF EndRollback, Runs
  <2>3. QED
    BY <1>3, <2>2 DEF RunInv, Counted, Unwritten, Restored, Committed, EventCommitted
<1>6. QED
  BY <1>4, <1>5

LEMMA EditRun ==
  ASSUME BaseInv, RunInv, NEW f \in Editable, Edit(f) PROVE RunInv'
<1>1. /\ f \in Paths /\ tree \in [Paths -> Content] /\ run \in Runs
      /\ edited' = edited \cup {f} /\ UNCHANGED <<manifest, unsettled, torn>>
  BY ProvisionConstants, RunFields DEF Edit, BaseInv, TypeOK
<1>2. \A g \in Paths : g # f => tree'[g] = tree[g]
  BY <1>1 DEF Edit
<1>3. \/ run = Idle /\ run' = Idle
      \/ run # Idle /\ run' = [run EXCEPT !.raced = run.raced \cup {f}]
  BY <1>1 DEF Edit, Noticed, Runs
<1>4. /\ run'.phase = run.phase /\ run'.op = run.op /\ run'.id = run.id
      /\ run'.entries = run.entries /\ run'.next = run.next /\ run'.count = run.count
  BY <1>1, <1>3 DEF Runs
<1>5. ASSUME NEW i \in DOMAIN run.entries, AsBefore(tree, run.entries[i], edited)
      PROVE  AsBefore(tree', run.entries[i], edited')
  <2> DEFINE e == run.entries[i]
  <2>1. e.path \in Paths
    <3>1. run # Idle
      BY IdleFacts
    <3>2. QED
      BY <3>1, Parts DEF BaseInv, RunFits
  <2>2. CASE e.path # f
    BY <1>1, <1>2, <1>5, <2>1, <2>2 DEF AsBefore
  <2>3. CASE e.path = f
    <3>1. tree[f] # Absent /\ (tree'[f] = tree[f] \cup {Edited(f)} \/ tree'[f] = Absent)
      BY <1>1 DEF Edit
    <3>2. Edited(f) \notin WikiMarks
      BY <1>1, MarkFacts
    <3>3. tree'[f] = Absent \/ tree'[f] \cap WikiMarks = tree[f] \cap WikiMarks
      BY <3>1, <3>2
    <3>4. e.old # Absent /\ tree[f] \cap WikiMarks = e.old \cap WikiMarks
      BY <1>5, <2>3, <3>1 DEF AsBefore
    <3>5. QED
      BY <1>1, <2>3, <3>3, <3>4 DEF AsBefore
  <2>4. QED
    BY <2>2, <2>3
<1>6. Counted'
  BY <1>4 DEF RunInv, Counted
<1>7. Unwritten'
  BY <1>1, <1>4, <1>5 DEF RunInv, Unwritten
<1>8. Restored'
  BY <1>1, <1>4, <1>5 DEF RunInv, Restored
<1>9. Committed'
  <2>1. run.phase = "commit" /\ tree[Log(run.id.wiki)] = Absent => tree'[Log(run.id.wiki)] = Absent
    <3>1. ASSUME run.phase = "commit", tree[Log(run.id.wiki)] = Absent
          PROVE  tree'[Log(run.id.wiki)] = Absent
      <4>1. run.id.wiki \in Wikis
        BY <3>1, Busy, Parts
      <4>2. Log(run.id.wiki) \in Paths
        BY <4>1, OwnPaths
      <4>3. Log(run.id.wiki) # f
        BY <3>1 DEF Edit
      <4>4. QED
        BY <1>2, <3>1, <4>2, <4>3
    <3>2. QED
      BY <3>1
  <2>2. QED
    BY <1>1, <1>4, <2>1 DEF RunInv, Committed, Recorded, Settled
<1>10. QED
  BY <1>6, <1>7, <1>8, <1>9 DEF RunInv

LEMMA NextRun ==
  ASSUME BaseInv, OpenInv, RunInv, [Next]_vars PROVE RunInv'
<1>1. ASSUME UNCHANGED <<tree, manifest, run, edited, torn, unsettled>> PROVE RunInv'
  BY <1>1 DEF RunInv, Counted, Unwritten, Restored, Committed, Recorded, Settled
<1>2. CASE UNCHANGED vars
  BY <1>1, <1>2 DEF vars, files
<1>3. ASSUME run' = Idle, UNCHANGED manifest PROVE RunInv'
  BY <1>3, RecordsStay, NoRun
<1>4. ASSUME NEW w \in Wikis, DryRun(w) \/ BeginApply(w) \/ Author(w) \/ AppendLater(w)
      PROVE  RunInv'
  <2>1. CASE DryRun(w) \/ AppendLater(w)
    BY <1>3, <2>1 DEF DryRun, AppendLater
  <2>2. CASE BeginApply(w)
    BY <2>2, BeginRun
  <2>3. CASE Author(w)
    BY <1>1, <2>3 DEF Author, files
  <2>4. QED
    BY <1>4, <2>1, <2>2, <2>3
<1>5. ASSUME NEW id \in Recorded, BeginResume(id) \/ Verify(id) \/ BeginRollback(id)
      PROVE  RunInv'
  <2>1. CASE Verify(id)
    BY <1>3, <2>1 DEF Verify
  <2>2. CASE BeginResume(id) \/ BeginRollback(id)
    BY <2>2, BeginRun
  <2>3. QED
    BY <1>5, <2>1, <2>2
<1>6. CASE Progress
  <2>1. ASSUME Audit PROVE RunInv'
    BY <1>3, <2>1 DEF Audit
  <2>2. QED
    BY <1>6, <2>1, WriteManifestRun, WriteTargetRun, AppendEventRun, CommitRun,
       BackwardRun, EndRun DEF Progress
<1>7. CASE Raise
  BY <1>7, RaiseRun
<1>8. CASE Crash
  BY <1>3, <1>8 DEF Crash
<1>9. ASSUME NEW f \in Editable, Edit(f) PROVE RunInv'
  BY <1>9, EditRun
<1>10. QED
  BY <1>2, <1>4, <1>5, <1>6, <1>7, <1>8, <1>9 DEF Next

(* A run writes targets of its plan.                                       *)
LEMMA NextTargeted ==
  ASSUME BaseInv, Targeted, [Next]_vars PROVE Targeted'
<1>1. run \in Runs
  BY RunFields DEF BaseInv
<1>2. ASSUME run' = Idle PROVE Targeted'
  BY <1>2 DEF Targeted, Idle
<1>3. ASSUME run'.todo = run.todo, DOMAIN run'.entries = DOMAIN run.entries PROVE Targeted'
  BY <1>3 DEF Targeted
<1>4. CASE UNCHANGED vars
  BY <1>3, <1>4 DEF vars
<1>5. ASSUME NEW w \in Wikis, DryRun(w) \/ BeginApply(w) \/ Author(w) \/ AppendLater(w)
      PROVE  Targeted'
  BY <1>2, <1>3, <1>5 DEF DryRun, BeginApply, Author, AppendLater, Targeted, Idle
<1>6. ASSUME NEW id \in Recorded, BeginResume(id) \/ Verify(id) \/ BeginRollback(id)
      PROVE  Targeted'
  BY <1>2, <1>3, <1>6 DEF BeginResume, Verify, BeginRollback, Targeted, Idle
<1>7. CASE Progress \/ Raise \/ Crash
  <2>1. CASE WriteManifest \/ UndoTarget \/ RestoreTarget \/ EndRollback \/ Raise
    <3>1. \/ run' = [run EXCEPT !.phase = "write"]
          \/ run' = [run EXCEPT !.next = run.next - 1]
          \/ run' = [run EXCEPT !.phase = "audit"]
          \/ run' = [run EXCEPT !.phase = "undo", !.next = run.next - 1]
      BY <1>1, <2>1 DEF WriteManifest, UndoTarget, RestoreTarget, EndRollback, Raise, Runs
    <3>2. run'.todo = run.todo /\ run'.entries = run.entries
      BY <1>1, <3>1 DEF Runs
    <3>3. QED
      BY <1>3, <3>2
  <2>2. CASE WriteTarget
    BY <1>1, <1>3, <2>2 DEF WriteTarget, Runs
  <2>3. CASE Commit
    <3>1. \/ run' = [run EXCEPT !.phase = "audit"]
          \/ run' = [run EXCEPT !.phase = "undo", !.next = run.next - 1]
          \/ run' = Idle
      BY <1>1, <2>3 DEF Commit, Runs
    <3>2. CASE run' = Idle
      BY <1>2, <3>2
    <3>3. CASE run' # Idle
      <4>1. run'.todo = run.todo /\ run'.entries = run.entries
        BY <1>1, <3>1, <3>3 DEF Runs
      <4>2. QED
        BY <1>3, <4>1
    <3>4. QED
      BY <3>2, <3>3
  <2>4. CASE AppendEvent
    <3> DEFINE new(g) == [i \in DOMAIN run.entries |->
                           IF run.entries[i].path = Log(run.id.wiki)
                           THEN [run.entries[i] EXCEPT !.new = g] ELSE run.entries[i]]
    <3> DEFINE g == new(tree[Log(run.id.wiki)] \cup {Event})
    <3>1. \/ run' = [run EXCEPT !.phase = "commit"]
          \/ run' = [run EXCEPT !.phase = "commit", !.entries = g]
      BY <2>4 DEF AppendEvent
    <3>2. DOMAIN g = DOMAIN run.entries
      OBVIOUS
    <3> HIDE DEF g
    <3>3. CASE run' = [run EXCEPT !.phase = "commit"]
      BY <1>1, <1>3, <3>3 DEF Runs
    <3>4. CASE run' = [run EXCEPT !.phase = "commit", !.entries = g]
      <4>1. run'.todo = run.todo /\ run'.entries = g
        BY <1>1, <3>4 DEF Runs
      <4>2. QED
        BY <1>3, <3>2, <4>1
    <3>5. QED
      BY <3>1, <3>3, <3>4
  <2>5. CASE Audit \/ EndUndo \/ Crash
    BY <1>2, <2>5 DEF Audit, EndUndo, Crash
  <2>6. QED
    BY <1>7, <2>1, <2>2, <2>3, <2>4, <2>5 DEF Progress
<1>8. ASSUME NEW f \in Editable, Edit(f) PROVE Targeted'
  BY <1>1, <1>2, <1>3, <1>8 DEF Edit, Noticed, Runs
<1>9. QED
  BY <1>4, <1>5, <1>6, <1>7, <1>8 DEF Next

-----------------------------------------------------------------------------
(* Which wikis stand, and which are settled                                *)

(* No record moves.                                                        *)
LEMMA RecordsRest ==
  ASSUME UNCHANGED manifest, unsettled \subseteq unsettled',
         run'.phase = "record" => run.phase = "record" /\ run'.id = run.id
  PROVE  /\ Recorded' = Recorded
         /\ \A id \in Recorded' : Settled(id)' => Settled(id)
         /\ Standing' \subseteq Standing
         /\ \A w \in Wikis : Live(w)' <=> Live(w)
         /\ (\A id \in Recorded' : ~ Open(id)') => (\A id \in Recorded : ~ Open(id))
<1>1. Recorded' = Recorded
  BY DEF Recorded
<1>2. \A id \in Recorded' : Settled(id)' => Settled(id)
  BY <1>1 DEF Settled
<1>3. Standing' \subseteq Standing
  BY <1>1 DEF Standing
<1>4. \A w \in Wikis : Live(w)' <=> Live(w)
  BY <1>1 DEF Live
<1>5. (\A id \in Recorded' : ~ Open(id)') => (\A id \in Recorded : ~ Open(id))
  BY <1>1 DEF Open
<1>6. QED
  BY <1>1, <1>2, <1>3, <1>4, <1>5

(* A run that works on a record works on one that stands.                  *)
LEMMA AtWork ==
  ASSUME BaseInv, OpenInv, run.phase \in {"write", "commit", "undo", "restore"}
  PROVE  /\ run.id \in Recorded /\ run.id \in Standing /\ run.id.wiki \in Wikis
         /\ Live(run.id.wiki) /\ run # Idle
         /\ \A id \in Recorded : id # run.id => ~ Open(id)
         /\ \A id \in Standing : id # run.id => Settled(id)
<1>1. run.id \in Recorded /\ run # Idle /\ WellPlanned(run.id)
  BY Busy DEF BaseInv, RunFits
<1>2. manifest[run.id].state # "rolled_back"
  BY DEF OpenInv, InHand
<1>3. run.id.wiki \in Wikis
  BY <1>1 DEF WellPlanned, PlanIds
<1>4. \A id \in Recorded : id # run.id => ~ Open(id)
  BY <1>1 DEF OpenInv, OneOpen
<1>5. ASSUME NEW id \in Standing, id # run.id PROVE Settled(id)
  <2>1. id \in Recorded /\ manifest[id].state # "rolled_back"
    BY <1>5 DEF Standing
  <2>2. manifest[id].state \in States
    BY <2>1, RecordFields
  <2>3. QED
    BY <1>4, <1>5, <2>1, <2>2 DEF Open, States, Settled
<1>6. QED
  BY <1>1, <1>2, <1>3, <1>4, <1>5 DEF Standing, Live

(* With nothing open, what stands is settled.                              *)
LEMMA AllSettled ==
  ASSUME BaseInv, run = Idle, \A id \in Recorded : ~ Open(id)
  PROVE  \A id \in Standing : Settled(id)
<1> SUFFICES ASSUME NEW id \in Standing PROVE Settled(id)
  OBVIOUS
<1>1. id \in Recorded /\ manifest[id].state # "rolled_back"
  BY IdleFacts DEF Standing
<1>2. manifest[id].state \in States
  BY <1>1, RecordFields
<1>3. QED
  BY <1>1, <1>2 DEF Open, States, Settled

LEMMA SettledStands ==
  ASSUME NEW id, Settled(id) PROVE id \in Standing /\ id \in Recorded
  BY DEF Settled, Standing

-----------------------------------------------------------------------------
(* The files of the wikis                                                  *)

(* Nothing but the log of a settled wiki may have moved, and that has      *)
(* grown; nothing comes of a wiki without a record.                        *)
LEMMA OwnFrame ==
  ASSUME BaseInv, OwnInv,
         \A id \in Recorded' : Settled(id)' => Settled(id),
         Standing' \subseteq Standing,
         \A w \in Wikis : Live(w) => Live(w)',
         edited \subseteq edited', authored \subseteq authored',
         \A id \in Recorded' : Settled(id)' =>
           /\ id.wiki \in dirs'
           /\ \/ tree'[Card(id.wiki)] = tree[Card(id.wiki)]
              \/ Card(id.wiki) \in edited'
           /\ \/ tree'[Log(id.wiki)] = tree[Log(id.wiki)]
              \/ Log(id.wiki) \in edited'
              \/ /\ tree'[Log(id.wiki)] # Absent
                 /\ tree[Log(id.wiki)] \subseteq tree'[Log(id.wiki)],
         \A w \in Wikis : ~ Live(w)' =>
           /\ \A f \in Own(w) : tree'[f] = tree[f] \/ f \in edited'
           /\ w \in dirs' => w \in dirs
  PROVE  OwnInv'
<1>1. OneEach'
  BY DEF OwnInv, OneEach
<1>2. OwnWhole'
  <2> SUFFICES ASSUME NEW id \in Recorded', Settled(id)'
               PROVE  /\ Card(id.wiki) \in edited' \/ tree'[Card(id.wiki)] = {Generated}
                      /\ \/ Log(id.wiki) \in edited'
                         \/ /\ tree'[Log(id.wiki)] # Absent
                            /\ {Generated, Event} \subseteq tree'[Log(id.wiki)]
    BY DEF OwnWhole
  <2>1. Settled(id) /\ id \in Recorded
    BY DEF Settled
  <2>2. /\ Card(id.wiki) \in edited \/ tree[Card(id.wiki)] = {Generated}
        /\ \/ Log(id.wiki) \in edited
           \/ /\ tree[Log(id.wiki)] # Absent
              /\ {Generated, Event} \subseteq tree[Log(id.wiki)]
    BY <2>1 DEF OwnInv, OwnWhole
  <2>3. QED
    BY <2>2
<1>3. OwnTraces'
  <2> SUFFICES ASSUME NEW w \in Wikis, ~ Live(w)'
               PROVE  /\ \A f \in Own(w) : tree'[f] = Absent \/ f \in edited'
                      /\ w \in dirs' => w \in authored' \/ Own(w) \cap edited' # {}
    BY DEF OwnTraces
  <2>1. ~ Live(w)
    OBVIOUS
  <2>2. /\ \A f \in Own(w) : tree[f] = Absent \/ f \in edited
        /\ w \in dirs => w \in authored \/ Own(w) \cap edited # {}
    BY <2>1 DEF OwnInv, OwnTraces
  <2>3. \A f \in Own(w) : tree'[f] = Absent \/ f \in edited'
    BY <2>2
  <2>4. w \in dirs' => w \in authored' \/ Own(w) \cap edited' # {}
    BY <2>2
  <2>5. QED
    BY <2>3, <2>4
<1>4. QED
  BY <1>1, <1>2, <1>3 DEF OwnInv

(* What settled wikis need of a step that leaves their files alone.        *)
LEMMA SettledDir ==
  ASSUME BaseInv, OwnInv, NEW id \in Recorded, Settled(id)
  PROVE  id.wiki \in dirs /\ id.wiki \in Wikis
         /\ Card(id.wiki) \in Paths /\ Log(id.wiki) \in Paths
<1>1. id.wiki \in dirs
  BY DEF OwnInv, OneEach
<1>2. id.wiki \in Wikis
  BY RecordFields DEF PlanIds
<1>3. QED
  BY <1>1, <1>2, OwnPaths

(* No file moves, and no record.                                           *)
LEMMA OwnStill ==
  ASSUME BaseInv, OwnInv, UNCHANGED <<tree, manifest>>, unsettled \subseteq unsettled',
         run'.phase = "record" => run.phase = "record" /\ run'.id = run.id,
         edited \subseteq edited', authored \subseteq authored',
         dirs \subseteq dirs', \A w \in Wikis : w \in dirs' => w \in dirs \/ Live(w)
  PROVE  OwnInv'
<1>1. /\ \A id \in Recorded' : id \in Recorded /\ (Settled(id)' => Settled(id))
      /\ Standing' \subseteq Standing /\ \A w \in Wikis : Live(w)' <=> Live(w)
  BY RecordsRest
<1>2. \A id \in Recorded' : Settled(id)' => id.wiki \in dirs'
  BY <1>1, SettledDir
<1>3. QED
  BY <1>1, <1>2, OwnFrame

LEMMA OwnDisjoint ==
  ASSUME NEW v \in Wikis, NEW w \in Wikis, v # w, NEW f \in Own(v)
  PROVE  f \notin Own(w) /\ f \in Paths /\ f \notin Shared
  BY OwnPaths, OwnersDiffer

(* A target is the registry, the router or a file of the wiki of the run.  *)
LEMMA TargetOwner ==
  ASSUME BaseInv, run.phase # "idle", NEW i \in DOMAIN run.entries, NEW v \in Wikis,
         v # run.id.wiki
  PROVE  run.entries[i].path \notin Own(v)
<1> DEFINE w == run.id.wiki
<1>1. /\ w \in Wikis /\ i \in {1, 2, 3, 4}
      /\ run.entries[1].path = Registry /\ run.entries[2].path = Card(w)
      /\ run.entries[3].path = Log(w)
      /\ 4 \in DOMAIN run.entries => run.entries[4].path = Router
  BY Busy, Parts
<1>2. Own(v) = {Card(v), Log(v)} /\ Card(v) \notin Shared /\ Log(v) \notin Shared
  BY OwnPaths
<1>3. Card(w) \notin Own(v) /\ Log(w) \notin Own(v)
  BY <1>1, <1>2, OwnersDiffer
<1>4. Registry \notin Own(v) /\ Router \notin Own(v)
  BY <1>2, SharedPaths
<1>5. QED
  BY <1>1, <1>3, <1>4

(* A run writes one of its targets.                                        *)
LEMMA OwnPut ==
  ASSUME BaseInv, OpenInv, OwnInv, run.phase \in {"write", "undo", "restore"},
         NEW i \in DOMAIN run.entries, NEW content \in {run.entries[i].old, run.entries[i].new},
         Put(run.entries[i].path, content), run'.phase # "record",
         UNCHANGED <<manifest, authored, edited>>, unsettled' = unsettled \cup {run.id}
  PROVE  OwnInv'
<1> DEFINE w == run.id.wiki
<1>1. /\ run.id \in Recorded /\ run.id \in Standing /\ w \in Wikis /\ Live(w)
      /\ run.phase # "idle"
  BY AtWork
<1>2. /\ \A id \in Recorded' : id \in Recorded /\ (Settled(id)' => Settled(id))
      /\ Standing' \subseteq Standing /\ \A v \in Wikis : Live(v)' <=> Live(v)
  BY RecordsRest
<1>3. /\ \A f \in Paths : f # run.entries[i].path => tree'[f] = tree[f]
      /\ run.entries[i].path \in Paths /\ dirs \subseteq dirs'
  BY <1>1, TargetWritten
<1>4. ASSUME NEW v \in Wikis, v # w
      PROVE  /\ \A f \in Own(v) : tree'[f] = tree[f]
             /\ v \in dirs' => v \in dirs
  <2>1. run.entries[i].path \notin Own(v)
    BY <1>1, <1>4, TargetOwner
  <2>2. Own(v) \subseteq Paths
    BY OwnPaths
  <2>3. v \in dirs' => v \in dirs
    BY <2>1 DEF Put
  <2>4. QED
    BY <1>3, <2>1, <2>2, <2>3
<1>5. ASSUME NEW id \in Recorded', Settled(id)'
      PROVE  /\ id.wiki \in dirs' /\ tree'[Card(id.wiki)] = tree[Card(id.wiki)]
             /\ tree'[Log(id.wiki)] = tree[Log(id.wiki)]
  <2>1. id # run.id
    BY <1>5 DEF Settled
  <2>2. id \in Recorded /\ Settled(id)
    BY <1>2, <1>5
  <2>3. id \in Standing
    BY <2>2, SettledStands
  <2>4. id.wiki # w
    BY <1>1, <2>1, <2>3 DEF OwnInv, OneEach
  <2>5. id.wiki \in dirs /\ id.wiki \in Wikis
    BY <2>2, SettledDir
  <2>6. Own(id.wiki) = {Card(id.wiki), Log(id.wiki)}
    BY DEF Own
  <2>7. QED
    BY <1>3, <1>4, <2>4, <2>5, <2>6
<1>6. ASSUME NEW v \in Wikis, ~ Live(v)'
      PROVE  /\ \A f \in Own(v) : tree'[f] = tree[f] \/ f \in edited'
             /\ v \in dirs' => v \in dirs
  <2>1. v # w
    BY <1>1, <1>2, <1>6
  <2>2. QED
    BY <1>4, <2>1
<1>7. QED
  BY <1>2, <1>5, <1>6, OwnFrame

(* A log grows.                                                            *)
LEMMA OwnLog ==
  ASSUME BaseInv, OwnInv, NEW w \in Wikis, NEW content \in SUBSET Marks,
         tree[Log(w)] # Absent, tree[Log(w)] \subseteq content,
         tree' = [tree EXCEPT ![Log(w)] = content],
         dirs' = dirs \/ dirs' = dirs \cup {w},
         UNCHANGED <<manifest, authored, edited, unsettled>>, run'.phase # "record"
  PROVE  OwnInv'
<1>1. /\ \A id \in Recorded' : id \in Recorded /\ (Settled(id)' => Settled(id))
      /\ Standing' \subseteq Standing /\ \A v \in Wikis : Live(v)' <=> Live(v)
  BY RecordsRest
<1>2. Log(w) \in Paths /\ Log(w) \in Own(w) /\ tree \in [Paths -> Content]
  BY OwnPaths DEF BaseInv, TypeOK
<1>3. /\ tree'[Log(w)] = content /\ content # Absent
      /\ \A f \in Paths : f # Log(w) => tree'[f] = tree[f]
  BY <1>2, MarksAreContent
<1>4. w \in dirs
  BY <1>2 DEF BaseInv, OwnFiles
<1>5. ASSUME NEW id \in Recorded', Settled(id)'
      PROVE  /\ id.wiki \in dirs' /\ tree'[Card(id.wiki)] = tree[Card(id.wiki)]
             /\ \/ tree'[Log(id.wiki)] = tree[Log(id.wiki)]
                \/ /\ tree'[Log(id.wiki)] # Absent
                   /\ tree[Log(id.wiki)] \subseteq tree'[Log(id.wiki)]
  <2>1. id \in Recorded /\ Settled(id)
    BY <1>1, <1>5
  <2>2. /\ id.wiki \in dirs /\ id.wiki \in Wikis
        /\ Card(id.wiki) \in Paths /\ Log(id.wiki) \in Paths
    BY <2>1, SettledDir
  <2>3. Card(id.wiki) # Log(w)
    BY <2>2, OwnersDiffer
  <2>4. QED
    BY <1>3, <2>2, <2>3
<1>6. ASSUME NEW v \in Wikis, ~ Live(v)'
      PROVE  /\ \A f \in Own(v) : tree'[f] = tree[f] \/ f \in edited'
             /\ v \in dirs' => v \in dirs
  <2>1. ~ Live(v)
    BY <1>1, <1>6
  <2>2. \A f \in Own(v) : tree[f] = Absent \/ f \in edited
    BY <2>1 DEF OwnInv, OwnTraces
  <2>3. Own(v) \subseteq Paths
    BY OwnPaths
  <2>4. QED
    BY <1>3, <1>4, <2>2, <2>3
<1>7. QED
  BY <1>1, <1>5, <1>6, OwnFrame

(* A plan that becomes a run has a wiki of its own.                        *)
LEMMA BeginApplyOwn ==
  ASSUME FinishFirst, BaseInv, OpenInv, OwnInv, NEW w \in Wikis, BeginApply(w)
  PROVE  OwnInv'
<1>1. /\ run = Idle /\ w \notin dirs /\ PlanId(w) = reviewed[w]
      /\ UNCHANGED <<tree, dirs, authored, manifest, edited, unsettled>>
      /\ run'.phase = "record" /\ run'.id = reviewed[w] /\ reviewed[w].wiki = w
  BY PlanIsWell DEF BeginApply, Plannable, files, Idle
<1>2. \A id \in Recorded : ~ Open(id)
  BY DEF BeginApply, MayStart, Open, OpenInv, RolledBackSettled
<1>3. /\ Recorded' = Recorded /\ Standing' = Standing \cup {run'.id}
      /\ \A id \in Recorded : Settled(id)' <=> Settled(id)
      /\ \A v \in Wikis : Live(v)' <=> Live(v)
  BY <1>1, IdleFacts DEF Recorded, Standing, Settled, Live
<1>4. \A id \in Standing : id.wiki # w
  BY <1>1, <1>2, AllSettled, SettledStands DEF OwnInv, OneEach
<1>5. OneEach'
  BY <1>1, <1>3, <1>4 DEF OwnInv, OneEach
<1>6. OwnWhole' /\ OwnTraces'
  BY <1>1, <1>3 DEF OwnInv, OwnWhole, OwnTraces
<1>7. QED
  BY <1>5, <1>6 DEF OwnInv

LEMMA WriteManifestStands ==
  ASSUME BaseInv, OpenInv, WriteManifest
  PROVE  /\ Recorded' = Recorded \cup {run.id} /\ Standing' = Standing /\ run'.id = run.id
         /\ run # Idle /\ run' # Idle
         /\ \A id \in Recorded' : Settled(id)' => Settled(id)
         /\ \A v \in Wikis : Live(v) => Live(v)'
         /\ \E id \in Recorded' : Open(id)'
         /\ \A v \in Wikis : Live(v)' => Live(v) \/ v = run.id.wiki
<1>1. /\ run.phase = "record" /\ run \in Runs /\ run # Idle
      /\ manifest' = With(manifest, run.id, Record("pending", run.entries))
      /\ unsettled' = unsettled \ {run.id}
  BY Busy, RunFields DEF WriteManifest, BaseInv
<1>2. run'.id = run.id /\ run'.phase = "write"
  BY <1>1 DEF WriteManifest, Runs
<1>3. /\ Recorded' = Recorded \cup {run.id}
      /\ manifest'[run.id].state = "pending"
      /\ \A id \in Recorded : id # run.id => manifest'[id] = manifest[id]
  BY <1>1 DEF With, Recorded, Record
<1>4. run.id \in Recorded => manifest[run.id].state = "rolled_back"
  BY <1>1 DEF OpenInv, InHand
<1>5. Standing' = Standing
  BY <1>1, <1>2, <1>3, <1>4 DEF Standing
<1>6. \A id \in Recorded' : Settled(id)' => Settled(id)
  BY <1>1, <1>3 DEF Settled
<1>7. \A v \in Wikis : Live(v) => Live(v)'
  BY <1>3, <1>4 DEF Live
<1>8. \E id \in Recorded' : Open(id)'
  <2>1. ASSUME NEW one, one = run.id PROVE Open(one)' /\ one \in Recorded'
    BY <1>3, <2>1 DEF Open
  <2>2. QED
    BY <2>1
<1>9. \A v \in Wikis : Live(v)' => Live(v) \/ v = run.id.wiki
  BY <1>3 DEF Live
<1>10. QED
  BY <1>1, <1>2, <1>3, <1>5, <1>6, <1>7, <1>8, <1>9, IdleFacts

LEMMA WriteManifestOwn ==
  ASSUME BaseInv, OpenInv, OwnInv, WriteManifest PROVE OwnInv'
<1>1. /\ \A id \in Recorded' : Settled(id)' => Settled(id) /\ id \in Recorded
      /\ Standing' \subseteq Standing /\ \A v \in Wikis : Live(v) => Live(v)'
  BY WriteManifestStands DEF Settled
<1>2. UNCHANGED <<tree, dirs, authored, edited>>
  BY DEF WriteManifest, files
<1>3. \A id \in Recorded' : Settled(id)' => id.wiki \in dirs'
  BY <1>1, <1>2, SettledDir
<1>4. QED
  BY <1>1, <1>2, <1>3, OwnFrame

(* A transaction is settled over targets that are all done.                *)
LEMMA SettleOwn ==
  ASSUME BaseInv, OwnInv, NEW one \in Recorded, NEW entries,
         WellPlanned(one), Fits(entries, one), Event \in entries[3].new,
         \A i \in DOMAIN entries : Done(entries[i]),
         \A id \in Recorded : Settled(id)' => Settled(id) \/ id = one,
         Recorded' = Recorded, Standing' = Standing, \A w \in Wikis : Live(w)' <=> Live(w),
         UNCHANGED <<tree, dirs, authored, edited>>
  PROVE  OwnInv'
<1> DEFINE w == one.wiki
<1>1. /\ w \in Wikis /\ DOMAIN entries = 1 .. Len(entries) /\ Len(entries) \in {3, 4}
      /\ entries[2].path = Card(w) /\ entries[2].new = {Generated}
      /\ entries[3].path = Log(w) /\ Generated \in entries[3].new
      /\ entries[3].new \in SUBSET Marks /\ 2 \in DOMAIN entries /\ 3 \in DOMAIN entries
  BY Parts
<1>2. Done(entries[2]) /\ Done(entries[3])
  BY <1>1
<1>3. tree[Card(w)] = {Generated} /\ tree[Card(w)] # Absent
  <2>1. \A v \in Wikis : Card(w) # Log(v)
    BY <1>1, OwnersDiffer
  <2>2. {Generated} # Absent
    BY MarkFacts, MarksAreContent
  <2>3. QED
    BY <1>1, <1>2, <2>1, <2>2 DEF Done, Grown
<1>4. tree[Log(w)] # Absent /\ {Generated, Event} \subseteq tree[Log(w)]
  BY <1>1, <1>2, MarksAreContent DEF Done, Grown
<1>5. w \in dirs
  <2>1. Card(w) \in Own(w)
    BY <1>1, OwnPaths
  <2>2. QED
    BY <1>1, <1>3, <2>1 DEF BaseInv, OwnFiles
<1>6. OneEach'
  BY <1>5 DEF OwnInv, OneEach
<1>7. OwnWhole'
  <2> SUFFICES ASSUME NEW id \in Recorded, Settled(id)'
               PROVE  /\ Card(id.wiki) \in edited \/ tree[Card(id.wiki)] = {Generated}
                      /\ \/ Log(id.wiki) \in edited
                         \/ /\ tree[Log(id.wiki)] # Absent
                            /\ {Generated, Event} \subseteq tree[Log(id.wiki)]
    BY DEF OwnWhole
  <2>1. CASE id = one
    BY <1>3, <1>4, <2>1
  <2>2. CASE id # one
    BY <2>2 DEF OwnInv, OwnWhole
  <2>3. QED
    BY <2>1, <2>2
<1>8. OwnTraces'
  BY DEF OwnInv, OwnTraces
<1>9. QED
  BY <1>6, <1>7, <1>8 DEF OwnInv

LEMMA VerifyStands ==
  ASSUME BaseInv, NEW one \in Recorded, Verify(one)
  PROVE  /\ Recorded' = Recorded /\ Standing' = Standing
         /\ \A id \in Recorded : Settled(id)' => Settled(id) \/ id = one
         /\ \A w \in Wikis : Live(w)' <=> Live(w)
         /\ one \in Standing /\ manifest[one].state = "applied"
  BY DEF Verify, Recorded, Standing, Settled, Live

LEMMA CommitStands ==
  ASSUME BaseInv, OpenInv, RunInv, Commit, \A i \in DOMAIN run.entries : Done(run.entries[i])
  PROVE  /\ Recorded' = Recorded /\ Standing' = Standing
         /\ \A id \in Recorded : Settled(id)' => Settled(id) \/ id = run.id
         /\ \A w \in Wikis : Live(w)' <=> Live(w)
         /\ Event \in run.entries[3].new /\ run'.id = run.id /\ run # Idle
<1>1. /\ run.phase = "commit" /\ run \in Runs
      /\ manifest' = [manifest EXCEPT ![run.id] = Record("applied", run.entries)]
      /\ unsettled' = unsettled \ {run.id} /\ run' = [run EXCEPT !.phase = "audit"]
  BY RunFields DEF Commit, BaseInv
<1>2. /\ run.id \in Recorded /\ run # Idle /\ WellPlanned(run.id) /\ Fits(run.entries, run.id)
      /\ manifest[run.id].state # "rolled_back"
  BY <1>1, AtWork, Busy DEF OpenInv, InHand
<1>3. run'.id = run.id /\ run'.phase = "audit"
  BY <1>1 DEF Runs
<1>4. /\ Recorded' = Recorded /\ manifest'[run.id].state = "applied"
      /\ \A id \in Recorded : id # run.id => manifest'[id] = manifest[id]
  BY <1>1, <1>2 DEF Recorded, Record
<1>5. Standing' = Standing
  BY <1>1, <1>2, <1>3, <1>4 DEF Standing
<1>6. \A id \in Recorded : Settled(id)' => Settled(id) \/ id = run.id
  BY <1>1, <1>4 DEF Settled
<1>7. \A w \in Wikis : Live(w)' <=> Live(w)
  BY <1>2, <1>4 DEF Live
<1>8. Event \in run.entries[3].new
  <2>1. /\ run.entries[3].path = Log(run.id.wiki) /\ 3 \in DOMAIN run.entries
        /\ run.entries[3].new \in SUBSET Marks
    BY <1>2, Parts
  <2>2. tree[Log(run.id.wiki)] # Absent
    BY <2>1, MarksAreContent DEF Done, Grown
  <2>3. QED
    BY <1>1, <2>2 DEF RunInv, Committed
<1>9. QED
  BY <1>2, <1>3, <1>4, <1>5, <1>6, <1>7, <1>8

(* An undo or a rollback is over, and nothing is left to recover.          *)
Cleared ==
  /\ run.phase \in {"undo", "restore"} /\ run.next = 0
  /\ dirs' = Pruned(run.id.wiki)
  /\ UNCHANGED <<tree, authored, edited, torn>>
  /\ unsettled' = unsettled \ {run.id}
  /\ \/ /\ run' = Idle /\ Recorded' = Recorded \ {run.id}
        /\ run.phase = "undo" /\ run.id.wiki \notin dirs'
        /\ \A i \in 1 .. run.count : tree[run.entries[i].path] = run.entries[i].old
     \/ /\ run'.id = run.id /\ run'.phase = "audit" /\ Recorded' = Recorded
        /\ manifest'[run.id].state = "rolled_back" /\ run.phase = "restore"
  /\ \A id \in Recorded' : id # run.id => manifest'[id] = manifest[id]

(* The undo is over and left something.                                    *)
KeptPartial ==
  /\ run.phase = "undo"
  /\ dirs' = Pruned(run.id.wiki) /\ run' = Idle
  /\ UNCHANGED <<tree, authored, edited, torn, unsettled>>
  /\ Recorded' = Recorded /\ manifest'[run.id].state = "partial"
  /\ \A id \in Recorded' : id # run.id => manifest'[id] = manifest[id]

LEMMA EndCases ==
  ASSUME BaseInv, OpenInv, EndUndo \/ EndRollback PROVE Cleared \/ KeptPartial
<1>1. CASE EndRollback
  <2>1. /\ run.phase = "restore" /\ run.next = 0 /\ run \in Runs /\ run.id \in Recorded
        /\ dirs' = Pruned(run.id.wiki) /\ UNCHANGED <<tree, authored, edited, torn>>
        /\ unsettled' = unsettled \ {run.id} /\ run' = [run EXCEPT !.phase = "audit"]
        /\ manifest' = [manifest EXCEPT ![run.id] = Record("rolled_back", run.entries)]
    BY <1>1, RunFields DEF EndRollback, BaseInv, RunFits
  <2>2. run'.id = run.id /\ run'.phase = "audit"
    BY <2>1 DEF Runs
  <2>3. /\ Recorded' = Recorded /\ manifest'[run.id].state = "rolled_back"
        /\ \A id \in Recorded' : id # run.id => manifest'[id] = manifest[id]
    BY <2>1 DEF Recorded, Record
  <2>4. QED
    BY <2>1, <2>2, <2>3 DEF Cleared
<1>2. CASE EndUndo
  <2>1. /\ run.phase = "undo" /\ run.next = 0 /\ run.id \in Recorded /\ run' = Idle
        /\ dirs' = Pruned(run.id.wiki) /\ UNCHANGED <<tree, authored, edited, torn>>
    BY <1>2 DEF EndUndo, BaseInv, RunFits
  <2>2. CASE /\ \A i \in 1 .. run.count : tree[run.entries[i].path] = run.entries[i].old
             /\ run.id.wiki \notin dirs'
             /\ manifest' = [id \in Recorded \ {run.id} |-> manifest[id]]
             /\ unsettled' = unsettled \ {run.id}
    <3>1. /\ Recorded' = Recorded \ {run.id}
          /\ \A id \in Recorded' : id # run.id => manifest'[id] = manifest[id]
      BY <2>2 DEF Recorded
    <3>2. QED
      BY <2>1, <2>2, <3>1 DEF Cleared
  <2>3. CASE /\ manifest' = [manifest EXCEPT ![run.id] = Record("partial", run.entries)]
             /\ UNCHANGED unsettled
    <3>1. /\ Recorded' = Recorded /\ manifest'[run.id].state = "partial"
          /\ \A id \in Recorded' : id # run.id => manifest'[id] = manifest[id]
      BY <2>1, <2>3 DEF Recorded, Record
    <3>2. QED
      BY <2>1, <2>3, <3>1 DEF KeptPartial
  <2>4. QED
    BY <1>2, <2>2, <2>3 DEF EndUndo
<1>3. QED
  BY <1>1, <1>2

LEMMA ClearedStands ==
  ASSUME BaseInv, OpenInv, OwnInv, Cleared
  PROVE  /\ Standing' = Standing \ {run.id}
         /\ \A id \in Recorded' : Settled(id)' => Settled(id) /\ id # run.id /\ id \in Recorded
         /\ \A v \in Wikis : Live(v)' <=> Live(v) /\ v # run.id.wiki
<1>1. /\ run.id \in Recorded /\ run.id \in Standing /\ run.id.wiki \in Wikis
      /\ run.phase \in {"undo", "restore"} /\ run'.phase # "record"
  BY AtWork, IdleFacts DEF Cleared
<1>2. Standing' = Standing \ {run.id}
  BY <1>1 DEF Cleared, Standing
<1>3. \A id \in Recorded' : Settled(id)' => Settled(id) /\ id # run.id /\ id \in Recorded
  BY <1>1 DEF Cleared, Settled
<1>4. \A id \in Recorded : id.wiki = run.id.wiki /\ manifest[id].state # "rolled_back" => id = run.id
  BY <1>1 DEF OwnInv, OneEach, Standing
<1>5. ASSUME NEW v \in Wikis PROVE Live(v)' <=> Live(v) /\ v # run.id.wiki
  BY <1>1, <1>4 DEF Cleared, Live
<1>6. QED
  BY <1>2, <1>3, <1>5

LEMMA PartialStands ==
  ASSUME BaseInv, OpenInv, KeptPartial
  PROVE  /\ Recorded' = Recorded /\ Standing' = Standing
         /\ \A id \in Recorded' : Settled(id)' => Settled(id)
         /\ \A v \in Wikis : Live(v)' <=> Live(v)
         /\ \E id \in Recorded' : Open(id)'
<1>1. /\ run.id \in Recorded /\ run.phase = "undo" /\ run'.phase # "record"
      /\ manifest[run.id].state # "rolled_back"
  BY AtWork, IdleFacts DEF KeptPartial, OpenInv, InHand
<1>2. Standing' = Standing
  BY <1>1 DEF KeptPartial, Standing
<1>3. \A id \in Recorded' : Settled(id)' => Settled(id)
  BY <1>1 DEF KeptPartial, Settled
<1>4. \A v \in Wikis : Live(v)' <=> Live(v)
  BY <1>1 DEF KeptPartial, Live
<1>5. ASSUME NEW one, one = run.id PROVE Open(one)' /\ one \in Recorded'
  BY <1>1, <1>5 DEF KeptPartial, Open
<1>6. QED
  BY <1>1, <1>2, <1>3, <1>4, <1>5 DEF KeptPartial

LEMMA PartialOwn ==
  ASSUME BaseInv, OpenInv, OwnInv, KeptPartial PROVE OwnInv'
<1>1. /\ Recorded' = Recorded /\ Standing' = Standing
      /\ \A id \in Recorded' : Settled(id)' => Settled(id)
      /\ \A v \in Wikis : Live(v)' <=> Live(v)
  BY PartialStands
<1>2. UNCHANGED <<tree, authored, edited>> /\ dirs' = Pruned(run.id.wiki)
  BY DEF KeptPartial
<1>3. dirs' \subseteq dirs /\ \A v \in Wikis : v \in dirs /\ v \notin dirs' => v = run.id.wiki
  BY <1>2, PrunedFacts
<1>4. ASSUME NEW id \in Recorded', Settled(id)' PROVE id.wiki \in dirs'
  <2>1. id # run.id
    BY <1>4 DEF KeptPartial, Settled
  <2>2. Settled(id) /\ id.wiki \in dirs /\ id.wiki \in Wikis
    BY <1>1, <1>4, SettledDir
  <2>3. run.id \in Standing
    BY AtWork DEF KeptPartial
  <2>4. id.wiki # run.id.wiki
    BY <2>1, <2>2, <2>3, SettledStands DEF OwnInv, OneEach
  <2>5. QED
    BY <1>3, <2>2, <2>4
<1>5. QED
  BY <1>1, <1>2, <1>3, <1>4, OwnFrame

(* Of the wiki that was undone or rolled back nothing is left, save what   *)
(* somebody edited or authored.                                            *)
LEMMA ClearedOwn ==
  ASSUME BaseInv, OpenInv, RunInv, OwnInv, Cleared PROVE OwnInv'
<1> DEFINE w == run.id.wiki
<1>1. /\ Standing' = Standing \ {run.id}
      /\ \A id \in Recorded' : Settled(id)' => Settled(id) /\ id # run.id /\ id \in Recorded
      /\ \A v \in Wikis : Live(v)' <=> Live(v) /\ v # w
  BY ClearedStands
<1>2. /\ UNCHANGED <<tree, authored, edited>> /\ dirs' = Pruned(w)
      /\ run.phase \in {"undo", "restore"}
  BY DEF Cleared
<1>3. dirs' \subseteq dirs /\ \A v \in Wikis : v \in dirs /\ v \notin dirs' => v = w
  BY <1>2, PrunedFacts
<1>4. /\ run.id \in Standing /\ w \in Wikis /\ run # Idle
      /\ WellPlanned(run.id) /\ Fits(run.entries, run.id)
  BY <1>2, AtWork, Busy
<1>5. OneEach'
  <2>1. ASSUME NEW id \in Recorded', Settled(id)' PROVE id.wiki \in dirs'
    <3>1. Settled(id) /\ id # run.id /\ id \in Recorded
      BY <1>1, <2>1
    <3>2. id.wiki \in dirs /\ id.wiki \in Wikis
      BY <3>1, SettledDir
    <3>3. id.wiki # w
      BY <1>4, <3>1, SettledStands DEF OwnInv, OneEach
    <3>4. QED
      BY <1>3, <3>2, <3>3
  <2>2. QED
    BY <1>1, <2>1 DEF OwnInv, OneEach
<1>6. OwnWhole'
  BY <1>1, <1>2 DEF OwnInv, OwnWhole
<1>7. \A f \in Own(w) : tree[f] = Absent \/ f \in edited
  <2>1. CASE run.phase = "undo"
    <3>1. (w \notin dirs' /\ Empty(w)) \/ w \notin dirs
      BY <1>2, <2>1 DEF Cleared, Pruned
    <3>2. QED
      BY <1>4, <3>1 DEF Empty, BaseInv, OwnFiles
  <2>2. CASE run.phase = "restore"
    <3>1. /\ 2 \in DOMAIN run.entries /\ 3 \in DOMAIN run.entries
          /\ run.entries[2].path = Card(w) /\ run.entries[2].old = Absent
          /\ run.entries[3].path = Log(w) /\ run.entries[3].old = Absent
      BY <1>4, Parts
    <3>2. run.next = 0
      BY DEF Cleared
    <3>3. AsBefore(tree, run.entries[2], edited) /\ AsBefore(tree, run.entries[3], edited)
      BY <2>2, <3>1, <3>2 DEF RunInv, Restored
    <3>4. QED
      BY <3>1, <3>3 DEF AsBefore, Own
  <2>3. QED
    BY <1>2, <2>1, <2>2
<1>8. OwnTraces'
  <2> SUFFICES ASSUME NEW v \in Wikis, ~ Live(v)'
               PROVE  /\ \A f \in Own(v) : tree[f] = Absent \/ f \in edited
                      /\ v \in dirs' => v \in authored \/ Own(v) \cap edited # {}
    BY <1>2 DEF OwnTraces
  <2>1. CASE v = w
    <3>1. v \in dirs' => ~ Empty(v)
      BY <1>2, <2>1 DEF Pruned
    <3>2. QED
      BY <1>7, <2>1, <3>1 DEF Empty
  <2>2. CASE v # w
    BY <1>1, <1>3, <2>2 DEF OwnInv, OwnTraces
  <2>3. QED
    BY <2>1, <2>2
<1>9. QED
  BY <1>5, <1>6, <1>8 DEF OwnInv

LEMMA EditOwn ==
  ASSUME BaseInv, OwnInv, NEW f \in Editable, Edit(f) PROVE OwnInv'
<1>1. /\ UNCHANGED <<manifest, unsettled, authored, dirs>> /\ edited' = edited \cup {f}
      /\ f \in Paths /\ tree \in [Paths -> Content]
      /\ \E content : tree' = [tree EXCEPT ![f] = content]
  BY ProvisionConstants DEF Edit, BaseInv, TypeOK
<1>2. \A g \in Paths : tree'[g] = tree[g] \/ g \in edited'
  BY <1>1
<1>3. run'.phase = run.phase /\ run'.id = run.id
  <2>1. \/ run = Idle /\ run' = Idle
        \/ run # Idle /\ run' = [run EXCEPT !.raced = run.raced \cup {f}]
    BY DEF Edit, Noticed
  <2>2. run \in Runs
    BY RunFields DEF BaseInv
  <2>3. QED
    BY <2>1, <2>2 DEF Runs
<1>4. /\ \A id \in Recorded' : id \in Recorded /\ (Settled(id)' => Settled(id))
      /\ Standing' \subseteq Standing /\ \A v \in Wikis : Live(v)' <=> Live(v)
  BY <1>1, <1>3, RecordsRest
<1>5. ASSUME NEW id \in Recorded', Settled(id)'
      PROVE  /\ id.wiki \in dirs'
             /\ tree'[Card(id.wiki)] = tree[Card(id.wiki)] \/ Card(id.wiki) \in edited'
             /\ tree'[Log(id.wiki)] = tree[Log(id.wiki)] \/ Log(id.wiki) \in edited'
  BY <1>1, <1>2, <1>4, <1>5, SettledDir
<1>6. \A v \in Wikis : Own(v) \subseteq Paths
  BY OwnPaths
<1>7. QED
  BY <1>1, <1>2, <1>4, <1>5, <1>6, OwnFrame

LEMMA NextOwn ==
  ASSUME FinishFirst, BaseInv, OpenInv, Targeted, RunInv, OwnInv, [Next]_vars PROVE OwnInv'
<1>1. ASSUME UNCHANGED <<files, manifest, unsettled, edited>>, authored \subseteq authored',
             run'.phase = "record" => run.phase = "record" /\ run'.id = run.id
      PROVE  OwnInv'
  <2>1. UNCHANGED <<tree, manifest>> /\ unsettled \subseteq unsettled' /\ edited \subseteq edited'
    BY <1>1 DEF files
  <2>2. dirs \subseteq dirs' /\ \A w \in Wikis : w \in dirs' => w \in dirs \/ Live(w)
    BY <1>1 DEF files
  <2>3. QED
    BY <1>1, <2>1, <2>2, OwnStill
<1>2. CASE UNCHANGED vars
  BY <1>1, <1>2 DEF vars, files
<1>3. ASSUME NEW w \in Wikis, DryRun(w) \/ BeginApply(w) \/ Author(w) \/ AppendLater(w)
      PROVE  OwnInv'
  <2>1. CASE DryRun(w) \/ Author(w)
    BY <1>1, <2>1 DEF DryRun, Author
  <2>2. CASE BeginApply(w)
    BY <2>2, BeginApplyOwn
  <2>3. CASE AppendLater(w)
    <3> DEFINE content == tree[Log(w)] \cup {Later}
    <3>1. /\ tree[Log(w)] # Absent /\ tree' = [tree EXCEPT ![Log(w)] = content]
          /\ UNCHANGED <<dirs, manifest, authored, edited, unsettled, run>> /\ run = Idle
      BY <2>3 DEF AppendLater
    <3>2. tree[Log(w)] \in SUBSET Marks
      BY <3>1, OwnPaths, MarksAreContent DEF BaseInv, TypeOK
    <3>3. content \in SUBSET Marks /\ tree[Log(w)] \subseteq content
      BY <3>2, MarkFacts
    <3>4. run'.phase # "record"
      BY <3>1, IdleFacts
    <3> HIDE DEF content
    <3>5. QED
      BY <3>1, <3>3, <3>4, OwnLog
  <2>4. QED
    BY <1>3, <2>1, <2>2, <2>3
<1>4. ASSUME NEW id \in Recorded, BeginResume(id) \/ Verify(id) \/ BeginRollback(id)
      PROVE  OwnInv'
  <2>1. CASE BeginResume(id)
    BY <1>1, <2>1 DEF BeginResume, Idle
  <2>2. CASE BeginRollback(id)
    BY <1>1, <2>2 DEF BeginRollback, Idle
  <2>3. CASE Verify(id)
    <3> DEFINE entries == manifest[id].entries
    <3>1. /\ Recorded' = Recorded /\ Standing' = Standing
          /\ \A other \in Recorded : Settled(other)' => Settled(other) \/ other = id
          /\ \A w \in Wikis : Live(w)' <=> Live(w)
          /\ manifest[id].state = "applied"
      BY <2>3, VerifyStands
    <3>2. WellPlanned(id) /\ Fits(entries, id)
      BY RecordFields
    <3>3. Event \in entries[3].new
      BY <3>1 DEF RunInv, Committed
    <3>4. /\ \A i \in DOMAIN entries : Done(entries[i])
          /\ UNCHANGED <<tree, dirs, authored, edited>>
      BY <2>3 DEF Verify, files
    <3> HIDE DEF entries
    <3>5. QED
      BY <3>1, <3>2, <3>3, <3>4, SettleOwn
  <2>4. QED
    BY <1>4, <2>1, <2>2, <2>3
<1>5. CASE WriteManifest
  BY <1>5, WriteManifestOwn
<1>6. CASE WriteTarget
  <2>1. /\ run.phase = "write" /\ run.next \in DOMAIN run.entries /\ run \in Runs
        /\ UNCHANGED <<authored, manifest, edited>>
    BY <1>6, RunFields DEF WriteTarget, BaseInv
  <2>2. run'.phase # "record"
    BY <1>6, <2>1 DEF WriteTarget, Runs
  <2>3. CASE run.next \in run.todo
    <3>1. /\ Put(run.entries[run.next].path, run.entries[run.next].new)
          /\ unsettled' = unsettled \cup {run.id}
      BY <1>6, <2>3 DEF WriteTarget
    <3>2. QED
      BY <2>1, <2>2, <3>1, OwnPut
  <2>4. CASE run.next \notin run.todo
    BY <1>1, <1>6, <2>1, <2>2, <2>4 DEF WriteTarget
  <2>5. QED
    BY <2>3, <2>4
<1>7. CASE AppendEvent
  <2> DEFINE w == run.id.wiki
             content == tree[Log(w)] \cup {Event}
  <2>1. run.phase = "write" /\ run \in Runs
    BY <1>7, RunFields DEF AppendEvent, BaseInv
  <2>2. w \in Wikis /\ run'.phase # "record"
    BY <1>7, <2>1, AtWork DEF AppendEvent, Runs
  <2>3. CASE tree[Log(w)] = Absent
    BY <1>1, <1>7, <2>2, <2>3 DEF AppendEvent
  <2>4. CASE tree[Log(w)] # Absent
    <3>1. Put(Log(w), content) /\ UNCHANGED <<manifest, authored, edited, unsettled>>
      BY <1>7, <2>4 DEF AppendEvent
    <3>2. tree[Log(w)] \in SUBSET Marks
      BY <2>2, <2>4, OwnPaths, MarksAreContent DEF BaseInv, TypeOK
    <3>3. content \in SUBSET Marks /\ tree[Log(w)] \subseteq content
      BY <3>2, MarkFacts
    <3> HIDE DEF content
    <3>4. {v \in Wikis : Log(w) \in Own(v)} = {w}
      BY <2>2, OwnPaths, OwnersDiffer
    <3>5. tree' = [tree EXCEPT ![Log(w)] = content] /\ (dirs' = dirs \/ dirs' = dirs \cup {w})
      BY <3>1, <3>4 DEF Put
    <3> HIDE DEF w
    <3>6. QED
      BY <2>2, <2>4, <3>1, <3>3, <3>5, OwnLog
  <2>5. QED
    BY <2>3, <2>4
<1>8. CASE Commit
  <2>1. run.phase = "commit" /\ run \in Runs
    BY <1>8, RunFields DEF Commit, BaseInv
  <2>2. CASE \A i \in DOMAIN run.entries : Done(run.entries[i])
    <3>1. /\ run.id \in Recorded /\ WellPlanned(run.id) /\ Fits(run.entries, run.id)
      BY <2>1, AtWork, Busy
    <3>2. UNCHANGED <<tree, dirs, authored, edited>>
      BY <1>8 DEF Commit, files
    <3>3. /\ Recorded' = Recorded /\ Standing' = Standing
          /\ \A id \in Recorded : Settled(id)' => Settled(id) \/ id = run.id
          /\ \A w \in Wikis : Live(w)' <=> Live(w)
          /\ Event \in run.entries[3].new
      BY <1>8, <2>2, CommitStands
    <3>4. QED
      BY <2>2, <3>1, <3>2, <3>3, SettleOwn
  <2>3. CASE ~ \A i \in DOMAIN run.entries : Done(run.entries[i])
    <3>1. run'.phase # "record"
      BY <1>8, <2>1, <2>3, IdleFacts DEF Commit, Runs
    <3>2. UNCHANGED <<files, manifest, unsettled, edited, authored>>
      BY <1>8, <2>3 DEF Commit
    <3>3. QED
      BY <1>1, <3>1, <3>2
  <2>4. QED
    BY <2>2, <2>3
<1>9. CASE Audit
  BY <1>1, <1>9, IdleFacts DEF Audit
<1>10. CASE UndoTarget \/ RestoreTarget
  <2>1. /\ run.phase \in {"undo", "restore"} /\ run.next \in DOMAIN run.entries /\ run \in Runs
        /\ Put(run.entries[run.next].path, run.entries[run.next].old)
        /\ unsettled' = unsettled \cup {run.id} /\ UNCHANGED <<manifest, authored, edited>>
    BY <1>10, RunFields DEF UndoTarget, RestoreTarget, BaseInv
  <2>2. run'.phase # "record"
    BY <1>10, <2>1 DEF UndoTarget, RestoreTarget, Runs
  <2>3. QED
    BY <2>1, <2>2, OwnPut
<1>11. CASE EndUndo \/ EndRollback
  BY <1>11, EndCases, ClearedOwn, PartialOwn
<1>12. CASE Raise
  <2>1. /\ run.phase \in {"write", "commit", "audit"} /\ run \in Runs
        /\ UNCHANGED <<authored, manifest, edited>>
    BY <1>12, RunFields DEF Raise, BaseInv
  <2>2. run'.phase # "record"
    BY <1>12, <2>1 DEF Raise, Runs
  <2>3. CASE UNCHANGED <<files, torn, unsettled>>
    BY <1>1, <2>1, <2>2, <2>3
  <2>4. CASE /\ run.phase = "write" /\ run.next \in DOMAIN run.entries
             /\ Put(run.entries[run.next].path, run.entries[run.next].new)
             /\ unsettled' = unsettled \cup {run.id}
    BY <2>1, <2>2, <2>4, OwnPut
  <2>5. QED
    BY <1>12, <2>3, <2>4 DEF Raise
<1>13. CASE Crash
  <2>1. run' = Idle /\ UNCHANGED <<tree, authored, manifest, edited, unsettled>>
    BY <1>13 DEF Crash
  <2>2. dirs \subseteq dirs' /\ \A v \in Wikis : v \in dirs' => v \in dirs \/ Live(v)
    <3>1. CASE UNCHANGED dirs
      BY <3>1
    <3>2. CASE /\ run.phase = "write" /\ run.next \in run.todo
               /\ dirs' = dirs \cup {v \in Wikis : run.entries[run.next].path \in Own(v)}
      <4>1. run.id.wiki \in Wikis /\ Live(run.id.wiki)
        BY <3>2, AtWork
      <4>2. ASSUME NEW v \in Wikis, run.entries[run.next].path \in Own(v), v # run.id.wiki
            PROVE  FALSE
        <5>1. run.next \in DOMAIN run.entries
          BY <3>2 DEF Targeted
        <5>2. QED
          BY <3>2, <4>2, <5>1, TargetOwner
      <4>3. QED
        BY <3>2, <4>1, <4>2
    <3>3. QED
      BY <1>13, <3>1, <3>2 DEF Crash
  <2>3. run'.phase # "record"
    BY <2>1, IdleFacts
  <2>4. QED
    BY <2>1, <2>2, <2>3, OwnStill
<1>14. ASSUME NEW f \in Editable, Edit(f) PROVE OwnInv'
  BY <1>14, EditOwn
<1>15. QED
  BY <1>2, <1>3, <1>4, <1>5, <1>6, <1>7, <1>8, <1>9, <1>10, <1>11, <1>12, <1>13, <1>14
     DEF Next, Progress


-----------------------------------------------------------------------------
(* The registry and the router                                             *)

Closed == \A id \in Recorded : ~ Open(id)

LEMMA MarkedFacts ==
  ASSUME NEW id, WellPlanned(id)
  PROVE  /\ id.wiki \in Wikis /\ Wiki(id.wiki) \in WikiMarks /\ Prior(id) \in SUBSET Marks
         /\ Wiki(id.wiki) \in Marked(id) /\ Wiki(id.wiki) \notin Prior(id)
         /\ Marked(id) \subseteq WikiMarks
  BY MarkFacts DEF WellPlanned, PlanIds, Prior, Marked

(* What stands was planned.                                                *)
LEMMA Planned ==
  ASSUME BaseInv, NEW id \in Standing PROVE WellPlanned(id) /\ id.wiki \in Wikis
<1>1. CASE id \in Recorded
  BY <1>1, RecordFields, MarkedFacts
<1>2. CASE run.phase = "record" /\ id = run.id
  BY <1>2, Busy, MarkedFacts
<1>3. QED
  BY <1>1, <1>2 DEF Standing

LEMMA Guards ==
  ASSUME tree'[Router] = tree[Router], torn \subseteq torn',
         Registry \in edited' <=> Registry \in edited, Router \in edited' <=> Router \in edited
  PROVE  /\ (Handwritten' <=> Handwritten) /\ (RegistryTrusted' <=> RegistryTrusted)
         /\ (RouterTrusted' <=> RouterTrusted) /\ (Whole' => Whole) /\ (Trusted' => Trusted)
  BY DEF Handwritten, RegistryTrusted, RouterTrusted, Whole, Trusted

LEMMA MarksGrow ==
  ASSUME \A w \in Wikis : Live(w) => Live(w)' PROVE LiveMarks \subseteq LiveMarks'
  BY DEF LiveMarks

LEMMA LiveMarked ==
  ASSUME NEW w \in Wikis, Live(w) PROVE Wiki(w) \in LiveMarks
  BY DEF LiveMarks

(* The registry and the router do not move, nothing is settled or started. *)
LEMMA SharedFrame ==
  ASSUME SharedInv, tree'[Registry] = tree[Registry], tree'[Router] = tree[Router],
         torn \subseteq torn',
         Registry \in edited' <=> Registry \in edited, Router \in edited' <=> Router \in edited,
         \A id \in Recorded' : Settled(id)' => Settled(id) /\ id \in Recorded,
         Standing' \subseteq Standing, \A w \in Wikis : Live(w) => Live(w)',
         run' = Idle \/ (run # Idle /\ run'.id = run.id),
         Closed' => Closed
  PROVE  SharedInv'
<1>1. /\ (Handwritten' <=> Handwritten) /\ (RegistryTrusted' <=> RegistryTrusted)
      /\ (RouterTrusted' <=> RouterTrusted) /\ (Whole' => Whole) /\ (Trusted' => Trusted)
  BY Guards
<1>2. LiveMarks \subseteq LiveMarks'
  BY MarksGrow
<1>3. RouterKept'
  BY <1>1 DEF SharedInv, RouterKept
<1>4. Registered'
  BY <1>1 DEF SharedInv, Registered
<1>5. Listed'
  BY <1>1 DEF SharedInv, Listed
<1>6. RegistryTraces'
  BY <1>1, <1>2 DEF SharedInv, RegistryTraces
<1>7. RouterTraces'
  <2>1. (\A id \in Recorded' : ~ Open(id)') => (\A id \in Recorded : ~ Open(id))
    BY DEF Closed
  <2>2. QED
    BY <1>1, <1>2, <2>1 DEF SharedInv, RouterTraces
<1>8. QED
  BY <1>3, <1>4, <1>5, <1>6, <1>7 DEF SharedInv

(* No record moves and neither does the registry or the router.            *)
LEMMA SharedStill ==
  ASSUME SharedInv, tree'[Registry] = tree[Registry], tree'[Router] = tree[Router],
         torn \subseteq torn', UNCHANGED manifest, unsettled \subseteq unsettled',
         Registry \in edited' <=> Registry \in edited, Router \in edited' <=> Router \in edited,
         run' = Idle \/ (run # Idle /\ run'.id = run.id),
         run'.phase = "record" => run.phase = "record" /\ run'.id = run.id
  PROVE  SharedInv'
<1>1. /\ Recorded' = Recorded
      /\ \A id \in Recorded' : Settled(id)' => Settled(id) /\ id \in Recorded
      /\ Standing' \subseteq Standing /\ \A w \in Wikis : Live(w) => Live(w)'
      /\ (\A id \in Recorded' : ~ Open(id)') => (\A id \in Recorded : ~ Open(id))
  BY RecordsRest
<1>2. Closed' => Closed
  BY <1>1 DEF Closed
<1>3. QED
  BY <1>1, <1>2, SharedFrame

(* A run writes the registry: what it holds before or after is what every  *)
(* settled wiki is marked in.                                              *)
LEMMA RegistryPut ==
  ASSUME BaseInv, OpenInv, SharedInv, run.phase \in {"write", "undo", "restore"},
         tree'[Registry] \in {Prior(run.id), Prior(run.id) \cup {Wiki(run.id.wiki)}},
         tree'[Router] = tree[Router], UNCHANGED <<manifest, edited>>, torn \subseteq torn',
         unsettled' = unsettled \cup {run.id}, run'.id = run.id, run' # Idle,
         run'.phase # "record"
  PROVE  SharedInv'
<1> DEFINE one == run.id
<1>1. /\ one \in Recorded /\ one \in Standing /\ one.wiki \in Wikis /\ Live(one.wiki)
      /\ run # Idle
  BY AtWork
<1>2. Prior(one) \in SUBSET Marks /\ tree'[Registry] # Absent
  <2>1. WellPlanned(one)
    BY <1>1, Planned
  <2>2. Prior(one) \in SUBSET Marks /\ Wiki(one.wiki) \in Marks
    BY <2>1, MarkedFacts, MarkFacts
  <2>3. QED
    BY <2>2, MarksAreContent
<1>3. /\ Recorded' = Recorded
      /\ \A id \in Recorded' : Settled(id)' => Settled(id) /\ id \in Recorded
      /\ Standing' \subseteq Standing /\ \A w \in Wikis : Live(w)' <=> Live(w)
  BY RecordsRest
<1>4. \A id \in Recorded' : Settled(id)' => id # one
  BY DEF Settled
<1>5. \E id \in Recorded' : Open(id)'
  <2>1. ASSUME NEW id, id = one PROVE Open(id)'
    BY <2>1 DEF Open
  <2>2. QED
    BY <1>1, <1>3, <2>1
<1>6. /\ (Handwritten' <=> Handwritten) /\ (RegistryTrusted' <=> RegistryTrusted)
      /\ (RouterTrusted' <=> RouterTrusted) /\ (Whole' => Whole) /\ (Trusted' => Trusted)
  BY Guards
<1>7. LiveMarks' = LiveMarks
  BY <1>3 DEF LiveMarks
<1>8. RouterKept'
  BY <1>3, <1>6 DEF SharedInv, RouterKept
<1>9. Registered'
  <2>1. ASSUME Trusted, NEW id \in Recorded', Settled(id)'
        PROVE  Marked(id) \subseteq tree'[Registry] /\ Marked(id) \subseteq Prior(one)
    BY <1>1, <1>3, <1>4, <2>1 DEF SharedInv, Registered
  <2>2. QED
    BY <1>2, <1>3, <1>6, <2>1 DEF SharedInv, Registered
<1>10. Listed'
  BY <1>1, <1>3, <1>6 DEF SharedInv, Listed
<1>11. RegistryTraces'
  <2>1. Wiki(one.wiki) \in LiveMarks
    BY <1>1, LiveMarked
  <2>2. ASSUME Whole, RegistryTrusted \/ RouterTrusted
        PROVE  Text(tree'[Registry]) \cap WikiMarks \subseteq LiveMarks
    <3>1. Prior(one) \cap WikiMarks \subseteq LiveMarks
      BY <1>1, <2>2 DEF SharedInv, RegistryTraces
    <3>2. QED
      BY <2>1, <3>1 DEF Text
  <2>3. QED
    BY <1>3, <1>6, <1>7, <2>2 DEF SharedInv, RegistryTraces
<1>12. RouterTraces'
  BY <1>3, <1>5, <1>6, <1>7 DEF SharedInv, RouterTraces
<1>13. QED
  BY <1>8, <1>9, <1>10, <1>11, <1>12 DEF SharedInv

(* What a routed plan does to the router.                                  *)
LEMMA RouterChanged ==
  ASSUME NEW id, WellPlanned(id), Routed(id)
  PROVE  /\ id.changes[4].old = Absent \/ Header \in id.changes[4].old
         /\ id.changes[4].new = {Header} \cup ((Prior(id) \cup {Wiki(id.wiki)}) \cap WikiMarks)
         /\ id.changes[4].new # Absent /\ Header \in id.changes[4].new
         /\ Marked(id) \subseteq id.changes[4].new
<1>1. /\ id.changes[4].old = Absent \/ Header \in id.changes[4].old
      /\ id.changes[4].new = {Header} \cup ((Prior(id) \cup {Wiki(id.wiki)}) \cap WikiMarks)
  BY DEF WellPlanned, Routed, Prior
<1>2. id.changes[4].new # Absent
  BY <1>1, MarkFacts, MarksAreContent
<1>3. Wiki(id.wiki) \in WikiMarks
  BY MarkedFacts
<1>4. QED
  BY <1>1, <1>2, <1>3 DEF Marked

(* A run writes the router.                                                *)
LEMMA RouterPut ==
  ASSUME BaseInv, OpenInv, SharedInv, run.phase \in {"write", "undo", "restore"},
         Routed(run.id), tree'[Router] \in {run.id.changes[4].old, run.id.changes[4].new},
         tree'[Registry] = tree[Registry], UNCHANGED <<manifest, edited>>, torn \subseteq torn',
         unsettled' = unsettled \cup {run.id}, run'.id = run.id, run' # Idle,
         run'.phase # "record"
  PROVE  SharedInv'
<1> DEFINE one == run.id
           c == one.changes[4]
<1>1. /\ one \in Recorded /\ one \in Standing /\ one.wiki \in Wikis /\ Live(one.wiki)
      /\ run # Idle /\ WellPlanned(one)
  BY AtWork, Planned
<1>2. /\ c.old = Absent \/ Header \in c.old
      /\ c.new = {Header} \cup ((Prior(one) \cup {Wiki(one.wiki)}) \cap WikiMarks)
      /\ c.new # Absent
  BY <1>1, RouterChanged
<1>3. /\ Recorded' = Recorded
      /\ \A id \in Recorded' : Settled(id)' => Settled(id) /\ id \in Recorded
      /\ Standing' \subseteq Standing /\ \A w \in Wikis : Live(w)' <=> Live(w)
  BY RecordsRest
<1>4. \A id \in Recorded' : Settled(id)' => id # one
  BY DEF Settled
<1>5. \E id \in Recorded' : Open(id)'
  <2>1. ASSUME NEW id, id = one PROVE Open(id)'
    BY <2>1 DEF Open
  <2>2. QED
    BY <1>1, <1>3, <2>1
<1>6. ~ Handwritten'
  BY <1>2 DEF Handwritten
<1>7. Router \notin edited => ~ Handwritten
  BY <1>1 DEF SharedInv, RouterKept
<1>8. /\ RegistryTrusted' <=> RegistryTrusted
      /\ RouterTrusted' <=> RouterTrusted
      /\ Whole' => Whole
      /\ Trusted' => Trusted
  BY <1>6, <1>7 DEF RegistryTrusted, RouterTrusted, Whole, Trusted
<1>9. LiveMarks' = LiveMarks
  BY <1>3 DEF LiveMarks
<1>10. RouterKept'
  BY <1>3, <1>6, <1>7 DEF SharedInv, RouterKept
<1>11. Registered'
  BY <1>1, <1>3, <1>8 DEF SharedInv, Registered
<1>12. Listed'
  <2>1. ASSUME RouterTrusted, Trusted, NEW id \in Recorded', Settled(id)'
        PROVE  /\ tree'[Router] # Absent /\ Marked(id) \subseteq tree'[Router]
               /\ Marked(id) \subseteq Text(c.old)
    <3>1. Settled(id) /\ id \in Recorded /\ id # one
      BY <1>3, <1>4, <2>1
    <3>2. Marked(id) \subseteq Text(c.old)
      BY <1>1, <2>1, <3>1 DEF SharedInv, Listed
    <3>3. Marked(id) \subseteq Prior(one) /\ Marked(id) \subseteq WikiMarks
          /\ Wiki(id.wiki) \in Marked(id)
      BY <1>1, <2>1, <3>1, RecordFields, MarkedFacts DEF SharedInv, Registered
    <3>4. CASE tree'[Router] = c.old
      BY <3>2, <3>3, <3>4 DEF Text
    <3>5. CASE tree'[Router] = c.new
      BY <1>2, <3>2, <3>3, <3>5
    <3>6. QED
      BY <3>2, <3>4, <3>5
  <2>2. QED
    BY <1>3, <1>8, <2>1 DEF SharedInv, Listed
<1>13. RegistryTraces'
  BY <1>3, <1>8, <1>9 DEF SharedInv, RegistryTraces
<1>14. RouterTraces'
  <2>1. ASSUME Whole, RouterTrusted PROVE Text(tree'[Router]) \cap WikiMarks \subseteq LiveMarks
    <3>1. Text(c.old) \cap WikiMarks \subseteq Prior(one)
      BY <1>1, <2>1 DEF SharedInv, RouterTraces
    <3>2. Prior(one) \cap WikiMarks \subseteq LiveMarks
      BY <1>1, <2>1 DEF SharedInv, RegistryTraces
    <3>3. Wiki(one.wiki) \in LiveMarks
      BY <1>1, LiveMarked
    <3>4. CASE tree'[Router] = c.old
      BY <3>1, <3>2, <3>4
    <3>5. CASE tree'[Router] = c.new
      <4>1. Header \notin WikiMarks
        BY MarkFacts
      <4>2. QED
        BY <1>2, <3>2, <3>3, <3>5, <4>1 DEF Text
    <3>6. QED
      BY <3>4, <3>5
  <2>2. \A id \in Standing' : Text(id.changes[4].old) \cap WikiMarks \subseteq Prior(id)
        \/ ~ (Whole /\ RouterTrusted)
    BY <1>3 DEF SharedInv, RouterTraces
  <2>3. QED
    BY <1>5, <1>8, <1>9, <2>1, <2>2 DEF RouterTraces
<1>15. QED
  BY <1>10, <1>11, <1>12, <1>13, <1>14 DEF SharedInv

(* A plan reads a registry and a router in which every wiki that stands is *)
(* marked, and nothing else.                                               *)
LEMMA BeginApplyShared ==
  ASSUME FinishFirst, BaseInv, OpenInv, SharedInv, NEW w \in Wikis, BeginApply(w)
  PROVE  SharedInv'
<1> DEFINE one == PlanId(w)
<1>1. /\ run = Idle /\ tree[Registry] # Absent /\ Wiki(w) \notin tree[Registry]
      /\ UNCHANGED <<tree, manifest, edited, torn, unsettled>>
      /\ run'.phase = "record" /\ run'.id = one /\ run' # Idle
      /\ one.wiki = w /\ WellPlanned(one) /\ one.changes = PlanChanges(w)
  <2>1. run'.phase = "record"
    BY DEF BeginApply, Idle
  <2>2. QED
    BY <2>1, PlanIsWell, IdleFacts DEF BeginApply, Plannable, files, Idle
<1>2. Closed
  BY DEF BeginApply, MayStart, Open, OpenInv, RolledBackSettled, Closed
<1>3. /\ Recorded' = Recorded /\ Standing' = Standing \cup {one}
      /\ \A id \in Recorded : Settled(id)' <=> Settled(id)
      /\ \A v \in Wikis : Live(v)' <=> Live(v)
      /\ \A id \in Recorded : Open(id)' <=> Open(id)
  BY <1>1, IdleFacts DEF Recorded, Standing, Settled, Live, Open
<1>4. \A id \in Standing : Settled(id) /\ id \in Recorded
  BY <1>1, <1>2, AllSettled, SettledStands DEF Closed
<1>5. /\ one.changes[1].old = tree[Registry]
      /\ Routed(one) <=> ~ Handwritten
      /\ Routed(one) => one.changes[4].old = tree[Router]
  <2>1. /\ \A i \in DOMAIN one.changes : one.changes[i].old = tree[one.changes[i].path]
        /\ 4 \in DOMAIN one.changes <=> tree[Router] = Absent \/ Header \in tree[Router]
    BY <1>1, PlanIsWell DEF BeginApply
  <2>2. /\ one.changes[1].path = Registry /\ 1 \in DOMAIN one.changes
        /\ 4 \in DOMAIN one.changes => one.changes[4].path = Router
    BY <1>1 DEF WellPlanned, PlanIds
  <2>3. QED
    BY <2>1, <2>2 DEF Routed, Handwritten
<1>6. Prior(one) = tree[Registry]
  BY <1>5 DEF Prior
<1>7. /\ (Handwritten' <=> Handwritten) /\ (RegistryTrusted' <=> RegistryTrusted)
      /\ (RouterTrusted' <=> RouterTrusted) /\ (Whole' <=> Whole) /\ (Trusted' <=> Trusted)
      /\ LiveMarks' = LiveMarks
  BY <1>1, <1>3 DEF Handwritten, RegistryTrusted, RouterTrusted, Whole, Trusted, LiveMarks
<1>8. RouterKept'
  BY <1>1, <1>3, <1>5, <1>7 DEF SharedInv, RouterKept
<1>9. ASSUME Trusted, NEW id \in Standing
      PROVE  /\ Marked(id) \subseteq tree[Registry] /\ Wiki(w) \notin Prior(id)
             /\ Wiki(w) \in WikiMarks
  <2>1. Marked(id) \subseteq tree[Registry]
    BY <1>1, <1>4, <1>9 DEF SharedInv, Registered
  <2>2. Wiki(w) \in WikiMarks
    BY MarkFacts
  <2>3. QED
    BY <1>1, <2>1, <2>2 DEF Marked
<1>10. Registered'
  <2>1. ASSUME Trusted, NEW id \in Standing', NEW other \in Standing', id # other
        PROVE  ~ (Wiki(id.wiki) \in Prior(other) /\ Wiki(other.wiki) \in Prior(id))
    <3>1. CASE id \in Standing /\ other \in Standing
      BY <2>1, <3>1 DEF SharedInv, Registered
    <3>2. CASE id = one
      BY <1>1, <1>3, <1>9, <2>1, <3>2
    <3>3. CASE other = one
      BY <1>1, <1>3, <1>9, <2>1, <3>3
    <3>4. QED
      BY <1>3, <3>1, <3>2, <3>3
  <2>2. ASSUME Trusted, NEW id \in Recorded, Settled(id)
        PROVE  Marked(id) \subseteq tree[Registry]
    BY <1>9, <2>2, SettledStands
  <2>3. QED
    BY <1>1, <1>3, <1>6, <1>7, <2>1, <2>2 DEF SharedInv, Registered
<1>11. Listed'
  <2>1. ASSUME RouterTrusted, Trusted
        PROVE  /\ one.changes[4].old = tree[Router]
               /\ \A id \in Recorded : Settled(id) =>
                    tree[Router] # Absent /\ Marked(id) \subseteq tree[Router]
               /\ \A id \in Recorded : Settled(id) => Marked(id) \subseteq Text(tree[Router])
    BY <1>5, <2>1 DEF SharedInv, Listed, RouterTrusted, Text
  <2>2. ASSUME RouterTrusted, Trusted, NEW id \in Standing', NEW other \in Standing',
               id # other, Wiki(id.wiki) \in Prior(other)
        PROVE  Marked(id) \subseteq Text(other.changes[4].old)
    <3>1. CASE id \in Standing /\ other \in Standing
      BY <2>2, <3>1 DEF SharedInv, Listed
    <3>2. CASE id = one
      BY <1>1, <1>3, <1>9, <2>2, <3>2
    <3>3. CASE other = one
      BY <1>3, <1>4, <2>1, <2>2, <3>3
    <3>4. QED
      BY <1>3, <3>1, <3>2, <3>3
  <2>3. QED
    BY <1>1, <1>3, <1>7, <2>1, <2>2 DEF Listed
<1>12. RegistryTraces'
  <2>1. ASSUME Whole, RegistryTrusted \/ RouterTrusted
        PROVE  Prior(one) \cap WikiMarks \subseteq LiveMarks
    BY <1>1, <1>6, <2>1 DEF SharedInv, RegistryTraces, Text
  <2>2. QED
    BY <1>1, <1>3, <1>7, <2>1 DEF SharedInv, RegistryTraces
<1>13. RouterTraces'
  <2>1. ASSUME Whole, RouterTrusted
        PROVE  Text(one.changes[4].old) \cap WikiMarks \subseteq Prior(one)
    BY <1>1, <1>2, <1>5, <1>6, <2>1 DEF SharedInv, RouterTraces, RouterTrusted, Closed
  <2>2. QED
    BY <1>1, <1>3, <1>7, <2>1 DEF SharedInv, RouterTraces
<1>14. QED
  BY <1>8, <1>10, <1>11, <1>12, <1>13 DEF SharedInv


(* What a recovery finds in the registry and the router it may recover.    *)
LEMMA SharedNotForeign ==
  ASSUME NEW id, NEW entries, WellPlanned(id), Fits(entries, id),
         NEW i \in {1, 4}, i \in DOMAIN entries, ~ Foreign(entries[i])
  PROVE  tree[entries[i].path] \in {Absent, entries[i].old, entries[i].new}
<1>1. entries[i].path \in Shared
  BY Parts, SharedPaths
<1>2. \A w \in Wikis : Log(w) \notin Shared
  BY OwnPaths
<1>3. QED
  BY <1>1, <1>2 DEF Foreign, Done, Incomplete, Grown

(* A recovery starts from files in which every other settled wiki was      *)
(* marked before its own plan.                                             *)
LEMMA RecoveryReads ==
  ASSUME BaseInv, OwnInv, SharedInv, NEW one \in Recorded, one \in Standing,
         NoForeign(manifest[one].entries), Trusted, NEW id \in Recorded, Settled(id), id # one
  PROVE  Marked(id) \subseteq Prior(one)
<1> DEFINE entries == manifest[one].entries
           w == one.wiki
<1>1. /\ WellPlanned(one) /\ Fits(entries, one) /\ WellPlanned(id)
      /\ Routed(one) => 4 \in DOMAIN entries
  BY RecordFields DEF Fits, Routed, WellPlanned, PlanIds
<1>2. /\ w \in Wikis /\ id.wiki \in Wikis /\ Marked(id) \subseteq WikiMarks
      /\ Wiki(id.wiki) \in Marked(id) /\ Marked(id) = (Prior(id) \cap WikiMarks) \cup {Wiki(id.wiki)}
  BY <1>1, MarkedFacts DEF Marked
<1>3. id \in Standing /\ id.wiki # w
  BY SettledStands DEF OwnInv, OneEach
<1>4. ASSUME Marked(id) \subseteq Prior(one) \cup {Wiki(w)} PROVE Marked(id) \subseteq Prior(one)
  <2>1. Wiki(id.wiki) # Wiki(w)
    BY <1>2, <1>3, WikiMarksDiffer
  <2>2. Wiki(id.wiki) \in Prior(one)
    BY <1>2, <1>4, <2>1
  <2>3. Wiki(w) \notin Prior(id)
    BY <1>3, <2>2 DEF SharedInv, Registered
  <2>4. QED
    BY <1>2, <1>4, <2>1, <2>3
<1>5. /\ 1 \in DOMAIN entries /\ entries[1].path = Registry /\ entries[1].old = Prior(one)
      /\ entries[1].new = Prior(one) \cup {Wiki(w)}
      /\ Routed(one) => /\ entries[4].path = Router /\ entries[4].old = one.changes[4].old
                        /\ entries[4].new = {Header} \cup ((Prior(one) \cup {Wiki(w)}) \cap WikiMarks)
  BY <1>1, Parts
<1>6. CASE tree[Registry] # Absent
  <2>1. ~ Foreign(entries[1])
    BY <1>5 DEF NoForeign
  <2>2. tree[Registry] \in {Prior(one), Prior(one) \cup {Wiki(w)}}
    BY <1>1, <1>5, <1>6, <2>1, SharedNotForeign
  <2>3. Marked(id) \subseteq tree[Registry]
    BY <1>6 DEF SharedInv, Registered
  <2>4. QED
    BY <1>4, <2>2, <2>3
<1>7. CASE tree[Registry] = Absent
  <2>1. RouterTrusted /\ Whole
    BY <1>7 DEF SharedInv, Registered, Trusted
  <2>2. tree[Router] # Absent /\ Marked(id) \subseteq tree[Router]
    BY <2>1 DEF SharedInv, Listed
  <2>3. Routed(one)
    BY <2>1 DEF SharedInv, RouterKept, RouterTrusted
  <2>4. ~ Foreign(entries[4]) /\ 4 \in DOMAIN entries
    BY <1>1, <2>3 DEF NoForeign
  <2>5. tree[Router] \in {entries[4].old, entries[4].new}
    BY <1>1, <1>5, <2>2, <2>3, <2>4, SharedNotForeign
  <2>6. CASE tree[Router] = entries[4].old
    <3>1. Text(entries[4].old) \cap WikiMarks \subseteq Prior(one)
      BY <1>5, <2>1, <2>3 DEF SharedInv, RouterTraces
    <3>2. Text(entries[4].old) = tree[Router]
      BY <2>2, <2>6 DEF Text
    <3>3. QED
      BY <1>2, <2>2, <3>1, <3>2
  <2>7. CASE tree[Router] = entries[4].new
    <3>1. Header \notin WikiMarks
      BY MarkFacts
    <3>2. Marked(id) \subseteq Prior(one) \cup {Wiki(w)}
      BY <1>2, <1>5, <2>2, <2>3, <2>7, <3>1
    <3>3. QED
      BY <1>4, <3>2
  <2>8. QED
    BY <2>5, <2>6, <2>7
<1>8. QED
  BY <1>6, <1>7

LEMMA RecoveryShared ==
  ASSUME BaseInv, OwnInv, SharedInv, NEW one \in Recorded,
         BeginResume(one) \/ BeginRollback(one)
  PROVE  SharedInv'
<1>1. /\ run = Idle /\ manifest[one].state # "rolled_back" /\ NoForeign(manifest[one].entries)
      /\ UNCHANGED <<tree, manifest, edited, torn, unsettled>>
      /\ run'.id = one /\ run'.phase # "record"
  BY DEF BeginResume, BeginRollback, files, Idle
<1>2. one \in Standing
  BY <1>1 DEF Standing
<1>3. /\ Recorded' = Recorded
      /\ \A id \in Recorded' : Settled(id)' => Settled(id)
      /\ Standing' \subseteq Standing
      /\ \A w \in Wikis : Live(w)' <=> Live(w)
      /\ (\A id \in Recorded' : ~ Open(id)') => (\A id \in Recorded : ~ Open(id))
  BY <1>1, RecordsRest
<1>4. /\ (Handwritten' <=> Handwritten) /\ (RegistryTrusted' <=> RegistryTrusted)
      /\ (RouterTrusted' <=> RouterTrusted) /\ (Whole' <=> Whole) /\ (Trusted' <=> Trusted)
      /\ LiveMarks' = LiveMarks
  BY <1>1, <1>3 DEF Handwritten, RegistryTrusted, RouterTrusted, Whole, Trusted, LiveMarks
<1>5. ASSUME Trusted, NEW id \in Recorded, Settled(id), id # one
      PROVE  Marked(id) \subseteq Prior(one)
    BY <1>1, <1>2, <1>5, RecoveryReads
<1>6. RouterKept'
  BY <1>1, <1>3, <1>4 DEF SharedInv, RouterKept
<1>7. Registered'
  BY <1>1, <1>3, <1>4, <1>5 DEF SharedInv, Registered
<1>8. Listed'
  <2>1. ASSUME Trusted, RouterTrusted, NEW id \in Recorded, Settled(id), id # one
        PROVE  Marked(id) \subseteq Text(one.changes[4].old)
    <3>1. Marked(id) \subseteq Prior(one) /\ Wiki(id.wiki) \in Marked(id)
      BY <1>5, <2>1 DEF Marked
    <3>2. QED
      BY <1>2, <2>1, <3>1, SettledStands DEF SharedInv, Listed
  <2>2. QED
    BY <1>1, <1>3, <1>4, <2>1 DEF SharedInv, Listed
<1>9. RegistryTraces' /\ RouterTraces'
  BY <1>1, <1>3, <1>4 DEF SharedInv, RegistryTraces, RouterTraces
<1>10. QED
  BY <1>6, <1>7, <1>8, <1>9 DEF SharedInv

(* A transaction is settled over targets that are all done: its wiki is in *)
(* the registry and in a router that is not somebody's own.                *)
LEMMA SettleShared ==
  ASSUME BaseInv, SharedInv, NEW one \in Recorded, one \in Standing, NEW entries,
         WellPlanned(one), Fits(entries, one), \A i \in DOMAIN entries : Done(entries[i]),
         \A id \in Recorded : Settled(id)' => Settled(id) \/ id = one,
         Recorded' = Recorded, Standing' = Standing, \A w \in Wikis : Live(w)' <=> Live(w),
         UNCHANGED <<tree, edited, torn>>,
         run' = Idle \/ (run # Idle /\ run'.id = run.id /\ run.id = one)
  PROVE  SharedInv'
<1> DEFINE w == one.wiki
<1>1. /\ 1 \in DOMAIN entries /\ entries[1].path = Registry
      /\ entries[1].new = Prior(one) \cup {Wiki(w)} /\ entries[1].new \in SUBSET Marks
      /\ Routed(one) =>
           /\ 4 \in DOMAIN entries /\ entries[4].path = Router
           /\ entries[4].new = {Header} \cup ((Prior(one) \cup {Wiki(w)}) \cap WikiMarks)
           /\ entries[4].new \in SUBSET Marks
      /\ w \in Wikis /\ Wiki(w) \in WikiMarks
  BY Parts, MarkFacts DEF Fits, Routed, WellPlanned, PlanIds
<1>2. \A v \in Wikis : Log(v) # Registry /\ Log(v) # Router
  BY OwnPaths, SharedPaths
<1>3. tree[Registry] = Prior(one) \cup {Wiki(w)} /\ tree[Registry] # Absent
  BY <1>1, <1>2, MarksAreContent DEF Done, Grown
<1>4. Routed(one) =>
        /\ tree[Router] = {Header} \cup ((Prior(one) \cup {Wiki(w)}) \cap WikiMarks)
        /\ tree[Router] # Absent
  BY <1>1, <1>2, MarksAreContent DEF Done, Grown
<1>5. RouterTrusted => Routed(one)
  BY DEF SharedInv, RouterKept, RouterTrusted
<1>6. Marked(one) \subseteq tree[Registry] /\ (Routed(one) => Marked(one) \subseteq tree[Router])
  BY <1>1, <1>3, <1>4 DEF Marked
<1>7. /\ (Handwritten' <=> Handwritten) /\ (RegistryTrusted' <=> RegistryTrusted)
      /\ (RouterTrusted' <=> RouterTrusted) /\ (Whole' <=> Whole) /\ (Trusted' <=> Trusted)
      /\ LiveMarks' = LiveMarks
  BY DEF Handwritten, RegistryTrusted, RouterTrusted, Whole, Trusted, LiveMarks
<1>8. RouterKept'
  BY <1>7 DEF SharedInv, RouterKept
<1>9. Registered'
  <2>1. ASSUME Trusted, NEW id \in Recorded, Settled(id)' PROVE Marked(id) \subseteq tree[Registry]
    BY <1>3, <1>6, <2>1 DEF SharedInv, Registered
  <2>2. ASSUME Trusted, NEW id \in Recorded, Settled(id)', run' # Idle, id # run'.id
        PROVE  Marked(id) \subseteq Prior(run'.id)
    BY <2>2 DEF SharedInv, Registered
  <2>3. QED
    BY <1>7, <2>1, <2>2 DEF SharedInv, Registered
<1>10. Listed'
  <2>1. ASSUME Trusted, RouterTrusted, NEW id \in Recorded, Settled(id)'
        PROVE  tree[Router] # Absent /\ Marked(id) \subseteq tree[Router]
    BY <1>4, <1>5, <1>6, <2>1 DEF SharedInv, Listed
  <2>2. ASSUME Trusted, RouterTrusted, NEW id \in Recorded, Settled(id)', run' # Idle,
               id # run'.id
        PROVE  Marked(id) \subseteq Text(run'.id.changes[4].old)
    BY <2>2 DEF SharedInv, Listed
  <2>3. QED
    BY <1>7, <2>1, <2>2 DEF SharedInv, Listed
<1>11. RegistryTraces'
  BY <1>7 DEF SharedInv, RegistryTraces
<1>12. RouterTraces'
  <2>1. RouterTrusted => Text(tree[Router]) \cap WikiMarks \subseteq tree[Registry]
    <3>1. Header \notin WikiMarks
      BY MarkFacts
    <3>2. QED
      BY <1>3, <1>4, <1>5, <3>1 DEF Text
  <2>2. QED
    BY <1>7, <2>1 DEF SharedInv, RouterTraces
<1>13. QED
  BY <1>8, <1>9, <1>10, <1>11, <1>12 DEF SharedInv


(* When an undo or a rollback is over, every target that no write tore is  *)
(* as it was before.                                                       *)
LEMMA ClearedTargets ==
  ASSUME BaseInv, OpenInv, RunInv, Cleared, NEW i \in DOMAIN run.entries
  PROVE  AsBefore(tree, run.entries[i], edited) \/ run.entries[i].path \in torn
<1>1. /\ run.phase \in {"undo", "restore"} /\ run.next = 0
      /\ run.next \in Nat /\ run.count \in Nat /\ DOMAIN run.entries = 1 .. Len(run.entries)
      /\ Len(run.entries) \in {3, 4}
  BY Lengths DEF Cleared
<1>2. CASE run.phase = "undo"
  <2>1. run.op = "apply"
    BY <1>2, Busy, RunFields DEF BaseInv, RunFits
  <2>2. CASE i > run.count
    BY <1>2, <2>1, <2>2 DEF RunInv, Unwritten
  <2>3. CASE ~ (i > run.count)
    <3>1. i \in 1 .. run.count
      BY <1>1, <2>3
    <3>2. tree[run.entries[i].path] = run.entries[i].old
      BY <1>1, <1>2, <3>1 DEF Cleared
    <3>3. QED
      BY <3>2 DEF AsBefore
  <2>4. QED
    BY <2>2, <2>3
<1>3. CASE run.phase = "restore"
  <2>1. i > run.next
    BY <1>1
  <2>2. QED
    BY <1>3, <2>1 DEF RunInv, Restored
<1>4. QED
  BY <1>1, <1>2, <1>3

(* The wiki that was undone or rolled back leaves the registry and the     *)
(* router to the others.                                                   *)
LEMMA ClearedShared ==
  ASSUME BaseInv, OpenInv, RunInv, OwnInv, SharedInv, Cleared PROVE SharedInv'
<1> DEFINE one == run.id
           w == one.wiki
           entries == run.entries
<1>1. /\ Standing' = Standing \ {one}
      /\ \A id \in Recorded' : Settled(id)' => Settled(id) /\ id # one /\ id \in Recorded
      /\ \A v \in Wikis : Live(v)' <=> Live(v) /\ v # w
  BY ClearedStands
<1>2. /\ UNCHANGED <<tree, edited, torn>> /\ run.phase \in {"undo", "restore"}
      /\ run' = Idle \/ run'.id = one
  BY DEF Cleared
<1>3. /\ one \in Standing /\ w \in Wikis /\ run # Idle /\ one \in Recorded
      /\ WellPlanned(one) /\ Fits(entries, one)
      /\ \A id \in Standing : id # one => Settled(id) /\ id \in Recorded
  BY <1>2, AtWork, Busy, SettledStands
<1>4. /\ 1 \in DOMAIN entries /\ entries[1].path = Registry /\ entries[1].old = Prior(one)
      /\ Prior(one) \in SUBSET Marks /\ Prior(one) # Absent /\ Wiki(w) \notin Prior(one)
      /\ Routed(one) => /\ 4 \in DOMAIN entries /\ entries[4].path = Router
                        /\ entries[4].old = one.changes[4].old
  <2>1. Routed(one) => 4 \in DOMAIN entries
    BY <1>3 DEF Fits, Routed, WellPlanned, PlanIds
  <2>2. Prior(one) # Absent /\ Prior(one) \in SUBSET Marks
    BY <1>3, MarkedFacts, MarksAreContent
  <2>3. 1 \in DOMAIN entries
    BY <1>3, Parts
  <2>4. QED
    BY <1>3, <2>1, <2>2, <2>3, Parts
<1>5. /\ (Handwritten' <=> Handwritten) /\ (RegistryTrusted' <=> RegistryTrusted)
      /\ (RouterTrusted' <=> RouterTrusted) /\ (Whole' <=> Whole) /\ (Trusted' <=> Trusted)
  BY <1>2 DEF Handwritten, RegistryTrusted, RouterTrusted, Whole, Trusted
<1>6. LiveMarks' = LiveMarks \ {Wiki(w)}
  <2>1. \A v \in Wikis : Wiki(v) = Wiki(w) => v = w
    BY <1>3, WikiMarksDiffer
  <2>2. QED
    BY <1>1, <1>3, <2>1 DEF LiveMarks
<1>7. Whole => /\ Text(tree[Registry]) \cap WikiMarks \subseteq Prior(one)
               /\ tree[Registry] # Absent => tree[Registry] \cap WikiMarks = Prior(one) \cap WikiMarks
  <2>1. Whole => Registry \notin torn
    BY SharedPaths DEF Whole
  <2>2. Whole => AsBefore(tree, entries[1], edited)
    BY <1>4, <2>1, ClearedTargets
  <2>3. QED
    BY <1>4, <2>2 DEF AsBefore, Text
<1>8. Whole /\ RouterTrusted => Routed(one) /\ tree[Router] = one.changes[4].old
  <2>1. Whole => Router \notin torn
    BY SharedPaths DEF Whole
  <2>2. RouterTrusted => Routed(one) /\ Router \notin edited
    BY <1>3 DEF SharedInv, RouterKept, RouterTrusted
  <2>3. QED
    BY <1>4, <2>1, <2>2, ClearedTargets DEF AsBefore
<1>9. Whole /\ RouterTrusted => Text(tree[Router]) \cap WikiMarks \subseteq Prior(one)
  BY <1>3, <1>8 DEF SharedInv, RouterTraces
<1>10. RouterKept'
  BY <1>1, <1>2, <1>5 DEF SharedInv, RouterKept
<1>11. Registered'
  BY <1>1, <1>2, <1>3, <1>5 DEF SharedInv, Registered
<1>12. Listed'
  BY <1>1, <1>2, <1>3, <1>5 DEF SharedInv, Listed
<1>13. RegistryTraces'
  <2>1. ASSUME Whole, RegistryTrusted \/ RouterTrusted
        PROVE  /\ Text(tree[Registry]) \cap WikiMarks \subseteq LiveMarks'
               /\ \A id \in Standing' : Prior(id) \cap WikiMarks \subseteq LiveMarks'
    <3>1. Text(tree[Registry]) \cap WikiMarks \subseteq LiveMarks'
      BY <1>4, <1>6, <1>7, <2>1 DEF SharedInv, RegistryTraces
    <3>2. ASSUME NEW id \in Standing' PROVE Prior(id) \cap WikiMarks \subseteq LiveMarks'
      <4>1. id \in Standing /\ id # one /\ Settled(id) /\ id \in Recorded
        BY <1>1, <1>3, <3>2
      <4>2. Marked(id) \subseteq Prior(one)
        BY <1>3, <2>1, <4>1 DEF SharedInv, Registered, Trusted
      <4>3. Wiki(w) \notin Prior(id) \cap WikiMarks
        BY <1>4, <4>2 DEF Marked
      <4>4. Prior(id) \cap WikiMarks \subseteq LiveMarks
        BY <2>1, <4>1 DEF SharedInv, RegistryTraces
      <4>5. QED
        BY <1>6, <4>3, <4>4
    <3>3. QED
      BY <3>1, <3>2
  <2>2. QED
    BY <1>2, <1>5, <2>1 DEF RegistryTraces
<1>14. RouterTraces'
  <2>1. ASSUME Whole, RouterTrusted
        PROVE  Text(tree[Router]) \cap WikiMarks \subseteq LiveMarks'
    BY <1>4, <1>6, <1>9, <2>1 DEF SharedInv, RouterTraces
  <2>2. ASSUME Whole, RouterTrusted, tree[Registry] # Absent
        PROVE  Text(tree[Router]) \cap WikiMarks \subseteq tree[Registry]
    BY <1>7, <1>9, <2>2
  <2>3. QED
    BY <1>1, <1>2, <1>5, <2>1, <2>2 DEF SharedInv, RouterTraces
<1>15. QED
  BY <1>10, <1>11, <1>12, <1>13, <1>14 DEF SharedInv

LEMMA PartialShared ==
  ASSUME BaseInv, OpenInv, SharedInv, KeptPartial PROVE SharedInv'
<1>1. /\ Recorded' = Recorded /\ Standing' = Standing
      /\ \A id \in Recorded' : Settled(id)' => Settled(id)
      /\ \A v \in Wikis : Live(v)' <=> Live(v)
      /\ \E id \in Recorded' : Open(id)'
  BY PartialStands
<1>2. UNCHANGED <<tree, edited, torn>> /\ run' = Idle
  BY DEF KeptPartial
<1>3. ~ Closed'
  BY <1>1 DEF Closed
<1>4. QED
  BY <1>1, <1>2, <1>3, SharedFrame

LEMMA EditShared ==
  ASSUME BaseInv, SharedInv, NEW f \in Editable, Edit(f) PROVE SharedInv'
<1>1. /\ UNCHANGED <<manifest, unsettled, torn>> /\ edited' = edited \cup {f}
      /\ f \in Paths /\ tree \in [Paths -> Content] /\ tree[f] \in SUBSET Marks /\ tree[f] # Absent
  BY ProvisionConstants, MarksAreContent DEF Edit, BaseInv, TypeOK
<1>2. PICK content \in {tree[f] \cup {Edited(f)}, Absent} : tree' = [tree EXCEPT ![f] = content]
  BY DEF Edit
<1>3. tree'[f] = content /\ \A g \in Paths : g # f => tree'[g] = tree[g]
  BY <1>1, <1>2
<1>4. Edited(f) \notin WikiMarks
  BY <1>1, MarkFacts
<1>5. /\ run'.phase = run.phase /\ run'.id = run.id
      /\ run' = Idle \/ run # Idle
  <2>1. \/ run = Idle /\ run' = Idle
        \/ run # Idle /\ run' = [run EXCEPT !.raced = run.raced \cup {f}]
    BY DEF Edit, Noticed
  <2>2. run \in Runs
    BY RunFields DEF BaseInv
  <2>3. QED
    BY <2>1, <2>2 DEF Runs
<1>6. /\ Recorded' = Recorded
      /\ \A id \in Recorded' : Settled(id)' => Settled(id)
      /\ Standing' \subseteq Standing
      /\ \A w \in Wikis : Live(w)' <=> Live(w)
      /\ (\A id \in Recorded' : ~ Open(id)') => (\A id \in Recorded : ~ Open(id))
  BY <1>1, <1>5, RecordsRest
<1>7. LiveMarks' = LiveMarks
  BY <1>6 DEF LiveMarks
<1>8. Registry \in Paths /\ Router \in Paths /\ Registry # Router
  BY SharedPaths
<1>9. CASE f \notin {Registry, Router}
  <2>1. /\ tree'[Registry] = tree[Registry] /\ tree'[Router] = tree[Router]
        /\ Registry \in edited' <=> Registry \in edited
        /\ Router \in edited' <=> Router \in edited
    BY <1>1, <1>3, <1>8, <1>9
  <2>2. run'.phase = "record" => run.phase = "record" /\ run'.id = run.id
    BY <1>5
  <2>3. run' = Idle \/ (run # Idle /\ run'.id = run.id)
    BY <1>5
  <2>4. torn \subseteq torn' /\ UNCHANGED manifest /\ unsettled \subseteq unsettled'
    BY <1>1
  <2>5. QED
    BY <2>1, <2>2, <2>3, <2>4, SharedStill
<1>10. CASE f = Registry
  <2>1. /\ tree'[Router] = tree[Router]
        /\ Router \in edited' <=> Router \in edited
        /\ ~ RegistryTrusted'
    BY <1>1, <1>3, <1>8, <1>10 DEF RegistryTrusted
  <2>2. /\ (Handwritten' <=> Handwritten) /\ (RouterTrusted' <=> RouterTrusted)
        /\ (Whole' <=> Whole) /\ (Trusted' => Trusted)
        /\ Trusted' => RouterTrusted /\ Whole
    BY <1>1, <2>1 DEF Handwritten, RouterTrusted, Whole, Trusted, RegistryTrusted
  <2>3. /\ tree[Registry] # Absent
        /\ tree'[Registry] # Absent => tree[Registry] \subseteq tree'[Registry]
        /\ Text(tree'[Registry]) \cap WikiMarks \subseteq Text(tree[Registry]) \cap WikiMarks
    BY <1>1, <1>3, <1>4, <1>10 DEF Text
  <2>4. RouterKept'
    BY <1>6, <2>1, <2>2 DEF SharedInv, RouterKept
  <2>5. Registered'
    <3>1. ASSUME Trusted, tree'[Registry] # Absent, NEW id \in Recorded, Settled(id)
          PROVE  Marked(id) \subseteq tree'[Registry]
      BY <2>3, <3>1 DEF SharedInv, Registered
    <3>2. QED
      BY <1>5, <1>6, <2>1, <2>2, <3>1 DEF SharedInv, Registered
  <2>6. Listed'
    BY <1>5, <1>6, <2>1, <2>2 DEF SharedInv, Listed
  <2>7. RegistryTraces'
    BY <1>6, <1>7, <2>1, <2>2, <2>3 DEF SharedInv, RegistryTraces
  <2>8. RouterTraces'
    BY <1>6, <1>7, <2>1, <2>2, <2>3 DEF SharedInv, RouterTraces
  <2>9. QED
    BY <2>4, <2>5, <2>6, <2>7, <2>8 DEF SharedInv
<1>11. CASE f = Router
  <2>1. /\ tree'[Registry] = tree[Registry] /\ ~ RouterTrusted' /\ Router \in edited'
        /\ Registry \in edited' <=> Registry \in edited
    BY <1>1, <1>3, <1>8, <1>11 DEF RouterTrusted
  <2>2. /\ (RegistryTrusted' <=> RegistryTrusted) /\ (Whole' <=> Whole)
        /\ Trusted' => Trusted /\ RegistryTrusted
    BY <1>1, <2>1 DEF RegistryTrusted, Whole, Trusted
  <2>3. RouterKept' /\ Listed' /\ RouterTraces'
    BY <2>1 DEF RouterKept, Listed, RouterTraces
  <2>4. Registered'
    BY <1>5, <1>6, <2>1, <2>2 DEF SharedInv, Registered
  <2>5. RegistryTraces'
    BY <1>6, <1>7, <2>1, <2>2 DEF SharedInv, RegistryTraces
  <2>6. QED
    BY <2>3, <2>4, <2>5 DEF SharedInv
<1>12. QED
  BY <1>9, <1>10, <1>11

(* A run writes one of its targets.                                        *)
LEMMA TargetShared ==
  ASSUME BaseInv, OpenInv, SharedInv, run.phase \in {"write", "undo", "restore"},
         NEW i \in DOMAIN run.entries, NEW content \in {run.entries[i].old, run.entries[i].new},
         Put(run.entries[i].path, content), UNCHANGED <<manifest, edited>>, torn \subseteq torn',
         unsettled' = unsettled \cup {run.id}, run'.id = run.id, run' # Idle,
         run'.phase # "record"
  PROVE  SharedInv'
<1> DEFINE one == run.id
           entries == run.entries
<1>1. /\ run # Idle /\ WellPlanned(one) /\ Fits(entries, one) /\ run.phase # "idle"
  BY Busy
<1>2. /\ tree'[entries[i].path] = content
      /\ \A f \in Paths : f # entries[i].path => tree'[f] = tree[f]
  BY <1>1, TargetWritten
<1>3. /\ i \in {1, 2, 3, 4} /\ one.wiki \in Wikis
      /\ entries[1].path = Registry /\ entries[1].old = Prior(one)
      /\ entries[1].new = Prior(one) \cup {Wiki(one.wiki)}
      /\ entries[2].path = Card(one.wiki) /\ entries[3].path = Log(one.wiki)
      /\ 4 \in DOMAIN entries => entries[4].path = Router /\ entries[4].old = one.changes[4].old
  BY <1>1, Parts
<1>4. Registry \in Paths /\ Router \in Paths /\ Registry # Router /\ Shared = {Registry, Router}
  BY SharedPaths
<1>5. CASE i = 1
  <2>1. tree'[Router] = tree[Router]
    BY <1>2, <1>3, <1>4, <1>5
  <2>2. tree'[Registry] \in {Prior(run.id), Prior(run.id) \cup {Wiki(run.id.wiki)}}
    BY <1>2, <1>3, <1>5
  <2>3. QED
    BY <2>1, <2>2, RegistryPut
<1>6. CASE i = 4
  <2>1. entries[4].new = one.changes[4].new /\ Routed(one)
    BY <1>1, <1>6 DEF Fits, Routed, WellPlanned, PlanIds
  <2>2. tree'[Registry] = tree[Registry]
    BY <1>2, <1>3, <1>4, <1>6
  <2>3. tree'[Router] \in {run.id.changes[4].old, run.id.changes[4].new}
    BY <1>2, <1>3, <1>6, <2>1
  <2>4. QED
    BY <2>1, <2>2, <2>3, RouterPut
<1>7. CASE i \notin {1, 4}
  <2>1. entries[i].path \notin Shared
    BY <1>3, <1>7, OwnPaths
  <2>2. tree'[Registry] = tree[Registry] /\ tree'[Router] = tree[Router]
    BY <1>2, <1>4, <2>1
  <2>3. /\ Registry \in edited' <=> Registry \in edited
        /\ Router \in edited' <=> Router \in edited
    OBVIOUS
  <2>4. run' = Idle \/ (run # Idle /\ run'.id = run.id)
    BY <1>1
  <2>5. UNCHANGED manifest /\ unsettled \subseteq unsettled'
    OBVIOUS
  <2>6. QED
    BY <2>2, <2>3, <2>4, <2>5, SharedStill
<1>8. QED
  BY <1>5, <1>6, <1>7

LEMMA NextShared ==
  ASSUME FinishFirst, BaseInv, OpenInv, RunInv, OwnInv, SharedInv, [Next]_vars PROVE SharedInv'
<1>1. run \in Runs
  BY RunFields DEF BaseInv
<1>2. ASSUME tree'[Registry] = tree[Registry], tree'[Router] = tree[Router],
             UNCHANGED <<manifest, unsettled, edited, torn>>,
             run' = Idle \/ (run # Idle /\ run'.id = run.id),
             run'.phase = "record" => run.phase = "record"
      PROVE  SharedInv'
  <2>1. /\ Registry \in edited' <=> Registry \in edited
        /\ Router \in edited' <=> Router \in edited
    BY <1>2
  <2>2. torn \subseteq torn' /\ UNCHANGED manifest /\ unsettled \subseteq unsettled'
    BY <1>2
  <2>3. run'.phase = "record" => run.phase = "record" /\ run'.id = run.id
    BY <1>2, IdleFacts
  <2>4. QED
    BY <1>2, <2>1, <2>2, <2>3, SharedStill
<1>3. ASSUME UNCHANGED run PROVE run' = Idle \/ (run # Idle /\ run'.id = run.id)
  BY <1>3
<1>4. CASE UNCHANGED vars
  BY <1>2, <1>3, <1>4 DEF vars, files
<1>5. ASSUME NEW w \in Wikis, DryRun(w) \/ BeginApply(w) \/ Author(w) \/ AppendLater(w)
      PROVE  SharedInv'
  <2>1. CASE DryRun(w) \/ Author(w)
    BY <1>2, <1>3, <2>1 DEF DryRun, Author, files
  <2>2. CASE BeginApply(w)
    BY <2>2, BeginApplyShared
  <2>3. CASE AppendLater(w)
    <3>1. /\ tree' = [tree EXCEPT ![Log(w)] = tree[Log(w)] \cup {Later}]
          /\ UNCHANGED <<manifest, edited, unsettled, torn, run>>
      BY <2>3 DEF AppendLater
    <3>2. Log(w) # Registry /\ Log(w) # Router
      BY OwnPaths, SharedPaths
    <3>3. tree'[Registry] = tree[Registry] /\ tree'[Router] = tree[Router]
      BY <3>1, <3>2
    <3>4. QED
      BY <1>2, <1>3, <3>1, <3>3
  <2>4. QED
    BY <1>5, <2>1, <2>2, <2>3
<1>6. ASSUME NEW id \in Recorded, BeginResume(id) \/ Verify(id) \/ BeginRollback(id)
      PROVE  SharedInv'
  <2>1. CASE BeginResume(id) \/ BeginRollback(id)
    BY <2>1, RecoveryShared
  <2>2. CASE Verify(id)
    <3> DEFINE entries == manifest[id].entries
    <3>1. /\ Recorded' = Recorded /\ Standing' = Standing
          /\ \A other \in Recorded : Settled(other)' => Settled(other) \/ other = id
          /\ \A w \in Wikis : Live(w)' <=> Live(w)
          /\ id \in Standing
      BY <2>2, VerifyStands
    <3>2. WellPlanned(id) /\ Fits(entries, id)
      BY RecordFields
    <3>3. /\ \A i \in DOMAIN entries : Done(entries[i])
          /\ UNCHANGED <<tree, edited, torn>> /\ run' = Idle
      BY <2>2 DEF Verify, files
    <3> HIDE DEF entries
    <3>4. QED
      BY <3>1, <3>2, <3>3, SettleShared
  <2>3. QED
    BY <1>6, <2>1, <2>2
<1>7. CASE WriteManifest
  <2>1. /\ Standing' = Standing /\ run'.id = run.id /\ run # Idle
        /\ \A id \in Recorded' : Settled(id)' => Settled(id) /\ id \in Recorded
        /\ \A v \in Wikis : Live(v) => Live(v)'
        /\ \E id \in Recorded' : Open(id)'
    BY <1>7, WriteManifestStands DEF Settled
  <2>2. UNCHANGED <<tree, edited, torn>>
    BY <1>7 DEF WriteManifest, files
  <2>3. ~ Closed'
    BY <2>1 DEF Closed
  <2>4. QED
    BY <2>1, <2>2, <2>3, SharedFrame
<1>8. CASE WriteTarget
  <2>1. /\ run.phase = "write" /\ run.next \in DOMAIN run.entries /\ run # Idle
        /\ UNCHANGED <<manifest, edited, torn>>
    BY <1>8, AtWork DEF WriteTarget
  <2>2. run'.phase = "write" /\ run'.id = run.id /\ run' # Idle
    BY <1>1, <1>8, <2>1, IdleFacts DEF WriteTarget, Runs
  <2>3. CASE run.next \in run.todo
    <3>1. /\ Put(run.entries[run.next].path, run.entries[run.next].new)
          /\ unsettled' = unsettled \cup {run.id}
      BY <1>8, <2>3 DEF WriteTarget
    <3>2. QED
      BY <2>1, <2>2, <3>1, TargetShared
  <2>4. CASE run.next \notin run.todo
    BY <1>2, <1>8, <2>1, <2>2, <2>4 DEF WriteTarget, files
  <2>5. QED
    BY <2>3, <2>4
<1>9. CASE AppendEvent
  <2> DEFINE w == run.id.wiki
  <2>1. /\ run.phase = "write" /\ run # Idle /\ w \in Wikis
        /\ UNCHANGED <<manifest, unsettled, edited, torn>>
    BY <1>9, AtWork DEF AppendEvent
  <2>2. run'.phase = "commit" /\ run'.id = run.id
    BY <1>1, <1>9 DEF AppendEvent, Runs
  <2>3. tree'[Registry] = tree[Registry] /\ tree'[Router] = tree[Router]
    <3>1. Log(w) # Registry /\ Log(w) # Router
      BY <2>1, OwnPaths, SharedPaths
    <3>2. UNCHANGED tree \/ tree' = [tree EXCEPT ![Log(w)] = tree[Log(w)] \cup {Event}]
      BY <1>9 DEF AppendEvent, Put, files
    <3>3. tree \in [Paths -> Content] /\ Registry \in Paths /\ Router \in Paths
      BY SharedPaths DEF BaseInv, TypeOK
    <3> HIDE DEF w
    <3>4. QED
      BY <3>1, <3>2, <3>3
  <2>4. QED
    BY <1>2, <2>1, <2>2, <2>3
<1>10. CASE Commit
  <2>1. run.phase = "commit"
    BY <1>10 DEF Commit
  <2>2. CASE \A i \in DOMAIN run.entries : Done(run.entries[i])
    <3>1. /\ run.id \in Recorded /\ run.id \in Standing
          /\ WellPlanned(run.id) /\ Fits(run.entries, run.id)
      BY <2>1, AtWork, Busy
    <3>2. UNCHANGED <<tree, edited, torn>>
      BY <1>10 DEF Commit, files
    <3>3. /\ Recorded' = Recorded /\ Standing' = Standing
          /\ \A id \in Recorded : Settled(id)' => Settled(id) \/ id = run.id
          /\ \A w \in Wikis : Live(w)' <=> Live(w)
          /\ run'.id = run.id /\ run # Idle
      BY <1>10, <2>2, CommitStands
    <3>4. QED
      BY <2>2, <3>1, <3>2, <3>3, SettleShared
  <2>3. CASE ~ \A i \in DOMAIN run.entries : Done(run.entries[i])
    <3>1. run # Idle
      BY <2>1, IdleFacts
    <3>2. run' = Idle \/ run' = [run EXCEPT !.phase = "undo", !.next = run.next - 1]
      BY <1>10, <2>3 DEF Commit
    <3>3. run'.phase # "record" /\ (run' = Idle \/ run'.id = run.id)
      BY <1>1, <3>2, IdleFacts DEF Runs
    <3>4. UNCHANGED <<tree, manifest, unsettled, edited, torn>>
      BY <1>10, <2>3 DEF Commit, files
    <3>5. QED
      BY <1>2, <3>1, <3>3, <3>4
  <2>4. QED
    BY <2>2, <2>3
<1>11. CASE Audit
  BY <1>2, <1>11, IdleFacts DEF Audit, files
<1>12. CASE UndoTarget \/ RestoreTarget
  <2>1. /\ run.phase \in {"undo", "restore"} /\ run.next \in DOMAIN run.entries
        /\ Put(run.entries[run.next].path, run.entries[run.next].old)
        /\ unsettled' = unsettled \cup {run.id} /\ UNCHANGED <<manifest, edited, torn>>
    BY <1>12 DEF UndoTarget, RestoreTarget
  <2>2. run'.phase = run.phase /\ run'.id = run.id
    BY <1>1, <1>12 DEF UndoTarget, RestoreTarget, Runs
  <2>3. run'.phase # "record" /\ run' # Idle
    BY <2>1, <2>2, IdleFacts
  <2>4. QED
    BY <2>1, <2>2, <2>3, TargetShared
<1>13. CASE EndUndo \/ EndRollback
  BY <1>13, EndCases, ClearedShared, PartialShared
<1>14. CASE Raise
  <2>1. /\ run.phase \in {"write", "commit", "audit"} /\ UNCHANGED <<manifest, edited>>
    BY <1>14 DEF Raise
  <2>2. run'.phase = "undo" /\ run'.id = run.id
    BY <1>1, <1>14 DEF Raise, Runs
  <2>3. run'.phase # "record" /\ run' # Idle /\ run # Idle
    BY <2>1, <2>2, IdleFacts
  <2>4. CASE UNCHANGED <<files, torn, unsettled>>
    BY <1>2, <2>1, <2>2, <2>3, <2>4 DEF files
  <2>5. CASE /\ run.phase = "write" /\ run.next \in DOMAIN run.entries
             /\ Put(run.entries[run.next].path, run.entries[run.next].new)
             /\ torn' = torn \cup {run.entries[run.next].path}
             /\ unsettled' = unsettled \cup {run.id}
    <3>1. torn \subseteq torn'
      BY <2>5
    <3>2. QED
      BY <2>1, <2>2, <2>3, <2>5, <3>1, TargetShared
  <2>6. QED
    BY <1>14, <2>4, <2>5 DEF Raise
<1>15. CASE Crash
  <2>1. run' = Idle /\ UNCHANGED <<tree, manifest, edited, unsettled, torn>>
    BY <1>15 DEF Crash
  <2>2. QED
    BY <1>2, <2>1, IdleFacts
<1>16. ASSUME NEW f \in Editable, Edit(f) PROVE SharedInv'
  BY <1>16, EditShared
<1>17. QED
  BY <1>4, <1>5, <1>6, <1>7, <1>8, <1>9, <1>10, <1>11, <1>12, <1>13, <1>14, <1>15, <1>16
     DEF Next, Progress


-----------------------------------------------------------------------------
(* The theorems                                                            *)

LEMMA InitWhole == Init => WholeInv
<1> SUFFICES ASSUME Init PROVE WholeInv
  OBVIOUS
<1>1. /\ run = Idle /\ Recorded = {} /\ edited = {} /\ torn = {} /\ dirs = {}
      /\ run.phase = "idle"
  BY IdleFacts DEF Init, Recorded
<1>2. Standing = {} /\ \A w \in Wikis : ~ Live(w)
  BY <1>1 DEF Standing, Live
<1>3. /\ tree[Registry] = {} /\ tree[Router] \in {Absent, {}}
      /\ \A w \in Wikis : \A f \in Own(w) : tree[f] = Absent
  <2>1. PICK router \in {Absent, {}} :
          tree = [f \in Paths |-> IF f = Registry THEN {} ELSE IF f = Router THEN router ELSE Absent]
    BY DEF Init
  <2>2. \A w \in Wikis : \A f \in Own(w) : f \in Paths /\ f # Registry /\ f # Router
    BY OwnPaths, SharedPaths
  <2>3. QED
    BY <2>1, <2>2, SharedPaths
<1>4. {} # Absent
  BY MarksAreContent
<1>5. Targeted
  BY <1>1 DEF Targeted, Idle
<1>6. RunInv
  <2>1. run.op = "none" /\ run.entries = <<>> /\ run.next = 0
    BY <1>1, IdleFacts
  <2>2. QED
    BY <1>1, <2>1 DEF RunInv, Counted, Unwritten, Restored, Committed
<1>7. OwnInv
  BY <1>1, <1>2, <1>3 DEF OwnInv, OneEach, OwnWhole, OwnTraces
<1>8. SharedInv
  <2>1. RouterKept
    BY <1>2, <1>3 DEF RouterKept, Handwritten
  <2>2. Registered /\ Listed
    BY <1>1, <1>2, <1>3, <1>4 DEF Registered, Listed
  <2>3. Text(tree[Registry]) = {} /\ Text(tree[Router]) = {}
    BY <1>3 DEF Text
  <2>4. RegistryTraces /\ RouterTraces
    BY <1>2, <2>3 DEF RegistryTraces, RouterTraces
  <2>5. QED
    BY <2>1, <2>2, <2>4 DEF SharedInv
<1>9. QED
  BY <1>5, <1>6, <1>7, <1>8 DEF WholeInv

(* The whole invariant, when a transaction is settled before another one   *)
(* is started.                                                             *)
THEOREM WholeInvariance == FinishFirst => (Spec => [](BaseInv /\ OpenInv /\ WholeInv))
<1> SUFFICES ASSUME FinishFirst PROVE Spec => [](BaseInv /\ OpenInv /\ WholeInv)
  OBVIOUS
<1>1. Init => WholeInv
  BY InitWhole
<1>2. BaseInv /\ OpenInv /\ WholeInv /\ [Next]_vars => WholeInv'
  BY NextTargeted, NextRun, NextOwn, NextShared DEF WholeInv
<1>3. Spec => [](BaseInv /\ OpenInv)
  BY OpenInvariance
<1>4. QED
  BY <1>1, <1>2, <1>3, PTL DEF Spec

(* A wiki recorded as applied is whole: registered, routed and with its    *)
(* files, through the applies, undos and rollbacks of all the others       *)
(* (gardening.py:1463).                                                    *)
THEOREM AppliedStaysWhole == FinishFirst => (Spec => []AppliedIsWhole)
<1> SUFFICES ASSUME FinishFirst PROVE Spec => []AppliedIsWhole
  OBVIOUS
<1>1. ASSUME WholeInv PROVE AppliedIsWhole
  <2> SUFFICES ASSUME NEW id \in Recorded \ unsettled, manifest[id].state = "applied"
               PROVE  /\ Registry \in edited \/ Wiki(id.wiki) \in tree[Registry]
                      /\ \/ Shared \cap edited # {}
                         \/ Header \in tree[Router] => Wiki(id.wiki) \in tree[Router]
                      /\ Card(id.wiki) \in edited \/ tree[Card(id.wiki)] = {Generated}
                      /\ \/ Log(id.wiki) \in edited
                         \/ {Generated, Event} \subseteq tree[Log(id.wiki)]
    BY DEF AppliedIsWhole
  <2>1. Settled(id) /\ id \in Recorded /\ Wiki(id.wiki) \in Marked(id)
    BY DEF Settled, Marked
  <2>2. Registry \notin edited => Wiki(id.wiki) \in tree[Registry]
    BY <1>1, <2>1 DEF WholeInv, SharedInv, Registered, RegistryTrusted, Trusted
  <2>3. ASSUME Shared \cap edited = {}, Header \in tree[Router]
        PROVE  Wiki(id.wiki) \in tree[Router]
    <3>1. RouterTrusted /\ Trusted
      BY <2>3, SharedPaths DEF RouterTrusted, Handwritten, RegistryTrusted, Trusted
    <3>2. QED
      BY <1>1, <2>1, <3>1 DEF WholeInv, SharedInv, Listed
  <2>4. /\ Card(id.wiki) \in edited \/ tree[Card(id.wiki)] = {Generated}
        /\ Log(id.wiki) \in edited \/ {Generated, Event} \subseteq tree[Log(id.wiki)]
    BY <1>1, <2>1 DEF WholeInv, OwnInv, OwnWhole
  <2>5. QED
    BY <2>2, <2>3, <2>4
<1>2. Spec => [](BaseInv /\ OpenInv /\ WholeInv)
  BY WholeInvariance
<1>3. QED
  BY <1>1, <1>2, PTL

(* A wiki that no transaction on record accounts for has left no trace,    *)
(* whatever failed while it was applied, undone or rolled back             *)
(* (gardening.py:1629).                                                    *)
THEOREM NothingIsLeft == FinishFirst => (Spec => []NoTrace)
<1> SUFFICES ASSUME FinishFirst PROVE Spec => []NoTrace
  OBVIOUS
<1>1. ASSUME BaseInv, WholeInv PROVE NoTrace
  <2> SUFFICES ASSUME NEW w \in Wikis, ~ Live(w)
               PROVE  /\ \A f \in Paths : Trace(w, f) => f \in edited \cup Torn
                      /\ w \in dirs => w \in authored \/ Own(w) \cap edited # {}
    BY DEF NoTrace
  <2>1. /\ \A f \in Own(w) : tree[f] = Absent \/ f \in edited
        /\ w \in dirs => w \in authored \/ Own(w) \cap edited # {}
    BY <1>1 DEF WholeInv, OwnInv, OwnTraces
  <2>2. Wiki(w) \in WikiMarks /\ Wiki(w) \notin LiveMarks
    BY MarkFacts, WikiMarksDiffer DEF LiveMarks
  <2>3. ASSUME NEW f \in Paths, tree[f] # Absent, f \notin Own(w), Wiki(w) \in tree[f],
               f \notin edited, f \notin Torn
        PROVE  FALSE
    <3>1. CASE f = Registry
      <4>1. Whole
        BY <2>3, <3>1, SharedPaths DEF Torn, Whole
      <4>2. Wiki(w) \in Text(tree[Registry])
        BY <2>3, <3>1 DEF Text
      <4>3. QED
        BY <1>1, <2>2, <2>3, <3>1, <4>1, <4>2
           DEF WholeInv, SharedInv, RegistryTraces, RegistryTrusted
    <3>2. CASE f = Router
      <4>1. Whole /\ Router \notin edited
        BY <2>3, <3>2, SharedPaths DEF Torn, Whole
      <4>2. Wiki(w) \in tree[Router] \cap WikiMarks /\ Wiki(w) \in Text(tree[Router])
        BY <2>2, <2>3, <3>2 DEF Text
      <4>3. ~ Handwritten
        BY <1>1, <4>1, <4>2 DEF WholeInv, SharedInv, RouterKept
      <4>4. QED
        BY <1>1, <2>2, <4>1, <4>2, <4>3 DEF WholeInv, SharedInv, RouterTraces, RouterTrusted
    <3>3. CASE f \notin Shared
      <4>1. PICK v \in Wikis : f \in Own(v)
        BY <3>3, SharedPaths DEF Paths
      <4>2. f = Card(v) \/ f = Log(v)
        BY <4>1 DEF Own
      <4>3. QED
        BY <1>1, <2>2, <2>3, <4>2 DEF BaseInv, OwnFiles
    <3>4. QED
      BY <3>1, <3>2, <3>3, SharedPaths
  <2>4. QED
    BY <2>1, <2>3 DEF Trace
<1>2. Spec => [](BaseInv /\ OpenInv /\ WholeInv)
  BY WholeInvariance
<1>3. QED
  BY <1>1, <1>2, PTL
=============================================================================
