-------------------------- MODULE EvolveTxn_proofs --------------------------
(***************************************************************************)
(* Theorems about EvolveTxn for every vault, every set of requests and     *)
(* processes, and every order in which they run, die and are interfered    *)
(* with.                                                                   *)
(***************************************************************************)
EXTENDS EvolveTxn, EvolvePlan_proofs

-----------------------------------------------------------------------------
(* The inductive invariant                                                 *)

(* A process works on a plan, and past its manifest on a plan on record.   *)
OnRecord ==
  \A p \in Processes :
    /\ run[p].phase # "idle" => run[p].id \in PlanIds
    /\ run[p].phase \in {"check", "write", "audit"} => run[p].id \in Recorded

(* What a process has read of its targets still explains them, but for the *)
(* targets that somebody else has changed since.                           *)
ReadsExplain ==
  \A p \in Processes :
    (run[p].phase \in {"record", "write", "audit"} /\ Distinct(run[p].entries))
      => Explained(tree, run[p].entries, run[p].raced)

IInv == TypeOK /\ OnRecord /\ ReadsExplain /\ Recoverable

-----------------------------------------------------------------------------
(* Type correctness                                                        *)

LEMMA EntriesAreChanges ==
  ASSUME NEW t \in Trees, NEW r \in Requests
  PROVE  /\ Entries(t, r) \in Seq(Changes)
         /\ \A i \in DOMAIN Entries(t, r) : Entries(t, r)[i].old = t[Entries(t, r)[i].path]
  BY EntriesStartFromDisk DEF Planned, StartsFrom

LEMMA PlanIdType ==
  ASSUME NEW t \in Trees, NEW r \in Requests
  PROVE  PlanId(t, r) \in PlanIds
<1> DEFINE changes == PlanChanges(t, r)
           news == [i \in DOMAIN changes |-> <<changes[i].path, changes[i].new>>]
<1>1. changes \in Seq(Changes)
  BY PlanStartsFromDisk DEF Planned
<1> HIDE DEF changes
<1>2. \A i \in 1 .. Len(changes) : changes[i] \in Changes
  BY <1>1
<1>3. \A i \in 1 .. Len(changes) :
        <<changes[i].path, changes[i].new>> \in Paths \X SUBSET Marks
  BY <1>2 DEF Changes
<1>4. DOMAIN changes = 1 .. Len(changes) /\ Len(changes) \in Nat
  BY <1>1
<1>5. news \in [1 .. Len(changes) -> Paths \X SUBSET Marks]
  BY <1>3, <1>4
<1>6. news \in Seq(Paths \X SUBSET Marks)
  BY <1>4, <1>5, SeqDef
<1>7. r.proposal \in Proposals
  BY RequestParts
<1>8. PlanAction(t, r) \in {"create", "merge", "supersede"}
  BY DEF PlanAction
<1>9. QED
  BY <1>6, <1>7, <1>8 DEF PlanId, PlanIds, changes

(* The fields of an entry.                                                 *)
LEMMA EntryFields ==
  ASSUME NEW entries \in Seq(Changes), NEW i \in DOMAIN entries
  PROVE  /\ entries[i].path \in Paths
         /\ entries[i].old \in Content
         /\ entries[i].new \in Content
         /\ entries[i].new \in SUBSET Marks
<1>1. entries[i] \in Changes
  OBVIOUS
<1>2. QED
  BY <1>1, MarksAreContent DEF Changes

LEMMA CurrentType ==
  ASSUME tree \in Trees, NEW entries \in Seq(Changes)
  PROVE  Current(entries) \in Seq(Content)
<1>1. \A i \in DOMAIN entries : entries[i].path \in Paths
  BY EntryFields
<1>2. DOMAIN entries = 1 .. Len(entries) /\ Len(entries) \in Nat
  OBVIOUS
<1>3. Current(entries) \in [1 .. Len(entries) -> Content]
  BY <1>1, <1>2 DEF Current, Trees
<1>4. QED
  BY <1>2, <1>3, SeqDef

(* The fields of a process in memory.                                      *)
LEMMA RunFields ==
  ASSUME TypeOK, NEW p \in Processes
  PROVE  /\ run[p] \in Runs
         /\ run[p].op \in {"none", "apply", "rollback"}
         /\ run[p].id \in PlanIds \cup {NoPlan}
         /\ run[p].state \in States
         /\ run[p].entries \in Seq(Changes)
         /\ run[p].phase \in {"idle", "record", "check", "write", "audit"}
         /\ run[p].cur \in Seq(Content)
         /\ run[p].next \in Nat
         /\ run[p].raced \in SUBSET Paths
  BY DEF TypeOK, Runs

LEMMA IdleType == Idle \in Runs
  BY DEF Idle, Runs, States

LEMMA OvertakenType ==
  ASSUME TypeOK, NEW q \in Processes, NEW path \in Paths
  PROVE  Overtaken(q, path) \in Runs
<1>1. run[q] \in Runs
  BY RunFields
<1>2. [run[q] EXCEPT !.raced = @ \cup {path}] \in Runs
  BY <1>1 DEF Runs
<1>3. QED
  BY <1>1, <1>2 DEF Overtaken

LEMMA StoreType ==
  ASSUME IInv, NEW p \in Processes, run[p].phase = "write",
         run[p].next \in DOMAIN run[p].entries,
         NEW content \in Content, NEW next \in Nat,
         Store(p, run[p].entries[run[p].next], content, next),
         UNCHANGED <<manifest, audit, reviewed, faults, edited>>
  PROVE  TypeOK'
<1> DEFINE entry == run[p].entries[run[p].next]
<1>1. entry.path \in Paths
  BY RunFields, EntryFields DEF IInv
<1>2. run[p] \in Runs /\ run[p].id \in Recorded
  BY RunFields DEF IInv, OnRecord
<1>3. CASE run[p].cur[run[p].next] = content
  <2>1. [run[p] EXCEPT !.next = next] \in Runs
    BY <1>2 DEF Runs
  <2>2. run' = [run EXCEPT ![p].next = next]
    BY <1>3 DEF Store
  <2>3. run' \in [Processes -> Runs]
    BY <2>1, <2>2 DEF IInv, TypeOK
  <2>4. QED
    BY <1>3, <2>3 DEF IInv, TypeOK, Store, Recorded
<1>4. CASE run[p].cur[run[p].next] # content
  <2>1. [run[p] EXCEPT !.next = next, !.raced = @ \ {entry.path}] \in Runs
    BY <1>2 DEF Runs
  <2>2. run' = [q \in Processes |->
                  IF q = p THEN [run[p] EXCEPT !.next = next, !.raced = @ \ {entry.path}]
                           ELSE Overtaken(q, entry.path)]
    BY <1>4 DEF Store
  <2>3. run' \in [Processes -> Runs]
    BY <1>1, <2>1, <2>2, OvertakenType DEF IInv
  <2>4. tree' \in [Paths -> Content]
    BY <1>1, <1>4 DEF IInv, TypeOK, Store
  <2>5. DOMAIN foreign' = Recorded /\ \A id \in Recorded : foreign'[id] \subseteq Paths
    BY <1>1, <1>4 DEF IInv, TypeOK, Store
  <2>6. unsettled' \subseteq Recorded
    BY <1>2, <1>4 DEF IInv, TypeOK, Store
  <2>7. QED
    BY <2>3, <2>4, <2>5, <2>6 DEF IInv, TypeOK, Recorded
<1>5. QED
  BY <1>3, <1>4

-----------------------------------------------------------------------------
(* One process steps and the files stay as they are: what the others hold  *)
(* is as good as before.                                                   *)

LEMMA OneProcessMoves ==
  ASSUME IInv, NEW p \in Processes, NEW new \in Runs,
         run' = [run EXCEPT ![p] = new],
         UNCHANGED tree, Recorded \subseteq Recorded',
         new.phase # "idle" => new.id \in PlanIds,
         new.phase \in {"check", "write", "audit"} => new.id \in Recorded',
         (new.phase \in {"record", "write", "audit"} /\ Distinct(new.entries))
           => Explained(tree, new.entries, new.raced)
  PROVE  run' \in [Processes -> Runs] /\ OnRecord' /\ ReadsExplain'
<1>1. run \in [Processes -> Runs]
  BY DEF IInv, TypeOK
<1>2. run' \in [Processes -> Runs]
  BY <1>1
<1>3. ASSUME NEW q \in Processes
      PROVE  /\ run'[q].phase # "idle" => run'[q].id \in PlanIds
             /\ run'[q].phase \in {"check", "write", "audit"} => run'[q].id \in Recorded'
  BY <1>1 DEF IInv, OnRecord
<1>4. ASSUME NEW q \in Processes,
             run'[q].phase \in {"record", "write", "audit"}, Distinct(run'[q].entries)
      PROVE  Explained(tree', run'[q].entries, run'[q].raced)
  <2>1. CASE q = p
    <3>1. run'[q] = new
      BY <1>1, <2>1
    <3>2. Explained(tree, new.entries, new.raced)
      BY <1>4, <3>1
    <3>3. QED
      BY <3>1, <3>2 DEF Explained
  <2>2. CASE q # p
    <3>1. run'[q] = run[q]
      BY <1>1, <2>2
    <3>2. Explained(tree, run[q].entries, run[q].raced)
      BY <1>4, <3>1 DEF IInv, ReadsExplain
    <3>3. QED
      BY <3>1, <3>2 DEF Explained
  <2>3. QED
    BY <2>1, <2>2
<1>5. QED
  BY <1>2, <1>3, <1>4 DEF OnRecord, ReadsExplain

LEMMA DryRunStep ==
  ASSUME IInv, NEW r \in Requests, DryRun(r) PROVE IInv'
<1>1. PlanId(tree, r) \in PlanIds
  BY PlanIdType DEF IInv, TypeOK, Trees
<1>2. TypeOK'
  BY <1>1 DEF IInv, TypeOK, DryRun, Recorded
<1>3. OnRecord' /\ ReadsExplain' /\ Recoverable'
  BY DEF IInv, DryRun, OnRecord, ReadsExplain, Recoverable, Explained, Recorded
<1>4. QED
  BY <1>2, <1>3 DEF IInv

LEMMA BeginApplyStep ==
  ASSUME IInv, NEW p \in Processes, NEW r \in Requests, BeginApply(p, r) PROVE IInv'
<1> DEFINE entries == Entries(tree, r)
           new == [Idle EXCEPT !.op = "apply", !.id = reviewed[r],
                               !.entries = entries, !.phase = "record"]
<1>1. entries \in Seq(Changes) /\ \A i \in DOMAIN entries : entries[i].old = tree[entries[i].path]
  BY EntriesAreChanges DEF IInv, TypeOK, Trees
<1>2. reviewed[r] \in PlanIds
  BY DEF BeginApply, IInv, TypeOK
<1> HIDE DEF entries
<1>3. new \in Runs
  BY <1>1, <1>2, IdleType DEF Runs
<1>4. run' = [run EXCEPT ![p] = new]
  BY DEF BeginApply, entries
<1>5. UNCHANGED <<tree, manifest, audit, reviewed, faults, foreign, unsettled, edited>>
  BY DEF BeginApply
<1>6. /\ new.phase = "record" /\ new.id \in PlanIds
      /\ new.entries = entries /\ new.raced = {}
  BY <1>2 DEF Idle
<1>7. Explained(tree, new.entries, new.raced)
  BY <1>1, <1>6 DEF Explained
<1> HIDE DEF new
<1>8. run' \in [Processes -> Runs] /\ OnRecord' /\ ReadsExplain'
  BY <1>3, <1>4, <1>5, <1>6, <1>7, OneProcessMoves DEF Recorded
<1>9. QED
  BY <1>5, <1>8 DEF IInv, TypeOK, Recoverable, Explained, Recorded

LEMMA WriteManifestStep ==
  ASSUME IInv, NEW p \in Processes, WriteManifest(p) PROVE IInv'
<1> DEFINE new == [run[p] EXCEPT !.phase = "check"]
           id0 == run[p].id
<1>1. run[p] \in Runs /\ run[p].entries \in Seq(Changes) /\ run[p].raced \in SUBSET Paths
  BY RunFields DEF IInv
<1>2. new \in Runs /\ new.phase = "check" /\ new.id = id0
  BY <1>1 DEF Runs
<1>3. run' = [run EXCEPT ![p] = new]
  BY DEF WriteManifest
<1>4. UNCHANGED <<tree, audit, reviewed, faults, unsettled, edited>>
  BY DEF WriteManifest
<1>5. /\ Recorded' = Recorded \cup {id0}
      /\ \A id \in Recorded' : manifest'[id] = IF id = id0 THEN Record("pending", run[p].entries)
                                                            ELSE manifest[id]
  BY DEF WriteManifest, With, Recorded
<1>6. /\ DOMAIN foreign' = Recorded'
      /\ \A id \in Recorded' : foreign'[id] = IF id = id0 THEN run[p].raced ELSE foreign[id]
  BY DEF WriteManifest, With, Recorded, IInv, TypeOK
<1>7. id0 \in PlanIds
  BY DEF IInv, OnRecord, WriteManifest
<1> HIDE DEF new
<1>8. run' \in [Processes -> Runs] /\ OnRecord' /\ ReadsExplain'
  BY <1>2, <1>3, <1>4, <1>5, <1>7, OneProcessMoves
<1>9. TypeOK'
  <2>1. \A id \in Recorded' : id \in PlanIds /\ manifest'[id] \in Records
    BY <1>1, <1>5, <1>7 DEF IInv, TypeOK, Record, Records, States
  <2>2. \A id \in Recorded' : foreign'[id] \subseteq Paths
    BY <1>1, <1>5, <1>6 DEF IInv, TypeOK
  <2>3. unsettled' \subseteq Recorded'
    BY <1>4, <1>5 DEF IInv, TypeOK
  <2>4. QED
    BY <1>4, <1>6, <1>8, <2>1, <2>2, <2>3 DEF IInv, TypeOK
<1>10. Recoverable'
  <2>1. ASSUME NEW id \in Recorded', Distinct(manifest'[id].entries)
        PROVE  Explained(tree', manifest'[id].entries, foreign'[id])
    <3>1. CASE id = id0
      <4>1. manifest'[id].entries = run[p].entries /\ foreign'[id] = run[p].raced
        BY <1>5, <1>6, <3>1 DEF Record
      <4>2. Explained(tree, run[p].entries, run[p].raced)
        BY <2>1, <4>1 DEF IInv, ReadsExplain, WriteManifest
      <4>3. QED
        BY <1>4, <4>1, <4>2 DEF Explained
    <3>2. CASE id # id0
      <4>1. id \in Recorded /\ manifest'[id] = manifest[id] /\ foreign'[id] = foreign[id]
        BY <1>5, <1>6, <3>2
      <4>2. Explained(tree, manifest[id].entries, foreign[id])
        BY <2>1, <4>1 DEF IInv, Recoverable
      <4>3. QED
        BY <1>4, <4>1, <4>2 DEF Explained
    <3>3. QED
      BY <3>1, <3>2
  <2>2. QED
    BY <2>1 DEF Recoverable
<1>11. QED
  BY <1>8, <1>9, <1>10 DEF IInv

LEMMA BeginRecoveryStep ==
  ASSUME IInv, NEW p \in Processes, NEW id \in Recorded, NEW op \in {"apply", "rollback"},
         BeginRecovery(p, id, op)
  PROVE  IInv'
<1> DEFINE new == [Idle EXCEPT !.op = op, !.id = id, !.phase = "check",
                               !.state = manifest[id].state,
                               !.entries = manifest[id].entries]
<1>1. id \in PlanIds /\ manifest[id].state \in States /\ manifest[id].entries \in Seq(Changes)
  BY DEF IInv, TypeOK, Records
<1>2. new \in Runs /\ new.phase = "check" /\ new.id = id
  BY <1>1, IdleType DEF Runs, Idle
<1>3. run' = [run EXCEPT ![p] = new]
  BY DEF BeginRecovery
<1>4. UNCHANGED <<tree, manifest, audit, reviewed, faults, foreign, unsettled, edited>>
  BY DEF BeginRecovery
<1> HIDE DEF new
<1>5. run' \in [Processes -> Runs] /\ OnRecord' /\ ReadsExplain'
  BY <1>1, <1>2, <1>3, <1>4, OneProcessMoves DEF Recorded
<1>6. QED
  BY <1>4, <1>5 DEF IInv, TypeOK, Recoverable, Explained, Recorded

LEMMA ToIdle ==
  ASSUME IInv, NEW p \in Processes, run' = [run EXCEPT ![p] = Idle],
         UNCHANGED tree, Recorded \subseteq Recorded'
  PROVE  run' \in [Processes -> Runs] /\ OnRecord' /\ ReadsExplain'
<1>1. Idle.phase = "idle"
  BY DEF Idle
<1>2. QED
  BY <1>1, IdleType, OneProcessMoves

LEMMA CheckStep ==
  ASSUME IInv, NEW p \in Processes, Check(p) PROVE IInv'
<1> DEFINE entries == run[p].entries
           new == [run[p] EXCEPT !.phase = "write", !.cur = Current(entries), !.raced = {},
                                 !.next = IF run[p].op = "apply" THEN 1 ELSE Len(entries)]
<1>1. run[p] \in Runs /\ entries \in Seq(Changes)
  BY RunFields DEF IInv
<1>2. Current(entries) \in Seq(Content)
  BY <1>1, CurrentType DEF IInv, TypeOK, Trees
<1>3. Len(entries) \in Nat
  BY <1>1
<1>4. new \in Runs /\ new.phase = "write" /\ new.id = run[p].id
      /\ new.entries = entries /\ new.raced = {}
  BY <1>1, <1>2, <1>3 DEF Runs
<1>5. UNCHANGED <<tree, manifest, audit, reviewed, faults, foreign, unsettled, edited>>
  BY DEF Check
<1>6. run[p].id \in PlanIds /\ run[p].id \in Recorded
  BY DEF Check, IInv, OnRecord
<1>7. run' \in [Processes -> Runs] /\ OnRecord' /\ ReadsExplain'
  <2>1. CASE TargetsMatch(entries)
    <3>1. run' = [run EXCEPT ![p] = new]
      BY <2>1 DEF Check
    <3>2. Explained(tree, new.entries, new.raced)
      BY <1>4, <2>1 DEF TargetsMatch, Explained
    <3> HIDE DEF new
    <3>3. QED
      BY <1>4, <1>5, <1>6, <3>1, <3>2, OneProcessMoves DEF Recorded
  <2>2. CASE ~ TargetsMatch(entries)
    <3>1. run' = [run EXCEPT ![p] = Idle]
      BY <2>2 DEF Check
    <3>2. QED
      BY <1>5, <3>1, ToIdle DEF Recorded
  <2>3. QED
    BY <2>1, <2>2
<1>8. QED
  BY <1>5, <1>7 DEF IInv, TypeOK, Recoverable, Explained, Recorded

(* Writing one of the two contents an entry knows to its target leaves     *)
(* every transaction and every process explained.                          *)
LEMMA StoreStep ==
  ASSUME IInv, NEW p \in Processes, run[p].phase = "write",
         run[p].next \in DOMAIN run[p].entries,
         NEW content \in {run[p].entries[run[p].next].old, run[p].entries[run[p].next].new},
         NEW next \in Nat,
         Store(p, run[p].entries[run[p].next], content, next),
         UNCHANGED <<manifest, audit, reviewed, faults, edited>>
  PROVE  IInv'
<1> DEFINE entry == run[p].entries[run[p].next]
           path  == entry.path
           id0   == run[p].id
<1>1. /\ path \in Paths /\ content \in Content
      /\ run[p].entries \in Seq(Changes)
  BY RunFields, EntryFields DEF IInv
<1>2. TypeOK'
  BY <1>1, StoreType
<1>3. CASE run[p].cur[run[p].next] = content
  <2>1. UNCHANGED <<tree, foreign, unsettled>> /\ run' = [run EXCEPT ![p].next = next]
    BY <1>3 DEF Store
  <2>2. \A q \in Processes : /\ run'[q].phase = run[q].phase /\ run'[q].id = run[q].id
                             /\ run'[q].entries = run[q].entries
                             /\ run'[q].raced = run[q].raced
    BY <2>1 DEF IInv, TypeOK, Runs
  <2>3. OnRecord' /\ ReadsExplain'
    BY <2>1, <2>2 DEF IInv, OnRecord, ReadsExplain, Explained, Recorded
  <2>4. Recoverable'
    BY <2>1 DEF IInv, Recoverable, Explained, Recorded
  <2>5. QED
    BY <1>2, <2>3, <2>4 DEF IInv
<1>4. CASE run[p].cur[run[p].next] # content
  <2>1. /\ tree' = [tree EXCEPT ![path] = content]
        /\ run' = [q \in Processes |->
                     IF q = p THEN [run[p] EXCEPT !.next = next, !.raced = @ \ {path}]
                              ELSE Overtaken(q, path)]
        /\ foreign' = [id \in DOMAIN foreign |->
                         IF id = id0 /\ manifest[id].entries = run[p].entries
                         THEN foreign[id] \ {path} ELSE foreign[id] \cup {path}]
    BY <1>4 DEF Store
  <2>2. \A f \in Paths : tree'[f] = IF f = path THEN content ELSE tree[f]
    BY <1>1, <2>1 DEF IInv, TypeOK
  <2>3. \A q \in Processes : /\ run'[q].phase = run[q].phase /\ run'[q].id = run[q].id
                             /\ run'[q].entries = run[q].entries
    BY <2>1 DEF IInv, TypeOK, Runs, Overtaken
  <2>4. \A q \in Processes \ {p} :
          run[q].phase \in {"record", "write", "audit"} => run'[q].raced = run[q].raced \cup {path}
    BY <2>1 DEF IInv, TypeOK, Runs, Overtaken
  <2>5. run'[p].raced = run[p].raced \ {path}
    BY <2>1 DEF IInv, TypeOK, Runs
  (* The entries that own the write, when no path is in two of them.       *)
  <2>6. ASSUME NEW excused, Distinct(run[p].entries), Explained(tree, run[p].entries, excused)
        PROVE  Explained(tree', run[p].entries, excused \ {path})
    <3>1. ASSUME NEW i \in DOMAIN run[p].entries
          PROVE  \/ tree'[run[p].entries[i].path] \in {run[p].entries[i].old, run[p].entries[i].new}
                 \/ run[p].entries[i].path \in excused \ {path}
      <4>1. run[p].entries[i].path \in Paths
        BY <1>1, EntryFields
      <4>2. CASE i = run[p].next
        BY <2>2, <4>1, <4>2
      <4>3. CASE i # run[p].next
        <5>1. run[p].entries[i].path # path
          BY <2>6, <4>3 DEF Distinct
        <5>2. tree'[run[p].entries[i].path] = tree[run[p].entries[i].path]
          BY <2>2, <4>1, <5>1
        <5>3. QED
          BY <2>6, <5>1, <5>2 DEF Explained
      <4>4. QED
        BY <4>2, <4>3
    <3>2. QED
      BY <3>1 DEF Explained
  (* To any others the path is foreign.                                    *)
  <2>7. ASSUME NEW entries \in Seq(Changes), NEW excused, Explained(tree, entries, excused)
        PROVE  Explained(tree', entries, excused \cup {path})
    <3>1. \A i \in DOMAIN entries : entries[i].path \in Paths
      BY EntryFields
    <3>2. QED
      BY <2>2, <2>7, <3>1 DEF Explained
  <2>8. OnRecord'
    BY <2>3 DEF IInv, OnRecord, Recorded
  <2>9. ReadsExplain'
    <3>1. ASSUME NEW q \in Processes,
                 run'[q].phase \in {"record", "write", "audit"}, Distinct(run'[q].entries)
          PROVE  Explained(tree', run'[q].entries, run'[q].raced)
      <4>1. Explained(tree, run[q].entries, run[q].raced)
        BY <2>3, <3>1 DEF IInv, ReadsExplain
      <4>2. CASE q = p
        <5>1. Explained(tree', run[p].entries, run[p].raced \ {path})
          BY <2>3, <2>6, <3>1, <4>1, <4>2
        <5>2. QED
          BY <2>3, <2>5, <4>2, <5>1
      <4>3. CASE q # p
        <5>1. run[q].entries \in Seq(Changes)
          BY RunFields DEF IInv
        <5>2. Explained(tree', run[q].entries, run[q].raced \cup {path})
          BY <2>7, <4>1, <5>1
        <5>3. run'[q].entries = run[q].entries /\ run'[q].raced = run[q].raced \cup {path}
          BY <2>3, <2>4, <3>1, <4>3
        <5>4. QED
          BY <5>2, <5>3
      <4>4. QED
        BY <4>2, <4>3
    <3>2. QED
      BY <3>1 DEF ReadsExplain
  <2>10. Recoverable'
    <3>1. ASSUME NEW id \in Recorded, Distinct(manifest[id].entries)
          PROVE  Explained(tree', manifest'[id].entries, foreign'[id])
      <4>1. Explained(tree, manifest[id].entries, foreign[id]) /\ manifest[id].entries \in Seq(Changes)
        BY <3>1 DEF IInv, Recoverable, TypeOK, Records
      <4>2. manifest'[id].entries = manifest[id].entries /\ id \in DOMAIN foreign
        BY DEF IInv, TypeOK
      <4>3. CASE id = id0 /\ manifest[id].entries = run[p].entries
        <5>1. Explained(tree', run[p].entries, foreign[id] \ {path})
          BY <2>6, <3>1, <4>1, <4>3
        <5>2. foreign'[id] = foreign[id] \ {path}
          BY <2>1, <4>2, <4>3
        <5>3. QED
          BY <4>2, <4>3, <5>1, <5>2
      <4>4. CASE ~ (id = id0 /\ manifest[id].entries = run[p].entries)
        <5>1. Explained(tree', manifest[id].entries, foreign[id] \cup {path})
          BY <2>7, <4>1
        <5>2. foreign'[id] = foreign[id] \cup {path}
          BY <2>1, <4>2, <4>4
        <5>3. QED
          BY <4>2, <5>1, <5>2
      <4>5. QED
        BY <4>3, <4>4
    <3>2. QED
      BY <3>1 DEF Recoverable, Recorded
  <2>11. QED
    BY <1>2, <2>8, <2>9, <2>10 DEF IInv
<1>5. QED
  BY <1>3, <1>4

(* More excuses explain no less.                                           *)
LEMMA MoreExcused ==
  ASSUME NEW t, NEW entries, NEW few, NEW many, few \subseteq many, Explained(t, entries, few)
  PROVE  Explained(t, entries, many)
  BY DEF Explained

LEMMA EndWritesStep ==
  ASSUME IInv, NEW p \in Processes, EndWrites(p) PROVE IInv'
<1> DEFINE id0 == run[p].id
<1>1. run[p] \in Runs /\ run[p].raced \in SUBSET Paths /\ id0 \in Recorded /\ id0 \in PlanIds
  BY RunFields DEF IInv, OnRecord, EndWrites
<1>2. UNCHANGED <<tree, manifest, audit, reviewed, faults, edited>>
  BY DEF EndWrites
<1>3. CASE run[p].state = "applied"
  <2>1. run' = [run EXCEPT ![p] = Idle]
        /\ foreign' = [foreign EXCEPT ![id0] = @ \cup run[p].raced]
        /\ unsettled' \subseteq unsettled
    BY <1>3 DEF EndWrites
  <2>2. run' \in [Processes -> Runs] /\ OnRecord' /\ ReadsExplain'
    BY <1>2, <2>1, ToIdle DEF Recorded
  <2>3. /\ DOMAIN foreign' = Recorded
        /\ \A id \in Recorded : /\ foreign'[id] \subseteq Paths
                                /\ foreign[id] \subseteq foreign'[id]
    BY <1>1, <2>1 DEF IInv, TypeOK
  <2>4. TypeOK'
    BY <1>2, <2>1, <2>2, <2>3 DEF IInv, TypeOK, Recorded
  <2>5. Recoverable'
    BY <1>2, <2>3, MoreExcused DEF IInv, Recoverable, Recorded
  <2>6. QED
    BY <2>2, <2>4, <2>5 DEF IInv
<1>4. CASE run[p].state # "applied"
  <2> DEFINE new == [run[p] EXCEPT !.phase = "audit", !.next = 1]
  <2>1. /\ new \in Runs /\ new.phase = "audit" /\ new.id = id0
        /\ new.entries = run[p].entries /\ new.raced = run[p].raced
    BY <1>1 DEF Runs
  <2>2. run' = [run EXCEPT ![p] = new] /\ UNCHANGED <<foreign, unsettled>>
    BY <1>4 DEF EndWrites, IInv, TypeOK
  <2>3. Distinct(new.entries) => Explained(tree, new.entries, new.raced)
    BY <2>1 DEF IInv, ReadsExplain, EndWrites
  <2> HIDE DEF new
  <2>4. run' \in [Processes -> Runs] /\ OnRecord' /\ ReadsExplain'
    BY <1>1, <1>2, <2>1, <2>2, <2>3, OneProcessMoves DEF Recorded
  <2>5. QED
    BY <1>2, <2>2, <2>4 DEF IInv, TypeOK, Recoverable, Recorded
<1>5. QED
  BY <1>3, <1>4

LEMMA AuditApplyStep ==
  ASSUME IInv, NEW p \in Processes, AuditApply(p) PROVE IInv'
<1> DEFINE new == [run[p] EXCEPT !.next = @ + 1]
           event == <<run[p].id, "apply", run[p].entries[run[p].next].path>>
<1>1. run[p] \in Runs /\ run[p].id \in Recorded /\ run[p].id \in PlanIds
  BY RunFields DEF IInv, OnRecord, AuditApply
<1>2. run[p].entries[run[p].next].path \in Paths
  BY RunFields, EntryFields DEF IInv, AuditApply
<1>3. /\ new \in Runs /\ new.phase = "audit" /\ new.id = run[p].id
      /\ new.entries = run[p].entries /\ new.raced = run[p].raced
  BY <1>1 DEF Runs, AuditApply
<1>4. run' = [run EXCEPT ![p] = new] /\ audit' = audit \cup {event}
      /\ UNCHANGED <<tree, manifest, reviewed, faults, foreign, unsettled, edited>>
  BY DEF AuditApply
<1>5. audit' \subseteq PlanIds \X Events \X Paths
  BY <1>1, <1>2, <1>4 DEF IInv, TypeOK, Events
<1>6. Distinct(new.entries) => Explained(tree, new.entries, new.raced)
  BY <1>3 DEF IInv, ReadsExplain, AuditApply
<1> HIDE DEF new
<1>7. run' \in [Processes -> Runs] /\ OnRecord' /\ ReadsExplain'
  BY <1>1, <1>3, <1>4, <1>6, OneProcessMoves DEF Recorded
<1>8. QED
  BY <1>4, <1>5, <1>7 DEF IInv, TypeOK, Recoverable, Recorded

(* Recording the outcome takes over what the process knows.                *)
LEMMA MarkKeeps ==
  ASSUME IInv, NEW p \in Processes, NEW state \in States, Mark(p, state),
         run[p].phase \in {"write", "audit"}, UNCHANGED tree
  PROVE  /\ Recorded' = Recorded
         /\ \A id \in Recorded : manifest'[id] \in Records
         /\ DOMAIN foreign' = Recorded
         /\ \A id \in Recorded : foreign'[id] \subseteq Paths
         /\ unsettled' \subseteq Recorded
         /\ Recoverable'
<1> DEFINE id0 == run[p].id
<1>1. run[p].entries \in Seq(Changes) /\ run[p].raced \in SUBSET Paths
  BY RunFields DEF IInv
<1>2. Recorded' = Recorded
  BY DEF Mark, Recorded
<1>3. \A id \in Recorded : manifest'[id] = IF id = id0 THEN Record(state, run[p].entries)
                                                       ELSE manifest[id]
  BY DEF Mark, Recorded
<1>4. /\ DOMAIN foreign' = Recorded
      /\ \A id \in Recorded : foreign'[id] = IF id = id0 THEN run[p].raced ELSE foreign[id]
  BY DEF Mark, IInv, TypeOK
<1>5. \A id \in Recorded : manifest'[id] \in Records
  BY <1>1, <1>3 DEF IInv, TypeOK, Record, Records
<1>6. \A id \in Recorded : foreign'[id] \subseteq Paths
  BY <1>1, <1>4 DEF IInv, TypeOK
<1>7. unsettled' \subseteq Recorded
  BY DEF Mark, IInv, TypeOK
<1>8. Recoverable'
  <2>1. ASSUME NEW id \in Recorded, Distinct(manifest'[id].entries)
        PROVE  Explained(tree', manifest'[id].entries, foreign'[id])
    <3>1. CASE id = id0
      BY <1>3, <1>4, <2>1, <3>1 DEF IInv, ReadsExplain, Record
    <3>2. CASE id # id0
      BY <1>3, <1>4, <2>1, <3>2 DEF IInv, Recoverable
    <3>3. QED
      BY <3>1, <3>2
  <2>2. QED
    BY <1>2, <2>1 DEF Recoverable
<1>9. QED
  BY <1>2, <1>4, <1>5, <1>6, <1>7, <1>8

LEMMA MarkAppliedStep ==
  ASSUME IInv, NEW p \in Processes, MarkApplied(p) PROVE IInv'
<1>1. Mark(p, "applied") /\ run[p].phase = "audit" /\ run' = [run EXCEPT ![p] = Idle]
      /\ UNCHANGED <<tree, audit, reviewed, faults, edited>>
  BY DEF MarkApplied
<1>2. /\ Recorded' = Recorded
      /\ \A id \in Recorded : manifest'[id] \in Records
      /\ DOMAIN foreign' = Recorded
      /\ \A id \in Recorded : foreign'[id] \subseteq Paths
      /\ unsettled' \subseteq Recorded
      /\ Recoverable'
  BY <1>1, MarkKeeps DEF States
<1>3. run' \in [Processes -> Runs] /\ OnRecord' /\ ReadsExplain'
  BY <1>1, <1>2, ToIdle
<1>4. QED
  BY <1>1, <1>2, <1>3 DEF IInv, TypeOK

LEMMA MarkRolledBackStep ==
  ASSUME IInv, NEW p \in Processes, MarkRolledBack(p) PROVE IInv'
<1> DEFINE new == [run[p] EXCEPT !.phase = "audit"]
<1>1. Mark(p, "rolled_back") /\ run[p].phase = "write" /\ run' = [run EXCEPT ![p] = new]
      /\ UNCHANGED <<tree, audit, reviewed, faults, edited>>
  BY DEF MarkRolledBack, IInv, TypeOK
<1>2. /\ Recorded' = Recorded
      /\ \A id \in Recorded : manifest'[id] \in Records
      /\ DOMAIN foreign' = Recorded
      /\ \A id \in Recorded : foreign'[id] \subseteq Paths
      /\ unsettled' \subseteq Recorded
      /\ Recoverable'
  BY <1>1, MarkKeeps DEF States
<1>3. run[p] \in Runs /\ run[p].id \in Recorded /\ run[p].id \in PlanIds
  BY <1>1, RunFields DEF IInv, OnRecord
<1>4. /\ new \in Runs /\ new.phase = "audit" /\ new.id = run[p].id
      /\ new.entries = run[p].entries /\ new.raced = run[p].raced
  BY <1>3 DEF Runs
<1>5. Distinct(new.entries) => Explained(tree, new.entries, new.raced)
  BY <1>1, <1>4 DEF IInv, ReadsExplain
<1> HIDE DEF new
<1>6. run' \in [Processes -> Runs] /\ OnRecord' /\ ReadsExplain'
  BY <1>1, <1>2, <1>3, <1>4, <1>5, OneProcessMoves
<1>7. QED
  BY <1>1, <1>2, <1>6 DEF IInv, TypeOK

LEMMA AuditRollbackStep ==
  ASSUME IInv, NEW p \in Processes, AuditRollback(p) PROVE IInv'
<1>1. run' = [run EXCEPT ![p] = Idle]
      /\ audit' = audit \cup {<<run[p].id, "rollback", Registry>>}
      /\ UNCHANGED <<tree, manifest, reviewed, faults, foreign, unsettled, edited>>
  BY DEF AuditRollback
<1>2. run[p].id \in PlanIds
  BY DEF AuditRollback, IInv, OnRecord
<1>3. audit' \subseteq PlanIds \X Events \X Paths
  BY <1>1, <1>2 DEF IInv, TypeOK, Events, Paths
<1>4. run' \in [Processes -> Runs] /\ OnRecord' /\ ReadsExplain'
  BY <1>1, ToIdle DEF Recorded
<1>5. QED
  BY <1>1, <1>3, <1>4 DEF IInv, TypeOK, Recoverable, Recorded

LEMMA CrashStep ==
  ASSUME IInv, NEW p \in Processes, Crash(p) PROVE IInv'
<1>1. run' = [run EXCEPT ![p] = Idle]
      /\ UNCHANGED <<tree, manifest, audit, reviewed, foreign, unsettled, edited>>
  BY DEF Crash
<1>2. faults' \in 0 .. MaxFaults
  BY TxnConstants DEF Crash, IInv, TypeOK
<1>3. run' \in [Processes -> Runs] /\ OnRecord' /\ ReadsExplain'
  BY <1>1, ToIdle DEF Recorded
<1>4. QED
  BY <1>1, <1>2, <1>3 DEF IInv, TypeOK, Recoverable, Recorded

LEMMA EditStep ==
  ASSUME IInv, NEW f \in Editable, Edit(f) PROVE IInv'
<1>1. f \in Paths
  BY TxnConstants
<1>2. PICK content \in {Text(tree[f]) \cup {ForeignEdit(f)}, Text(tree[f]) \ {ForeignEdit(f)},
                        Absent} : tree' = [tree EXCEPT ![f] = content]
  BY DEF Edit
<1>3. content \in Content
  <2>1. Text(tree[f]) \in SUBSET Marks
    BY <1>1, TextIsMarks DEF IInv, TypeOK
  <2>2. ForeignEdit(f) \in Marks
    BY <1>1 DEF Marks
  <2>3. QED
    BY <1>2, <2>1, <2>2 DEF Content
<1>4. tree' \in [Paths -> Content] /\ \A g \in Paths : g # f => tree'[g] = tree[g]
  BY <1>1, <1>2, <1>3 DEF IInv, TypeOK
<1>5. faults' \in 0 .. MaxFaults
  BY TxnConstants DEF Edit, IInv, TypeOK
<1>6. /\ foreign' = [id \in DOMAIN foreign |-> foreign[id] \cup {f}]
      /\ run' = [q \in Processes |-> Overtaken(q, f)]
      /\ edited' = edited \cup {f}
      /\ UNCHANGED <<manifest, audit, reviewed, unsettled>>
  BY DEF Edit
<1>7. run' \in [Processes -> Runs]
  BY <1>1, <1>6, OvertakenType DEF IInv
<1>8. TypeOK'
  BY <1>1, <1>4, <1>5, <1>6, <1>7 DEF IInv, TypeOK, Recorded
<1>9. ASSUME NEW entries \in Seq(Changes), NEW excused, Explained(tree, entries, excused)
      PROVE  Explained(tree', entries, excused \cup {f})
  BY <1>4, <1>9, EntryFields DEF Explained
<1>10. \A q \in Processes : /\ run'[q].phase = run[q].phase /\ run'[q].id = run[q].id
                            /\ run'[q].entries = run[q].entries
                            /\ run[q].phase \in {"record", "write", "audit"}
                                 => run'[q].raced = run[q].raced \cup {f}
  BY <1>6 DEF IInv, TypeOK, Runs, Overtaken
<1>11. OnRecord'
  BY <1>6, <1>10 DEF IInv, OnRecord, Recorded
<1>12. ReadsExplain'
  <2>1. ASSUME NEW q \in Processes,
               run'[q].phase \in {"record", "write", "audit"}, Distinct(run'[q].entries)
        PROVE  Explained(tree', run'[q].entries, run'[q].raced)
    <3>1. Explained(tree, run[q].entries, run[q].raced) /\ run[q].entries \in Seq(Changes)
      BY <1>10, <2>1, RunFields DEF IInv, ReadsExplain
    <3>2. Explained(tree', run[q].entries, run[q].raced \cup {f})
      BY <1>9, <3>1
    <3>3. QED
      BY <1>10, <2>1, <3>2
  <2>2. QED
    BY <2>1 DEF ReadsExplain
<1>13. Recoverable'
  <2>1. ASSUME NEW id \in Recorded, Distinct(manifest[id].entries)
        PROVE  Explained(tree', manifest[id].entries, foreign'[id])
    <3>1. Explained(tree, manifest[id].entries, foreign[id]) /\ manifest[id].entries \in Seq(Changes)
      BY <2>1 DEF IInv, Recoverable, TypeOK, Records
    <3>2. foreign'[id] = foreign[id] \cup {f}
      BY <1>6 DEF IInv, TypeOK
    <3>3. QED
      BY <1>9, <3>1, <3>2
  <2>2. QED
    BY <1>6, <2>1 DEF Recoverable, Recorded
<1>14. QED
  BY <1>8, <1>11, <1>12, <1>13 DEF IInv

-----------------------------------------------------------------------------
LEMMA InitIInv == Init => IInv
<1> SUFFICES ASSUME Init PROVE IInv
  OBVIOUS
<1>1. TypeOK
  BY TxnConstants, IdleType DEF Init, TypeOK, Recorded
<1>2. OnRecord /\ ReadsExplain
  BY DEF Init, OnRecord, ReadsExplain, Idle
<1>3. Recoverable
  BY DEF Init, Recoverable, Recorded
<1>4. QED
  BY <1>1, <1>2, <1>3 DEF IInv

LEMMA NextIInv == IInv /\ [Next]_vars => IInv'
<1> SUFFICES ASSUME IInv, [Next]_vars PROVE IInv'
  OBVIOUS
<1>1. ASSUME NEW r \in Requests, DryRun(r) PROVE IInv'
  BY <1>1, DryRunStep
<1>2. ASSUME NEW p \in Processes, Step(p) PROVE IInv'
  <2>1. ASSUME NEW r \in Requests, BeginApply(p, r) PROVE IInv'
    BY <2>1, BeginApplyStep
  <2>2. CASE WriteManifest(p)
    BY <2>2, WriteManifestStep
  <2>3. ASSUME NEW id \in Recorded, NEW op \in {"apply", "rollback"}, BeginRecovery(p, id, op)
        PROVE  IInv'
    BY <2>3, BeginRecoveryStep
  <2>4. CASE Check(p)
    BY <2>4, CheckStep
  <2>5. CASE WriteEntry(p)
    <3>1. run[p].next + 1 \in Nat
      BY RunFields DEF IInv
    <3>2. QED
      BY <2>5, <3>1, StoreStep DEF WriteEntry
  <2>6. CASE RestoreEntry(p)
    <3>1. run[p].next - 1 \in Nat
      BY <2>6, RunFields DEF IInv, RestoreEntry
    <3>2. QED
      BY <2>6, <3>1, StoreStep DEF RestoreEntry
  <2>7. CASE EndWrites(p)
    BY <2>7, EndWritesStep
  <2>8. CASE AuditApply(p)
    BY <2>8, AuditApplyStep
  <2>9. CASE MarkApplied(p)
    BY <2>9, MarkAppliedStep
  <2>10. CASE MarkRolledBack(p)
    BY <2>10, MarkRolledBackStep
  <2>11. CASE AuditRollback(p)
    BY <2>11, AuditRollbackStep
  <2>12. CASE Crash(p)
    BY <2>12, CrashStep
  <2>13. QED
    BY <1>2, <2>1, <2>2, <2>3, <2>4, <2>5, <2>6, <2>7, <2>8, <2>9, <2>10, <2>11, <2>12 DEF Step
<1>3. ASSUME NEW f \in Editable, Edit(f) PROVE IInv'
  BY <1>3, EditStep
<1>4. CASE UNCHANGED vars
  BY <1>4 DEF vars, IInv, TypeOK, OnRecord, ReadsExplain, Recoverable, Recorded
<1>5. QED
  BY <1>1, <1>2, <1>3, <1>4 DEF Next

THEOREM Invariance == Spec => []IInv
  BY InitIInv, NextIInv, PTL DEF Spec

(* Every variable has its type in every reachable state, and each          *)
(* transaction on record its history.                                      *)
THEOREM TypeCorrect == Spec => []TypeOK
<1>1. IInv => TypeOK
  BY DEF IInv
<1>2. QED
  BY <1>1, Invariance, PTL

(* Whatever dies, whatever runs at the same time and whoever edits the     *)
(* vault, resume and rollback of a transaction on record can be refused    *)
(* only for a file that somebody else has changed.                         *)
THEOREM AlwaysRecovers == Spec => []Recoverable
<1>1. IInv => Recoverable
  BY DEF IInv
<1>2. QED
  BY <1>1, Invariance, PTL

(* A write or a restore replaces bytes unknown to its plan only in a file  *)
(* changed since the check of the same process.                            *)
THEOREM KeepsForeignBytes == Spec => NoForeignOverwrite
<1> DEFINE A == \A p \in Processes :
                  (/\ Distinct(run[p].entries)
                   /\ WriteEntry(p) \/ RestoreEntry(p)) => Replaces(p)
<1>1. IInv => A
  BY DEF IInv, ReadsExplain, Explained, WriteEntry, RestoreEntry, Replaces
<1>2. IInv /\ [Next]_vars => [A]_vars
  BY <1>1
<1>3. QED
  BY <1>2, Invariance, PTL DEF Spec, NoForeignOverwrite

-----------------------------------------------------------------------------
(* The recorded outcome is true of the disk                                *)

(* What process x has made of its entry i.                                 *)
Passed(x, i) == \/ x.phase = "audit"
                \/ x.op = "apply" /\ i < x.next
                \/ x.op = "rollback" /\ i > x.next
Aim(x, i) == IF x.op = "apply" THEN x.entries[i].new ELSE x.entries[i].old

(* Each target of x is as x left it, or as x found it if x has not come to *)
(* it, unless somebody else has changed it since.                          *)
Knows(t, x) ==
  (x.phase \in {"write", "audit"} /\ Distinct(x.entries)) =>
    \A i \in DOMAIN x.entries :
      \/ x.entries[i].path \in x.raced
      \/ t[x.entries[i].path] = IF Passed(x, i) THEN Aim(x, i) ELSE x.cur[i]

HasOp(x) == x.phase # "idle" => x.op \in {"apply", "rollback"}

AllKnow == \A p \in Processes : Knows(tree, run[p]) /\ HasOp(run[p])

SInv == IInv /\ AllKnow /\ SettledExactly

LEMMA IdleKnows == ASSUME NEW t PROVE Knows(t, Idle) /\ HasOp(Idle)
  BY DEF Knows, HasOp, Idle

LEMMA OneProcessLearns ==
  ASSUME SInv, NEW p \in Processes, NEW new, run' = [run EXCEPT ![p] = new],
         UNCHANGED tree, Knows(tree, new), HasOp(new)
  PROVE  AllKnow'
<1>1. run \in [Processes -> Runs]
  BY DEF SInv, IInv, TypeOK
<1>2. ASSUME NEW q \in Processes PROVE Knows(tree', run'[q]) /\ HasOp(run'[q])
  <2>1. CASE q = p
    BY <1>1, <2>1
  <2>2. CASE q # p
    BY <1>1, <2>2 DEF SInv, AllKnow
  <2>3. QED
    BY <2>1, <2>2
<1>3. QED
  BY <1>2 DEF AllKnow

(* Steps that change neither the files nor a record.                       *)
LEMMA NothingRecorded ==
  ASSUME SInv, UNCHANGED <<tree, manifest, foreign, unsettled>>
  PROVE  SettledExactly'
  BY DEF SInv, SettledExactly, Recorded

(* A process that passes over an entry or writes it.                       *)
LEMMA StoreSettles ==
  ASSUME SInv, NEW p \in Processes, run[p].phase = "write",
         run[p].next \in DOMAIN run[p].entries,
         NEW content, content = Aim(run[p], run[p].next), NEW next \in Nat,
         next = IF run[p].op = "apply" THEN run[p].next + 1 ELSE run[p].next - 1,
         Store(p, run[p].entries[run[p].next], content, next),
         UNCHANGED manifest
  PROVE  AllKnow' /\ SettledExactly'
<1> DEFINE x == run[p]
           k == run[p].next
           path == run[p].entries[run[p].next].path
           id0 == run[p].id
<1>1. /\ x \in Runs /\ x.entries \in Seq(Changes) /\ x.op \in {"apply", "rollback"}
      /\ run \in [Processes -> Runs] /\ k \in Nat
  BY RunFields DEF SInv, IInv, TypeOK, AllKnow, HasOp
<1>2. path \in Paths /\ DOMAIN x.entries \subseteq Nat
  BY <1>1, EntryFields
<1>3. ASSUME NEW i \in DOMAIN x.entries
      PROVE  /\ (x.op = "apply" => (i < next <=> i < k \/ i = k))
             /\ (x.op = "rollback" => (i > next <=> i > k \/ i = k))
  BY <1>1, <1>2
<1>4. CASE x.cur[k] = content
  <2> DEFINE new == [x EXCEPT !.next = next]
  <2>1. run' = [run EXCEPT ![p] = new] /\ UNCHANGED <<tree, foreign, unsettled>>
    BY <1>4, <1>1 DEF Store
  <2>2. /\ new.phase = x.phase /\ new.op = x.op /\ new.entries = x.entries
        /\ new.cur = x.cur /\ new.next = next /\ new.raced = x.raced
    BY <1>1 DEF Runs
  <2>3. HasOp(new)
    BY <1>1, <2>2 DEF HasOp
  <2>4. Knows(tree, new)
    <3>1. ASSUME Distinct(x.entries), NEW i \in DOMAIN x.entries, x.entries[i].path \notin x.raced
          PROVE  tree[x.entries[i].path] = IF Passed(new, i) THEN Aim(new, i) ELSE new.cur[i]
      <4>1. tree[x.entries[i].path] = IF Passed(x, i) THEN Aim(x, i) ELSE x.cur[i]
        BY <3>1 DEF SInv, AllKnow, Knows
      <4>2. Aim(new, i) = Aim(x, i)
        BY <2>2 DEF Aim
      <4>3. Passed(new, i) <=> Passed(x, i) \/ i = k
        BY <1>1, <1>3, <2>2 DEF Passed
      <4>4. i = k => ~ Passed(x, i)
        BY <1>1 DEF Passed
      <4>5. QED
        BY <1>4, <2>2, <4>1, <4>2, <4>3, <4>4
    <3>2. QED
      BY <2>2, <3>1 DEF Knows
  <2> HIDE DEF new
  <2>5. AllKnow'
    BY <2>1, <2>3, <2>4, OneProcessLearns
  <2>6. QED
    BY <2>1, <2>5, NothingRecorded
<1>5. CASE x.cur[k] # content
  <2> DEFINE new == [x EXCEPT !.next = next, !.raced = @ \ {path}]
  <2>1. /\ tree' = [tree EXCEPT ![path] = content]
        /\ run' = [q \in Processes |-> IF q = p THEN new ELSE Overtaken(q, path)]
        /\ foreign' = [id \in DOMAIN foreign |->
                         IF id = id0 /\ manifest[id].entries = run[p].entries
                         THEN foreign[id] \ {path} ELSE foreign[id] \cup {path}]
        /\ unsettled' = unsettled \cup {id0}
    BY <1>5 DEF Store
  <2>2. /\ new.phase = x.phase /\ new.op = x.op /\ new.entries = x.entries
        /\ new.cur = x.cur /\ new.next = next /\ new.raced = x.raced \ {path}
    BY <1>1 DEF Runs
  <2>3. \A f \in Paths : tree'[f] = IF f = path THEN content ELSE tree[f]
    BY <1>2, <2>1 DEF SInv, IInv, TypeOK
  <2>4. Knows(tree', new) /\ HasOp(new)
    <3>1. ASSUME Distinct(x.entries), NEW i \in DOMAIN x.entries, x.entries[i].path \notin new.raced
          PROVE  tree'[x.entries[i].path] = IF Passed(new, i) THEN Aim(new, i) ELSE new.cur[i]
      <4>1. x.entries[i].path \in Paths
        BY <1>1, EntryFields
      <4>2. Aim(new, i) = Aim(x, i)
        BY <2>2 DEF Aim
      <4>3. Passed(new, i) <=> Passed(x, i) \/ i = k
        BY <1>1, <1>3, <2>2 DEF Passed
      <4>4. CASE i = k
        BY <2>3, <4>1, <4>2, <4>3, <4>4
      <4>5. CASE i # k
        <5>1. x.entries[i].path # path
          BY <3>1, <4>5 DEF Distinct
        <5>2. x.entries[i].path \notin x.raced
          BY <2>2, <3>1, <5>1
        <5>3. tree[x.entries[i].path] = IF Passed(x, i) THEN Aim(x, i) ELSE x.cur[i]
          BY <3>1, <5>2 DEF SInv, AllKnow, Knows
        <5>4. QED
          BY <2>2, <2>3, <4>1, <4>2, <4>3, <4>5, <5>1, <5>3
      <4>6. QED
        BY <4>4, <4>5
    <3>2. QED
      BY <1>1, <2>2, <3>1 DEF Knows, HasOp
  <2>5. ASSUME NEW q \in Processes, q # p PROVE Knows(tree', run'[q]) /\ HasOp(run'[q])
    <3>1. run[q] \in Runs /\ run[q].entries \in Seq(Changes) /\ run'[q] = Overtaken(q, path)
      BY <2>1, <2>5, RunFields DEF SInv, IInv
    <3>2. /\ run'[q].phase = run[q].phase /\ run'[q].op = run[q].op
          /\ run'[q].entries = run[q].entries /\ run'[q].cur = run[q].cur
          /\ run'[q].next = run[q].next
          /\ run[q].phase \in {"write", "audit"} => run'[q].raced = run[q].raced \cup {path}
      BY <3>1 DEF Overtaken, Runs
    <3>3. ASSUME run[q].phase \in {"write", "audit"}, Distinct(run[q].entries),
                 NEW i \in DOMAIN run[q].entries, run[q].entries[i].path \notin run'[q].raced
          PROVE  tree'[run[q].entries[i].path]
                   = IF Passed(run'[q], i) THEN Aim(run'[q], i) ELSE run'[q].cur[i]
      <4>1. run[q].entries[i].path \in Paths
        BY <3>1, EntryFields
      <4>2. tree'[run[q].entries[i].path] = tree[run[q].entries[i].path]
        BY <2>3, <3>2, <3>3, <4>1
      <4>3. tree[run[q].entries[i].path] = IF Passed(run[q], i) THEN Aim(run[q], i) ELSE run[q].cur[i]
        BY <3>2, <3>3 DEF SInv, AllKnow, Knows
      <4>4. (Passed(run'[q], i) <=> Passed(run[q], i)) /\ Aim(run'[q], i) = Aim(run[q], i)
        BY <3>2 DEF Passed, Aim
      <4>5. QED
        BY <3>2, <4>2, <4>3, <4>4
    <3>4. QED
      BY <3>2, <3>3 DEF SInv, AllKnow, Knows, HasOp
  <2>6. AllKnow'
    <3>1. run'[p] = new
      BY <2>1
    <3>2. QED
      BY <2>4, <2>5, <3>1 DEF AllKnow
  <2>7. SettledExactly'
    <3>1. ASSUME NEW id \in Recorded \ (unsettled \cup {id0})
          PROVE  /\ foreign'[id] = foreign[id] \cup {path}
                 /\ manifest[id].entries \in Seq(Changes)
      BY <2>1, <3>1 DEF SInv, IInv, TypeOK, Records
    <3>2. ASSUME NEW entries \in Seq(Changes), NEW excused
          PROVE  /\ Written(tree, entries, excused) => Written(tree', entries, excused \cup {path})
                 /\ Restored(tree, entries, excused) => Restored(tree', entries, excused \cup {path})
      BY <2>3, EntryFields DEF Written, Restored
    <3>3. ASSUME NEW id \in Recorded \ (unsettled \cup {id0}), Distinct(manifest[id].entries)
          PROVE  /\ manifest[id].state = "applied"
                      => Written(tree', manifest[id].entries, foreign'[id])
                 /\ manifest[id].state = "rolled_back"
                      => Restored(tree', manifest[id].entries, foreign'[id])
      <4>1. /\ manifest[id].state = "applied" => Written(tree, manifest[id].entries, foreign[id])
            /\ manifest[id].state = "rolled_back" => Restored(tree, manifest[id].entries, foreign[id])
        BY <3>3 DEF SInv, SettledExactly
      <4>2. /\ foreign'[id] = foreign[id] \cup {path}
            /\ manifest[id].entries \in Seq(Changes)
        BY <3>1, <3>3
      <4>3. /\ Written(tree, manifest[id].entries, foreign[id])
                 => Written(tree', manifest[id].entries, foreign[id] \cup {path})
            /\ Restored(tree, manifest[id].entries, foreign[id])
                 => Restored(tree', manifest[id].entries, foreign[id] \cup {path})
        BY <3>2, <4>2
      <4>4. QED
        BY <4>1, <4>2, <4>3
    <3>4. QED
      BY <2>1, <3>3 DEF SettledExactly, Recorded
  <2>8. QED
    BY <2>6, <2>7
<1>6. QED
  BY <1>4, <1>5

(* A process all of whose entries are passed has written, or restored,     *)
(* every one of them that nobody else has changed since.                   *)
LEMMA AllPassed ==
  ASSUME SInv, NEW p \in Processes, run[p].phase \in {"write", "audit"},
         Distinct(run[p].entries), \A i \in DOMAIN run[p].entries : Passed(run[p], i)
  PROVE  /\ run[p].op = "apply" => Written(tree, run[p].entries, run[p].raced)
         /\ run[p].op = "rollback" => Restored(tree, run[p].entries, run[p].raced)
<1>1. \A i \in DOMAIN run[p].entries :
        \/ run[p].entries[i].path \in run[p].raced
        \/ tree[run[p].entries[i].path] = Aim(run[p], i)
  BY DEF SInv, AllKnow, Knows
<1>2. QED
  BY <1>1 DEF Aim, Written, Restored

(* Recording an outcome that the process has brought about.                *)
LEMMA MarkSettles ==
  ASSUME SInv, NEW p \in Processes, NEW state, Mark(p, state), UNCHANGED tree,
         Distinct(run[p].entries) =>
           /\ state = "applied" => Written(tree, run[p].entries, run[p].raced)
           /\ state = "rolled_back" => Restored(tree, run[p].entries, run[p].raced)
  PROVE  SettledExactly'
<1> DEFINE id0 == run[p].id
<1>1. /\ Recorded' = Recorded
      /\ \A id \in Recorded : manifest'[id] = IF id = id0 THEN Record(state, run[p].entries)
                                                          ELSE manifest[id]
      /\ \A id \in Recorded : foreign'[id] = IF id = id0 THEN run[p].raced ELSE foreign[id]
      /\ unsettled' = unsettled \ {id0}
  BY DEF Mark, SInv, IInv, TypeOK, Recorded
<1>2. ASSUME NEW id \in Recorded, id \notin unsettled', Distinct(manifest'[id].entries)
      PROVE  /\ manifest'[id].state = "applied"
                  => Written(tree', manifest'[id].entries, foreign'[id])
             /\ manifest'[id].state = "rolled_back"
                  => Restored(tree', manifest'[id].entries, foreign'[id])
  <2>1. CASE id = id0
    BY <1>1, <1>2, <2>1 DEF Record
  <2>2. CASE id # id0
    BY <1>1, <1>2, <2>2 DEF SInv, SettledExactly
  <2>3. QED
    BY <2>1, <2>2
<1>3. QED
  BY <1>1, <1>2 DEF SettledExactly

LEMMA WriteManifestSettles ==
  ASSUME SInv, NEW p \in Processes, WriteManifest(p) PROVE AllKnow' /\ SettledExactly'
<1> DEFINE new == [run[p] EXCEPT !.phase = "check"]
           id0 == run[p].id
<1>1. run[p] \in Runs
  BY RunFields DEF SInv, IInv
<1>2. new.phase = "check" /\ new.op = run[p].op
  BY <1>1 DEF Runs
<1>3. HasOp(run[p]) /\ run[p].phase = "record"
  BY DEF SInv, AllKnow, WriteManifest
<1>4. Knows(tree, new) /\ HasOp(new)
  BY <1>2, <1>3 DEF Knows, HasOp
<1>5. run' = [run EXCEPT ![p] = new] /\ UNCHANGED <<tree, unsettled>>
  BY DEF WriteManifest
<1> HIDE DEF new
<1>6. AllKnow'
  BY <1>4, <1>5, OneProcessLearns
<1>7. /\ Recorded' = Recorded \cup {id0}
      /\ \A id \in Recorded' : manifest'[id] = IF id = id0 THEN Record("pending", run[p].entries)
                                                            ELSE manifest[id]
      /\ \A id \in Recorded' : foreign'[id] = IF id = id0 THEN run[p].raced ELSE foreign[id]
  BY DEF WriteManifest, With, Recorded, SInv, IInv, TypeOK
<1>8. manifest'[id0].state = "pending"
  BY <1>7 DEF Record
<1>9. SettledExactly'
  BY <1>5, <1>7, <1>8 DEF SInv, SettledExactly
<1>10. QED
  BY <1>6, <1>9

LEMMA CheckSettles ==
  ASSUME SInv, NEW p \in Processes, Check(p) PROVE AllKnow' /\ SettledExactly'
<1> DEFINE entries == run[p].entries
           new == [run[p] EXCEPT !.phase = "write", !.cur = Current(entries), !.raced = {},
                                 !.next = IF run[p].op = "apply" THEN 1 ELSE Len(entries)]
<1>1. /\ run[p] \in Runs /\ entries \in Seq(Changes) /\ run[p].op \in {"apply", "rollback"}
  BY RunFields DEF SInv, IInv, AllKnow, HasOp, Check
<1>2. UNCHANGED <<tree, manifest, foreign, unsettled>>
  BY DEF Check
<1>3. CASE TargetsMatch(entries)
  <2>1. run' = [run EXCEPT ![p] = new]
    BY <1>3 DEF Check
  <2>2. /\ new.phase = "write" /\ new.op = run[p].op /\ new.entries = entries
        /\ new.cur = Current(entries)
        /\ new.next = IF run[p].op = "apply" THEN 1 ELSE Len(entries)
    BY <1>1 DEF Runs
  <2>3. \A i \in DOMAIN entries : i \in Nat /\ 1 <= i /\ i <= Len(entries)
    BY <1>1
  <2>4. \A i \in DOMAIN entries : ~ Passed(new, i)
    BY <1>1, <2>2, <2>3 DEF Passed
  <2>5. Knows(tree, new) /\ HasOp(new)
    BY <1>1, <2>2, <2>4 DEF Knows, HasOp, Current
  <2> HIDE DEF new
  <2>6. QED
    BY <1>2, <2>1, <2>5, OneProcessLearns, NothingRecorded
<1>4. CASE ~ TargetsMatch(entries)
  <2>1. run' = [run EXCEPT ![p] = Idle]
    BY <1>4 DEF Check
  <2>2. QED
    BY <1>2, <2>1, IdleKnows, OneProcessLearns, NothingRecorded
<1>5. QED
  BY <1>3, <1>4

LEMMA EndWritesSettles ==
  ASSUME SInv, NEW p \in Processes, EndWrites(p) PROVE AllKnow' /\ SettledExactly'
<1> DEFINE id0 == run[p].id
<1>1. /\ run[p] \in Runs /\ run[p].entries \in Seq(Changes) /\ run[p].next \in Nat
      /\ run[p].op = "apply" /\ run[p].phase = "write" /\ run[p].next > Len(run[p].entries)
      /\ id0 \in Recorded /\ UNCHANGED <<tree, manifest>>
  BY RunFields DEF SInv, IInv, OnRecord, EndWrites
<1>2. \A i \in DOMAIN run[p].entries : i < run[p].next
  BY <1>1
<1>3. \A i \in DOMAIN run[p].entries : Passed(run[p], i)
  BY <1>1, <1>2 DEF Passed
<1>4. Distinct(run[p].entries) => Written(tree, run[p].entries, run[p].raced)
  BY <1>1, <1>3, AllPassed
<1>5. CASE run[p].state = "applied"
  <2>1. /\ run' = [run EXCEPT ![p] = Idle]
        /\ foreign' = [foreign EXCEPT ![id0] = @ \cup run[p].raced]
        /\ unsettled' = IF manifest[id0] = Record("applied", run[p].entries)
                        THEN unsettled \ {id0} ELSE unsettled
    BY <1>5 DEF EndWrites
  <2>2. AllKnow'
    BY <1>1, <2>1, IdleKnows, OneProcessLearns
  <2>3. \A id \in Recorded : foreign[id] \subseteq foreign'[id]
    BY <2>1 DEF SInv, IInv, TypeOK
  <2>4. run[p].raced \subseteq foreign'[id0]
    BY <1>1, <2>1 DEF SInv, IInv, TypeOK
  <2>5. ASSUME NEW entries, NEW few, NEW many, few \subseteq many
        PROVE  /\ Written(tree, entries, few) => Written(tree, entries, many)
               /\ Restored(tree, entries, few) => Restored(tree, entries, many)
    BY <2>5 DEF Written, Restored
  <2>6. ASSUME NEW id \in Recorded, id \notin unsettled', Distinct(manifest[id].entries)
        PROVE  /\ manifest[id].state = "applied"
                    => Written(tree, manifest[id].entries, foreign'[id])
               /\ manifest[id].state = "rolled_back"
                    => Restored(tree, manifest[id].entries, foreign'[id])
    <3>1. CASE id \notin unsettled
      <4>1. /\ manifest[id].state = "applied" => Written(tree, manifest[id].entries, foreign[id])
            /\ manifest[id].state = "rolled_back" => Restored(tree, manifest[id].entries, foreign[id])
        BY <2>6, <3>1 DEF SInv, SettledExactly
      <4>2. QED
        BY <2>3, <2>5, <4>1
    <3>2. CASE id \in unsettled
      <4>1. id = id0 /\ manifest[id] = Record("applied", run[p].entries)
        BY <2>1, <2>6, <3>2
      <4>2. manifest[id].state = "applied" /\ manifest[id].entries = run[p].entries
        BY <4>1 DEF Record
      <4>3. Written(tree, run[p].entries, foreign'[id])
        BY <1>4, <2>4, <2>5, <2>6, <4>1, <4>2
      <4>4. QED
        BY <4>2, <4>3
    <3>3. QED
      BY <3>1, <3>2
  <2>7. QED
    BY <1>1, <2>2, <2>6 DEF SettledExactly, Recorded
<1>6. CASE run[p].state # "applied"
  <2> DEFINE new == [run[p] EXCEPT !.phase = "audit", !.next = 1]
  <2>1. /\ new.phase = "audit" /\ new.op = "apply" /\ new.entries = run[p].entries
        /\ new.raced = run[p].raced
    BY <1>1 DEF Runs
  <2>2. run' = [run EXCEPT ![p] = new] /\ UNCHANGED <<foreign, unsettled>>
    BY <1>6 DEF EndWrites, SInv, IInv, TypeOK
  <2>3. Knows(tree, new) /\ HasOp(new)
    BY <1>4, <2>1 DEF Knows, HasOp, Written, Passed, Aim
  <2> HIDE DEF new
  <2>4. QED
    BY <1>1, <2>2, <2>3, OneProcessLearns, NothingRecorded
<1>7. QED
  BY <1>5, <1>6

LEMMA MarkAppliedSettles ==
  ASSUME SInv, NEW p \in Processes, MarkApplied(p) PROVE AllKnow' /\ SettledExactly'
<1>1. /\ Mark(p, "applied") /\ run[p].op = "apply" /\ run[p].phase = "audit"
      /\ run' = [run EXCEPT ![p] = Idle] /\ UNCHANGED tree
  BY DEF MarkApplied
<1>2. Distinct(run[p].entries) => Written(tree, run[p].entries, run[p].raced)
  BY <1>1, AllPassed DEF Passed
<1>3. QED
  BY <1>1, <1>2, IdleKnows, OneProcessLearns, MarkSettles

LEMMA MarkRolledBackSettles ==
  ASSUME SInv, NEW p \in Processes, MarkRolledBack(p) PROVE AllKnow' /\ SettledExactly'
<1> DEFINE new == [run[p] EXCEPT !.phase = "audit"]
<1>1. /\ Mark(p, "rolled_back") /\ run[p].op = "rollback" /\ run[p].phase = "write"
      /\ run[p].next = 0 /\ run' = [run EXCEPT ![p] = new] /\ UNCHANGED tree
  BY DEF MarkRolledBack, SInv, IInv, TypeOK
<1>2. run[p] \in Runs /\ run[p].entries \in Seq(Changes)
  BY RunFields DEF SInv, IInv
<1>3. \A i \in DOMAIN run[p].entries : i > run[p].next
  BY <1>1, <1>2
<1>4. Distinct(run[p].entries) => Restored(tree, run[p].entries, run[p].raced)
  BY <1>1, <1>3, AllPassed DEF Passed
<1>5. /\ new.phase = "audit" /\ new.op = "rollback" /\ new.entries = run[p].entries
      /\ new.raced = run[p].raced
  BY <1>1, <1>2 DEF Runs
<1>6. Knows(tree, new) /\ HasOp(new)
  BY <1>4, <1>5 DEF Knows, HasOp, Restored, Passed, Aim
<1> HIDE DEF new
<1>7. QED
  BY <1>1, <1>4, <1>6, OneProcessLearns, MarkSettles

LEMMA EditSettles ==
  ASSUME SInv, NEW f \in Editable, Edit(f) PROVE AllKnow' /\ SettledExactly'
<1>1. PICK content : tree' = [tree EXCEPT ![f] = content]
  BY DEF Edit
<1>2. \A g \in Paths : g # f => tree'[g] = tree[g]
  BY <1>1 DEF SInv, IInv, TypeOK
<1>3. /\ foreign' = [id \in DOMAIN foreign |-> foreign[id] \cup {f}]
      /\ run' = [q \in Processes |-> Overtaken(q, f)]
      /\ UNCHANGED <<manifest, unsettled>>
  BY DEF Edit
<1>4. ASSUME NEW q \in Processes PROVE Knows(tree', run'[q]) /\ HasOp(run'[q])
  <2>1. run[q] \in Runs /\ run[q].entries \in Seq(Changes) /\ run'[q] = Overtaken(q, f)
    BY <1>3, RunFields DEF SInv, IInv
  <2>2. /\ run'[q].phase = run[q].phase /\ run'[q].op = run[q].op
        /\ run'[q].entries = run[q].entries /\ run'[q].cur = run[q].cur
        /\ run'[q].next = run[q].next
        /\ run[q].phase \in {"write", "audit"} => run'[q].raced = run[q].raced \cup {f}
    BY <2>1 DEF Overtaken, Runs
  <2>3. ASSUME run[q].phase \in {"write", "audit"}, Distinct(run[q].entries),
               NEW i \in DOMAIN run[q].entries, run[q].entries[i].path \notin run'[q].raced
        PROVE  tree'[run[q].entries[i].path]
                 = IF Passed(run'[q], i) THEN Aim(run'[q], i) ELSE run'[q].cur[i]
    <3>1. run[q].entries[i].path \in Paths
      BY <2>1, EntryFields
    <3>2. tree'[run[q].entries[i].path] = tree[run[q].entries[i].path]
      BY <1>2, <2>2, <2>3, <3>1
    <3>3. tree[run[q].entries[i].path] = IF Passed(run[q], i) THEN Aim(run[q], i) ELSE run[q].cur[i]
      BY <2>2, <2>3 DEF SInv, AllKnow, Knows
    <3>4. (Passed(run'[q], i) <=> Passed(run[q], i)) /\ Aim(run'[q], i) = Aim(run[q], i)
      BY <2>2 DEF Passed, Aim
    <3>5. QED
      BY <2>2, <3>2, <3>3, <3>4
  <2>4. QED
    BY <2>2, <2>3 DEF SInv, AllKnow, Knows, HasOp
<1>5. ASSUME NEW id \in Recorded \ unsettled, Distinct(manifest[id].entries)
      PROVE  /\ manifest[id].state = "applied"
                  => Written(tree', manifest[id].entries, foreign'[id])
             /\ manifest[id].state = "rolled_back"
                  => Restored(tree', manifest[id].entries, foreign'[id])
  <2>1. foreign'[id] = foreign[id] \cup {f} /\ manifest[id].entries \in Seq(Changes)
    BY <1>3 DEF SInv, IInv, TypeOK, Records
  <2>2. \A i \in DOMAIN manifest[id].entries : manifest[id].entries[i].path \in Paths
    BY <2>1, EntryFields
  <2>3. /\ manifest[id].state = "applied" => Written(tree, manifest[id].entries, foreign[id])
        /\ manifest[id].state = "rolled_back" => Restored(tree, manifest[id].entries, foreign[id])
    BY <1>5 DEF SInv, SettledExactly
  <2>4. QED
    BY <1>2, <2>1, <2>2, <2>3 DEF Written, Restored
<1>6. QED
  BY <1>3, <1>4, <1>5 DEF AllKnow, SettledExactly, Recorded

LEMMA SimpleSettles ==
  ASSUME SInv, NEW p \in Processes,
         \/ \E r \in Requests : BeginApply(p, r)
         \/ \E id \in Recorded, op \in {"apply", "rollback"} : BeginRecovery(p, id, op)
         \/ AuditApply(p) \/ AuditRollback(p) \/ Crash(p)
  PROVE  AllKnow' /\ SettledExactly'
<1>1. run[p] \in Runs
  BY RunFields DEF SInv, IInv
<1>2. ASSUME NEW r \in Requests, BeginApply(p, r) PROVE AllKnow' /\ SettledExactly'
  <2> DEFINE new == [Idle EXCEPT !.op = "apply", !.id = reviewed[r],
                                 !.entries = Entries(tree, r), !.phase = "record"]
  <2>1. run' = [run EXCEPT ![p] = new] /\ UNCHANGED <<tree, manifest, foreign, unsettled>>
    BY <1>2 DEF BeginApply
  <2>2. Knows(tree, new) /\ HasOp(new)
    BY DEF Knows, HasOp, Idle
  <2> HIDE DEF new
  <2>3. QED
    BY <2>1, <2>2, OneProcessLearns, NothingRecorded
<1>3. ASSUME NEW id \in Recorded, NEW op \in {"apply", "rollback"}, BeginRecovery(p, id, op)
      PROVE  AllKnow' /\ SettledExactly'
  <2> DEFINE new == [Idle EXCEPT !.op = op, !.id = id, !.phase = "check",
                                 !.state = manifest[id].state,
                                 !.entries = manifest[id].entries]
  <2>1. run' = [run EXCEPT ![p] = new] /\ UNCHANGED <<tree, manifest, foreign, unsettled>>
    BY <1>3 DEF BeginRecovery
  <2>2. Knows(tree, new) /\ HasOp(new)
    BY <1>3 DEF Knows, HasOp, Idle
  <2> HIDE DEF new
  <2>3. QED
    BY <2>1, <2>2, OneProcessLearns, NothingRecorded
<1>4. CASE AuditApply(p)
  <2> DEFINE new == [run[p] EXCEPT !.next = @ + 1]
  <2>1. run' = [run EXCEPT ![p] = new] /\ UNCHANGED <<tree, manifest, foreign, unsettled>>
    BY <1>4 DEF AuditApply, SInv, IInv, TypeOK
  <2>2. /\ new.phase = run[p].phase /\ new.op = run[p].op /\ new.entries = run[p].entries
        /\ new.raced = run[p].raced /\ run[p].phase = "audit"
    BY <1>1, <1>4 DEF Runs, AuditApply
  <2>3. Knows(tree, new) /\ HasOp(new)
    BY <2>2 DEF SInv, AllKnow, Knows, HasOp, Passed, Aim
  <2> HIDE DEF new
  <2>4. QED
    BY <2>1, <2>3, OneProcessLearns, NothingRecorded
<1>5. CASE AuditRollback(p) \/ Crash(p)
  <2>1. run' = [run EXCEPT ![p] = Idle] /\ UNCHANGED <<tree, manifest, foreign, unsettled>>
    BY <1>5 DEF AuditRollback, Crash
  <2>2. QED
    BY <2>1, IdleKnows, OneProcessLearns, NothingRecorded
<1>6. QED
  BY <1>2, <1>3, <1>4, <1>5

LEMMA StepSettles ==
  ASSUME SInv, NEW p \in Processes, Step(p) PROVE AllKnow' /\ SettledExactly'
<1>1. IInv
  BY DEF SInv
<1>2. CASE WriteEntry(p)
  <2>1. run[p].next + 1 \in Nat
    BY <1>1, RunFields DEF IInv
  <2>2. run[p].entries[run[p].next].new = Aim(run[p], run[p].next)
    BY <1>2 DEF WriteEntry, Aim
  <2>3. QED
    BY <1>2, <2>1, <2>2, StoreSettles DEF WriteEntry
<1>3. CASE RestoreEntry(p)
  <2>1. run[p].next - 1 \in Nat
    BY <1>1, <1>3, RunFields DEF IInv, RestoreEntry
  <2>2. run[p].entries[run[p].next].old = Aim(run[p], run[p].next)
    BY <1>3 DEF RestoreEntry, Aim
  <2>3. QED
    BY <1>3, <2>1, <2>2, StoreSettles DEF RestoreEntry
<1>4. QED
  BY <1>2, <1>3, SimpleSettles, WriteManifestSettles, CheckSettles, EndWritesSettles,
     MarkAppliedSettles, MarkRolledBackSettles DEF Step

LEMMA InitSInv == Init => SInv
<1>1. ASSUME Init PROVE AllKnow
  BY <1>1, IdleKnows DEF Init, AllKnow
<1>2. Init => SettledExactly
  BY DEF Init, SettledExactly, Recorded
<1>3. QED
  BY <1>1, <1>2, InitIInv DEF SInv

LEMMA NextSInv == SInv /\ [Next]_vars => SInv'
<1> SUFFICES ASSUME SInv, [Next]_vars PROVE SInv'
  OBVIOUS
<1>1. IInv'
  BY NextIInv DEF SInv
<1>2. ASSUME NEW r \in Requests, DryRun(r) PROVE AllKnow' /\ SettledExactly'
  BY <1>2, NothingRecorded DEF DryRun, SInv, AllKnow
<1>3. ASSUME NEW p \in Processes, Step(p) PROVE AllKnow' /\ SettledExactly'
  BY <1>3, StepSettles
<1>4. ASSUME NEW f \in Editable, Edit(f) PROVE AllKnow' /\ SettledExactly'
  BY <1>4, EditSettles
<1>5. ASSUME UNCHANGED vars PROVE AllKnow' /\ SettledExactly'
  BY <1>5, NothingRecorded DEF vars, SInv, AllKnow
<1>6. AllKnow' /\ SettledExactly'
  BY <1>2, <1>3, <1>4, <1>5 DEF Next
<1>7. QED
  BY <1>1, <1>6 DEF SInv

(* The state a transaction is recorded in is true of the disk: all of an   *)
(* applied plan is there and nothing of one rolled back, in every file     *)
(* that nobody else has changed since.                                     *)
THEOREM SettledTruth == Spec => []SettledExactly
<1>1. SInv => SettledExactly
  BY DEF SInv
<1>2. QED
  BY <1>1, InitSInv, NextSInv, PTL DEF Spec

-----------------------------------------------------------------------------
(* The audit log precedes the record                                       *)

(* x has a line in the log for each entry it is past.                      *)
Logged(log, x) ==
  (x.op = "apply" /\ x.phase = "audit") =>
    \A i \in DOMAIN x.entries : i < x.next => <<x.id, "apply", x.entries[i].path>> \in log

AInv == IInv /\ (\A p \in Processes : Logged(audit, run[p])) /\ AuditedBeforeApplied

(* A step of process p that leaves the records alone.                      *)
LEMMA OneProcessLogs ==
  ASSUME AInv, NEW p \in Processes, NEW new, run' = [run EXCEPT ![p] = new],
         audit \subseteq audit', Logged(audit', new)
  PROVE  (\A q \in Processes : Logged(audit, run[q]))'
<1>1. run \in [Processes -> Runs]
  BY DEF AInv, IInv, TypeOK
<1>2. ASSUME NEW q \in Processes PROVE Logged(audit', run'[q])
  <2>1. CASE q = p
    BY <1>1, <2>1
  <2>2. CASE q # p
    <3>1. Logged(audit, run[q]) /\ run'[q] = run[q]
      BY <1>1, <2>2 DEF AInv
    <3>2. QED
      BY <3>1 DEF Logged
  <2>3. QED
    BY <2>1, <2>2
<1>3. QED
  BY <1>2

(* The others change nothing of what a process has logged.                 *)
LEMMA OvertakenLogs ==
  ASSUME AInv, NEW q \in Processes, NEW path PROVE Logged(audit, Overtaken(q, path))
<1>1. Logged(audit, run[q]) /\ run[q] \in Runs
  BY RunFields DEF AInv, IInv
<1>2. CASE run[q].phase \in {"record", "write", "audit"}
  <2> DEFINE new == [run[q] EXCEPT !.raced = @ \cup {path}]
  <2>1. /\ new.op = run[q].op /\ new.phase = run[q].phase /\ new.entries = run[q].entries
        /\ new.next = run[q].next /\ new.id = run[q].id
    BY <1>1 DEF Runs
  <2>2. Overtaken(q, path) = new
    BY <1>2 DEF Overtaken
  <2> HIDE DEF new
  <2>3. QED
    BY <1>1, <2>1, <2>2 DEF Logged
<1>3. QED
  BY <1>1, <1>2 DEF Overtaken

LEMMA StoreLogs ==
  ASSUME AInv, NEW p \in Processes, run[p].phase = "write", NEW entry, NEW content, NEW next,
         Store(p, entry, content, next), UNCHANGED audit
  PROVE  (\A q \in Processes : Logged(audit, run[q]))'
<1>1. run[p] \in Runs
  BY RunFields DEF AInv, IInv
<1>2. CASE run[p].cur[run[p].next] = content
  <2> DEFINE new == [run[p] EXCEPT !.next = next]
  <2>1. run' = [run EXCEPT ![p] = new]
    BY <1>2 DEF Store, AInv, IInv, TypeOK
  <2>2. new.phase = "write"
    BY <1>1 DEF Runs
  <2> HIDE DEF new
  <2>3. QED
    BY <2>1, <2>2, OneProcessLogs DEF Logged
<1>3. CASE run[p].cur[run[p].next] # content
  <2> DEFINE new == [run[p] EXCEPT !.next = next, !.raced = @ \ {entry.path}]
  <2>1. run' = [q \in Processes |-> IF q = p THEN new ELSE Overtaken(q, entry.path)]
    BY <1>3 DEF Store
  <2>2. new.phase = "write"
    BY <1>1 DEF Runs
  <2> HIDE DEF new
  <2>3. ASSUME NEW q \in Processes PROVE Logged(audit', run'[q])
    BY <2>1, <2>2, OvertakenLogs DEF Logged
  <2>4. QED
    BY <2>3
<1>4. QED
  BY <1>2, <1>3

LEMMA InitAInv == Init => AInv
<1>1. Init => \A p \in Processes : Logged(audit, run[p])
  BY DEF Init, Logged, Idle
<1>2. Init => AuditedBeforeApplied
  BY DEF Init, AuditedBeforeApplied, Recorded
<1>3. QED
  BY <1>1, <1>2, InitIInv DEF AInv

LEMMA StepLogs ==
  ASSUME AInv, NEW p \in Processes, Step(p)
  PROVE  (\A q \in Processes : Logged(audit, run[q]))' /\ AuditedBeforeApplied'
<1>1. run[p] \in Runs /\ run \in [Processes -> Runs] /\ Logged(audit, run[p])
  BY RunFields DEF AInv, IInv, TypeOK
<1>2. Logged(audit, Idle)
  BY DEF Logged, Idle
<1>3. ASSUME UNCHANGED manifest, audit \subseteq audit' PROVE AuditedBeforeApplied'
  BY <1>3 DEF AInv, AuditedBeforeApplied, Recorded
<1>4. ASSUME NEW r \in Requests, BeginApply(p, r)
      PROVE  (\A q \in Processes : Logged(audit, run[q]))' /\ AuditedBeforeApplied'
  <2> DEFINE new == [Idle EXCEPT !.op = "apply", !.id = reviewed[r],
                                 !.entries = Entries(tree, r), !.phase = "record"]
  <2>1. run' = [run EXCEPT ![p] = new] /\ UNCHANGED <<audit, manifest>>
    BY <1>4 DEF BeginApply
  <2>2. new.phase = "record"
    BY DEF Idle
  <2> HIDE DEF new
  <2>3. QED
    BY <1>3, <2>1, <2>2, OneProcessLogs DEF Logged
<1>5. CASE WriteManifest(p)
  <2> DEFINE new == [run[p] EXCEPT !.phase = "check"]
  <2>1. run' = [run EXCEPT ![p] = new] /\ UNCHANGED audit
    BY <1>5 DEF WriteManifest
  <2>2. new.phase = "check"
    BY <1>1 DEF Runs
  <2>3. /\ Recorded' = Recorded \cup {run[p].id}
        /\ \A id \in Recorded' : manifest'[id] = IF id = run[p].id
                                                THEN Record("pending", run[p].entries)
                                                ELSE manifest[id]
    BY <1>5 DEF WriteManifest, With, Recorded
  <2>4. manifest'[run[p].id].state = "pending"
    BY <2>3 DEF Record
  <2>5. AuditedBeforeApplied'
    BY <2>1, <2>3, <2>4 DEF AInv, AuditedBeforeApplied
  <2> HIDE DEF new
  <2>6. QED
    BY <2>1, <2>2, <2>5, OneProcessLogs DEF Logged
<1>6. ASSUME NEW id \in Recorded, NEW op \in {"apply", "rollback"}, BeginRecovery(p, id, op)
      PROVE  (\A q \in Processes : Logged(audit, run[q]))' /\ AuditedBeforeApplied'
  <2> DEFINE new == [Idle EXCEPT !.op = op, !.id = id, !.phase = "check",
                                 !.state = manifest[id].state,
                                 !.entries = manifest[id].entries]
  <2>1. run' = [run EXCEPT ![p] = new] /\ UNCHANGED <<audit, manifest>>
    BY <1>6 DEF BeginRecovery
  <2>2. new.phase = "check"
    BY DEF Idle
  <2> HIDE DEF new
  <2>3. QED
    BY <1>3, <2>1, <2>2, OneProcessLogs DEF Logged
<1>7. CASE Check(p)
  <2> DEFINE new == [run[p] EXCEPT !.phase = "write", !.cur = Current(run[p].entries),
                       !.raced = {}, !.next = IF run[p].op = "apply" THEN 1
                                              ELSE Len(run[p].entries)]
  <2>1. /\ run' = [run EXCEPT ![p] = IF TargetsMatch(run[p].entries) THEN new ELSE Idle]
        /\ UNCHANGED <<audit, manifest>>
    BY <1>1, <1>7 DEF Check
  <2>2. new.phase = "write"
    BY <1>1 DEF Runs
  <2> HIDE DEF new
  <2>3. Logged(audit, new)
    BY <2>2 DEF Logged
  <2>4. QED
    BY <1>2, <1>3, <2>1, <2>3, OneProcessLogs
<1>8. CASE WriteEntry(p) \/ RestoreEntry(p)
  BY <1>3, <1>8, StoreLogs DEF WriteEntry, RestoreEntry
<1>9. CASE EndWrites(p)
  <2> DEFINE new == [run[p] EXCEPT !.phase = "audit", !.next = 1]
  <2>1. /\ run' = [run EXCEPT ![p] = IF run[p].state = "applied" THEN Idle ELSE new]
        /\ UNCHANGED <<audit, manifest>>
    BY <1>1, <1>9 DEF EndWrites
  <2>2. new.next = 1 /\ new.entries = run[p].entries
    BY <1>1 DEF Runs
  <2>3. \A i \in DOMAIN run[p].entries : ~ (i < 1)
    BY <1>1 DEF Runs
  <2> HIDE DEF new
  <2>4. Logged(audit, new)
    BY <2>2, <2>3 DEF Logged
  <2>5. QED
    BY <1>2, <1>3, <2>1, <2>4, OneProcessLogs
<1>10. CASE AuditApply(p)
  <2> DEFINE new == [run[p] EXCEPT !.next = @ + 1]
  <2>1. /\ run' = [run EXCEPT ![p] = new] /\ UNCHANGED manifest
        /\ audit' = audit \cup {<<run[p].id, "apply", run[p].entries[run[p].next].path>>}
        /\ run[p].op = "apply" /\ run[p].phase = "audit"
    BY <1>1, <1>10 DEF AuditApply
  <2>2. /\ new.next = run[p].next + 1 /\ new.entries = run[p].entries /\ new.id = run[p].id
        /\ run[p].next \in Nat /\ DOMAIN run[p].entries \subseteq Nat
    BY <1>1 DEF Runs
  <2> HIDE DEF new
  <2>3. ASSUME NEW i \in DOMAIN run[p].entries, i < new.next
        PROVE  <<run[p].id, "apply", run[p].entries[i].path>> \in audit'
    <3>1. CASE i = run[p].next
      BY <2>1, <3>1
    <3>2. CASE i # run[p].next
      <4>1. i < run[p].next
        BY <2>2, <2>3, <3>2
      <4>2. <<run[p].id, "apply", run[p].entries[i].path>> \in audit
        BY <1>1, <2>1, <4>1 DEF Logged
      <4>3. QED
        BY <2>1, <4>2
    <3>3. QED
      BY <3>1, <3>2
  <2>4. Logged(audit', new)
    BY <2>2, <2>3 DEF Logged
  <2>5. audit \subseteq audit'
    BY <2>1
  <2>6. QED
    BY <1>3, <2>1, <2>4, <2>5, OneProcessLogs
<1>11. CASE MarkApplied(p) \/ MarkRolledBack(p)
  <2>1. PICK state \in {"applied", "rolled_back"} :
          /\ manifest' = [manifest EXCEPT ![run[p].id] = Record(state, run[p].entries)]
          /\ state = "applied" => MarkApplied(p)
    BY <1>11 DEF MarkApplied, MarkRolledBack, Mark
  <2>2. UNCHANGED audit
    BY <1>11 DEF MarkApplied, MarkRolledBack
  <2>3. /\ Recorded' = Recorded
        /\ \A id \in Recorded : manifest'[id] = IF id = run[p].id
                                               THEN Record(state, run[p].entries)
                                               ELSE manifest[id]
    BY <2>1 DEF Recorded
  <2>4. ASSUME state = "applied", NEW i \in DOMAIN run[p].entries
        PROVE  <<run[p].id, "apply", run[p].entries[i].path>> \in audit
    <3>1. run[p].op = "apply" /\ run[p].phase = "audit" /\ i < run[p].next
      BY <1>1, <2>1, <2>4 DEF MarkApplied, Runs
    <3>2. QED
      BY <1>1, <3>1 DEF Logged
  <2>5. AuditedBeforeApplied'
    <3>1. Record(state, run[p].entries).state = state
          /\ Record(state, run[p].entries).entries = run[p].entries
      BY DEF Record
    <3>2. ASSUME NEW id \in Recorded, manifest'[id].state = "applied",
                 NEW i \in DOMAIN manifest'[id].entries
          PROVE  <<id, "apply", manifest'[id].entries[i].path>> \in audit
      <4>1. CASE id = run[p].id
        BY <2>3, <2>4, <3>1, <3>2, <4>1
      <4>2. CASE id # run[p].id
        BY <2>3, <3>2, <4>2 DEF AInv, AuditedBeforeApplied
      <4>3. QED
        BY <4>1, <4>2
    <3>3. QED
      BY <2>2, <2>3, <3>2 DEF AuditedBeforeApplied
  <2>6. CASE MarkApplied(p)
    BY <1>2, <2>2, <2>5, <2>6, OneProcessLogs DEF MarkApplied
  <2>7. CASE MarkRolledBack(p)
    <3> DEFINE new == [run[p] EXCEPT !.phase = "audit"]
    <3>1. run' = [run EXCEPT ![p] = new] /\ run[p].op = "rollback"
      BY <2>7 DEF MarkRolledBack
    <3>2. new.op = "rollback"
      BY <1>1, <3>1 DEF Runs
    <3> HIDE DEF new
    <3>3. QED
      BY <2>2, <2>5, <3>1, <3>2, OneProcessLogs DEF Logged
  <2>8. QED
    BY <1>11, <2>6, <2>7
<1>12. CASE AuditRollback(p) \/ Crash(p)
  <2>1. run' = [run EXCEPT ![p] = Idle] /\ UNCHANGED manifest /\ audit \subseteq audit'
    BY <1>12 DEF AuditRollback, Crash
  <2>2. Logged(audit', Idle)
    BY DEF Logged, Idle
  <2>3. QED
    BY <1>3, <2>1, <2>2, OneProcessLogs
<1>13. QED
  BY <1>4, <1>5, <1>6, <1>7, <1>8, <1>9, <1>10, <1>11, <1>12 DEF Step

LEMMA NextAInv == AInv /\ [Next]_vars => AInv'
<1> SUFFICES ASSUME AInv, [Next]_vars PROVE AInv'
  OBVIOUS
<1> DEFINE Goal == (\A p \in Processes : Logged(audit, run[p]))' /\ AuditedBeforeApplied'
<1>1. IInv'
  BY NextIInv DEF AInv
<1>2. ASSUME NEW r \in Requests, DryRun(r) PROVE Goal
  BY <1>2 DEF DryRun, AInv, AuditedBeforeApplied, Recorded
<1>3. ASSUME NEW p \in Processes, Step(p) PROVE Goal
  BY <1>3, StepLogs
<1>4. ASSUME NEW f \in Editable, Edit(f) PROVE Goal
  <2>1. UNCHANGED <<manifest, audit>> /\ run' = [q \in Processes |-> Overtaken(q, f)]
    BY <1>4 DEF Edit
  <2>2. ASSUME NEW q \in Processes PROVE Logged(audit', run'[q])
    BY <2>1, OvertakenLogs
  <2>3. QED
    BY <2>1, <2>2 DEF AInv, AuditedBeforeApplied, Recorded
<1>5. ASSUME UNCHANGED vars PROVE Goal
  BY <1>5 DEF vars, AInv, AuditedBeforeApplied, Recorded
<1>6. Goal
  BY <1>2, <1>3, <1>4, <1>5 DEF Next
<1>7. QED
  BY <1>1, <1>6 DEF AInv

(* Whichever processes applied a plan and wherever they died, the audit    *)
(* log has a line for each of its changes before it is recorded as applied.*)
THEOREM AuditPrecedes == Spec => []AuditedBeforeApplied
<1>1. AInv => AuditedBeforeApplied
  BY DEF AInv
<1>2. QED
  BY <1>1, InitAInv, NextAInv, PTL DEF Spec
=============================================================================
