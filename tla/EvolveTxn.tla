------------------------------ MODULE EvolveTxn ------------------------------
(***************************************************************************)
(* `evolve --apply` and `evolve --rollback` (src/src/megamind/evolve.py):  *)
(* a plan is reviewed, recorded whole in a durable manifest, and then      *)
(* written file by file by a process that can die between any two writes.  *)
(* A later process resumes or undoes the transaction from the manifest     *)
(* alone, after checking every target against it.  Nothing locks the       *)
(* vault: another `evolve` process, a person or a tool may change a file   *)
(* between any two steps, the check and the writes it authorises included. *)
(***************************************************************************)
EXTENDS EvolvePlan, FiniteSets

CONSTANTS
  InitialTree,   \* the bytes on disk at the start
  Processes,     \* the `evolve` processes that may run at one time
  Editable,      \* the paths something outside `evolve` may edit
  MaxPlans,      \* bound: plans that reach a manifest
  MaxFaults,     \* bound: processes that die, and edits by others
  FinishFirst    \* TRUE: the user settles an interrupted transaction before
                 \* starting another one, which the tool does not ask of them

ASSUME TxnConstants ==
  /\ InitialTree \in [Paths -> Content]
  /\ Editable \subseteq Paths
  /\ MaxPlans \in Nat
  /\ MaxFaults \in Nat
  /\ FinishFirst \in BOOLEAN

VARIABLES
  tree,          \* the content of every controlled path
  manifest,      \* plan id -> its record under .megamind/audit
  audit,         \* the events that reached .megamind/audit/log.jsonl
  reviewed,      \* the plan id the user holds from the last dry run
  run,           \* what each process holds in memory
  faults,        \* how many there have been of them
  (* history, read by no action of the program *)
  foreign,       \* plan id -> targets others changed since it knew them
  unsettled,     \* ids written to since their state was last recorded
  edited         \* paths ever edited outside `evolve`

vars == <<tree, manifest, audit, reviewed, run, faults, foreign, unsettled, edited>>

NoPlan == [proposal |-> NoPage, action |-> "none", news |-> <<>>]
Idle   == [op |-> "none", id |-> NoPlan, state |-> "pending", entries |-> <<>>,
           phase |-> "idle", cur |-> <<>>, next |-> 0, raced |-> {}]

Recorded == DOMAIN manifest

Init ==
  /\ tree = InitialTree
  /\ manifest = [id \in {} |-> {}]
  /\ audit = {}
  /\ reviewed = [r \in Requests |-> NoPlan]
  /\ run = [p \in Processes |-> Idle]
  /\ faults = 0
  /\ foreign = [id \in {} |-> {}]
  /\ unsettled = {}
  /\ edited = {}

-----------------------------------------------------------------------------
(* Helpers                                                                 *)

(* f with key mapped to value, key new or not.                             *)
With(f, key, value) ==
  [k \in DOMAIN f \cup {key} |-> IF k = key THEN value ELSE f[k]]

Record(state, entries) == [state |-> state, entries |-> entries]

Current(entries) == [i \in DOMAIN entries |-> tree[entries[i].path]]

(* Faulty: no check at all; only the bytes the plan started from will do.  *)
TargetsMatchAny(entries) == TRUE
TargetsMatchOld(entries) == \A i \in DOMAIN entries : tree[entries[i].path] = entries[i].old

(* Every target holds the bytes the transaction replaced or wrote.         *)
TargetsMatch(entries) ==
  \A i \in DOMAIN entries : tree[entries[i].path] \in {entries[i].old, entries[i].new}

(* The user's discipline, when it is assumed.                              *)
MayStart(id) ==
  FinishFirst =>
    \A other \in Recorded \ {id} :
      manifest[other].state # "pending" /\ other \notin unsettled

(* q once somebody else has changed path: it matters to q only if q has    *)
(* read its targets already.                                               *)
Overtaken(q, path) ==
  IF run[q].phase \in {"record", "write", "audit"}
  THEN [run[q] EXCEPT !.raced = @ \cup {path}] ELSE run[q]

(* Process p goes past its entry, durably giving the target its content    *)
(* unless it held it when the targets were read.                           *)
Store(p, entry, content, next) ==
  IF run[p].cur[run[p].next] = content
  THEN /\ run' = [run EXCEPT ![p].next = next]
       /\ UNCHANGED <<tree, foreign, unsettled>>
  ELSE /\ tree' = [tree EXCEPT ![entry.path] = content]
       /\ run' = [q \in Processes |->
                    IF q = p THEN [run[p] EXCEPT !.next = next, !.raced = @ \ {entry.path}]
                             ELSE Overtaken(q, entry.path)]
       /\ foreign' = [id \in DOMAIN foreign |->
                        IF id = run[p].id /\ manifest[id].entries = run[p].entries
                        THEN foreign[id] \ {entry.path}
                        ELSE foreign[id] \cup {entry.path}]
       /\ unsettled' = unsettled \cup {run[p].id}

-----------------------------------------------------------------------------
(* The dry run: a read-only plan whose id the user reviews.                *)
DryRun(r) ==
  /\ Cardinality(Recorded) < MaxPlans
  /\ Plannable(tree, r)
  /\ reviewed' = [reviewed EXCEPT ![r] = PlanId(tree, r)]
  /\ UNCHANGED <<tree, manifest, audit, run, faults, foreign, unsettled, edited>>

(* Faulty: the files are written before there is a record of them.         *)
BeginApplyUnrecorded(p, r) ==
  /\ run[p] = Idle
  /\ reviewed[r] \notin Recorded \cup {NoPlan}
  /\ Plannable(tree, r) /\ PlanId(tree, r) = reviewed[r]
  /\ run' = [run EXCEPT ![p] = [Idle EXCEPT !.op = "apply", !.id = reviewed[r],
                                            !.entries = Entries(tree, r), !.phase = "check"]]
  /\ UNCHANGED <<tree, manifest, audit, reviewed, faults, foreign, unsettled, edited>>

(* Faulty: the reviewed id stands for whatever the plan has become.        *)
BeginApplyStale(p, r) ==
  /\ run[p] = Idle
  /\ reviewed[r] \notin Recorded \cup {NoPlan}
  /\ Plannable(tree, r) /\ MayStart(reviewed[r])
  /\ run' = [run EXCEPT ![p] = [Idle EXCEPT !.op = "apply", !.id = reviewed[r],
                                            !.entries = Entries(tree, r), !.phase = "record"]]
  /\ UNCHANGED <<tree, manifest, audit, reviewed, faults, foreign, unsettled, edited>>

(* `evolve --apply --plan-id` with no record of that id: the plan is       *)
(* computed again and must hash to the id that was reviewed.               *)
BeginApply(p, r) ==
  /\ run[p] = Idle
  /\ reviewed[r] # NoPlan
  /\ reviewed[r] \notin Recorded
  /\ Cardinality(Recorded) < MaxPlans
  /\ Plannable(tree, r)
  /\ PlanId(tree, r) = reviewed[r]
  /\ MayStart(reviewed[r])
  /\ run' = [run EXCEPT ![p] = [Idle EXCEPT !.op = "apply", !.id = reviewed[r],
                                            !.entries = Entries(tree, r), !.phase = "record"]]
  /\ UNCHANGED <<tree, manifest, audit, reviewed, faults, foreign, unsettled, edited>>

(* The pending manifest is durable before any target changes.              *)
WriteManifest(p) ==
  /\ run[p].phase = "record"
  /\ manifest' = With(manifest, run[p].id, Record("pending", run[p].entries))
  /\ foreign' = With(foreign, run[p].id, run[p].raced)
  /\ run' = [run EXCEPT ![p].phase = "check"]
  /\ UNCHANGED <<tree, audit, reviewed, faults, unsettled, edited>>

(* `evolve --apply` or `--rollback` with a record: from it alone.          *)
BeginRecovery(p, id, op) ==
  /\ run[p] = Idle
  /\ manifest[id].state # "rolled_back"
  /\ MayStart(id)
  /\ run' = [run EXCEPT ![p] = [Idle EXCEPT !.op = op, !.id = id, !.phase = "check",
                                            !.state = manifest[id].state,
                                            !.entries = manifest[id].entries]]
  /\ UNCHANGED <<tree, manifest, audit, reviewed, faults, foreign, unsettled, edited>>

(* Both directions read every target and refuse before writing anything.   *)
Check(p) ==
  LET entries == run[p].entries IN
  /\ run[p].phase = "check"
  /\ run' = [run EXCEPT ![p] =
       IF TargetsMatch(entries)
       THEN [@ EXCEPT !.phase = "write", !.cur = Current(entries), !.raced = {},
                      !.next = IF run[p].op = "apply" THEN 1 ELSE Len(entries)]
       ELSE Idle]
  /\ UNCHANGED <<tree, manifest, audit, reviewed, faults, foreign, unsettled, edited>>

(* Faulty: a write adds to what it finds instead of storing planned bytes. *)
WriteEntryMerging(p) ==
  LET entry == run[p].entries[run[p].next] IN
  /\ run[p].op = "apply" /\ run[p].phase = "write"
  /\ run[p].next \in DOMAIN run[p].entries
  /\ Store(p, entry, entry.new \cup Text(tree[entry.path]), run[p].next + 1)
  /\ UNCHANGED <<manifest, audit, reviewed, faults, edited>>

(* One durable write of an apply or a resume.                              *)
WriteEntry(p) ==
  LET entry == run[p].entries[run[p].next] IN
  /\ run[p].op = "apply" /\ run[p].phase = "write"
  /\ run[p].next \in DOMAIN run[p].entries
  /\ Store(p, entry, entry.new, run[p].next + 1)
  /\ UNCHANGED <<manifest, audit, reviewed, faults, edited>>

(* Faulty: a file the plan created is emptied, not removed.                *)
RestoreEntryEmpties(p) ==
  LET entry == run[p].entries[run[p].next] IN
  /\ run[p].op = "rollback" /\ run[p].phase = "write"
  /\ run[p].next \in DOMAIN run[p].entries
  /\ Store(p, entry, Text(entry.old), run[p].next - 1)
  /\ UNCHANGED <<manifest, audit, reviewed, faults, edited>>

(* One durable restore of a rollback, in reverse order; a target that did  *)
(* not exist before the plan is removed.                                   *)
RestoreEntry(p) ==
  LET entry == run[p].entries[run[p].next] IN
  /\ run[p].op = "rollback" /\ run[p].phase = "write"
  /\ run[p].next \in DOMAIN run[p].entries
  /\ Store(p, entry, entry.old, run[p].next - 1)
  /\ UNCHANGED <<manifest, audit, reviewed, faults, edited>>

(* Faulty: off by one, the last target is never written.                   *)
EndWritesEarly(p) ==
  /\ run[p].op = "apply" /\ run[p].phase = "write"
  /\ run[p].state # "applied"
  /\ run[p].next >= Len(run[p].entries)
  /\ run' = [run EXCEPT ![p].phase = "audit", ![p].next = 1]
  /\ UNCHANGED <<tree, manifest, audit, reviewed, faults, foreign, unsettled, edited>>

(* All targets written: a plan that was already applied is only repaired,  *)
(* with no audit and no new record.                                        *)
EndWrites(p) ==
  /\ run[p].op = "apply" /\ run[p].phase = "write"
  /\ run[p].next > Len(run[p].entries)
  /\ IF run[p].state = "applied"
     THEN /\ run' = [run EXCEPT ![p] = Idle]
          /\ foreign' = [foreign EXCEPT ![run[p].id] = @ \cup run[p].raced]
          /\ unsettled' = IF manifest[run[p].id] = Record("applied", run[p].entries)
                          THEN unsettled \ {run[p].id} ELSE unsettled
     ELSE /\ run' = [run EXCEPT ![p].phase = "audit", ![p].next = 1]
          /\ UNCHANGED <<foreign, unsettled>>
  /\ UNCHANGED <<tree, manifest, audit, reviewed, faults, edited>>

(* One audit line for each entry of the plan ...                           *)
AuditApply(p) ==
  /\ run[p].op = "apply" /\ run[p].phase = "audit"
  /\ run[p].next \in DOMAIN run[p].entries
  /\ audit' = audit \cup {<<run[p].id, "apply", run[p].entries[run[p].next].path>>}
  /\ run' = [run EXCEPT ![p].next = @ + 1]
  /\ UNCHANGED <<tree, manifest, reviewed, faults, foreign, unsettled, edited>>

Mark(p, state) ==
  /\ manifest' = [manifest EXCEPT ![run[p].id] = Record(state, run[p].entries)]
  /\ foreign' = [foreign EXCEPT ![run[p].id] = run[p].raced]
  /\ unsettled' = unsettled \ {run[p].id}

(* Faulty: recorded as applied before the last audit line.                 *)
MarkAppliedEarly(p) ==
  /\ run[p].op = "apply" /\ run[p].phase = "audit"
  /\ run[p].next >= Len(run[p].entries)
  /\ Mark(p, "applied")
  /\ run' = [run EXCEPT ![p] = Idle]
  /\ UNCHANGED <<tree, audit, reviewed, faults, edited>>

(* ... and only then is the transaction recorded as applied.               *)
MarkApplied(p) ==
  /\ run[p].op = "apply" /\ run[p].phase = "audit"
  /\ run[p].next > Len(run[p].entries)
  /\ Mark(p, "applied")
  /\ run' = [run EXCEPT ![p] = Idle]
  /\ UNCHANGED <<tree, audit, reviewed, faults, edited>>

(* Faulty: recorded as rolled back before the first entry is restored.     *)
MarkRolledBackEarly(p) ==
  /\ run[p].op = "rollback" /\ run[p].phase = "write"
  /\ run[p].next \in {0, 1}
  /\ Mark(p, "rolled_back")
  /\ run' = [run EXCEPT ![p].phase = "audit"]
  /\ UNCHANGED <<tree, audit, reviewed, faults, edited>>

(* A rollback is recorded first and audited second.                        *)
MarkRolledBack(p) ==
  /\ run[p].op = "rollback" /\ run[p].phase = "write"
  /\ run[p].next = 0
  /\ Mark(p, "rolled_back")
  /\ run' = [run EXCEPT ![p].phase = "audit"]
  /\ UNCHANGED <<tree, audit, reviewed, faults, edited>>

AuditRollback(p) ==
  /\ run[p].op = "rollback" /\ run[p].phase = "audit"
  /\ audit' = audit \cup {<<run[p].id, "rollback", Registry>>}
  /\ run' = [run EXCEPT ![p] = Idle]
  /\ UNCHANGED <<tree, manifest, reviewed, faults, foreign, unsettled, edited>>

(* A signal, a power loss or a failed write ends the process: what it held *)
(* in memory is gone, what it wrote durably stays.                         *)
Crash(p) ==
  /\ run[p] # Idle
  /\ faults < MaxFaults
  /\ faults' = faults + 1
  /\ run' = [run EXCEPT ![p] = Idle]
  /\ UNCHANGED <<tree, manifest, audit, reviewed, foreign, unsettled, edited>>

(* Somebody else adds a change of their own to a file, takes it back, or   *)
(* deletes the file, whatever `evolve` is doing at that moment.            *)
Edit(f) ==
  /\ faults < MaxFaults
  /\ faults' = faults + 1
  /\ \E content \in {Text(tree[f]) \cup {ForeignEdit(f)},
                     Text(tree[f]) \ {ForeignEdit(f)}, Absent} :
       /\ content # tree[f]
       /\ tree' = [tree EXCEPT ![f] = content]
  /\ edited' = edited \cup {f}
  /\ foreign' = [id \in DOMAIN foreign |-> foreign[id] \cup {f}]
  /\ run' = [q \in Processes |-> Overtaken(q, f)]
  /\ UNCHANGED <<manifest, audit, reviewed, unsettled>>

-----------------------------------------------------------------------------
Step(p) ==
  \/ \E r \in Requests : BeginApply(p, r)
  \/ WriteManifest(p)
  \/ \E id \in Recorded, op \in {"apply", "rollback"} : BeginRecovery(p, id, op)
  \/ Check(p)
  \/ WriteEntry(p)
  \/ RestoreEntry(p)
  \/ EndWrites(p)
  \/ AuditApply(p)
  \/ MarkApplied(p)
  \/ MarkRolledBack(p)
  \/ AuditRollback(p)
  \/ Crash(p)

Next ==
  \/ \E r \in Requests : DryRun(r)
  \/ \E p \in Processes : Step(p)
  \/ \E f \in Editable : Edit(f)

Spec == Init /\ [][Next]_vars

-----------------------------------------------------------------------------
(* Properties                                                              *)

Events == {"apply", "rollback"}
States == {"pending", "applied", "rolled_back"}
PlanIds == [proposal : Proposals, action : {"create", "merge", "supersede"},
            news : Seq(Paths \X SUBSET Marks)]
Records == [state : States, entries : Seq(Changes)]
Runs == [op : {"none", "apply", "rollback"}, id : PlanIds \cup {NoPlan},
         state : States, entries : Seq(Changes),
         phase : {"idle", "record", "check", "write", "audit"},
         cur : Seq(Content), next : Nat, raced : SUBSET Paths]

(* Type correctness; and each transaction on record has its history.       *)
TypeOK ==
  /\ tree \in [Paths -> Content]
  /\ \A id \in Recorded : id \in PlanIds /\ manifest[id] \in Records
  /\ audit \subseteq PlanIds \X Events \X Paths
  /\ reviewed \in [Requests -> PlanIds \cup {NoPlan}]
  /\ run \in [Processes -> Runs]
  /\ faults \in 0 .. MaxFaults
  /\ DOMAIN foreign = Recorded
  /\ \A id \in Recorded : foreign[id] \subseteq Paths
  /\ unsettled \subseteq Recorded
  /\ edited \subseteq Paths

(* Each target of entries is, in the tree t, as the transaction found it   *)
(* or as it leaves it, the excused ones set aside.                         *)
Explained(t, entries, excused) ==
  \A i \in DOMAIN entries :
    \/ t[entries[i].path] \in {entries[i].old, entries[i].new}
    \/ entries[i].path \in excused

(* Whatever dies or runs at the same time, a transaction on record can     *)
(* still be resumed or undone: only a target that somebody else has        *)
(* changed can hold bytes that the recovery check refuses.                 *)
Recoverable ==
  \A id \in Recorded :
    Distinct(manifest[id].entries) => Explained(tree, manifest[id].entries, foreign[id])

Written(t, entries, excused) ==
  \A i \in DOMAIN entries : t[entries[i].path] = entries[i].new \/ entries[i].path \in excused
Restored(t, entries, excused) ==
  \A i \in DOMAIN entries : t[entries[i].path] = entries[i].old \/ entries[i].path \in excused

(* The recorded state is true of the disk: every change of an applied plan *)
(* is there and none of one rolled back, in the files nobody else changed  *)
(* since.                                                                  *)
SettledExactly ==
  \A id \in Recorded \ unsettled :
    LET m == manifest[id] IN
    Distinct(m.entries) =>
      /\ m.state = "applied"     => Written(tree, m.entries, foreign[id])
      /\ m.state = "rolled_back" => Restored(tree, m.entries, foreign[id])

Live(id) == manifest[id].state # "rolled_back" \/ id \in unsettled

(* The superseded pointers of the page f that a plan may replace: those    *)
(* that name another successor than the request for f does.                *)
Replaceable(f) ==
  {mark \in Supersessions :
     \E r \in Requests : r.supersedes = f /\ mark # SupersededBy(r.dest)}

(* No lost update: what an applied plan added to a file stays there through*)
(* every later apply, rollback and recovery of another plan that shares the*)
(* file, until the plan itself is rolled back.  The one mark a later plan  *)
(* may take away is the superseded pointer of a page that it gives another *)
(* successor.                                                              *)
AppliedSurvives ==
  \A id \in Recorded \ unsettled :
    manifest[id].state = "applied" =>
      \A i \in DOMAIN manifest[id].entries :
        LET e == manifest[id].entries[i] IN
        \/ e.path \in edited
        \/ (e.new \ Text(e.old)) \ Replaceable(e.path) \subseteq Text(tree[e.path])

(* No orphan: a section in a page and an applied status in a proposal are  *)
(* always accounted for by a transaction that is not rolled back, so that  *)
(* one can find it and undo it.                                            *)
NoOrphan ==
  \A p \in Proposals :
    (\/ \E g \in Pages \ edited : Section(p) \in Text(tree[g])
     \/ p \notin edited /\ \E g \in Pages : Applied(p, g) \in Text(tree[p]))
    => \E id \in Recorded : id.proposal = p /\ Live(id)

Destination(id) == id.news[1][1]

(* A proposal goes to one page: two of its plans, for two destinations, are*)
(* never both on record as applied.                                        *)
AppliedOnce ==
  \A i, j \in Recorded \ unsettled :
    (/\ i.proposal = j.proposal
     /\ manifest[i].state = "applied" /\ manifest[j].state = "applied"
     /\ i.proposal \notin edited)
    => Destination(i) = Destination(j)

(* A transaction recorded as applied has every one of its changes in the   *)
(* audit log, whenever the processes that applied it died.                 *)
AuditedBeforeApplied ==
  \A id \in Recorded :
    manifest[id].state = "applied" =>
      \A i \in DOMAIN manifest[id].entries :
        <<id, "apply", manifest[id].entries[i].path>> \in audit

(* A write or a restore replaces bytes that are not the plan's own only in *)
(* a file that changed after the process had checked it: the recovery      *)
(* check leaves no other way to lose foreign bytes.                        *)
Replaces(p) ==
  LET e == run[p].entries[run[p].next] IN
  tree[e.path] \in {e.old, e.new} \/ e.path \in run[p].raced

NoForeignOverwrite ==
  [][\A p \in Processes :
       (/\ Distinct(run[p].entries)
        /\ WriteEntry(p) \/ RestoreEntry(p)) => Replaces(p)]_vars

(* An interrupted transaction whose targets nobody outside `evolve` has    *)
(* edited passes the check of both recovery paths.                         *)
NeverWedged ==
  \A id \in Recorded :
    (/\ manifest[id].state = "pending"
     /\ Distinct(manifest[id].entries)
     /\ \A i \in DOMAIN manifest[id].entries : manifest[id].entries[i].path \notin edited)
    => TargetsMatch(manifest[id].entries)

(* The same as Recoverable, of every transaction.                          *)
AlwaysRecoverable ==
  \A id \in Recorded : Explained(tree, manifest[id].entries, foreign[id])
=============================================================================
