-------------------------- MODULE EvolveSolo_proofs --------------------------
(***************************************************************************)
(* Theorems about EvolveTxn when no two `evolve` processes run at a time:  *)
(* every section and status in the vault has a transaction that accounts   *)
(* for it; and if an interrupted transaction is settled before another one *)
(* starts, it can always be resumed or undone, and no plan ever loses what *)
(* another one added.  Processes die at any point, one after the other,    *)
(* and files are edited by others at any time.                             *)
(***************************************************************************)
EXTENDS EvolveTxn_proofs, EvolveRefinement

OneProcess == \A p, q \in Processes : p = q

-----------------------------------------------------------------------------
(* What one process knows                                                  *)

(* id and entries are those of a plan of some vault.                       *)
FromPlan(id, entries) ==
  \E r \in Requests, t \in Trees :
    Plannable(t, r) /\ id = PlanId(t, r) /\ entries = Entries(t, r)

(* What a process x holds of its transaction is what the records m say.    *)
Holds(m, x) ==
  /\ x.phase # "idle" => FromPlan(x.id, x.entries) /\ x.op \in {"apply", "rollback"}
  /\ x.phase = "record" => x.id \notin DOMAIN m /\ x.op = "apply" /\ x.state = "pending"
  /\ x.phase \in {"check", "write", "audit"} =>
       x.id \in DOMAIN m /\ m[x.id].entries = x.entries
  /\ x.phase \in {"check", "write"} => m[x.id].state = x.state /\ x.state # "rolled_back"
  /\ x.phase = "audit" =>
       m[x.id].state = IF x.op = "apply" THEN "pending" ELSE "rolled_back"

(* Each target of x, but for those edited by others, is as x read it while *)
(* x has come to no entry for it, and as one of its entries leaves it      *)
(* after that.                                                             *)
Tracked(t, ed, x, i) ==
  \/ x.entries[i].path \in ed
  \/ \E j \in DOMAIN x.entries :
       /\ x.entries[j].path = x.entries[i].path
       /\ Passed(x, j) /\ t[x.entries[i].path] = Aim(x, j)
  \/ /\ \A j \in DOMAIN x.entries :
          x.entries[j].path = x.entries[i].path => ~ Passed(x, j)
     /\ t[x.entries[i].path] = x.cur[i]

Tracks(t, ed, x) ==
  x.phase \in {"write", "audit"} =>
    \A i \in DOMAIN x.entries :
      x.cur[i] \in {x.entries[i].old, x.entries[i].new} /\ Tracked(t, ed, x, i)

Solo ==
  /\ \A id \in Recorded : FromPlan(id, manifest[id].entries)
  /\ \A p \in Processes : /\ Holds(manifest, run[p])
                          /\ run[p].raced \subseteq edited
                          /\ Tracks(tree, edited, run[p])

SoloInv == IInv /\ Solo

(* What has to be shown of a step of the only process there is.            *)
LEMMA OnlyOne ==
  ASSUME OneProcess, NEW p \in Processes,
         (\A id \in Recorded : FromPlan(id, manifest[id].entries))',
         Holds(manifest', run'[p]), run'[p].raced \subseteq edited',
         Tracks(tree', edited', run'[p])
  PROVE  Solo'
<1>1. \A q \in Processes : q = p
  BY DEF OneProcess
<1>2. \A q \in Processes : /\ Holds(manifest', run'[q])
                           /\ run'[q].raced \subseteq edited'
                           /\ Tracks(tree', edited', run'[q])
  BY <1>1
<1>3. QED
  BY <1>2 DEF Solo

LEMMA IdleSolo ==
  ASSUME NEW m, NEW t, NEW ed
  PROVE  Holds(m, Idle) /\ Idle.raced \subseteq ed /\ Tracks(t, ed, Idle)
  BY DEF Holds, Tracks, Idle

(* The state of the only process, in the invariant.                        *)
LEMMA SoloParts ==
  ASSUME SoloInv, NEW p \in Processes
  PROVE  /\ Holds(manifest, run[p]) /\ run[p].raced \subseteq edited
         /\ Tracks(tree, edited, run[p])
         /\ \A id \in Recorded : FromPlan(id, manifest[id].entries)
         /\ run \in [Processes -> Runs] /\ run[p] \in Runs
         /\ run[p].entries \in Seq(Changes) /\ run[p].next \in Nat
         /\ tree \in Trees
  BY RunFields DEF SoloInv, Solo, IInv, TypeOK, Trees

LEMMA SoloToIdle ==
  ASSUME OneProcess, SoloInv, NEW p \in Processes, run' = [run EXCEPT ![p] = Idle],
         Recorded' = Recorded,
         \A id \in Recorded : manifest'[id].entries = manifest[id].entries
  PROVE  Solo'
<1>1. run'[p] = Idle
  BY SoloParts
<1>2. (\A id \in Recorded : FromPlan(id, manifest[id].entries))'
  BY SoloParts
<1>3. QED
  BY <1>1, <1>2, IdleSolo, OnlyOne

LEMMA DryRunSolo ==
  ASSUME SoloInv, NEW r \in Requests, DryRun(r) PROVE Solo'
<1>1. UNCHANGED <<tree, manifest, run, edited>>
  BY DEF DryRun
<1>2. QED
  BY <1>1 DEF SoloInv, Solo, Recorded

LEMMA BeginApplySolo ==
  ASSUME OneProcess, SoloInv, NEW p \in Processes, NEW r \in Requests, BeginApply(p, r)
  PROVE  Solo'
<1> DEFINE new == [Idle EXCEPT !.op = "apply", !.id = reviewed[r],
                               !.entries = Entries(tree, r), !.phase = "record"]
<1>1. /\ run' = [run EXCEPT ![p] = new] /\ UNCHANGED <<tree, manifest, edited>>
      /\ reviewed[r] \notin Recorded /\ Plannable(tree, r) /\ PlanId(tree, r) = reviewed[r]
  BY DEF BeginApply
<1>2. /\ new.phase = "record" /\ new.op = "apply" /\ new.state = "pending"
      /\ new.id = reviewed[r] /\ new.entries = Entries(tree, r) /\ new.raced = {}
  BY DEF Idle
<1>3. FromPlan(new.id, new.entries)
  BY <1>1, <1>2, SoloParts DEF FromPlan
<1>4. run'[p] = new
  BY <1>1, SoloParts
<1> HIDE DEF new
<1>5. Holds(manifest', new) /\ new.raced \subseteq edited' /\ Tracks(tree', edited', new)
  BY <1>1, <1>2, <1>3 DEF Holds, Tracks, Recorded
<1>6. (\A id \in Recorded : FromPlan(id, manifest[id].entries))'
  BY <1>1, SoloParts DEF Recorded
<1>7. QED
  BY <1>4, <1>5, <1>6, OnlyOne

LEMMA WriteManifestSolo ==
  ASSUME OneProcess, SoloInv, NEW p \in Processes, WriteManifest(p) PROVE Solo'
<1> DEFINE x == run[p]
           new == [run[p] EXCEPT !.phase = "check"]
<1>1. x.phase = "record" /\ run' = [run EXCEPT ![p] = new] /\ UNCHANGED <<tree, edited>>
  BY DEF WriteManifest
<1>2. /\ new.phase = "check" /\ new.op = x.op /\ new.state = x.state
      /\ new.id = x.id /\ new.entries = x.entries /\ new.raced = x.raced
  BY SoloParts DEF Runs
<1>3. /\ Recorded' = Recorded \cup {x.id}
      /\ \A id \in Recorded' : manifest'[id] = IF id = x.id THEN Record("pending", x.entries)
                                                            ELSE manifest[id]
  BY DEF WriteManifest, With, Recorded
<1>4. FromPlan(x.id, x.entries) /\ x.op = "apply" /\ x.state = "pending"
  BY <1>1, SoloParts DEF Holds
<1>5. manifest'[x.id].state = "pending" /\ manifest'[x.id].entries = x.entries
  BY <1>3 DEF Record
<1>6. run'[p] = new
  BY <1>1, SoloParts
<1> HIDE DEF new
<1>7. (\A id \in Recorded : FromPlan(id, manifest[id].entries))'
  BY <1>3, <1>4, <1>5, SoloParts
<1>8. Holds(manifest', new)
  BY <1>2, <1>3, <1>4, <1>5 DEF Holds, Recorded
<1>9. Tracks(tree', edited', new) /\ new.raced \subseteq edited'
  BY <1>1, <1>2, SoloParts DEF Tracks
<1>10. QED
  BY <1>6, <1>7, <1>8, <1>9, OnlyOne

LEMMA BeginRecoverySolo ==
  ASSUME OneProcess, SoloInv, NEW p \in Processes, NEW id \in Recorded,
         NEW op \in {"apply", "rollback"}, BeginRecovery(p, id, op)
  PROVE  Solo'
<1> DEFINE new == [Idle EXCEPT !.op = op, !.id = id, !.phase = "check",
                               !.state = manifest[id].state,
                               !.entries = manifest[id].entries]
<1>1. /\ run' = [run EXCEPT ![p] = new] /\ UNCHANGED <<tree, manifest, edited>>
      /\ manifest[id].state # "rolled_back"
  BY DEF BeginRecovery
<1>2. /\ new.phase = "check" /\ new.op = op /\ new.state = manifest[id].state
      /\ new.id = id /\ new.entries = manifest[id].entries /\ new.raced = {}
  BY DEF Idle
<1>3. FromPlan(new.id, new.entries)
  BY <1>2, SoloParts
<1>4. run'[p] = new
  BY <1>1, SoloParts
<1> HIDE DEF new
<1>5. Holds(manifest', new) /\ new.raced \subseteq edited' /\ Tracks(tree', edited', new)
  BY <1>1, <1>2, <1>3 DEF Holds, Tracks, Recorded
<1>6. (\A k \in Recorded : FromPlan(k, manifest[k].entries))'
  BY <1>1, SoloParts DEF Recorded
<1>7. QED
  BY <1>4, <1>5, <1>6, OnlyOne

LEMMA CheckSolo ==
  ASSUME OneProcess, SoloInv, NEW p \in Processes, Check(p) PROVE Solo'
<1> DEFINE x == run[p]
           new == [run[p] EXCEPT !.phase = "write", !.cur = Current(x.entries), !.raced = {},
                                 !.next = IF x.op = "apply" THEN 1 ELSE Len(x.entries)]
<1>1. /\ x.phase = "check" /\ UNCHANGED <<tree, manifest, edited>>
      /\ run' = [run EXCEPT ![p] = IF TargetsMatch(x.entries) THEN new ELSE Idle]
  BY DEF Check
<1>2. CASE ~ TargetsMatch(x.entries)
  BY <1>1, <1>2, SoloToIdle DEF Recorded
<1>3. CASE TargetsMatch(x.entries)
  <2>1. /\ new.phase = "write" /\ new.op = x.op /\ new.state = x.state
        /\ new.id = x.id /\ new.entries = x.entries /\ new.raced = {}
        /\ new.cur = Current(x.entries)
        /\ new.next = IF x.op = "apply" THEN 1 ELSE Len(x.entries)
    BY SoloParts DEF Runs
  <2>2. run'[p] = new
    BY <1>1, <1>3, SoloParts
  <2> HIDE DEF new
  <2>3. Holds(manifest', new)
    BY <1>1, <2>1, SoloParts DEF Holds
  <2>4. DOMAIN x.entries = 1 .. Len(x.entries) /\ Len(x.entries) \in Nat
    BY SoloParts
  <2>5. \A j \in DOMAIN x.entries : ~ Passed(new, j)
    BY <1>1, <2>1, <2>4, SoloParts DEF Passed, Holds
  <2>6. \A i \in DOMAIN x.entries : new.cur[i] = tree[x.entries[i].path]
    BY <2>1 DEF Current
  <2>7. Tracks(tree', edited', new)
    BY <1>1, <1>3, <2>1, <2>5, <2>6 DEF Tracks, Tracked, TargetsMatch
  <2>8. (\A k \in Recorded : FromPlan(k, manifest[k].entries))'
    BY <1>1, SoloParts DEF Recorded
  <2>9. QED
    BY <2>1, <2>2, <2>3, <2>7, <2>8, OnlyOne
<1>4. QED
  BY <1>2, <1>3

(* A write or a restore, and passing over an entry that needs neither.     *)
LEMMA StoreSolo ==
  ASSUME OneProcess, SoloInv, NEW p \in Processes, run[p].phase = "write",
         run[p].next \in DOMAIN run[p].entries,
         NEW content, content = Aim(run[p], run[p].next), NEW next \in Nat,
         next = IF run[p].op = "apply" THEN run[p].next + 1 ELSE run[p].next - 1,
         Store(p, run[p].entries[run[p].next], content, next),
         UNCHANGED <<manifest, edited>>
  PROVE  Solo'
<1> DEFINE x == run[p]
           k == run[p].next
           path == run[p].entries[run[p].next].path
           new == run'[p]
<1>1. /\ x \in Runs /\ x.entries \in Seq(Changes) /\ x.op \in {"apply", "rollback"}
      /\ k \in Nat /\ DOMAIN x.entries \subseteq Nat
  BY SoloParts DEF Holds
<1>2. \A i \in DOMAIN x.entries : x.entries[i].path \in Paths
  BY <1>1, EntryFields
<1>3. /\ new.phase = x.phase /\ new.op = x.op /\ new.entries = x.entries /\ new.id = x.id
      /\ new.cur = x.cur /\ new.next = next /\ new.state = x.state
      /\ new.raced \subseteq x.raced
  <2>1. \/ new = [x EXCEPT !.next = next]
        \/ new = [x EXCEPT !.next = next, !.raced = @ \ {path}]
    BY SoloParts DEF Store
  <2> HIDE DEF new
  <2>2. QED
    BY <1>1, <2>1 DEF Runs
<1>4. \A f \in Paths : tree'[f] = IF f = path /\ x.cur[k] # content THEN content ELSE tree[f]
  BY <1>2, SoloParts DEF Store, Trees
<1> HIDE DEF new
<1>5. \A i \in DOMAIN x.entries : Passed(new, i) <=> Passed(x, i) \/ i = k
  BY <1>1, <1>3 DEF Passed
<1>6. \A i \in DOMAIN x.entries : Aim(new, i) = Aim(x, i)
  BY <1>3 DEF Aim
<1>7. ~ Passed(x, k)
  BY <1>1 DEF Passed
<1>8. ASSUME NEW i \in DOMAIN x.entries PROVE Tracked(tree', edited', new, i)
  <2>1. Tracked(tree, edited, x, i) /\ Tracked(tree, edited, x, k)
    BY SoloParts DEF Tracks
  <2>2. CASE x.entries[i].path # path
    BY <1>2, <1>3, <1>4, <1>5, <1>6, <2>1, <2>2 DEF Tracked
  <2>3. CASE x.entries[i].path = path /\ x.cur[k] # content
    <3>1. tree'[path] = Aim(new, k) /\ Passed(new, k)
      BY <1>2, <1>4, <1>5, <1>6, <2>3
    <3>2. QED
      BY <1>3, <2>3, <3>1 DEF Tracked
  <2>4. CASE x.entries[i].path = path /\ x.cur[k] = content
    <3>1. tree'[path] = tree[path]
      BY <1>2, <1>4, <2>4
    <3>2. CASE path \in edited
      BY <1>3, <2>4, <3>2 DEF Tracked
    <3>3. ASSUME NEW j \in DOMAIN x.entries, x.entries[j].path = path,
                 Passed(x, j), tree[path] = Aim(x, j)
          PROVE  Tracked(tree', edited', new, i)
      BY <1>3, <1>5, <1>6, <2>4, <3>1, <3>3 DEF Tracked
    <3>4. CASE tree[path] = x.cur[k]
      <4>1. tree'[path] = Aim(new, k) /\ Passed(new, k)
        BY <1>5, <1>6, <2>4, <3>1, <3>4
      <4>2. QED
        BY <1>3, <2>4, <4>1 DEF Tracked
    <3>5. QED
      BY <2>1, <3>2, <3>3, <3>4 DEF Tracked
  <2>5. QED
    BY <2>2, <2>3, <2>4
<1>9. Tracks(tree', edited', new)
  BY <1>3, <1>8, SoloParts DEF Tracks
<1>10. Holds(manifest', new)
  BY <1>3, SoloParts DEF Holds
<1>11. (\A id \in Recorded : FromPlan(id, manifest[id].entries))'
  BY SoloParts DEF Recorded
<1>12. new.raced \subseteq edited'
  BY <1>3, SoloParts
<1>13. QED
  BY <1>9, <1>10, <1>11, <1>12, OnlyOne DEF new

LEMMA EndWritesSolo ==
  ASSUME OneProcess, SoloInv, NEW p \in Processes, EndWrites(p) PROVE Solo'
<1> DEFINE x == run[p]
           new == [run[p] EXCEPT !.phase = "audit", !.next = 1]
<1>1. /\ x.phase = "write" /\ x.op = "apply" /\ x.next > Len(x.entries)
      /\ UNCHANGED <<tree, manifest, edited>>
      /\ run' = [run EXCEPT ![p] = IF x.state = "applied" THEN Idle ELSE new]
  BY SoloParts DEF EndWrites
<1>2. CASE x.state = "applied"
  BY <1>1, <1>2, SoloToIdle DEF Recorded
<1>3. CASE x.state # "applied"
  <2>1. /\ new.phase = "audit" /\ new.op = x.op /\ new.state = x.state
        /\ new.id = x.id /\ new.entries = x.entries /\ new.raced = x.raced
        /\ new.cur = x.cur
    BY SoloParts DEF Runs
  <2>2. run'[p] = new
    BY <1>1, <1>3, SoloParts
  <2>3. x.state = "pending"
    BY <1>1, <1>3, SoloParts DEF Holds, Runs, States
  <2> HIDE DEF new
  <2>4. Holds(manifest', new)
    BY <1>1, <2>1, <2>3, SoloParts DEF Holds
  <2>5. DOMAIN x.entries = 1 .. Len(x.entries) /\ Len(x.entries) \in Nat /\ x.next \in Nat
    BY SoloParts
  <2>6. \A i \in DOMAIN x.entries : Passed(x, i) /\ Passed(new, i)
    BY <1>1, <2>1, <2>5 DEF Passed
  <2>7. \A i \in DOMAIN x.entries : Aim(new, i) = Aim(x, i)
    BY <2>1 DEF Aim
  <2>8. Tracks(tree', edited', new)
    BY <1>1, <2>1, <2>6, <2>7, SoloParts DEF Tracks, Tracked
  <2>9. (\A id \in Recorded : FromPlan(id, manifest[id].entries))'
    BY <1>1, SoloParts DEF Recorded
  <2>10. new.raced \subseteq edited'
    BY <1>1, <2>1, SoloParts
  <2>11. QED
    BY <2>2, <2>4, <2>8, <2>9, <2>10, OnlyOne
<1>4. QED
  BY <1>2, <1>3

LEMMA AuditApplySolo ==
  ASSUME OneProcess, SoloInv, NEW p \in Processes, AuditApply(p) PROVE Solo'
<1> DEFINE x == run[p]
           new == [run[p] EXCEPT !.next = @ + 1]
<1>1. /\ x.phase = "audit" /\ UNCHANGED <<tree, manifest, edited>>
      /\ run' = [run EXCEPT ![p] = new]
  BY SoloParts DEF AuditApply
<1>2. /\ new.phase = "audit" /\ new.op = x.op /\ new.state = x.state
      /\ new.id = x.id /\ new.entries = x.entries /\ new.raced = x.raced
      /\ new.cur = x.cur
  BY <1>1, SoloParts DEF Runs
<1>3. run'[p] = new
  BY <1>1, SoloParts
<1> HIDE DEF new
<1>4. Holds(manifest', new) /\ new.raced \subseteq edited'
  BY <1>1, <1>2, SoloParts DEF Holds
<1>5. Tracks(tree', edited', new)
  BY <1>1, <1>2, SoloParts DEF Tracks, Tracked, Passed, Aim
<1>6. (\A id \in Recorded : FromPlan(id, manifest[id].entries))'
  BY <1>1, SoloParts DEF Recorded
<1>7. QED
  BY <1>3, <1>4, <1>5, <1>6, OnlyOne

(* A recorded outcome keeps the entries.                                   *)
LEMMA MarkSolo ==
  ASSUME SoloInv, NEW p \in Processes, NEW state, Mark(p, state),
         run[p].phase \in {"write", "audit"}
  PROVE  /\ Recorded' = Recorded /\ run[p].id \in Recorded
         /\ \A id \in Recorded : manifest'[id].entries = manifest[id].entries
         /\ \A id \in Recorded : manifest'[id].state = IF id = run[p].id THEN state
                                                      ELSE manifest[id].state
<1>1. run[p].id \in Recorded /\ manifest[run[p].id].entries = run[p].entries
  BY SoloParts DEF Holds, Recorded
<1>2. \A id \in Recorded : manifest'[id] = IF id = run[p].id THEN Record(state, run[p].entries)
                                                             ELSE manifest[id]
  BY DEF Mark, Recorded
<1>3. Recorded' = Recorded
  BY DEF Mark, Recorded
<1>4. QED
  BY <1>1, <1>2, <1>3 DEF Record

LEMMA MarkAppliedSolo ==
  ASSUME OneProcess, SoloInv, NEW p \in Processes, MarkApplied(p) PROVE Solo'
<1>1. Mark(p, "applied") /\ run[p].phase = "audit" /\ run' = [run EXCEPT ![p] = Idle]
  BY DEF MarkApplied
<1>2. Recorded' = Recorded /\ \A id \in Recorded : manifest'[id].entries = manifest[id].entries
  BY <1>1, MarkSolo
<1>3. QED
  BY <1>1, <1>2, SoloToIdle

LEMMA MarkRolledBackSolo ==
  ASSUME OneProcess, SoloInv, NEW p \in Processes, MarkRolledBack(p) PROVE Solo'
<1> DEFINE x == run[p]
           new == [run[p] EXCEPT !.phase = "audit"]
<1>1. /\ Mark(p, "rolled_back") /\ x.phase = "write" /\ x.op = "rollback" /\ x.next = 0
      /\ run' = [run EXCEPT ![p] = new] /\ UNCHANGED <<tree, edited>>
  BY SoloParts DEF MarkRolledBack
<1>2. /\ new.phase = "audit" /\ new.op = x.op /\ new.state = x.state
      /\ new.id = x.id /\ new.entries = x.entries /\ new.raced = x.raced
      /\ new.cur = x.cur
  BY <1>1, SoloParts DEF Runs
<1>3. run'[p] = new
  BY <1>1, SoloParts
<1>4. /\ Recorded' = Recorded /\ x.id \in Recorded
      /\ \A id \in Recorded : manifest'[id].entries = manifest[id].entries
      /\ manifest'[x.id].state = "rolled_back"
  BY <1>1, MarkSolo
<1> HIDE DEF new
<1>5. Holds(manifest', new) /\ new.raced \subseteq edited'
  BY <1>1, <1>2, <1>4, SoloParts DEF Holds, Recorded
<1>6. DOMAIN x.entries = 1 .. Len(x.entries) /\ Len(x.entries) \in Nat
  BY SoloParts
<1>7. \A i \in DOMAIN x.entries : Passed(x, i) /\ Passed(new, i)
  BY <1>1, <1>2, <1>6 DEF Passed
<1>8. \A i \in DOMAIN x.entries : Aim(new, i) = Aim(x, i)
  BY <1>2 DEF Aim
<1>9. Tracks(tree', edited', new)
  BY <1>1, <1>2, <1>7, <1>8, SoloParts DEF Tracks, Tracked
<1>10. (\A id \in Recorded : FromPlan(id, manifest[id].entries))'
  BY <1>4, SoloParts
<1>11. QED
  BY <1>3, <1>5, <1>9, <1>10, OnlyOne

LEMMA EndSolo ==
  ASSUME OneProcess, SoloInv, NEW p \in Processes, AuditRollback(p) \/ Crash(p) PROVE Solo'
<1>1. run' = [run EXCEPT ![p] = Idle] /\ UNCHANGED manifest
  BY DEF AuditRollback, Crash
<1>2. QED
  BY <1>1, SoloToIdle DEF Recorded

LEMMA EditSolo ==
  ASSUME SoloInv, NEW f \in Editable, Edit(f) PROVE Solo'
<1>1. /\ run' = [q \in Processes |-> Overtaken(q, f)] /\ edited' = edited \cup {f}
      /\ UNCHANGED manifest /\ \E content : tree' = [tree EXCEPT ![f] = content]
  BY DEF Edit
<1>2. \A g \in Paths : g # f => tree'[g] = tree[g]
  BY <1>1 DEF SoloInv, IInv, TypeOK
<1>3. ASSUME NEW q \in Processes
      PROVE  /\ Holds(manifest', run'[q]) /\ run'[q].raced \subseteq edited'
             /\ Tracks(tree', edited', run'[q])
  <2> DEFINE x == run[q]
             new == run'[q]
  <2>1. x \in Runs /\ new = Overtaken(q, f) /\ x.entries \in Seq(Changes)
    BY <1>1, SoloParts
  <2>2. /\ new.phase = x.phase /\ new.op = x.op /\ new.entries = x.entries /\ new.id = x.id
        /\ new.cur = x.cur /\ new.next = x.next /\ new.state = x.state
        /\ new.raced \subseteq x.raced \cup {f}
    BY <2>1 DEF Overtaken, Runs
  <2>3. \A i \in DOMAIN x.entries : x.entries[i].path \in Paths
    BY <2>1, EntryFields
  <2> HIDE DEF new
  <2>4. Holds(manifest', new)
    BY <1>1, <2>2, SoloParts DEF Holds
  <2>5. new.raced \subseteq edited'
    BY <1>1, <2>2, SoloParts
  <2>6. \A i, j \in DOMAIN x.entries : (Passed(new, j) <=> Passed(x, j)) /\ Aim(new, j) = Aim(x, j)
    BY <2>2 DEF Passed, Aim
  <2>7. ASSUME NEW i \in DOMAIN x.entries, Tracked(tree, edited, x, i)
        PROVE  Tracked(tree', edited', new, i)
    <3>1. CASE x.entries[i].path = f
      BY <1>1, <2>2, <3>1 DEF Tracked
    <3>2. CASE x.entries[i].path # f
      BY <1>1, <1>2, <2>2, <2>3, <2>6, <2>7, <3>2 DEF Tracked
    <3>3. QED
      BY <3>1, <3>2
  <2>8. Tracks(tree', edited', new)
    BY <2>2, <2>7, SoloParts DEF Tracks
  <2>9. QED
    BY <2>4, <2>5, <2>8 DEF new
<1>4. QED
  BY <1>1, <1>3 DEF SoloInv, Solo, Recorded

LEMMA InitSolo == Init => SoloInv
<1> SUFFICES ASSUME Init PROVE SoloInv
  OBVIOUS
<1>1. \A p \in Processes : run[p] = Idle
  BY DEF Init
<1>2. \A p \in Processes : /\ Holds(manifest, run[p]) /\ run[p].raced \subseteq edited
                           /\ Tracks(tree, edited, run[p])
  BY <1>1, IdleSolo
<1>3. Recorded = {}
  BY DEF Init, Recorded
<1>4. QED
  BY <1>2, <1>3, InitIInv DEF SoloInv, Solo

LEMMA StepSolo ==
  ASSUME OneProcess, SoloInv, NEW p \in Processes, Step(p) PROVE Solo'
<1>1. CASE WriteEntry(p)
  <2>1. run[p].next + 1 \in Nat
    BY SoloParts
  <2>2. run[p].op = "apply" /\ run[p].entries[run[p].next].new = Aim(run[p], run[p].next)
    BY <1>1 DEF WriteEntry, Aim
  <2>3. QED
    BY <1>1, <2>1, <2>2, StoreSolo DEF WriteEntry
<1>2. CASE RestoreEntry(p)
  <2>1. run[p].next - 1 \in Nat
    BY <1>2, SoloParts DEF RestoreEntry
  <2>2. run[p].op = "rollback" /\ run[p].entries[run[p].next].old = Aim(run[p], run[p].next)
    BY <1>2 DEF RestoreEntry, Aim
  <2>3. QED
    BY <1>2, <2>1, <2>2, StoreSolo DEF RestoreEntry
<1>3. QED
  BY <1>1, <1>2, BeginApplySolo, WriteManifestSolo, BeginRecoverySolo, CheckSolo, EndWritesSolo,
     AuditApplySolo, MarkAppliedSolo, MarkRolledBackSolo, EndSolo DEF Step

LEMMA NextSolo == ASSUME OneProcess, SoloInv, [Next]_vars PROVE SoloInv'
<1>1. IInv'
  BY NextIInv DEF SoloInv
<1>2. CASE UNCHANGED vars
  BY <1>1, <1>2 DEF vars, SoloInv, Solo, Recorded
<1>3. CASE Next
  <2>1. ASSUME NEW r \in Requests, DryRun(r) PROVE Solo'
    BY <2>1, DryRunSolo
  <2>2. ASSUME NEW p \in Processes, Step(p) PROVE Solo'
    BY <2>2, StepSolo
  <2>3. ASSUME NEW f \in Editable, Edit(f) PROVE Solo'
    BY <2>3, EditSolo
  <2>4. QED
    BY <1>1, <1>3, <2>1, <2>2, <2>3 DEF Next, SoloInv
<1>4. QED
  BY <1>2, <1>3

-----------------------------------------------------------------------------
(* What plans do to the marks that say where a proposal went               *)

(* A missing file is told from every file.                                 *)
AbsentIsNoText == Absent \notin SUBSET Marks

LEMMA TextOfMarks ==
  ASSUME AbsentIsNoText, NEW c \in SUBSET Marks PROVE Text(c) = c
  BY DEF AbsentIsNoText, Text

LEMMA SectionApart ==
  ASSUME NEW p, NEW q, NEW g, NEW x
  PROVE  /\ Section(p) = Section(q) => p = q
         /\ Section(p) # Titled(q) /\ Section(p) # Link(g, x) /\ Section(p) # SupersededBy(g)
         /\ Section(p) # Wiki(x) /\ Section(p) # Header /\ Section(p) # Skeleton(x)
         /\ Section(p) # Applied(q, g)
  BY DEF Section, Titled, Link, SupersededBy, Wiki, Header, Skeleton, Applied

LEMMA AppliedApart ==
  ASSUME NEW p, NEW q, NEW g, NEW h, NEW x
  PROVE  /\ Applied(p, g) = Applied(q, h) => p = q /\ g = h
         /\ Applied(p, g) # Titled(q) /\ Applied(p, g) # Link(h, x)
         /\ Applied(p, g) # SupersededBy(h) /\ Applied(p, g) # Wiki(x)
         /\ Applied(p, g) # Header /\ Applied(p, g) # Skeleton(x)
  BY DEF Section, Titled, Link, SupersededBy, Wiki, Header, Skeleton, Applied

(* A plan of request r and vault t, and its id.                            *)
LEMMA PlanParts ==
  ASSUME NEW id, NEW entries, NEW r \in Requests, NEW t \in Trees,
         Plannable(t, r), id = PlanId(t, r), entries = Entries(t, r)
  PROVE  /\ entries \in Seq(Changes) /\ Len(entries) \in Nat /\ Len(entries) >= 2
         /\ DOMAIN entries = 1 .. Len(entries)
         /\ \A i \in DOMAIN entries : entries[i] \in Kinds(t, r)
         /\ 1 \in DOMAIN entries /\ IsPage(entries[1], r)
         /\ \E i \in DOMAIN entries : entries[i] = StatusChange(t, r)
         /\ CreatesNewWiki(t, r) =>
              \E i \in DOMAIN entries : entries[i] = RegistryChange(t, r)
         /\ id.proposal = r.proposal /\ Destination(id) = r.dest
<1>1. /\ entries \in Seq(Kinds(t, r)) /\ Len(entries) >= 2 /\ IsPage(entries[1], r)
      /\ Has(entries, StatusChange(t, r))
      /\ CreatesNewWiki(t, r) => Has(entries, RegistryChange(t, r))
  BY EntriesKinds
<1>2. entries \in Seq(Changes)
  BY EntriesAreChanges
<1>3. DOMAIN entries = 1 .. Len(entries) /\ Len(entries) \in Nat
  BY <1>2
<1>4. \A i \in DOMAIN entries : entries[i] \in Kinds(t, r)
  BY <1>1, <1>3
<1>5. Destination(id) = r.dest
  <2> DEFINE changes == PlanChanges(t, r)
  <2>1. changes \in Seq(Kinds(t, r)) /\ Len(changes) >= 1 /\ IsPage(changes[1], r)
    BY ChangesKinds
  <2> HIDE DEF changes
  <2>2. 1 \in DOMAIN changes
    BY <2>1
  <2>3. id.news = [i \in DOMAIN changes |-> <<changes[i].path, changes[i].new>>]
    BY DEF PlanId, changes
  <2>4. id.news[1] = <<changes[1].path, changes[1].new>>
    BY <2>2, <2>3
  <2>5. QED
    BY <2>1, <2>4 DEF Destination, IsPage
<1>6. id.proposal = r.proposal
  BY DEF PlanId
<1>7. QED
  BY <1>1, <1>2, <1>3, <1>4, <1>5, <1>6 DEF Has

(* A section enters a page by the plan whose destination the page is, and  *)
(* no plan takes one out.                                                  *)
LEMMA SectionsOfChange ==
  ASSUME AbsentIsNoText, NEW t \in Trees, NEW r \in Requests, NEW c \in Kinds(t, r),
         c.path \in Pages, NEW p \in Proposals
  PROVE  /\ Section(p) \in Text(c.new) =>
              Section(p) \in Text(c.old) \/ (p = r.proposal /\ c.path = r.dest)
         /\ Section(p) \in Text(c.old) => Section(p) \in Text(c.new)
<1>1. c \in Changes /\ c.new \in SUBSET Marks /\ Text(c.new) = c.new
  BY TextOfMarks DEF Kinds, Changes
<1>2. c.path # Registry /\ c.path # Router /\ c.path \notin Proposals /\ r.proposal \in Proposals
  BY PathKinds, RequestParts
<1>3. \/ IsPage(c, r) \/ IsSuperseded(c, r) \/ IsLink(c, r) \/ IsCard(c, r) \/ IsNewIndex(c, r)
  BY <1>2 DEF Kinds, IsRegistry, IsRouter, IsStatus
<1>4. CASE IsPage(c, r)
  BY <1>1, <1>4, SectionApart DEF IsPage, Text
<1>5. CASE IsSuperseded(c, r)
  BY <1>1, <1>5, SectionApart DEF IsSuperseded, Supersessions
<1>6. CASE IsLink(c, r)
  BY <1>1, <1>6, SectionApart DEF IsLink, Text
<1>7. CASE IsCard(c, r) \/ IsNewIndex(c, r)
  BY <1>1, <1>7, SectionApart DEF IsCard, IsNewIndex, Text
<1>8. QED
  BY <1>3, <1>4, <1>5, <1>6, <1>7

(* The status is the only change to a proposal file.                       *)
LEMMA ChangeOfProposal ==
  ASSUME NEW t \in Trees, NEW r \in Requests, NEW c \in Kinds(t, r), c.path \in Proposals
  PROVE  IsStatus(c, r)
<1>1. /\ c.path \notin Pages /\ c.path # Registry /\ c.path # Router
  BY PathKinds
<1>2. /\ r.dest \in Pages /\ (r.supersedes # NoPage => r.supersedes \in Pages)
      /\ Home[r.dest] \in Wikis /\ Card[Home[r.dest]] \in Pages
      /\ Index[Home[r.dest]] \in Pages \cup {NoPage}
  BY RequestParts, PlanConstants
<1>3. QED
  BY <1>1, <1>2 DEF Kinds, IsPage, IsSuperseded, IsLink, IsCard, IsNewIndex, IsRegistry, IsRouter

-----------------------------------------------------------------------------
(* Nothing in the vault is an orphan                                       *)

(* No trace of an earlier `evolve` whose records are gone.                 *)
FreshVault ==
  /\ \A g \in Pages, p \in Proposals : Section(p) \notin Text(InitialTree[g])
  /\ \A p \in Proposals, g \in Pages : Applied(p, g) \notin Text(InitialTree[p])

(* The records m and the transactions u that are under way account for id. *)
Accounted(m, u, id) == id \in DOMAIN m /\ (m[id].state # "rolled_back" \/ id \in u)

(* In the vault t, but for what others edited, a section is in a page      *)
(* because of a plan for that very page, and a status because of a plan of *)
(* that proposal.                                                          *)
Owned(t, ed, m, u) ==
  /\ \A g \in Pages \ ed, p \in Proposals :
       Section(p) \in Text(t[g]) =>
         \E id : Accounted(m, u, id) /\ id.proposal = p /\ Destination(id) = g
  /\ \A p \in Proposals \ ed, g \in Pages :
       Applied(p, g) \in Text(t[p]) => \E id : Accounted(m, u, id) /\ id.proposal = p

OrphanInv == SoloInv /\ Owned(tree, edited, manifest, unsettled)

LEMMA OwnedFrame ==
  ASSUME NEW t, NEW ed, NEW m, NEW u, NEW t2, NEW ed2, NEW m2, NEW u2,
         Owned(t, ed, m, u), ed \subseteq ed2, \A f \in Paths \ ed2 : t2[f] = t[f],
         \A id : Accounted(m, u, id) => Accounted(m2, u2, id)
  PROVE  Owned(t2, ed2, m2, u2)
  BY DEF Owned, Paths

(* While a process writes, a target nobody else edited holds what one of   *)
(* the entries for it has replaced or leaves.                              *)
LEMMA TargetHolds ==
  ASSUME SoloInv, NEW p \in Processes, run[p].phase \in {"write", "audit"},
         NEW i \in DOMAIN run[p].entries, run[p].entries[i].path \notin edited
  PROVE  \E j \in DOMAIN run[p].entries :
           /\ run[p].entries[j].path = run[p].entries[i].path
           /\ tree[run[p].entries[i].path] \in {run[p].entries[j].old, run[p].entries[j].new}
<1>1. Tracked(tree, edited, run[p], i)
      /\ run[p].cur[i] \in {run[p].entries[i].old, run[p].entries[i].new}
  BY SoloParts DEF Tracks
<1>2. QED
  BY <1>1 DEF Tracked, Aim

(* The plan a process works on.                                            *)
LEMMA RunPlan ==
  ASSUME SoloInv, NEW p \in Processes, run[p].phase # "idle"
  PROVE  \E r \in Requests, t \in Trees :
           Plannable(t, r) /\ run[p].id = PlanId(t, r) /\ run[p].entries = Entries(t, r)
  BY SoloParts DEF Holds, FromPlan

(* A planned page does not hold the section yet, nor the proposal a status.*)
LEMMA PlannedAfresh ==
  ASSUME NEW t, NEW r \in Requests, Plannable(t, r)
  PROVE  /\ Section(r.proposal) \notin Text(t[r.dest])
         /\ \A g \in Pages : Applied(r.proposal, g) \notin Text(t[r.proposal])
  BY DEF Plannable, IsNoop

LEMMA StoreOwned ==
  ASSUME OneProcess, AbsentIsNoText, OrphanInv, NEW p \in Processes, run[p].phase = "write",
         run[p].next \in DOMAIN run[p].entries,
         NEW content, content = Aim(run[p], run[p].next), NEW next,
         Store(p, run[p].entries[run[p].next], content, next),
         UNCHANGED <<manifest, edited>>
  PROVE  Owned(tree', edited', manifest', unsettled')
<1> DEFINE x == run[p]
           k == run[p].next
           path == run[p].entries[run[p].next].path
<1>1. PICK r \in Requests, t \in Trees :
        Plannable(t, r) /\ x.id = PlanId(t, r) /\ x.entries = Entries(t, r)
  BY RunPlan DEF OrphanInv
<1>2. /\ \A i \in DOMAIN x.entries : x.entries[i] \in Kinds(t, r)
      /\ x.id.proposal = r.proposal /\ Destination(x.id) = r.dest
  BY <1>1, PlanParts
<1>3. \A i \in DOMAIN x.entries : x.entries[i].path \in Paths /\ x.entries[i].old = t[x.entries[i].path]
  BY <1>2 DEF Kinds, Changes
<1>4. /\ unsettled \subseteq unsettled'
      /\ \A f \in Paths : tree'[f] = tree[f] \/ (f = path /\ tree'[f] = content)
  BY <1>3, SoloParts DEF OrphanInv, Store, Trees
<1>5. \A id : Accounted(manifest, unsettled, id) => Accounted(manifest', unsettled', id)
  BY <1>4 DEF Accounted
<1>6. Accounted(manifest, unsettled, x.id)
  BY SoloParts DEF OrphanInv, Holds, Accounted
<1>7. Owned(tree, edited, manifest, unsettled)
  BY DEF OrphanInv
<1>8. content \in {x.entries[k].old, x.entries[k].new}
  BY DEF Aim
<1>9. ASSUME NEW g \in Pages \ edited, NEW q \in Proposals, Section(q) \in Text(tree'[g])
      PROVE  \E id : Accounted(manifest, unsettled, id) /\ id.proposal = q /\ Destination(id) = g
  <2>1. CASE tree'[g] = tree[g]
    BY <1>7, <1>9, <2>1 DEF Owned
  <2>2. CASE tree'[g] # tree[g]
    <3>1. g = path /\ tree'[g] = content
      BY <1>4, <2>2 DEF Paths
    <3>2. CASE Section(q) \in Text(x.entries[k].old)
      <4>1. PICK j \in DOMAIN x.entries : /\ x.entries[j].path = path
                                          /\ tree[path] \in {x.entries[j].old, x.entries[j].new}
        BY <3>1, TargetHolds DEF OrphanInv
      <4>2. x.entries[j].old = x.entries[k].old
        BY <1>3, <4>1
      <4>3. x.entries[j] \in Kinds(t, r) /\ x.entries[j].path \in Pages
        BY <1>2, <3>1, <4>1
      <4>4. Section(q) \in Text(x.entries[j].new)
        BY <3>2, <4>2, <4>3, SectionsOfChange
      <4>5. Section(q) \in Text(tree[g])
        BY <3>1, <3>2, <4>1, <4>2, <4>4
      <4>6. QED
        BY <1>7, <4>5 DEF Owned
    <3>3. CASE Section(q) \notin Text(x.entries[k].old)
      <4>1. Section(q) \in Text(x.entries[k].new)
        BY <1>8, <1>9, <3>1, <3>3
      <4>2. x.entries[k] \in Kinds(t, r) /\ x.entries[k].path \in Pages
        BY <1>2, <3>1
      <4>3. q = r.proposal /\ path = r.dest
        BY <3>3, <4>1, <4>2, SectionsOfChange
      <4>4. QED
        BY <1>2, <1>6, <3>1, <4>3
    <3>4. QED
      BY <3>2, <3>3
  <2>3. QED
    BY <2>1, <2>2
<1>10. ASSUME NEW q \in Proposals \ edited, NEW g \in Pages, Applied(q, g) \in Text(tree'[q])
       PROVE  \E id : Accounted(manifest, unsettled, id) /\ id.proposal = q
  <2>1. CASE tree'[q] = tree[q]
    BY <1>7, <1>10, <2>1 DEF Owned
  <2>2. CASE tree'[q] # tree[q]
    <3>1. q = path
      BY <1>4, <2>2 DEF Paths
    <3>2. x.entries[k] \in Kinds(t, r) /\ x.entries[k].path \in Proposals
      BY <1>2, <3>1
    <3>3. q = r.proposal
      BY <3>1, <3>2, ChangeOfProposal DEF IsStatus
    <3>4. QED
      BY <1>2, <1>6, <3>3
  <2>3. QED
    BY <2>1, <2>2
<1>11. QED
  BY <1>5, <1>9, <1>10 DEF Owned

(* After a rollback nothing that the plan had added is left.               *)
LEMMA MarkRolledBackOwned ==
  ASSUME OneProcess, AbsentIsNoText, OrphanInv, NEW p \in Processes, MarkRolledBack(p)
  PROVE  Owned(tree', edited', manifest', unsettled')
<1> DEFINE x == run[p]
<1>1. /\ Mark(p, "rolled_back") /\ x.phase = "write" /\ x.op = "rollback" /\ x.next = 0
      /\ UNCHANGED <<tree, edited>>
  BY DEF MarkRolledBack
<1>2. PICK r \in Requests, t \in Trees :
        Plannable(t, r) /\ x.id = PlanId(t, r) /\ x.entries = Entries(t, r)
  BY <1>1, RunPlan DEF OrphanInv
<1>3. /\ \A i \in DOMAIN x.entries : x.entries[i] \in Kinds(t, r)
      /\ DOMAIN x.entries = 1 .. Len(x.entries) /\ Len(x.entries) \in Nat
      /\ 1 \in DOMAIN x.entries /\ IsPage(x.entries[1], r)
      /\ \E i \in DOMAIN x.entries : x.entries[i] = StatusChange(t, r)
      /\ x.id.proposal = r.proposal /\ Destination(x.id) = r.dest
  BY <1>2, PlanParts
<1>4. \A i \in DOMAIN x.entries : x.entries[i].old = t[x.entries[i].path]
  BY <1>3 DEF Kinds
<1>5. \A i \in DOMAIN x.entries : Passed(x, i)
  BY <1>1, <1>3 DEF Passed
<1>6. ASSUME NEW i \in DOMAIN x.entries, x.entries[i].path \notin edited
      PROVE  tree[x.entries[i].path] = t[x.entries[i].path]
  <2>1. Tracked(tree, edited, x, i)
    BY <1>1, SoloParts DEF OrphanInv, Tracks
  <2>2. QED
    BY <1>1, <1>4, <1>5, <1>6, <2>1 DEF Tracked, Aim
<1>7. r.dest \notin edited => tree[r.dest] = t[r.dest]
  BY <1>3, <1>6 DEF IsPage
<1>8. r.proposal \notin edited => tree[r.proposal] = t[r.proposal]
  BY <1>3, <1>6 DEF StatusChange, Change
<1>9. /\ Recorded' = Recorded
      /\ \A id \in Recorded : manifest'[id].state = IF id = x.id THEN "rolled_back"
                                                   ELSE manifest[id].state
      /\ unsettled' = unsettled \ {x.id}
  BY <1>1, MarkSolo DEF OrphanInv, Mark
<1>10. \A id : Accounted(manifest, unsettled, id) /\ id # x.id
                 => Accounted(manifest', unsettled', id)
  BY <1>9 DEF Accounted, Recorded
<1>11. Owned(tree, edited, manifest, unsettled)
  BY DEF OrphanInv
<1>12. ASSUME NEW g \in Pages \ edited, NEW q \in Proposals, Section(q) \in Text(tree[g])
       PROVE  \E id : Accounted(manifest', unsettled', id) /\ id.proposal = q /\ Destination(id) = g
  <2>1. PICK id : Accounted(manifest, unsettled, id) /\ id.proposal = q /\ Destination(id) = g
    BY <1>11, <1>12 DEF Owned
  <2>2. id # x.id
    <3>1. SUFFICES ASSUME id = x.id PROVE FALSE
      OBVIOUS
    <3>2. q = r.proposal /\ g = r.dest
      BY <1>3, <2>1, <3>1
    <3>3. QED
      BY <1>2, <1>7, <1>12, <3>2, PlannedAfresh
  <2>3. QED
    BY <1>10, <2>1, <2>2
<1>13. ASSUME NEW q \in Proposals \ edited, NEW g \in Pages, Applied(q, g) \in Text(tree[q])
       PROVE  \E id : Accounted(manifest', unsettled', id) /\ id.proposal = q
  <2>1. PICK id : Accounted(manifest, unsettled, id) /\ id.proposal = q
    BY <1>11, <1>13 DEF Owned
  <2>2. id # x.id
    <3>1. SUFFICES ASSUME id = x.id PROVE FALSE
      OBVIOUS
    <3>2. q = r.proposal
      BY <1>3, <2>1, <3>1
    <3>3. QED
      BY <1>2, <1>8, <1>13, <3>2, PlannedAfresh
  <2>3. QED
    BY <1>10, <2>1, <2>2
<1>14. QED
  BY <1>1, <1>12, <1>13 DEF Owned

(* Every other step of a process leaves the files and what accounts for    *)
(* them.                                                                   *)
LEMMA StepOwned ==
  ASSUME OneProcess, AbsentIsNoText, OrphanInv, NEW p \in Processes, Step(p)
  PROVE  Owned(tree', edited', manifest', unsettled')
<1>1. SoloInv /\ Owned(tree, edited, manifest, unsettled)
  BY DEF OrphanInv
<1>2. CASE WriteEntry(p)
  <2>1. run[p].op = "apply" /\ run[p].entries[run[p].next].new = Aim(run[p], run[p].next)
    BY <1>2 DEF WriteEntry, Aim
  <2>2. QED
    BY <1>2, <2>1, StoreOwned DEF WriteEntry
<1>3. CASE RestoreEntry(p)
  <2>1. run[p].op = "rollback" /\ run[p].entries[run[p].next].old = Aim(run[p], run[p].next)
    BY <1>3 DEF RestoreEntry, Aim
  <2>2. QED
    BY <1>3, <2>1, StoreOwned DEF RestoreEntry
<1>4. CASE MarkRolledBack(p)
  BY <1>4, MarkRolledBackOwned
<1>5. CASE MarkApplied(p)
  <2>1. Mark(p, "applied") /\ run[p].phase = "audit" /\ UNCHANGED <<tree, edited>>
    BY <1>5 DEF MarkApplied
  <2>2. /\ Recorded' = Recorded
        /\ \A id \in Recorded : manifest'[id].state = IF id = run[p].id THEN "applied"
                                                     ELSE manifest[id].state
        /\ unsettled' = unsettled \ {run[p].id}
    BY <1>1, <2>1, MarkSolo DEF Mark
  <2>3. \A id : Accounted(manifest, unsettled, id) => Accounted(manifest', unsettled', id)
    BY <2>2 DEF Accounted, Recorded
  <2>4. QED
    BY <1>1, <2>1, <2>3, OwnedFrame
<1>6. CASE EndWrites(p)
  <2>1. UNCHANGED <<tree, manifest, edited>> /\ unsettled' \in {unsettled, unsettled \ {run[p].id}}
        /\ run[p].phase = "write"
    BY <1>6 DEF EndWrites
  <2>2. manifest[run[p].id].state # "rolled_back"
    BY <1>1, <2>1, SoloParts DEF Holds
  <2>3. \A id : Accounted(manifest, unsettled, id) => Accounted(manifest', unsettled', id)
    BY <2>1, <2>2 DEF Accounted
  <2>4. QED
    BY <1>1, <2>1, <2>3, OwnedFrame
<1>7. CASE WriteManifest(p)
  <2>1. /\ UNCHANGED <<tree, edited, unsettled>> /\ run[p].phase = "record"
        /\ DOMAIN manifest' = DOMAIN manifest \cup {run[p].id}
        /\ \A id \in DOMAIN manifest' :
             manifest'[id] = IF id = run[p].id THEN Record("pending", run[p].entries)
                                               ELSE manifest[id]
    BY <1>7 DEF WriteManifest, With
  <2>2. run[p].id \notin DOMAIN manifest
    BY <1>1, <2>1, SoloParts DEF Holds
  <2>3. \A id : Accounted(manifest, unsettled, id) => Accounted(manifest', unsettled', id)
    BY <2>1, <2>2 DEF Accounted
  <2>4. QED
    BY <1>1, <2>1, <2>3, OwnedFrame
<1>8. ASSUME UNCHANGED <<tree, manifest, unsettled, edited>>
      PROVE  Owned(tree', edited', manifest', unsettled')
  BY <1>1, <1>8
<1>9. QED
  BY <1>2, <1>3, <1>4, <1>5, <1>6, <1>7, <1>8
     DEF Step, BeginApply, BeginRecovery, Check, AuditApply, AuditRollback, Crash

LEMMA NextOrphan ==
  ASSUME OneProcess, AbsentIsNoText, OrphanInv, [Next]_vars PROVE OrphanInv'
<1>1. SoloInv' /\ SoloInv /\ Owned(tree, edited, manifest, unsettled)
  BY NextSolo DEF OrphanInv
<1>2. ASSUME UNCHANGED <<tree, manifest, unsettled, edited>>
      PROVE  Owned(tree', edited', manifest', unsettled')
  BY <1>1, <1>2
<1>3. ASSUME NEW f \in Editable, Edit(f) PROVE Owned(tree', edited', manifest', unsettled')
  <2>1. /\ edited' = edited \cup {f} /\ UNCHANGED <<manifest, unsettled>>
        /\ \E content : tree' = [tree EXCEPT ![f] = content]
    BY <1>3 DEF Edit
  <2>2. \A g \in Paths \ edited' : tree'[g] = tree[g]
    BY <2>1 DEF OrphanInv, SoloInv, IInv, TypeOK
  <2>3. QED
    BY <1>1, <2>1, <2>2, OwnedFrame
<1>4. ASSUME NEW p \in Processes, Step(p) PROVE Owned(tree', edited', manifest', unsettled')
  BY <1>4, StepOwned
<1>5. Owned(tree', edited', manifest', unsettled')
  BY <1>2, <1>3, <1>4 DEF Next, DryRun, vars
<1>6. QED
  BY <1>1, <1>5 DEF OrphanInv

LEMMA InitOrphan == FreshVault /\ Init => OrphanInv
  BY InitSolo DEF Init, OrphanInv, Owned, FreshVault

(* When processes run one at a time on a vault that `evolve` has not       *)
(* touched before, every section it merged and every status it set has a   *)
(* transaction on record that is not rolled back, wherever processes died  *)
(* and whatever others edited: one can find it and undo it.                *)
THEOREM NothingIsOrphaned ==
  ASSUME OneProcess, AbsentIsNoText, FreshVault PROVE Spec => []NoOrphan
<1>1. OrphanInv => NoOrphan
  <2> SUFFICES ASSUME OrphanInv, NEW p \in Proposals,
                      \/ \E g \in Pages \ edited : Section(p) \in Text(tree[g])
                      \/ p \notin edited /\ \E g \in Pages : Applied(p, g) \in Text(tree[p])
               PROVE  \E id \in Recorded : id.proposal = p /\ Live(id)
    BY DEF NoOrphan
  <2>1. \E id : Accounted(manifest, unsettled, id) /\ id.proposal = p
    BY DEF OrphanInv, Owned
  <2>2. QED
    BY <2>1 DEF Accounted, Live, Recorded
<1>2. Init => OrphanInv
  BY InitOrphan
<1>3. OrphanInv /\ [Next]_vars => OrphanInv'
  BY NextOrphan
<1>4. QED
  BY <1>1, <1>2, <1>3, PTL DEF Spec

-----------------------------------------------------------------------------
(* One transaction at a time                                               *)

(* In the records m with the transactions u under way, id is done with.    *)
Done(m, u, id) == m[id].state # "pending" /\ id \notin u

(* What is unfinished is one transaction, that of the process if there is  *)
(* a process.                                                              *)
Alone ==
  /\ \A i, k \in Recorded : ~ Done(manifest, unsettled, i) /\ ~ Done(manifest, unsettled, k) => i = k
  /\ \A p \in Processes : run[p].phase # "idle" =>
       \A id \in Recorded \ {run[p].id} : Done(manifest, unsettled, id)

(* Nobody but the people who edit files has changed a target of a pending  *)
(* transaction.                                                            *)
Clean == \A id \in Recorded : manifest[id].state = "pending" => foreign[id] \subseteq edited

OneInv == SoloInv /\ Alone /\ Clean

(* A step of a process at work leaves the other transactions as they are.  *)
LEMMA WorkSolo ==
  ASSUME OneProcess, SoloInv, NEW p \in Processes, Step(p), run[p].phase # "idle"
  PROVE  /\ edited' = edited
         /\ run'[p].phase # "record"
         /\ \/ run'[p].phase = "idle"
            \/ run'[p].id = run[p].id /\ run'[p].entries = run[p].entries
         /\ Recorded \subseteq Recorded' /\ Recorded' \subseteq Recorded \cup {run[p].id}
         /\ \A o \in Recorded' \ {run[p].id} : manifest'[o] = manifest[o]
         /\ unsettled \ {run[p].id} = unsettled' \ {run[p].id}
<1> DEFINE x == run[p]
<1>1. run[p] # Idle /\ Idle.phase = "idle" /\ x \in Runs /\ run \in [Processes -> Runs]
  BY SoloParts DEF Idle
<1>2. CASE WriteManifest(p)
  <2>1. /\ run' = [run EXCEPT ![p] = [x EXCEPT !.phase = "check"]]
        /\ UNCHANGED <<edited, unsettled>>
    BY <1>2 DEF WriteManifest
  <2>2. run'[p].id = x.id /\ run'[p].entries = x.entries /\ run'[p].phase = "check"
    BY <1>1, <2>1 DEF Runs
  <2>3. /\ Recorded' = Recorded \cup {x.id}
        /\ \A o \in Recorded' \ {x.id} : manifest'[o] = manifest[o]
    BY <1>2 DEF WriteManifest, With, Recorded
  <2>4. QED
    BY <2>1, <2>2, <2>3
<1>3. ASSUME NEW content, NEW next, x.phase = "write",
             Store(p, x.entries[x.next], content, next), UNCHANGED <<manifest, edited>>
      PROVE  /\ edited' = edited /\ run'[p].id = x.id /\ run'[p].entries = x.entries
             /\ run'[p].phase = "write"
             /\ UNCHANGED manifest /\ unsettled \ {x.id} = unsettled' \ {x.id}
  <2>1. \/ run'[p] = [x EXCEPT !.next = next]
        \/ run'[p] = [x EXCEPT !.next = next, !.raced = @ \ {x.entries[x.next].path}]
    BY <1>1, <1>3 DEF Store
  <2>2. run'[p].id = x.id /\ run'[p].entries = x.entries /\ run'[p].phase = "write"
    BY <1>1, <1>3, <2>1 DEF Runs
  <2>3. unsettled' = unsettled \/ unsettled' = unsettled \cup {x.id}
    BY <1>3 DEF Store
  <2>4. QED
    BY <1>3, <2>2, <2>3
<1>4. CASE WriteEntry(p)
  BY <1>3, <1>4 DEF WriteEntry, Recorded
<1>5. CASE RestoreEntry(p)
  BY <1>3, <1>5 DEF RestoreEntry, Recorded
<1>6. CASE Check(p)
  <2>1. /\ \/ run' = [run EXCEPT ![p] = Idle]
           \/ run' = [run EXCEPT ![p] = [x EXCEPT !.phase = "write", !.cur = Current(x.entries),
                                         !.raced = {},
                                         !.next = IF x.op = "apply" THEN 1 ELSE Len(x.entries)]]
        /\ UNCHANGED <<manifest, unsettled, edited>>
    BY <1>6 DEF Check
  <2>2. \/ run'[p].phase = "idle"
        \/ run'[p].id = x.id /\ run'[p].entries = x.entries /\ run'[p].phase \in {"write", "audit"}
    BY <1>1, <2>1 DEF Runs
  <2>3. QED
    BY <2>1, <2>2 DEF Recorded
<1>7. CASE EndWrites(p)
  <2>1. /\ \/ run' = [run EXCEPT ![p] = Idle]
           \/ run' = [run EXCEPT ![p] = [x EXCEPT !.phase = "audit", !.next = 1]]
        /\ UNCHANGED <<manifest, edited>>
        /\ unsettled' \in {unsettled, unsettled \ {x.id}}
    BY <1>7, <1>1 DEF EndWrites
  <2>2. \/ run'[p].phase = "idle"
        \/ run'[p].id = x.id /\ run'[p].entries = x.entries /\ run'[p].phase \in {"write", "audit"}
    BY <1>1, <2>1 DEF Runs
  <2>3. QED
    BY <2>1, <2>2 DEF Recorded
<1>8. CASE AuditApply(p)
  <2>1. /\ run' = [run EXCEPT ![p] = [x EXCEPT !.next = @ + 1]] /\ x.phase = "audit"
        /\ UNCHANGED <<manifest, unsettled, edited>>
    BY <1>8, <1>1 DEF AuditApply
  <2>2. run'[p].id = x.id /\ run'[p].entries = x.entries /\ run'[p].phase = "audit"
    BY <1>1, <2>1 DEF Runs
  <2>3. QED
    BY <2>1, <2>2 DEF Recorded
<1>9. ASSUME NEW state, Mark(p, state), x.phase \in {"write", "audit"}
      PROVE  /\ Recorded' = Recorded
             /\ \A o \in Recorded' \ {x.id} : manifest'[o] = manifest[o]
             /\ unsettled \ {x.id} = unsettled' \ {x.id}
  BY <1>9 DEF Mark, Recorded
<1>10. CASE MarkApplied(p)
  <2>1. Mark(p, "applied") /\ x.phase = "audit" /\ run'[p] = Idle /\ UNCHANGED edited
    BY <1>10, <1>1 DEF MarkApplied
  <2>2. QED
    BY <1>1, <1>9, <2>1
<1>11. CASE MarkRolledBack(p)
  <2>1. /\ Mark(p, "rolled_back") /\ x.phase = "write" /\ UNCHANGED edited
        /\ run'[p] = [x EXCEPT !.phase = "audit"]
    BY <1>11, <1>1 DEF MarkRolledBack
  <2>2. run'[p].id = x.id /\ run'[p].entries = x.entries /\ run'[p].phase = "audit"
    BY <1>1, <2>1 DEF Runs
  <2>3. QED
    BY <1>9, <2>1, <2>2
<1>12. CASE AuditRollback(p) \/ Crash(p)
  <2>1. run'[p] = Idle /\ UNCHANGED <<manifest, unsettled, edited>>
    BY <1>12, <1>1 DEF AuditRollback, Crash
  <2>2. QED
    BY <1>1, <2>1 DEF Recorded
<1>13. ~ (\E r \in Requests : BeginApply(p, r))
       /\ ~ (\E id \in Recorded, op \in {"apply", "rollback"} : BeginRecovery(p, id, op))
  BY <1>1 DEF BeginApply, BeginRecovery
<1>14. QED
  BY <1>2, <1>4, <1>5, <1>6, <1>7, <1>8, <1>10, <1>11, <1>12, <1>13 DEF Step

(* What a process that begins takes up.                                    *)
LEMMA BeginSolo ==
  ASSUME OneProcess, SoloInv, NEW p \in Processes, Step(p), run[p].phase = "idle"
  PROVE  /\ UNCHANGED <<tree, manifest, foreign, unsettled, edited>>
         /\ \/ run'[p].phase = "idle"
            \/ run'[p].phase = "check" /\ MayStart(run'[p].id)
            \/ /\ run'[p].phase = "record" /\ MayStart(run'[p].id)
               /\ \E r \in Requests : /\ Plannable(tree, r) /\ run'[p].id = PlanId(tree, r)
                                      /\ run'[p].entries = Entries(tree, r)
<1>1. run[p].phase \notin {"record", "check", "write", "audit"}
  OBVIOUS
<1>2. run \in [Processes -> Runs]
  BY SoloParts
<1>3. ASSUME NEW r \in Requests, BeginApply(p, r)
      PROVE  /\ UNCHANGED <<tree, manifest, foreign, unsettled, edited>>
             /\ run'[p].phase = "record" /\ MayStart(run'[p].id)
             /\ Plannable(tree, r) /\ run'[p].id = PlanId(tree, r)
             /\ run'[p].entries = Entries(tree, r)
  <2> DEFINE new == [Idle EXCEPT !.op = "apply", !.id = reviewed[r],
                                 !.entries = Entries(tree, r), !.phase = "record"]
  <2>1. /\ run'[p] = new /\ MayStart(reviewed[r])
        /\ Plannable(tree, r) /\ PlanId(tree, r) = reviewed[r]
        /\ UNCHANGED <<tree, manifest, foreign, unsettled, edited>>
    BY <1>2, <1>3 DEF BeginApply
  <2>2. new.phase = "record" /\ new.id = reviewed[r] /\ new.entries = Entries(tree, r)
    BY DEF Idle
  <2>3. QED
    BY <2>1, <2>2
<1>4. ASSUME NEW id \in Recorded, NEW op \in {"apply", "rollback"}, BeginRecovery(p, id, op)
      PROVE  /\ UNCHANGED <<tree, manifest, foreign, unsettled, edited>>
             /\ run'[p].phase = "check" /\ MayStart(run'[p].id)
  <2> DEFINE new == [Idle EXCEPT !.op = op, !.id = id, !.phase = "check",
                                 !.state = manifest[id].state,
                                 !.entries = manifest[id].entries]
  <2>1. /\ run'[p] = new /\ MayStart(id)
        /\ UNCHANGED <<tree, manifest, foreign, unsettled, edited>>
    BY <1>2, <1>4 DEF BeginRecovery
  <2>2. new.phase = "check" /\ new.id = id
    BY DEF Idle
  <2>3. QED
    BY <2>1, <2>2
<1>5. ASSUME Crash(p)
      PROVE  UNCHANGED <<tree, manifest, foreign, unsettled, edited>> /\ run'[p].phase = "idle"
  <2>1. run'[p] = Idle /\ UNCHANGED <<tree, manifest, foreign, unsettled, edited>>
    BY <1>2, <1>5 DEF Crash
  <2>2. QED
    BY <2>1 DEF Idle
<1>6. QED
  BY <1>1, <1>3, <1>4, <1>5 DEF Step, WriteManifest, Check, WriteEntry, RestoreEntry, EndWrites,
     AuditApply, MarkApplied, MarkRolledBack, AuditRollback

LEMMA StepAlone ==
  ASSUME OneProcess, FinishFirst, OneInv, NEW p \in Processes, Step(p)
  PROVE  Alone'
<1>1. SoloInv /\ Alone
  BY DEF OneInv
<1>2. ASSUME NEW id, \A o \in Recorded' \ {id} : Done(manifest', unsettled', o),
             run'[p].phase = "idle" \/ run'[p].id = id
      PROVE  Alone'
  <2>1. \A q \in Processes : q = p
    BY DEF OneProcess
  <2>2. \A i, k \in Recorded' :
          ~ Done(manifest', unsettled', i) /\ ~ Done(manifest', unsettled', k) => i = k
    BY <1>2
  <2>3. \A q \in Processes : run'[q].phase # "idle" =>
          \A o \in Recorded' \ {run'[q].id} : Done(manifest', unsettled', o)
    BY <1>2, <2>1
  <2>4. QED
    BY <2>2, <2>3 DEF Alone
<1>3. CASE run[p].phase # "idle"
  <2> DEFINE id == run[p].id
  <2>1. /\ run'[p].phase = "idle" \/ run'[p].id = id
        /\ Recorded' \subseteq Recorded \cup {id}
        /\ \A o \in Recorded' \ {id} : manifest'[o] = manifest[o]
        /\ unsettled \ {id} = unsettled' \ {id}
    BY <1>1, <1>3, WorkSolo
  <2>2. \A o \in Recorded \ {id} : Done(manifest, unsettled, o)
    BY <1>1, <1>3 DEF Alone
  <2>3. \A o \in Recorded' \ {id} : Done(manifest', unsettled', o)
    BY <2>1, <2>2 DEF Done
  <2>4. QED
    BY <1>2, <2>1, <2>3
<1>4. CASE run[p].phase = "idle"
  <2>1. /\ UNCHANGED <<manifest, unsettled>>
        /\ run'[p].phase = "idle" \/ MayStart(run'[p].id)
    BY <1>1, <1>4, BeginSolo
  <2>2. CASE MayStart(run'[p].id)
    <3>1. \A o \in Recorded \ {run'[p].id} : Done(manifest, unsettled, o)
      BY <2>2 DEF MayStart, Done
    <3>2. \A o \in Recorded' \ {run'[p].id} : Done(manifest', unsettled', o)
      BY <2>1, <3>1 DEF Recorded
    <3>3. QED
      BY <1>2, <3>2
  <2>3. CASE run'[p].phase = "idle"
    <3>1. \A i, k \in Recorded' :
            ~ Done(manifest', unsettled', i) /\ ~ Done(manifest', unsettled', k) => i = k
      BY <1>1, <2>1 DEF Alone, Recorded
    <3>2. \A q \in Processes : run'[q].phase = "idle"
      BY <2>3 DEF OneProcess
    <3>3. QED
      BY <3>1, <3>2 DEF Alone
  <2>4. QED
    BY <2>1, <2>2, <2>3
<1>5. QED
  BY <1>3, <1>4

LEMMA NextAlone == ASSUME OneProcess, FinishFirst, OneInv, [Next]_vars PROVE Alone'
<1>1. Alone
  BY DEF OneInv
<1>2. CASE UNCHANGED vars
  BY <1>1, <1>2 DEF vars, Alone, Recorded
<1>3. ASSUME NEW r \in Requests, DryRun(r) PROVE Alone'
  BY <1>1, <1>3 DEF DryRun, Alone, Recorded
<1>4. ASSUME NEW f \in Editable, Edit(f) PROVE Alone'
  <2>1. UNCHANGED <<manifest, unsettled>> /\ run' = [q \in Processes |-> Overtaken(q, f)]
    BY <1>4 DEF Edit
  <2>2. \A q \in Processes : run'[q].phase = run[q].phase /\ run'[q].id = run[q].id
    <3>1. \A q \in Processes : run[q] \in Runs
      BY SoloParts DEF OneInv
    <3>2. QED
      BY <2>1, <3>1 DEF Overtaken, Runs
  <2>3. QED
    BY <1>1, <2>1, <2>2 DEF Alone, Recorded
<1>5. QED
  BY <1>2, <1>3, <1>4, StepAlone DEF Next

LEMMA StepClean ==
  ASSUME OneProcess, FinishFirst, OneInv, NEW p \in Processes, Step(p)
  PROVE  Clean'
<1>1. SoloInv /\ Alone /\ Clean
  BY DEF OneInv
<1>2. DOMAIN foreign = Recorded
  BY <1>1 DEF SoloInv, IInv, TypeOK
<1>3. ASSUME UNCHANGED <<manifest, foreign, edited>> PROVE Clean'
  BY <1>1, <1>3 DEF Clean, Recorded
<1>4. CASE run[p].phase = "idle"
  BY <1>1, <1>3, <1>4, BeginSolo
<1>5. CASE run[p].phase # "idle"
  <2> DEFINE x == run[p]
  <2>1. /\ edited' = edited /\ Recorded' \subseteq Recorded \cup {x.id}
        /\ \A o \in Recorded' \ {x.id} : manifest'[o] = manifest[o]
    BY <1>1, <1>5, WorkSolo
  <2>2. \A o \in Recorded' \ {x.id} : manifest'[o].state # "pending"
    BY <1>1, <1>5, <2>1 DEF Alone, Done
  <2>3. ASSUME manifest'[x.id].state = "pending" => foreign'[x.id] \subseteq edited
        PROVE  Clean'
    BY <2>1, <2>2, <2>3 DEF Clean
  <2>4. CASE WriteManifest(p)
    <3>1. foreign'[x.id] = x.raced
      BY <2>4 DEF WriteManifest, With
    <3>2. QED
      BY <1>1, <2>3, <3>1, SoloParts
  <2>5. ASSUME NEW content, NEW next, x.phase = "write",
               Store(p, x.entries[x.next], content, next), UNCHANGED manifest
        PROVE  Clean'
    <3>1. x.id \in Recorded /\ manifest[x.id].entries = x.entries
      BY <1>1, <2>5, SoloParts DEF Holds, Recorded
    <3>2. foreign'[x.id] \subseteq foreign[x.id]
      BY <1>2, <2>5, <3>1 DEF Store
    <3>3. QED
      BY <1>1, <2>3, <2>5, <3>1, <3>2 DEF Clean
  <2>6. CASE WriteEntry(p)
    BY <2>5, <2>6 DEF WriteEntry
  <2>7. CASE RestoreEntry(p)
    BY <2>5, <2>7 DEF RestoreEntry
  <2>8. CASE EndWrites(p)
    <3>1. CASE x.state = "applied"
      <4>1. manifest'[x.id].state = "applied"
        BY <1>1, <2>8, <3>1, SoloParts DEF EndWrites, Holds
      <4>2. QED
        BY <2>3, <4>1
    <3>2. CASE x.state # "applied"
      BY <1>3, <2>8, <3>2 DEF EndWrites
    <3>3. QED
      BY <3>1, <3>2
  <2>9. ASSUME NEW state, Mark(p, state), x.phase \in {"write", "audit"}, state # "pending"
        PROVE  Clean'
    <3>1. manifest'[x.id].state = state
      BY <1>1, <2>9, MarkSolo
    <3>2. QED
      BY <2>3, <2>9, <3>1
  <2>10. CASE MarkApplied(p)
    BY <2>9, <2>10 DEF MarkApplied
  <2>11. CASE MarkRolledBack(p)
    BY <2>9, <2>11 DEF MarkRolledBack
  <2>12. ~ (\E r \in Requests : BeginApply(p, r))
         /\ ~ (\E id \in Recorded, op \in {"apply", "rollback"} : BeginRecovery(p, id, op))
    <3>1. run[p] # Idle
      BY <1>5 DEF Idle
    <3>2. QED
      BY <3>1 DEF BeginApply, BeginRecovery
  <2>13. QED
    BY <1>3, <2>4, <2>6, <2>7, <2>8, <2>10, <2>11, <2>12
       DEF Step, Check, AuditApply, AuditRollback, Crash
<1>6. QED
  BY <1>4, <1>5

LEMMA NextOne == ASSUME OneProcess, FinishFirst, OneInv, [Next]_vars PROVE OneInv'
<1>1. SoloInv' /\ Alone' /\ Clean
  BY NextSolo, NextAlone DEF OneInv
<1>2. ASSUME UNCHANGED <<manifest, foreign, edited>> PROVE Clean'
  BY <1>1, <1>2 DEF Clean, Recorded
<1>3. ASSUME NEW f \in Editable, Edit(f) PROVE Clean'
  <2>1. DOMAIN foreign = Recorded
    BY DEF OneInv, SoloInv, IInv, TypeOK
  <2>2. QED
    BY <1>1, <1>3, <2>1 DEF Edit, Clean, Recorded
<1>4. Clean'
  BY <1>2, <1>3, StepClean DEF Next, DryRun, vars
<1>5. QED
  BY <1>1, <1>4 DEF OneInv

LEMMA InitOne == Init => OneInv
<1> SUFFICES ASSUME Init PROVE OneInv
  OBVIOUS
<1>1. Recorded = {} /\ \A p \in Processes : run[p].phase = "idle"
  BY DEF Init, Recorded, Idle
<1>2. QED
  BY <1>1, InitSolo DEF OneInv, Alone, Clean

(* When every interrupted transaction is settled before another starts, one*)
(* whose files nobody outside `evolve` edited always passes the check that *)
(* guards resuming and undoing it: no crash and no earlier transaction     *)
(* makes the recovery refuse.                                              *)
THEOREM NeverIsWedged ==
  ASSUME OneProcess, FinishFirst PROVE Spec => []NeverWedged
<1>1. OneInv => NeverWedged
  <2> SUFFICES ASSUME OneInv, NEW id \in Recorded, manifest[id].state = "pending",
                      Distinct(manifest[id].entries),
                      \A i \in DOMAIN manifest[id].entries : manifest[id].entries[i].path \notin edited
               PROVE  TargetsMatch(manifest[id].entries)
    BY DEF NeverWedged
  <2>1. Explained(tree, manifest[id].entries, foreign[id])
    BY DEF OneInv, SoloInv, IInv, Recoverable
  <2>2. foreign[id] \subseteq edited
    BY DEF OneInv, Clean
  <2>3. QED
    BY <2>1, <2>2 DEF Explained, TargetsMatch
<1>2. Init => OneInv
  BY InitOne
<1>3. OneInv /\ [Next]_vars => OneInv'
  BY NextOne
<1>4. QED
  BY <1>1, <1>2, <1>3, PTL DEF Spec

-----------------------------------------------------------------------------
(* What a plan adds to a file stays there                                  *)

(* What the change e adds, and what has to stay of it: of the registry all *)
(* it lists, since the routers of later plans are made from it.            *)
Kept(e)  == (e.new \ Text(e.old)) \ Replaceable(e.path)
Claim(e) == IF e.path = Registry THEN e.new ELSE Kept(e)

(* The transaction id is recorded as applied and nothing is under way.     *)
Standing(m, u, id) == id \in DOMAIN m /\ m[id].state = "applied" /\ id \notin u

(* The vault t has what the entries es claim, but for files others edited. *)
Stands(t, ed, es) ==
  \A e : Has(es, e) => e.path \in ed \/ Claim(e) \subseteq Text(t[e.path])

(* Where es and ds change one file, ds started from what es claims ...     *)
Under(ed, es, ds) ==
  \A e, d : Has(es, e) /\ Has(ds, d) /\ e.path = d.path =>
    e.path \in ed \/ Claim(e) \subseteq Text(d.old)

(* ... or one of the two did from what the other one claims.               *)
Ordered(ed, es, ds) ==
  \A e, d : Has(es, e) /\ Has(ds, d) /\ e.path = d.path =>
    e.path \in ed \/ Claim(e) \subseteq Text(d.old) \/ Claim(d) \subseteq Text(e.old)

(* No write of the process x takes away what es claims.                    *)
Spared(ed, es, x) ==
  \A e, d : Has(es, e) /\ Has(x.entries, d) /\ e.path = d.path =>
    \/ e.path \in ed
    \/ Claim(e) \subseteq (IF x.op = "apply" THEN d.new ELSE Text(d.old))

AllStand(t, ed, m, u) == \A id : Standing(m, u, id) => Stands(t, ed, m[id].entries)

AllOrdered(ed, m) ==
  \A i, k \in DOMAIN m :
    (i # k /\ m[i].state # "rolled_back" /\ m[k].state # "rolled_back")
      => Ordered(ed, m[i].entries, m[k].entries)

AllUnder(ed, m, u, x) ==
  x.phase = "record" => \A id : Standing(m, u, id) => Under(ed, m[id].entries, x.entries)

AllSpared(ed, m, u, x) ==
  x.phase = "write" =>
    \A id : Standing(m, u, id) /\ id # x.id => Spared(ed, m[id].entries, x)

Keeping ==
  /\ Registry \notin edited
  /\ AllStand(tree, edited, manifest, unsettled)
  /\ AllOrdered(edited, manifest)
  /\ \A p \in Processes : /\ AllUnder(edited, manifest, unsettled, run[p])
                          /\ AllSpared(edited, manifest, unsettled, run[p])

KeepInv == OneInv /\ Keeping

(* The entries of a plan: each has a file of its own; only the router can  *)
(* lose marks other than replaceable pointers, and lists the wikis of the  *)
(* registry that the same plan writes, to which it adds one.               *)
LEMMA EntryOfPlan ==
  ASSUME SeparatePages, AbsentIsNoText, NEW id, NEW entries, FromPlan(id, entries)
  PROVE  /\ entries \in Seq(Changes) /\ Distinct(entries)
         /\ \A e : Has(entries, e) =>
              /\ e.path \in Paths /\ Text(e.new) = e.new
              /\ e.path # Router => Text(e.old) \ Replaceable(e.path) \subseteq e.new
              /\ e.path = Registry => /\ Text(e.old) \subseteq e.new
                                      /\ \E mark \in e.new : mark \notin Text(e.old)
              /\ e.path = Router =>
                   \E g : Has(entries, g) /\ g.path = Registry
                          /\ e.new = {Header} \cup (g.new \cap WikiMarks)
<1>1. PICK r \in Requests, t \in Trees :
        Plannable(t, r) /\ id = PlanId(t, r) /\ entries = Entries(t, r)
  BY DEF FromPlan
<1>2. /\ entries \in Seq(Changes) /\ DOMAIN entries = 1 .. Len(entries)
      /\ \A i \in DOMAIN entries : entries[i] \in Kinds(t, r)
      /\ CreatesNewWiki(t, r) => \E i \in DOMAIN entries : entries[i] = RegistryChange(t, r)
  BY <1>1, PlanParts
<1>3. Distinct(entries)
  BY <1>1, EntriesDistinct
<1>4. ASSUME NEW e, Has(entries, e)
      PROVE  /\ e.path \in Paths /\ Text(e.new) = e.new
             /\ e.path # Router => Text(e.old) \ Replaceable(e.path) \subseteq e.new
             /\ e.path = Registry => /\ Text(e.old) \subseteq e.new
                                     /\ \E mark \in e.new : mark \notin Text(e.old)
             /\ e.path = Router =>
                  \E g : Has(entries, g) /\ g.path = Registry
                         /\ e.new = {Header} \cup (g.new \cap WikiMarks)
  <2>1. e \in Kinds(t, r)
    BY <1>2, <1>4 DEF Has
  <2>2. e \in Changes /\ e.path \in Paths /\ e.new \in SUBSET Marks
    BY <2>1 DEF Kinds, Changes
  <2>3. Text(e.new) = e.new
    BY <2>2, TextOfMarks
  <2>4. /\ r.dest \in Pages /\ (r.supersedes # NoPage => r.supersedes \in Pages)
        /\ Home[r.dest] \in Wikis /\ Card[Home[r.dest]] \in Pages
        /\ Index[Home[r.dest]] \in Pages \cup {NoPage} /\ r.proposal \in Proposals
    BY RequestParts, PlanConstants
  <2>5. CASE e.path = Router
    <3>1. IsRouter(t, e, r)
      BY <2>1, <2>4, <2>5, PathKinds
         DEF Kinds, IsPage, IsSuperseded, IsLink, IsCard, IsNewIndex, IsRegistry, IsStatus
    <3>2. PICK i \in DOMAIN entries : entries[i] = RegistryChange(t, r)
      BY <1>2, <3>1 DEF IsRouter
    <3>3. /\ Has(entries, entries[i]) /\ entries[i].path = Registry
          /\ entries[i].new = Text(t[Registry]) \cup {Wiki(Home[r.dest])}
      <4>1. Has(entries, entries[i])
        BY <1>2 DEF Has
      <4>2. /\ RegistryChange(t, r).path = Registry
            /\ RegistryChange(t, r).new = Text(t[Registry]) \cup {Wiki(Home[r.dest])}
        BY DEF RegistryChange, Change
      <4>3. QED
        BY <3>2, <4>1, <4>2
    <3>4. e.path # Registry
      BY <2>5, PathKinds
    <3>5. e.new = {Header} \cup (entries[i].new \cap WikiMarks)
      BY <3>1, <3>3 DEF IsRouter
    <3>6. QED
      BY <2>2, <2>3, <2>5, <3>3, <3>4, <3>5
  <2>6. CASE e.path = Registry
    <3>1. IsRegistry(e, r)
      BY <2>1, <2>4, <2>6, PathKinds
         DEF Kinds, IsPage, IsSuperseded, IsLink, IsCard, IsNewIndex, IsRouter, IsStatus
    <3>2. e.path # Router
      BY <2>6, PathKinds
    <3>3. QED
      BY <2>2, <2>3, <3>1, <3>2 DEF IsRegistry
  <2>7. CASE e.path # Router /\ e.path # Registry
    <3>1. \/ IsPage(e, r) \/ IsSuperseded(e, r) \/ IsLink(e, r) \/ IsCard(e, r)
          \/ IsNewIndex(e, r) \/ IsStatus(e, r)
      BY <2>1, <2>7 DEF Kinds, IsRegistry, IsRouter
    <3>2. Text(e.old) \ Replaceable(e.path) \subseteq e.new
      BY <3>1 DEF IsPage, IsSuperseded, IsLink, IsCard, IsNewIndex, IsStatus, Text, Replaceable
    <3>3. QED
      BY <2>2, <2>3, <2>7, <3>2
  <2>8. QED
    BY <2>5, <2>6, <2>7
<1>5. QED
  BY <1>2, <1>3, <1>4

(* A transaction whose targets pass the check takes nothing from another   *)
(* one that stands, whichever way it goes.                                 *)
LEMMA CheckSpares ==
  ASSUME SeparatePages, AbsentIsNoText, NEW i, NEW es, FromPlan(i, es),
         NEW k, NEW x, FromPlan(k, x.entries), NEW t, NEW ed, Registry \notin ed,
         Stands(t, ed, es), Ordered(ed, es, x.entries),
         \A j \in DOMAIN x.entries : t[x.entries[j].path] \in {x.entries[j].old, x.entries[j].new}
  PROVE  Spared(ed, es, x)
<1> DEFINE ds == x.entries
<1>1. ds \in Seq(Changes) /\ DOMAIN ds = 1 .. Len(ds)
  BY EntryOfPlan
<1>2. \A d : Has(ds, d) => t[d.path] \in {d.old, d.new}
  BY <1>1 DEF Has
<1> SUFFICES ASSUME NEW e, NEW d, Has(es, e), Has(ds, d), e.path = d.path, e.path \notin ed
             PROVE  Claim(e) \subseteq (IF x.op = "apply" THEN d.new ELSE Text(d.old))
  BY DEF Spared
<1>3. Claim(e) \subseteq Text(t[d.path]) /\ t[d.path] \in {d.old, d.new}
  BY <1>2 DEF Stands
<1>4. Claim(e) \subseteq Text(d.old) \/ Claim(d) \subseteq Text(e.old)
  BY DEF Ordered
<1>5. /\ Text(d.new) = d.new /\ (d.path # Router => Text(d.old) \ Replaceable(d.path) \subseteq d.new)
      /\ d.path = Registry => Text(d.old) \subseteq d.new
  BY EntryOfPlan
<1>6. e.path = Registry => Text(e.old) \subseteq e.new /\ \E mark \in e.new : mark \notin Text(e.old)
  BY EntryOfPlan
<1>7. CASE e.path = Registry
  <2>1. Claim(e) = e.new /\ Claim(d) = d.new
    BY <1>7 DEF Claim
  <2>2. Claim(e) \subseteq d.new
    BY <1>3, <1>5, <1>7
  <2>3. Claim(e) \subseteq Text(d.old)
    BY <1>4, <1>6, <1>7, <2>1, <2>2
  <2>4. QED
    BY <2>2, <2>3
<1>8. CASE e.path # Registry
  <2>1. Claim(e) = Kept(e) /\ Claim(d) = Kept(d)
    BY <1>8 DEF Claim
  <2>2. Claim(e) \subseteq d.new
    <3>1. CASE e.path = Router
      <4>1. PICK g : Has(es, g) /\ g.path = Registry
                     /\ e.new = {Header} \cup (g.new \cap WikiMarks)
        BY <3>1, EntryOfPlan
      <4>2. PICK h : Has(ds, h) /\ h.path = Registry
                     /\ d.new = {Header} \cup (h.new \cap WikiMarks)
        BY <3>1, EntryOfPlan
      <4>3. g.new \subseteq Text(t[Registry])
        BY <4>1 DEF Stands, Claim
      <4>4. Text(t[Registry]) \subseteq h.new
        BY <1>2, <4>2, EntryOfPlan
      <4>5. e.new \subseteq d.new
        BY <4>1, <4>2, <4>3, <4>4
      <4>6. QED
        BY <2>1, <4>5 DEF Kept
    <3>2. CASE e.path # Router
      BY <1>3, <1>5, <2>1, <3>2 DEF Kept
    <3>3. QED
      BY <3>1, <3>2
  <2>3. Claim(e) \subseteq Text(d.old)
    <3>1. CASE Claim(d) \subseteq Text(e.old)
      BY <2>1, <2>2, <3>1 DEF Kept
    <3>2. QED
      BY <1>4, <3>1
  <2>4. QED
    BY <2>2, <2>3
<1>9. QED
  BY <1>7, <1>8

LEMMA OnlyOneKeeps ==
  ASSUME OneProcess, NEW p \in Processes, Registry \notin edited',
         AllStand(tree', edited', manifest', unsettled'), AllOrdered(edited', manifest'),
         AllUnder(edited', manifest', unsettled', run'[p]),
         AllSpared(edited', manifest', unsettled', run'[p])
  PROVE  Keeping'
<1>1. \A q \in Processes : q = p
  BY DEF OneProcess
<1>2. \A q \in Processes : /\ AllUnder(edited', manifest', unsettled', run'[q])
                           /\ AllSpared(edited', manifest', unsettled', run'[q])
  BY <1>1
<1>3. QED
  BY <1>2 DEF Keeping

LEMMA KeepParts ==
  ASSUME KeepInv, NEW p \in Processes
  PROVE  /\ SoloInv /\ OneInv /\ Alone /\ Registry \notin edited
         /\ AllStand(tree, edited, manifest, unsettled) /\ AllOrdered(edited, manifest)
         /\ AllUnder(edited, manifest, unsettled, run[p])
         /\ AllSpared(edited, manifest, unsettled, run[p])
  BY DEF KeepInv, Keeping, OneInv

(* The parts that say nothing of the processes.                            *)
LEMMA KeepRest ==
  ASSUME KeepInv, UNCHANGED <<tree, manifest, edited>>, unsettled' = unsettled
  PROVE  /\ Registry \notin edited' /\ AllStand(tree', edited', manifest', unsettled')
         /\ AllOrdered(edited', manifest')
  BY DEF KeepInv, Keeping

LEMMA BeginKeeps ==
  ASSUME OneProcess, KeepInv, NEW p \in Processes, Step(p), run[p].phase = "idle"
  PROVE  Keeping'
<1>1. /\ UNCHANGED <<tree, manifest, unsettled, edited>>
      /\ \/ run'[p].phase \in {"idle", "check"}
         \/ /\ run'[p].phase = "record"
            /\ \E r \in Requests : run'[p].entries = Entries(tree, r)
  BY KeepParts, BeginSolo
<1>2. AllSpared(edited', manifest', unsettled', run'[p])
  BY <1>1 DEF AllSpared
<1>3. AllUnder(edited', manifest', unsettled', run'[p])
  <2>1. CASE run'[p].phase \in {"idle", "check"}
    BY <2>1 DEF AllUnder
  <2>2. ASSUME NEW r \in Requests, run'[p].entries = Entries(tree, r)
        PROVE  AllUnder(edited', manifest', unsettled', run'[p])
    <3>1. tree \in Trees
      BY KeepParts, SoloParts
    <3>2. \A d : Has(Entries(tree, r), d) => d.old = tree[d.path]
      BY <3>1, EntriesStartFromDisk DEF Planned, StartsFrom, Has
    <3>3. ASSUME NEW id, Standing(manifest, unsettled, id)
          PROVE  Under(edited, manifest[id].entries, Entries(tree, r))
      <4>1. Stands(tree, edited, manifest[id].entries)
        BY <3>3, KeepParts DEF AllStand
      <4>2. QED
        BY <3>2, <4>1 DEF Stands, Under
    <3>4. QED
      BY <1>1, <2>2, <3>3 DEF AllUnder
  <2>3. QED
    BY <1>1, <2>1, <2>2
<1>4. QED
  BY <1>1, <1>2, <1>3, KeepRest, OnlyOneKeeps

LEMMA WriteManifestKeeps ==
  ASSUME OneProcess, KeepInv, NEW p \in Processes, WriteManifest(p) PROVE Keeping'
<1> DEFINE x == run[p]
<1>1. /\ x.phase = "record" /\ UNCHANGED <<tree, edited, unsettled>>
      /\ DOMAIN manifest' = DOMAIN manifest \cup {x.id}
      /\ \A id \in DOMAIN manifest' : manifest'[id] = IF id = x.id
                                                      THEN Record("pending", x.entries)
                                                      ELSE manifest[id]
      /\ run' = [run EXCEPT ![p] = [x EXCEPT !.phase = "check"]]
  BY DEF WriteManifest, With
<1>2. run'[p].phase = "check"
  BY <1>1, KeepParts, SoloParts DEF Runs
<1>3. x.id \notin DOMAIN manifest
  BY <1>1, KeepParts, SoloParts DEF Holds
<1>4. manifest'[x.id].state = "pending" /\ manifest'[x.id].entries = x.entries
  BY <1>1 DEF Record
<1>5. \A id : Standing(manifest', unsettled', id) =>
                Standing(manifest, unsettled, id) /\ manifest'[id] = manifest[id]
  BY <1>1, <1>4 DEF Standing
<1>6. AllStand(tree', edited', manifest', unsettled')
  BY <1>1, <1>5, KeepParts DEF AllStand
<1>7. ASSUME NEW i \in DOMAIN manifest, manifest[i].state # "rolled_back"
      PROVE  Under(edited, manifest[i].entries, x.entries)
  <2>1. Done(manifest, unsettled, i)
    BY <1>1, <1>3, KeepParts DEF Alone, Recorded
  <2>2. manifest[i].state \in States
    BY KeepParts DEF SoloInv, IInv, TypeOK, Records, Recorded
  <2>3. Standing(manifest, unsettled, i)
    BY <1>7, <2>1, <2>2 DEF Done, Standing, States
  <2>4. QED
    BY <1>1, <2>3, KeepParts DEF AllUnder
<1>8. AllOrdered(edited', manifest')
  <2> SUFFICES ASSUME NEW i \in DOMAIN manifest', NEW k \in DOMAIN manifest', i # k,
                      manifest'[i].state # "rolled_back", manifest'[k].state # "rolled_back"
               PROVE  Ordered(edited, manifest'[i].entries, manifest'[k].entries)
    BY <1>1 DEF AllOrdered
  <2>1. CASE i # x.id /\ k # x.id
    BY <1>1, <2>1, KeepParts DEF AllOrdered
  <2>2. CASE i = x.id
    <3>1. Under(edited, manifest'[k].entries, manifest'[i].entries)
      BY <1>1, <1>4, <1>7, <2>2
    <3>2. QED
      BY <3>1 DEF Under, Ordered
  <2>3. CASE k = x.id
    <3>1. Under(edited, manifest'[i].entries, manifest'[k].entries)
      BY <1>1, <1>4, <1>7, <2>3
    <3>2. QED
      BY <3>1 DEF Under, Ordered
  <2>4. QED
    BY <2>1, <2>2, <2>3
<1>9. QED
  BY <1>1, <1>2, <1>6, <1>8, KeepParts, OnlyOneKeeps DEF AllUnder, AllSpared

LEMMA CheckKeeps ==
  ASSUME OneProcess, SeparatePages, AbsentIsNoText, KeepInv, NEW p \in Processes, Check(p)
  PROVE  Keeping'
<1> DEFINE x == run[p]
           new == [run[p] EXCEPT !.phase = "write", !.cur = Current(x.entries), !.raced = {},
                                 !.next = IF x.op = "apply" THEN 1 ELSE Len(x.entries)]
<1>1. /\ x.phase = "check" /\ UNCHANGED <<tree, manifest, unsettled, edited>>
      /\ run' = [run EXCEPT ![p] = IF TargetsMatch(x.entries) THEN new ELSE Idle]
  BY DEF Check
<1>2. /\ new.phase = "write" /\ new.op = x.op /\ new.id = x.id /\ new.entries = x.entries
  BY KeepParts, SoloParts DEF Runs
<1>3. run'[p] = IF TargetsMatch(x.entries) THEN new ELSE Idle
  BY <1>1, KeepParts, SoloParts
<1> HIDE DEF new
<1>4. CASE ~ TargetsMatch(x.entries)
  <2>1. run'[p].phase = "idle"
    BY <1>3, <1>4 DEF Idle
  <2>2. QED
    BY <1>1, <2>1, KeepRest, OnlyOneKeeps DEF AllUnder, AllSpared
<1>5. CASE TargetsMatch(x.entries)
  <2>1. FromPlan(x.id, x.entries) /\ x.id \in DOMAIN manifest
        /\ manifest[x.id].entries = x.entries /\ manifest[x.id].state # "rolled_back"
    BY <1>1, KeepParts, SoloParts DEF Holds
  <2>2. ASSUME NEW id, Standing(manifest, unsettled, id), id # x.id
        PROVE  Spared(edited, manifest[id].entries, new)
    <3>1. Stands(tree, edited, manifest[id].entries)
      BY <2>2, KeepParts DEF AllStand
    <3>2. Ordered(edited, manifest[id].entries, x.entries)
      BY <2>1, <2>2, KeepParts DEF AllOrdered, Standing
    <3>3. FromPlan(id, manifest[id].entries)
      BY <2>2, KeepParts, SoloParts DEF Standing, Recorded
    <3>4. Spared(edited, manifest[id].entries, x)
      BY <1>5, <2>1, <3>1, <3>2, <3>3, KeepParts, CheckSpares DEF TargetsMatch
    <3>5. QED
      BY <1>2, <3>4 DEF Spared
  <2>3. run'[p] = new
    BY <1>3, <1>5
  <2>4. AllSpared(edited', manifest', unsettled', run'[p])
    BY <1>1, <1>2, <2>2, <2>3 DEF AllSpared
  <2>5. AllUnder(edited', manifest', unsettled', run'[p])
    BY <1>2, <2>3 DEF AllUnder
  <2>6. QED
    BY <1>1, <2>4, <2>5, KeepRest, OnlyOneKeeps
<1>6. QED
  BY <1>4, <1>5

LEMMA StoreKeeps ==
  ASSUME OneProcess, SeparatePages, AbsentIsNoText, KeepInv,
         NEW p \in Processes, run[p].phase = "write",
         run[p].next \in DOMAIN run[p].entries,
         NEW content, content = Aim(run[p], run[p].next), NEW next,
         Store(p, run[p].entries[run[p].next], content, next),
         UNCHANGED <<manifest, edited>>
  PROVE  Keeping'
<1> DEFINE x == run[p]
           d == run[p].entries[run[p].next]
           new == run'[p]
<1>1. /\ x \in Runs /\ x.entries \in Seq(Changes) /\ x.op \in {"apply", "rollback"}
      /\ x.id \in DOMAIN manifest /\ manifest[x.id].entries = x.entries
      /\ DOMAIN x.entries = 1 .. Len(x.entries) /\ FromPlan(x.id, x.entries)
  BY KeepParts, SoloParts DEF Holds
<1>2. Has(x.entries, d) /\ d.path \in Paths /\ Text(d.new) = d.new
  <2>1. Has(x.entries, d)
    BY <1>1 DEF Has
  <2>2. QED
    BY <1>1, <2>1, EntryOfPlan
<1>3. /\ new.phase = x.phase /\ new.op = x.op /\ new.entries = x.entries /\ new.id = x.id
  <2>1. \/ new = [x EXCEPT !.next = next]
        \/ new = [x EXCEPT !.next = next, !.raced = @ \ {d.path}]
    BY KeepParts, SoloParts DEF Store
  <2> HIDE DEF new
  <2>2. QED
    BY <1>1, <2>1 DEF Runs
<1>4. \/ UNCHANGED <<tree, unsettled>>
      \/ tree' = [tree EXCEPT ![d.path] = content] /\ unsettled' = unsettled \cup {x.id}
  BY DEF Store
<1> HIDE DEF new, d
<1>5. \A id : Standing(manifest', unsettled', id) => Standing(manifest, unsettled, id)
  BY <1>4 DEF Standing
<1>6. ASSUME NEW id, Standing(manifest', unsettled', id)
      PROVE  Stands(tree', edited', manifest'[id].entries)
  <2>1. Stands(tree, edited, manifest[id].entries)
    BY <1>5, <1>6, KeepParts DEF AllStand
  <2>2. CASE UNCHANGED tree
    BY <2>1, <2>2
  <2>3. CASE tree' = [tree EXCEPT ![d.path] = content] /\ unsettled' = unsettled \cup {x.id}
    <3>1. id # x.id
      BY <1>6, <2>3 DEF Standing
    <3>2. Spared(edited, manifest[id].entries, x)
      BY <1>5, <1>6, <3>1, KeepParts DEF AllSpared
    <3>3. Text(content) = IF x.op = "apply" THEN d.new ELSE Text(d.old)
      BY <1>2 DEF Aim, d
    <3>4. \A e : Has(manifest[id].entries, e) => e.path \in Paths
      BY <1>5, <1>6, KeepParts, SoloParts, EntryOfPlan DEF Standing, Recorded
    <3>5. ASSUME NEW e, Has(manifest[id].entries, e), e.path \notin edited
          PROVE  Claim(e) \subseteq Text(tree'[e.path])
      <4>1. CASE e.path = d.path
        <5>1. Claim(e) \subseteq Text(content)
          BY <1>2, <3>2, <3>3, <3>5, <4>1 DEF Spared
        <5>2. tree'[e.path] = content
          BY <1>2, <2>3, <4>1, KeepParts, SoloParts DEF Trees
        <5>3. QED
          BY <5>1, <5>2
      <4>2. CASE e.path # d.path
        <5>1. tree'[e.path] = tree[e.path]
          BY <2>3, <3>4, <3>5, <4>2, KeepParts, SoloParts DEF Trees
        <5>2. QED
          BY <2>1, <3>5, <5>1 DEF Stands
      <4>3. QED
        BY <4>1, <4>2
    <3>6. QED
      BY <3>5 DEF Stands
  <2>4. QED
    BY <1>4, <2>2, <2>3
<1>7. AllStand(tree', edited', manifest', unsettled')
  BY <1>6 DEF AllStand
<1>8. AllSpared(edited', manifest', unsettled', new)
  <2> SUFFICES ASSUME NEW id, Standing(manifest, unsettled, id), id # new.id
               PROVE  Spared(edited, manifest[id].entries, new)
    BY <1>5 DEF AllSpared
  <2>1. Spared(edited, manifest[id].entries, x)
    BY <1>3, KeepParts DEF AllSpared
  <2>2. QED
    BY <1>3, <2>1 DEF Spared
<1>9. AllUnder(edited', manifest', unsettled', new)
  BY <1>3 DEF AllUnder
<1>10. Registry \notin edited' /\ AllOrdered(edited', manifest')
  BY KeepParts
<1>11. QED
  BY <1>7, <1>8, <1>9, <1>10, OnlyOneKeeps DEF new

(* A process that has passed every entry leaves the files with what its    *)
(* plan claims.                                                            *)
LEMMA AllWritten ==
  ASSUME SeparatePages, AbsentIsNoText, SoloInv, NEW p \in Processes,
         run[p].phase \in {"write", "audit"}, run[p].op = "apply",
         \A i \in DOMAIN run[p].entries : Passed(run[p], i)
  PROVE  Stands(tree, edited, run[p].entries)
<1> DEFINE x == run[p]
<1>1. /\ FromPlan(x.id, x.entries) /\ Tracks(tree, edited, x)
      /\ x.entries \in Seq(Changes)
  BY SoloParts DEF Holds
<1>2. /\ Distinct(x.entries) /\ DOMAIN x.entries = 1 .. Len(x.entries)
      /\ \A e : Has(x.entries, e) => Text(e.new) = e.new
  BY <1>1, EntryOfPlan
<1> SUFFICES ASSUME NEW i \in DOMAIN x.entries, x.entries[i].path \notin edited
             PROVE  Claim(x.entries[i]) \subseteq Text(tree[x.entries[i].path])
  BY <1>2 DEF Stands, Has
<1>3. Tracked(tree, edited, x, i)
  BY <1>1 DEF Tracks
<1>4. PICK j \in DOMAIN x.entries : /\ x.entries[j].path = x.entries[i].path
                                    /\ tree[x.entries[i].path] = Aim(x, j)
  BY <1>3 DEF Tracked
<1>5. i = j
  BY <1>2, <1>4 DEF Distinct
<1>6. Text(tree[x.entries[i].path]) = x.entries[i].new
  BY <1>2, <1>4, <1>5 DEF Aim, Has
<1>7. QED
  BY <1>6 DEF Claim, Kept

(* Recording an outcome: what is said of the other transactions stays.     *)
LEMMA OutcomeKeeps ==
  ASSUME OneProcess, KeepInv, NEW p \in Processes, NEW id \in DOMAIN manifest,
         UNCHANGED <<tree, edited>>, DOMAIN manifest' = DOMAIN manifest,
         \A k \in DOMAIN manifest : /\ manifest'[k].entries = manifest[k].entries
                                    /\ k # id => manifest'[k].state = manifest[k].state,
         manifest[id].state # "rolled_back" \/ manifest'[id].state = "rolled_back",
         unsettled \ {id} = unsettled' \ {id},
         manifest'[id].state = "applied" => Stands(tree, edited, manifest[id].entries),
         run'[p].phase \in {"idle", "audit"}
  PROVE  Keeping'
<1>1. ASSUME NEW k, Standing(manifest', unsettled', k)
      PROVE  Stands(tree', edited', manifest'[k].entries)
  <2>1. CASE k = id
    BY <1>1, <2>1 DEF Standing
  <2>2. CASE k # id
    <3>1. Standing(manifest, unsettled, k)
      BY <1>1, <2>2 DEF Standing
    <3>2. QED
      BY <1>1, <3>1, KeepParts DEF AllStand, Standing
  <2>3. QED
    BY <2>1, <2>2
<1>2. AllStand(tree', edited', manifest', unsettled')
  BY <1>1 DEF AllStand
<1>3. \A k \in DOMAIN manifest : manifest'[k].state # "rolled_back" =>
                                   manifest[k].state # "rolled_back"
  OBVIOUS
<1>4. AllOrdered(edited', manifest')
  BY <1>3, KeepParts DEF AllOrdered
<1>5. Registry \notin edited'
  BY KeepParts
<1>6. QED
  BY <1>2, <1>4, <1>5, OnlyOneKeeps DEF AllUnder, AllSpared

LEMMA MarkKeepsClaims ==
  ASSUME OneProcess, KeepInv, NEW p \in Processes, NEW state, Mark(p, state),
         run[p].phase \in {"write", "audit"}, UNCHANGED <<tree, edited>>,
         run'[p].phase \in {"idle", "audit"},
         manifest[run[p].id].state # "rolled_back" \/ state = "rolled_back",
         state = "applied" => Stands(tree, edited, run[p].entries)
  PROVE  Keeping'
<1> DEFINE id == run[p].id
<1>1. /\ Recorded' = Recorded /\ id \in Recorded
      /\ \A k \in Recorded : manifest'[k].entries = manifest[k].entries
      /\ \A k \in Recorded : manifest'[k].state = IF k = id THEN state ELSE manifest[k].state
  BY KeepParts, MarkSolo
<1>2. unsettled' = unsettled \ {id}
  BY DEF Mark
<1>3. manifest[id].entries = run[p].entries
  BY KeepParts, SoloParts DEF Holds
<1>4. QED
  BY <1>1, <1>2, <1>3, OutcomeKeeps DEF Recorded

LEMMA MarkAppliedKeeps ==
  ASSUME OneProcess, SeparatePages, AbsentIsNoText, KeepInv, NEW p \in Processes, MarkApplied(p)
  PROVE  Keeping'
<1>1. /\ Mark(p, "applied") /\ run[p].phase = "audit" /\ run[p].op = "apply"
      /\ UNCHANGED <<tree, edited>> /\ run' = [run EXCEPT ![p] = Idle]
  BY DEF MarkApplied
<1>2. run'[p].phase = "idle"
  BY <1>1, KeepParts, SoloParts DEF Idle
<1>3. manifest[run[p].id].state # "rolled_back"
  BY <1>1, KeepParts, SoloParts DEF Holds
<1>4. Stands(tree, edited, run[p].entries)
  <2>1. \A i \in DOMAIN run[p].entries : Passed(run[p], i)
    BY <1>1 DEF Passed
  <2>2. QED
    BY <1>1, <2>1, AllWritten, KeepParts
<1>5. QED
  BY <1>1, <1>2, <1>3, <1>4, MarkKeepsClaims

LEMMA MarkRolledBackKeeps ==
  ASSUME OneProcess, KeepInv, NEW p \in Processes, MarkRolledBack(p)
  PROVE  Keeping'
<1>1. /\ Mark(p, "rolled_back") /\ run[p].phase = "write" /\ UNCHANGED <<tree, edited>>
      /\ run' = [run EXCEPT ![p] = [run[p] EXCEPT !.phase = "audit"]]
  BY DEF MarkRolledBack
<1>2. run'[p].phase = "audit"
  BY <1>1, KeepParts, SoloParts DEF Runs
<1>3. QED
  BY <1>1, <1>2, MarkKeepsClaims

LEMMA EndWritesKeeps ==
  ASSUME OneProcess, SeparatePages, AbsentIsNoText, KeepInv, NEW p \in Processes, EndWrites(p)
  PROVE  Keeping'
<1> DEFINE x == run[p]
<1>1. /\ x.phase = "write" /\ x.op = "apply" /\ x.next > Len(x.entries)
      /\ UNCHANGED <<tree, manifest, edited>>
      /\ unsettled' = unsettled \/ (x.state = "applied" /\ unsettled' = unsettled \ {x.id})
      /\ \/ run' = [run EXCEPT ![p] = Idle]
         \/ run' = [run EXCEPT ![p] = [run[p] EXCEPT !.phase = "audit", !.next = 1]]
  BY DEF EndWrites
<1>2. run'[p].phase \in {"idle", "audit"}
  <2>1. run'[p] = Idle \/ run'[p] = [run[p] EXCEPT !.phase = "audit", !.next = 1]
    BY <1>1, KeepParts, SoloParts
  <2>2. run[p] \in Runs
    BY KeepParts, SoloParts
  <2>3. Idle.phase = "idle"
    BY DEF Idle
  <2>4. [run[p] EXCEPT !.phase = "audit", !.next = 1].phase = "audit"
    BY <2>2 DEF Runs
  <2>5. QED
    BY <2>1, <2>3, <2>4
<1>3. /\ x.id \in DOMAIN manifest /\ manifest[x.id].entries = x.entries
      /\ manifest[x.id].state # "rolled_back"
      /\ DOMAIN x.entries = 1 .. Len(x.entries) /\ Len(x.entries) \in Nat /\ x.next \in Nat
  BY <1>1, KeepParts, SoloParts DEF Holds
<1>4. Stands(tree, edited, x.entries)
  <2>1. \A i \in DOMAIN x.entries : Passed(x, i)
    BY <1>1, <1>3 DEF Passed
  <2>2. QED
    BY <1>1, <2>1, AllWritten, KeepParts
<1>5. unsettled \ {x.id} = unsettled' \ {x.id}
  BY <1>1
<1>6. QED
  BY <1>1, <1>2, <1>3, <1>4, <1>5, OutcomeKeeps

LEMMA StepKeeps ==
  ASSUME OneProcess, SeparatePages, AbsentIsNoText, KeepInv, NEW p \in Processes, Step(p)
  PROVE  Keeping'
<1>1. CASE run[p].phase = "idle"
  BY <1>1, BeginKeeps
<1>2. CASE run[p].phase # "idle"
  <2>1. run[p] # Idle
    BY <1>2 DEF Idle
  <2>2. CASE WriteEntry(p)
    <3>1. run[p].op = "apply" /\ run[p].entries[run[p].next].new = Aim(run[p], run[p].next)
      BY <2>2 DEF WriteEntry, Aim
    <3>2. QED
      BY <2>2, <3>1, StoreKeeps DEF WriteEntry
  <2>3. CASE RestoreEntry(p)
    <3>1. run[p].op = "rollback" /\ run[p].entries[run[p].next].old = Aim(run[p], run[p].next)
      BY <2>3 DEF RestoreEntry, Aim
    <3>2. QED
      BY <2>3, <3>1, StoreKeeps DEF RestoreEntry
  <2>4. ASSUME AuditApply(p) \/ AuditRollback(p) \/ Crash(p) PROVE Keeping'
    <3>1. /\ UNCHANGED <<tree, manifest, unsettled, edited>>
          /\ \/ run' = [run EXCEPT ![p] = Idle]
             \/ run[p].phase = "audit" /\ run' = [run EXCEPT ![p] = [run[p] EXCEPT !.next = @ + 1]]
      BY <2>4 DEF AuditApply, AuditRollback, Crash
    <3>2. \/ run'[p] = Idle
          \/ run[p].phase = "audit" /\ run'[p] = [run[p] EXCEPT !.next = @ + 1]
      BY <3>1, KeepParts, SoloParts
    <3>3. run[p] \in Runs
      BY KeepParts, SoloParts
    <3>4. run'[p].phase \in {"idle", "audit"}
      BY <3>2, <3>3 DEF Idle, Runs
    <3>5. QED
      BY <3>1, <3>4, KeepRest, OnlyOneKeeps DEF AllUnder, AllSpared
  <2>5. ~ (\E r \in Requests : BeginApply(p, r))
        /\ ~ (\E id \in Recorded, op \in {"apply", "rollback"} : BeginRecovery(p, id, op))
    BY <2>1 DEF BeginApply, BeginRecovery
  <2>6. QED
    BY <2>2, <2>3, <2>4, <2>5, WriteManifestKeeps, CheckKeeps, EndWritesKeeps,
       MarkAppliedKeeps, MarkRolledBackKeeps DEF Step
<1>3. QED
  BY <1>1, <1>2

(* An edit takes a file out of what is claimed.                            *)
LEMMA EditKeeps ==
  ASSUME SeparatePages, AbsentIsNoText, Registry \notin Editable, KeepInv,
         NEW f \in Editable, Edit(f)
  PROVE  Keeping'
<1>1. /\ edited' = edited \cup {f} /\ UNCHANGED <<manifest, unsettled>>
      /\ run' = [q \in Processes |-> Overtaken(q, f)]
      /\ \E content : tree' = [tree EXCEPT ![f] = content]
  BY DEF Edit
<1>2. /\ OneInv /\ SoloInv /\ Keeping
  BY DEF KeepInv, OneInv
<1>3. tree \in [Paths -> Content] /\ \A id \in Recorded : FromPlan(id, manifest[id].entries)
  BY <1>2 DEF SoloInv, Solo, IInv, TypeOK
<1>4. \A g \in Paths : g \notin edited' => tree'[g] = tree[g]
  BY <1>1, <1>3
<1>5. ASSUME NEW id, Standing(manifest, unsettled, id)
      PROVE  Stands(tree', edited', manifest[id].entries)
  <2>1. Stands(tree, edited, manifest[id].entries)
    BY <1>2, <1>5 DEF Keeping, AllStand
  <2>2. \A e : Has(manifest[id].entries, e) => e.path \in Paths
    BY <1>3, <1>5, EntryOfPlan DEF Standing, Recorded
  <2>3. QED
    BY <1>1, <1>4, <2>1, <2>2 DEF Stands
<1>6. AllStand(tree', edited', manifest', unsettled')
  BY <1>1, <1>5 DEF AllStand
<1>7. \A es, ds : Ordered(edited, es, ds) => Ordered(edited', es, ds)
  BY <1>1 DEF Ordered
<1>8. AllOrdered(edited', manifest')
  BY <1>1, <1>2, <1>7 DEF Keeping, AllOrdered
<1>9. ASSUME NEW q \in Processes
      PROVE  /\ AllUnder(edited', manifest', unsettled', run'[q])
             /\ AllSpared(edited', manifest', unsettled', run'[q])
  <2>1. run[q] \in Runs /\ run'[q] = Overtaken(q, f)
    BY <1>1, <1>2, SoloParts
  <2>2. /\ run'[q].phase = run[q].phase /\ run'[q].id = run[q].id
        /\ run'[q].entries = run[q].entries /\ run'[q].op = run[q].op
    BY <2>1 DEF Overtaken, Runs
  <2>3. \A es, ds : Under(edited, es, ds) => Under(edited', es, ds)
    BY <1>1 DEF Under
  <2>4. \A es : Spared(edited, es, run[q]) => Spared(edited', es, run'[q])
    BY <1>1, <2>2 DEF Spared
  <2>5. QED
    BY <1>1, <1>2, <2>2, <2>3, <2>4 DEF Keeping, AllUnder, AllSpared
<1>10. Registry \notin edited'
  BY <1>1, <1>2 DEF Keeping
<1>11. QED
  BY <1>6, <1>8, <1>9, <1>10 DEF Keeping

LEMMA NextKeep ==
  ASSUME OneProcess, FinishFirst, SeparatePages, AbsentIsNoText, Registry \notin Editable,
         KeepInv, [Next]_vars
  PROVE  KeepInv'
<1>1. OneInv' /\ Keeping
  BY NextOne DEF KeepInv
<1>2. ASSUME UNCHANGED <<tree, manifest, unsettled, edited, run>> PROVE Keeping'
  BY <1>1, <1>2 DEF Keeping
<1>3. Keeping'
  BY <1>2, StepKeeps, EditKeeps DEF Next, DryRun, vars
<1>4. QED
  BY <1>1, <1>3 DEF KeepInv

LEMMA InitKeep == Init => KeepInv
<1> SUFFICES ASSUME Init PROVE KeepInv
  OBVIOUS
<1>1. /\ DOMAIN manifest = {} /\ edited = {} /\ \A p \in Processes : run[p].phase = "idle"
  BY DEF Init, Idle
<1>2. QED
  BY <1>1, InitOne DEF KeepInv, Keeping, AllStand, AllOrdered, AllUnder, AllSpared, Standing

(* No lost update: what an applied plan added to a file is still in it     *)
(* after every later apply, rollback, crash and recovery of other plans    *)
(* that change the same file, be it a page, an index, the registry or the  *)
(* router, as long as each interrupted transaction is settled before the   *)
(* next one starts and nobody edits the registry by hand.                  *)
THEOREM AppliedIsKept ==
  ASSUME OneProcess, FinishFirst, SeparatePages, AbsentIsNoText, Registry \notin Editable
  PROVE  Spec => []AppliedSurvives
<1>1. KeepInv => AppliedSurvives
  <2> SUFFICES ASSUME KeepInv, NEW id \in Recorded \ unsettled, manifest[id].state = "applied",
                      NEW i \in DOMAIN manifest[id].entries,
                      manifest[id].entries[i].path \notin edited
               PROVE  Kept(manifest[id].entries[i]) \subseteq Text(tree[manifest[id].entries[i].path])
    BY DEF AppliedSurvives, Kept
  <2> DEFINE e == manifest[id].entries[i]
  <2>1. Stands(tree, edited, manifest[id].entries)
    BY DEF KeepInv, Keeping, AllStand, Standing, Recorded
  <2>2. manifest[id].entries \in Seq(Changes)
    BY DEF KeepInv, OneInv, SoloInv, IInv, TypeOK, Records
  <2>3. Has(manifest[id].entries, e)
    BY <2>2 DEF Has
  <2>4. Claim(e) \subseteq Text(tree[e.path])
    BY <2>1, <2>3 DEF Stands
  <2>5. QED
    BY <2>4 DEF Claim, Kept
<1>2. Init => KeepInv
  BY InitKeep
<1>3. KeepInv /\ [Next]_vars => KeepInv'
  BY NextKeep
<1>4. QED
  BY <1>1, <1>2, <1>3, PTL DEF Spec

(* Two plans of one proposal cannot both stand: the later one would have   *)
(* been planned from a proposal file that says where the first one went.   *)
LEMMA OneStanding ==
  ASSUME AbsentIsNoText, KeepInv, NEW i \in Recorded, NEW k \in Recorded,
         i.proposal = k.proposal, i.proposal \notin edited,
         manifest[i].state # "rolled_back", manifest[k].state # "rolled_back"
  PROVE  i = k
<1> SUFFICES ASSUME i # k PROVE FALSE
  OBVIOUS
<1>1. FromPlan(i, manifest[i].entries) /\ FromPlan(k, manifest[k].entries)
  BY DEF KeepInv, OneInv, SoloInv, Solo
<1>2. Ordered(edited, manifest[i].entries, manifest[k].entries)
  BY DEF KeepInv, Keeping, AllOrdered, Recorded
<1>3. ASSUME NEW id, NEW entries, FromPlan(id, entries)
      PROVE  \E e, g : /\ Has(entries, e) /\ e.path = id.proposal
                       /\ Applied(id.proposal, g) \in Claim(e)
                       /\ g \in Pages /\ \A h \in Pages : Applied(id.proposal, h) \notin Text(e.old)
  <2>1. PICK r \in Requests, t \in Trees :
          Plannable(t, r) /\ id = PlanId(t, r) /\ entries = Entries(t, r)
    BY <1>3 DEF FromPlan
  <2> DEFINE e == StatusChange(t, r)
  <2>2. Has(entries, e) /\ id.proposal = r.proposal
    BY <2>1, PlanParts DEF Has
  <2>3. /\ e.path = r.proposal /\ e.old = t[r.proposal]
        /\ e.new = Text(t[r.proposal]) \cup {Applied(r.proposal, r.dest)}
    BY DEF StatusChange, Change
  <2>4. \A g \in Pages : Applied(r.proposal, g) \notin Text(t[r.proposal])
    BY <2>1, PlannedAfresh
  <2>5. r.dest \in Pages /\ r.proposal \in Proposals
    BY RequestParts
  <2>6. e.path # Registry
    BY <2>3, <2>5, PathKinds
  <2>7. Applied(r.proposal, r.dest) \notin Supersessions
    BY AppliedApart DEF Supersessions
  <2> HIDE DEF e
  <2>8. Applied(r.proposal, r.dest) \in Claim(e)
    BY <2>3, <2>4, <2>5, <2>6, <2>7 DEF Claim, Kept, Replaceable
  <2>9. QED
    BY <2>2, <2>3, <2>4, <2>5, <2>8
<1>4. QED
  BY <1>1, <1>2, <1>3 DEF Ordered

(* A proposal goes to one page: it is never recorded as applied by two     *)
(* plans for two destinations.                                             *)
THEOREM AppliedOnlyOnce ==
  ASSUME OneProcess, FinishFirst, SeparatePages, AbsentIsNoText, Registry \notin Editable
  PROVE  Spec => []AppliedOnce
<1>1. KeepInv => AppliedOnce
  BY OneStanding DEF AppliedOnce
<1>2. Init => KeepInv
  BY InitKeep
<1>3. KeepInv /\ [Next]_vars => KeepInv'
  BY NextKeep
<1>4. QED
  BY <1>1, <1>2, <1>3, PTL DEF Spec

-----------------------------------------------------------------------------
(* The router and the registry                                             *)

(* `evolve` may write the router of the vault t: there is none, or it      *)
(* carries the header of a generated one.                                  *)
Generated(t) == t[Router] = Absent \/ Header \in Text(t[Router])

(* A router lists wikis that are registered; and it is never `evolve` that *)
(* takes a router over.                                                    *)
Listed(t) ==
  /\ Generated(t) <=> Generated(InitialTree)
  /\ Generated(t) => Text(t[Router]) \cap WikiMarks \subseteq Text(t[Registry])

(* A page has one superseded_by key.                                       *)
OnePointer(t) ==
  \A f \in Paths : \A a, b \in Text(t[f]) \cap Supersessions : a = b

Tidy(t) == Listed(t) /\ OnePointer(t)

(* Nobody asks for two successors of one page.                             *)
OneSuccessor ==
  \A q, r \in Requests :
    q.supersedes = r.supersedes /\ r.supersedes # NoPage => q.dest = r.dest

(* id and entries are those of a plan of the vault t, of a tidy one.       *)
OfVault(id, entries, t) ==
  \E r \in Requests : Plannable(t, r) /\ id = PlanId(t, r) /\ entries = Entries(t, r)
OfTidy(id, entries) == \E t \in Trees : Tidy(t) /\ OfVault(id, entries, t)

(* The vault t with the content that entries replace, and the one they     *)
(* leave.                                                                  *)
Writes(entries, f) == \E i \in DOMAIN entries : entries[i].path = f
At(entries, f)     == CHOOSE i \in DOMAIN entries : entries[i].path = f
Before(t, entries) == [f \in Paths |-> IF Writes(entries, f) THEN entries[At(entries, f)].old ELSE t[f]]
After(t, entries)  == [f \in Paths |-> IF Writes(entries, f) THEN entries[At(entries, f)].new ELSE t[f]]

LEMMA OverlayAt ==
  ASSUME NEW t, NEW entries \in Seq(Changes), Distinct(entries)
  PROVE  /\ \A i \in DOMAIN entries : /\ Before(t, entries)[entries[i].path] = entries[i].old
                                      /\ After(t, entries)[entries[i].path] = entries[i].new
         /\ \A f \in Paths : (\A i \in DOMAIN entries : entries[i].path # f) =>
              Before(t, entries)[f] = t[f] /\ After(t, entries)[f] = t[f]
<1>1. ASSUME NEW i \in DOMAIN entries
      PROVE  /\ entries[i].path \in Paths /\ Writes(entries, entries[i].path)
             /\ At(entries, entries[i].path) = i
  <2>1. entries[i].path \in Paths
    BY EntryFields
  <2>2. /\ At(entries, entries[i].path) \in DOMAIN entries
        /\ entries[At(entries, entries[i].path)].path = entries[i].path
    BY DEF At
  <2>3. QED
    BY <2>1, <2>2 DEF Distinct, Writes
<1>2. QED
  BY <1>1 DEF Before, After, Writes

(* Two vaults are the same once they agree on what entries write and on    *)
(* the rest.                                                               *)
LEMMA IsBefore ==
  ASSUME NEW t, NEW v \in Trees, NEW entries \in Seq(Changes), Distinct(entries),
         \A i \in DOMAIN entries : v[entries[i].path] = entries[i].old,
         \A f \in Paths : (\A i \in DOMAIN entries : entries[i].path # f) => v[f] = t[f]
  PROVE  v = Before(t, entries)
<1>1. \A f \in Paths : v[f] = Before(t, entries)[f]
  BY OverlayAt
<1>2. QED
  BY <1>1 DEF Before, Trees

LEMMA IsAfter ==
  ASSUME NEW t, NEW v \in Trees, NEW entries \in Seq(Changes), Distinct(entries),
         \A i \in DOMAIN entries : v[entries[i].path] = entries[i].new,
         \A f \in Paths : (\A i \in DOMAIN entries : entries[i].path # f) => v[f] = t[f]
  PROVE  v = After(t, entries)
<1>1. \A f \in Paths : v[f] = After(t, entries)[f]
  BY OverlayAt
<1>2. QED
  BY <1>1 DEF After, Trees

(* The wikis that the registry and the router of a vault list once r has   *)
(* registered its own.                                                     *)
Registering(t, r) == Text(t[Registry]) \cup {Wiki(Home[r.dest])}
NewRouter(t, r)   == {Header} \cup (Registering(t, r) \cap WikiMarks)

LEMMA RouterEntry ==
  ASSUME NEW t \in Trees, NEW r \in Requests, CreatesNewWiki(t, r),
         RouterChange(t, Registering(t, r)) # <<>>
  PROVE  Has(Entries(t, r), Change(Router, t[Router], NewRouter(t, r)))
<1> DEFINE w == Home[r.dest]
           c == Change(Router, t[Router], NewRouter(t, r))
           S1 == SkeletonChange(t, Card[w], {Skeleton(w)})
           S2 == SkeletonChange(t, Index[w], {Link(r.dest, r.dest)})
           S3 == <<Change(Registry, t[Registry], Registering(t, r))>>
           S4 == RouterChange(t, Registering(t, r))
           K == Kinds(t, r)
<1>1. S4 = <<c>>
  BY DEF RouterChange, NewRouter
<1>2. /\ S1 \in Seq(K) /\ S2 \in Seq(K)
      /\ S3 \in Seq(K) /\ S4 \in Seq(K)
  BY SkeletonKinds, RegistryKinds DEF Registering, RegistryChange
<1>3. RegistrationChanges(t, r) = S1 \o S2 \o S3 \o S4
  BY DEF RegistrationChanges, Registering
<1>4. /\ PageChange(t, r) \in Seq(K) /\ SupersedeChange(t, r) \in Seq(K)
      /\ StatusChange(t, r) \in K
  BY PageKind, SupersedeKind, StatusKind
<1>5. PlanChanges(t, r) = PageChange(t, r) \o SupersedeChange(t, r) \o RegistrationChanges(t, r)
  BY DEF PlanChanges
<1>6. Entries(t, r) = Append(PlanChanges(t, r), StatusChange(t, r))
  BY DEF Entries, StatusChange
<1>7. Has(S4, c)
  BY <1>1, HasOnly
<1> HIDE DEF S1, S2, S3, S4, K, c
<1>8. S1 \o S2 \in Seq(K)
  BY <1>2, ConcatProperties
<1>9. (S1 \o S2) \o S3 \in Seq(K)
  BY <1>2, <1>8, ConcatProperties
<1>10. ((S1 \o S2) \o S3) \o S4 \in Seq(K) /\ Has(((S1 \o S2) \o S3) \o S4, c)
  BY <1>2, <1>7, <1>9, ConcatProperties, ConcatHas
<1> DEFINE page == PageChange(t, r) \o SupersedeChange(t, r)
           rest == RegistrationChanges(t, r)
           last == <<StatusChange(t, r)>>
<1>11. page \in Seq(K) /\ rest \in Seq(K) /\ Has(rest, c)
  BY <1>3, <1>4, <1>10, ConcatProperties
<1>12. last \in Seq(K)
  BY <1>4, OneOf
<1>13. Entries(t, r) = (page \o rest) \o last
  BY <1>4, <1>5, <1>6, <1>11
<1> HIDE DEF page, rest, last
<1>14. page \o rest \in Seq(K) /\ Has(page \o rest, c)
  BY <1>11, ConcatProperties, ConcatHas
<1>15. Has((page \o rest) \o last, c)
  BY <1>12, <1>14, ConcatHas
<1>16. QED
  BY <1>13, <1>15 DEF c

(* What a plan does to the registry and the router.                        *)
LEMMA RegistrationOf ==
  ASSUME SeparatePages, NEW t \in Trees, NEW r \in Requests, Plannable(t, r), NEW v
  PROVE  LET E == Entries(t, r) IN
         /\ ~ CreatesNewWiki(t, r) =>
              \A x \in {Before(v, E), After(v, E)} : x[Registry] = v[Registry] /\ x[Router] = v[Router]
         /\ CreatesNewWiki(t, r) =>
              /\ Before(v, E)[Registry] = t[Registry]
              /\ After(v, E)[Registry] = Registering(t, r)
              /\ \/ /\ RouterChange(t, Registering(t, r)) = <<>>
                    /\ Before(v, E)[Router] = v[Router] /\ After(v, E)[Router] = v[Router]
                 \/ /\ Generated(t)
                    /\ Before(v, E)[Router] = t[Router] /\ After(v, E)[Router] = NewRouter(t, r)
<1> DEFINE E == Entries(t, r)
<1>1. /\ E \in Seq(Changes) /\ Distinct(E) /\ DOMAIN E = 1 .. Len(E)
      /\ \A i \in DOMAIN E : E[i] \in Kinds(t, r)
      /\ CreatesNewWiki(t, r) => \E i \in DOMAIN E : E[i] = RegistryChange(t, r)
  <2>1. \E id, entries : id = PlanId(t, r) /\ entries = E
    OBVIOUS
  <2> HIDE DEF E
  <2>2. /\ E \in Seq(Changes) /\ DOMAIN E = 1 .. Len(E)
        /\ \A i \in DOMAIN E : E[i] \in Kinds(t, r)
        /\ CreatesNewWiki(t, r) => \E i \in DOMAIN E : E[i] = RegistryChange(t, r)
    BY <2>1, PlanParts DEF E
  <2>3. Distinct(E)
    BY EntriesDistinct DEF E
  <2>4. QED
    BY <2>2, <2>3
<1>2. /\ r.dest \in Pages /\ (r.supersedes # NoPage => r.supersedes \in Pages)
      /\ Home[r.dest] \in Wikis /\ Card[Home[r.dest]] \in Pages
      /\ Index[Home[r.dest]] \in Pages \cup {NoPage} /\ r.proposal \in Proposals
  BY RequestParts, PlanConstants
<1>3. \A i \in DOMAIN E : E[i].path = Registry => CreatesNewWiki(t, r)
  <2> SUFFICES ASSUME NEW i \in DOMAIN E, E[i].path = Registry PROVE CreatesNewWiki(t, r)
    OBVIOUS
  <2>1. IsRegistry(E[i], r) /\ E[i].old = t[Registry]
    BY <1>1, <1>2, PathKinds
       DEF Kinds, IsPage, IsSuperseded, IsLink, IsCard, IsNewIndex, IsRouter, IsStatus
  <2>2. QED
    BY <2>1 DEF IsRegistry, CreatesNewWiki, Known
<1>4. \A i \in DOMAIN E : E[i].path = Router => IsRouter(t, E[i], r) /\ E[i].old = t[Router]
  BY <1>1, <1>2, PathKinds
     DEF Kinds, IsPage, IsSuperseded, IsLink, IsCard, IsNewIndex, IsRegistry, IsStatus
<1>5. Registry \in Paths /\ Router \in Paths
  BY DEF Paths
<1> HIDE DEF E
<1>6. ASSUME ~ CreatesNewWiki(t, r)
      PROVE  \A x \in {Before(v, E), After(v, E)} : x[Registry] = v[Registry] /\ x[Router] = v[Router]
  <2>1. \A i \in DOMAIN E : E[i].path # Registry /\ E[i].path # Router
    BY <1>3, <1>4, <1>6 DEF IsRouter
  <2>2. QED
    BY <1>1, <1>5, <2>1, OverlayAt
<1>7. ASSUME CreatesNewWiki(t, r)
      PROVE  Before(v, E)[Registry] = t[Registry] /\ After(v, E)[Registry] = Registering(t, r)
  <2>1. PICK i \in DOMAIN E : E[i] = RegistryChange(t, r)
    BY <1>1, <1>7
  <2>2. E[i].path = Registry /\ E[i].old = t[Registry] /\ E[i].new = Registering(t, r)
    BY <2>1 DEF RegistryChange, Change, Registering
  <2>3. QED
    BY <1>1, <2>2, OverlayAt
<1>8. ASSUME CreatesNewWiki(t, r), \E i \in DOMAIN E : E[i].path = Router
      PROVE  /\ Generated(t)
             /\ Before(v, E)[Router] = t[Router] /\ After(v, E)[Router] = NewRouter(t, r)
  <2>1. PICK i \in DOMAIN E : E[i].path = Router
    BY <1>8
  <2>2. IsRouter(t, E[i], r) /\ E[i].old = t[Router]
    BY <1>4, <2>1
  <2>3. E[i].new = NewRouter(t, r)
    BY <2>2 DEF IsRouter, NewRouter, Registering
  <2>4. Generated(t)
    BY <2>2 DEF IsRouter, Generated, Text
  <2>5. QED
    BY <1>1, <2>1, <2>2, <2>3, <2>4, OverlayAt
<1>9. ASSUME CreatesNewWiki(t, r), ~ \E i \in DOMAIN E : E[i].path = Router
      PROVE  /\ RouterChange(t, Registering(t, r)) = <<>>
             /\ Before(v, E)[Router] = v[Router] /\ After(v, E)[Router] = v[Router]
  <2>1. ASSUME Has(E, Change(Router, t[Router], NewRouter(t, r))) PROVE FALSE
    <3>1. PICK i \in DOMAIN E : E[i] = Change(Router, t[Router], NewRouter(t, r))
      BY <1>1, <2>1 DEF Has
    <3>2. E[i].path = Router
      BY <3>1 DEF Change
    <3>3. QED
      BY <1>9, <3>2
  <2>2. RouterChange(t, Registering(t, r)) = <<>>
    BY <1>9, <2>1, RouterEntry DEF E
  <2>3. QED
    BY <1>1, <1>5, <1>9, <2>2, OverlayAt
<1>10. QED
  BY <1>6, <1>7, <1>8, <1>9 DEF E

LEMMA RouterOf ==
  ASSUME NEW t \in Trees, NEW r \in Requests
  PROVE  /\ Header \in NewRouter(t, r) /\ Text(NewRouter(t, r)) \cap WikiMarks
                                          \subseteq Registering(t, r)
         /\ Text(t[Registry]) \subseteq Registering(t, r) /\ Wiki(Home[r.dest]) \in Registering(t, r)
         /\ Wiki(Home[r.dest]) \in WikiMarks
         /\ AbsentIsNoText => Text(NewRouter(t, r)) = NewRouter(t, r)
                              /\ Text(Registering(t, r)) = Registering(t, r)
<1>1. t[Registry] \in Content /\ Text(t[Registry]) \in SUBSET Marks
  BY TextIsMarks DEF Trees, Paths
<1>2. Home[r.dest] \in Wikis
  BY RequestParts, PlanConstants
<1>3. Wiki(Home[r.dest]) \in WikiMarks /\ WikiMarks \subseteq Marks /\ Header \in Marks
  BY <1>2 DEF WikiMarks, Marks
<1>4. NewRouter(t, r) \in SUBSET Marks /\ Registering(t, r) \in SUBSET Marks
  BY <1>1, <1>3 DEF NewRouter, Registering
<1>5. Header \notin WikiMarks
  BY DEF Header, WikiMarks, Wiki
<1>6. Text(NewRouter(t, r)) \subseteq NewRouter(t, r)
  BY DEF Text
<1>7. QED
  BY <1>3, <1>4, <1>5, <1>6, TextOfMarks DEF NewRouter, Registering

(* A plan that takes effect leaves a router that lists registered wikis.   *)
LEMMA ApplyListed ==
  ASSUME SeparatePages, AbsentIsNoText, NEW t \in Trees, NEW r \in Requests,
         Plannable(t, r), Listed(t)
  PROVE  Listed(After(t, Entries(t, r)))
<1> DEFINE v == After(t, Entries(t, r))
<1> HIDE DEF v
<1>1. CASE ~ CreatesNewWiki(t, r)
  <2>1. v[Registry] = t[Registry] /\ v[Router] = t[Router]
    BY <1>1, RegistrationOf DEF v
  <2>2. QED
    BY <2>1 DEF Listed, Generated, v
<1>2. CASE CreatesNewWiki(t, r)
  <2>1. /\ v[Registry] = Registering(t, r)
        /\ v[Router] = t[Router] \/ (Generated(t) /\ v[Router] = NewRouter(t, r))
    BY <1>2, RegistrationOf DEF v
  <2>2. CASE v[Router] = t[Router]
    BY <2>1, <2>2, RouterOf DEF Listed, Generated, v
  <2>3. CASE Generated(t) /\ v[Router] = NewRouter(t, r)
    BY <2>1, <2>3, RouterOf DEF Listed, Generated, v
  <2>4. QED
    BY <2>1, <2>2, <2>3
<1>3. QED
  BY <1>1, <1>2

(* Where the plan of a vault with a listed router registers a wiki, either *)
(* it writes the router, or the router is somebody else's.                 *)
LEMMA RouterKept ==
  ASSUME NEW t \in Trees, NEW r \in Requests, Listed(t), CreatesNewWiki(t, r),
         RouterChange(t, Registering(t, r)) = <<>>, AbsentIsNoText
  PROVE  ~ Generated(t)
<1> SUFFICES ASSUME Generated(t) PROVE FALSE
  OBVIOUS
<1>1. t[Router] = Absent \/ Header \in t[Router]
  BY DEF Generated, Text
<1>2. \/ t[Router] # Absent /\ Header \notin t[Router]
      \/ t[Router] = NewRouter(t, r)
  BY DEF RouterChange, NewRouter
<1>3. t[Router] = NewRouter(t, r)
  BY <1>1, <1>2, RouterOf
<1>4. Wiki(Home[r.dest]) \in Text(t[Router]) \cap WikiMarks
  BY <1>3, RouterOf DEF NewRouter
<1>5. QED
  BY <1>4 DEF Listed, CreatesNewWiki, Known

(* So does a plan that is undone.                                          *)
LEMMA UndoListed ==
  ASSUME SeparatePages, AbsentIsNoText, NEW id, NEW entries, OfTidy(id, entries),
         NEW v, Listed(v)
  PROVE  Listed(Before(v, entries))
<1>1. PICK t \in Trees, r \in Requests :
        Listed(t) /\ Plannable(t, r) /\ entries = Entries(t, r)
  BY DEF OfTidy, OfVault, Tidy
<1> DEFINE u == Before(v, entries)
<1> HIDE DEF u
<1>2. CASE ~ CreatesNewWiki(t, r)
  <2>1. u[Registry] = v[Registry] /\ u[Router] = v[Router]
    BY <1>1, <1>2, RegistrationOf DEF u
  <2>2. QED
    BY <2>1 DEF Listed, Generated, u
<1>3. CASE CreatesNewWiki(t, r)
  <2>1. /\ u[Registry] = t[Registry]
        /\ \/ RouterChange(t, Registering(t, r)) = <<>> /\ u[Router] = v[Router]
           \/ Generated(t) /\ u[Router] = t[Router]
    BY <1>1, <1>3, RegistrationOf DEF u
  <2>2. CASE Generated(t) /\ u[Router] = t[Router]
    BY <1>1, <2>1, <2>2 DEF Listed, Generated, u
  <2>3. CASE RouterChange(t, Registering(t, r)) = <<>> /\ u[Router] = v[Router]
    <3>1. ~ Generated(t)
      BY <1>1, <1>3, <2>3, RouterKept
    <3>2. QED
      BY <1>1, <2>3, <3>1 DEF Listed, Generated, u
  <2>4. QED
    BY <2>1, <2>2, <2>3
<1>4. QED
  BY <1>2, <1>3

(* A page keeps a single pointer, whether a plan takes effect or is undone.*)
LEMMA ChangeKeepsOne ==
  ASSUME AbsentIsNoText, NEW t \in Trees, NEW r \in Requests, OnePointer(t),
         NEW e \in Kinds(t, r)
  PROVE  \A a, b \in Text(e.new) \cap Supersessions : a = b
<1>1. e \in Changes /\ e.old = t[e.path] /\ e.path \in Paths /\ Text(e.new) = e.new
  BY TextOfMarks DEF Kinds, Changes
<1>2. \A a, b \in Text(e.old) \cap Supersessions : a = b
  BY <1>1 DEF OnePointer
<1>3. /\ \A p : Section(p) \notin Supersessions /\ Titled(p) \notin Supersessions
      /\ \A w : Wiki(w) \notin Supersessions /\ Skeleton(w) \notin Supersessions
      /\ \A p, g : Applied(p, g) \notin Supersessions
      /\ \A g, x : Link(g, x) \notin Supersessions
      /\ Header \notin Supersessions
  BY DEF Supersessions, SupersededBy, Section, Titled, Wiki, Header, Skeleton, Applied, Link
<1>4. CASE e.new \cap Supersessions \subseteq Text(e.old)
  BY <1>1, <1>2, <1>4
<1>5. CASE IsSuperseded(e, r)
  BY <1>1, <1>5 DEF IsSuperseded
<1>6. CASE IsPage(e, r) \/ IsLink(e, r) \/ IsCard(e, r) \/ IsNewIndex(e, r)
  BY <1>3, <1>4, <1>6 DEF IsPage, IsLink, IsCard, IsNewIndex, Text
<1>7. CASE IsRegistry(e, r) \/ IsStatus(e, r)
  BY <1>3, <1>4, <1>7 DEF IsRegistry, IsStatus
<1>8. CASE IsRouter(t, e, r)
  BY <1>3, <1>4, <1>8 DEF IsRouter, WikiMarks
<1>9. QED
  BY <1>5, <1>6, <1>7, <1>8 DEF Kinds

LEMMA ApplyTidy ==
  ASSUME SeparatePages, AbsentIsNoText, NEW t \in Trees, NEW r \in Requests,
         Plannable(t, r), Tidy(t)
  PROVE  Tidy(After(t, Entries(t, r)))
<1> DEFINE E == Entries(t, r)
<1>1. \A i \in DOMAIN E : E[i] \in Kinds(t, r)
  BY PlanParts
<1>2. Listed(After(t, E))
  BY ApplyListed DEF Tidy
<1> HIDE DEF E
<1>3. OnePointer(After(t, E))
  <2> SUFFICES ASSUME NEW f \in Paths
               PROVE  \A a, b \in Text(After(t, E)[f]) \cap Supersessions : a = b
    BY DEF OnePointer
  <2>1. CASE Writes(E, f)
    <3>1. At(E, f) \in DOMAIN E
      BY <2>1 DEF At, Writes
    <3>2. \A a, b \in Text(E[At(E, f)].new) \cap Supersessions : a = b
      BY <1>1, <3>1, ChangeKeepsOne DEF Tidy
    <3>3. QED
      BY <2>1, <3>2 DEF After
  <2>2. CASE ~ Writes(E, f)
    BY <2>2 DEF After, Tidy, OnePointer
  <2>3. QED
    BY <2>1, <2>2
<1>4. QED
  BY <1>2, <1>3 DEF E, Tidy

LEMMA UndoTidy ==
  ASSUME SeparatePages, AbsentIsNoText, NEW id, NEW entries, OfTidy(id, entries),
         NEW v, Tidy(v)
  PROVE  Tidy(Before(v, entries))
<1>1. PICK t \in Trees, r \in Requests : Tidy(t) /\ Plannable(t, r) /\ entries = Entries(t, r)
  BY DEF OfTidy, OfVault
<1>2. \A i \in DOMAIN entries : entries[i].old = t[entries[i].path] /\ entries[i].path \in Paths
  <2>1. \A i \in DOMAIN Entries(t, r) : Entries(t, r)[i] \in Kinds(t, r)
    BY <1>1, PlanParts
  <2>2. QED
    BY <1>1, <2>1 DEF Kinds, Changes
<1>3. Listed(Before(v, entries))
  BY UndoListed DEF Tidy
<1>4. OnePointer(Before(v, entries))
  <2> SUFFICES ASSUME NEW f \in Paths
               PROVE  \A a, b \in Text(Before(v, entries)[f]) \cap Supersessions : a = b
    BY DEF OnePointer
  <2>1. CASE Writes(entries, f)
    <3>1. At(entries, f) \in DOMAIN entries
      BY <2>1 DEF At, Writes
    <3>2. Before(v, entries)[f] = entries[At(entries, f)].old
      BY <2>1 DEF Before
    <3>3. QED
      BY <1>1, <1>2, <3>1, <3>2 DEF Tidy, OnePointer
  <2>2. CASE ~ Writes(entries, f)
    BY <2>2 DEF Before, Tidy, OnePointer
  <2>3. QED
    BY <2>1, <2>2
<1>5. QED
  BY <1>3, <1>4 DEF Tidy

(* Every other change than that of a superseded page gives its file a mark *)
(* it did not have and no later plan replaces.                             *)
LEMMA AddsMark ==
  ASSUME AbsentIsNoText, NEW t \in Trees, NEW r \in Requests, Listed(t), Plannable(t, r),
         NEW e \in Kinds(t, r), e.old = t[e.path], ~ IsSuperseded(e, r)
  PROVE  \E m : m \in e.new /\ m \notin Text(e.old) /\ m \notin Supersessions
<1>1. /\ r.proposal \in Proposals /\ r.dest \in Pages /\ Home[r.dest] \in Wikis
  BY RequestParts, PlanConstants
<1>2. /\ Section(r.proposal) \notin Supersessions /\ Wiki(Home[r.dest]) \notin Supersessions
      /\ Header \notin Supersessions /\ Skeleton(Home[r.dest]) \notin Supersessions
      /\ Applied(r.proposal, r.dest) \notin Supersessions
      /\ \A x : Link(r.dest, x) \notin Supersessions
  BY DEF Supersessions, SupersededBy, Section, Wiki, Header, Skeleton, Applied, Link
<1>3. CASE IsPage(e, r)
  <2>1. Section(r.proposal) \notin Text(e.old)
    BY <1>3, PlannedAfresh DEF IsPage
  <2>2. Section(r.proposal) \in e.new
    BY <1>3 DEF IsPage
  <2>3. QED
    BY <1>2, <2>1, <2>2
<1>4. CASE IsLink(e, r)
  <2>1. Title[r.proposal] \in Labels
    BY <1>1 DEF Labels
  <2>2. Link(r.dest, Title[r.proposal]) \in Links(r.dest)
    BY <2>1 DEF Links
  <2>3. Link(r.dest, Title[r.proposal]) \notin Text(e.old)
    BY <1>4, <2>2 DEF IsLink, Text
  <2>4. Link(r.dest, Title[r.proposal]) \in e.new
    BY <1>4 DEF IsLink
  <2>5. QED
    BY <1>2, <2>3, <2>4
<1>5. CASE IsCard(e, r)
  BY <1>2, <1>5 DEF IsCard, Text
<1>6. CASE IsNewIndex(e, r)
  BY <1>2, <1>6 DEF IsNewIndex, Text
<1>7. CASE IsRegistry(e, r)
  BY <1>2, <1>7 DEF IsRegistry
<1>8. CASE IsStatus(e, r)
  <2>1. Applied(r.proposal, r.dest) \notin Text(e.old)
    BY <1>1, <1>8, PlannedAfresh DEF IsStatus
  <2>2. QED
    BY <1>2, <1>8, <2>1 DEF IsStatus
<1>9. CASE IsRouter(t, e, r)
  <2>1. e.new = NewRouter(t, r) /\ e.old = t[Router] /\ CreatesNewWiki(t, r)
    BY <1>9 DEF IsRouter, NewRouter, Registering
  <2>2. CASE e.old = Absent
    BY <1>2, <2>1, <2>2, RouterOf DEF Text
  <2>3. CASE e.old # Absent
    <3>1. Generated(t)
      BY <1>9, <2>1, <2>3 DEF IsRouter, Generated, Text
    <3>2. Wiki(Home[r.dest]) \notin Text(t[Router])
      BY <2>1, <3>1, RouterOf DEF Listed, CreatesNewWiki, Known
    <3>3. Wiki(Home[r.dest]) \in e.new
      BY <2>1, RouterOf DEF NewRouter
    <3>4. QED
      BY <1>2, <2>1, <3>2, <3>3
  <2>4. QED
    BY <2>2, <2>3
<1>10. QED
  BY <1>3, <1>4, <1>5, <1>6, <1>7, <1>8, <1>9 DEF Kinds

(* Every change of a plan adds something to its file that no later plan    *)
(* replaces, which tells the new content from the old; but for a page that *)
(* is superseded again by the successor it has.                            *)
LEMMA Fruitful ==
  ASSUME AbsentIsNoText, OneSuccessor, NEW id, NEW entries, OfTidy(id, entries),
         NEW e, Has(entries, e)
  PROVE  ~ (Claim(e) \subseteq Text(e.old)) \/ e.new = e.old
<1>1. PICK t \in Trees, r \in Requests :
        Tidy(t) /\ Plannable(t, r) /\ id = PlanId(t, r) /\ entries = Entries(t, r)
  BY DEF OfTidy, OfVault
<1>2. e \in Kinds(t, r) /\ e.old = t[e.path] /\ e \in Changes
  <2>1. \A i \in 1 .. Len(entries) : entries[i] \in Kinds(t, r)
    BY <1>1, PlanParts
  <2>2. e \in Kinds(t, r)
    BY <2>1 DEF Has
  <2>3. QED
    BY <2>2 DEF Kinds
<1>3. CASE IsSuperseded(e, r)
  <2>1. /\ e.path = r.supersedes /\ r.supersedes # NoPage
        /\ e.new = (Text(e.old) \ Supersessions) \cup {SupersededBy(r.dest)}
    BY <1>3 DEF IsSuperseded
  <2>2. SupersededBy(r.dest) \in Supersessions
    BY RequestParts DEF Supersessions
  <2>3. SupersededBy(r.dest) \notin Replaceable(e.path)
    BY <2>1 DEF Replaceable, OneSuccessor
  <2>4. CASE SupersededBy(r.dest) \notin Text(e.old)
    BY <2>1, <2>3, <2>4 DEF Claim, Kept
  <2>5. CASE SupersededBy(r.dest) \in Text(e.old)
    <3>1. \A a \in Text(e.old) \cap Supersessions : a = SupersededBy(r.dest)
      BY <1>1, <1>2, <2>2, <2>5 DEF Tidy, OnePointer, Changes
    <3>2. e.new = Text(e.old)
      BY <2>1, <2>5, <3>1
    <3>3. e.old # Absent
      BY <2>5 DEF Text
    <3>4. QED
      BY <3>2, <3>3 DEF Text
  <2>6. QED
    BY <2>4, <2>5
<1>4. CASE ~ IsSuperseded(e, r)
  <2>1. PICK m : m \in e.new /\ m \notin Text(e.old) /\ m \notin Supersessions
    BY <1>1, <1>2, <1>4, AddsMark DEF Tidy
  <2>2. QED
    BY <2>1 DEF Claim, Kept, Replaceable
<1>5. QED
  BY <1>3, <1>4

(* A plan changes something: at least the status of its proposal.          *)
LEMMA ChangesSomething ==
  ASSUME AbsentIsNoText, NEW id, NEW entries, OfTidy(id, entries)
  PROVE  \E i \in DOMAIN entries : entries[i].old # entries[i].new
<1>1. PICK t \in Trees, r \in Requests :
        Plannable(t, r) /\ id = PlanId(t, r) /\ entries = Entries(t, r)
  BY DEF OfTidy, OfVault
<1>2. PICK i \in DOMAIN entries : entries[i] = StatusChange(t, r)
  BY <1>1, PlanParts
<1>3. /\ entries[i].old = t[r.proposal]
      /\ entries[i].new = Text(t[r.proposal]) \cup {Applied(r.proposal, r.dest)}
  BY <1>2 DEF StatusChange, Change
<1>4. Applied(r.proposal, r.dest) \notin Text(t[r.proposal])
  BY <1>1, RequestParts, PlannedAfresh
<1>5. Text(entries[i].new) = entries[i].new
  <2>1. entries[i] \in Changes
    BY <1>1, PlanParts, EntryFields
  <2>2. QED
    BY <2>1, TextOfMarks DEF Changes
<1>6. QED
  BY <1>3, <1>4, <1>5

-----------------------------------------------------------------------------
(* What the vault shows                                                    *)

(* The records m and the transactions u under way leave id half done.      *)
Half(m, u, id) == m[id].state = "pending" \/ id \in u

(* The view of the vault t.                                                *)
Seen(t, m, u) ==
  [f \in Paths |->
     IF \E id \in DOMAIN m : Half(m, u, id) /\ Writes(m[id].entries, f)
     THEN LET id == CHOOSE id \in DOMAIN m : Half(m, u, id) /\ Writes(m[id].entries, f) IN
          m[id].entries[At(m[id].entries, f)][IF m[id].state = "pending" THEN "old" ELSE "new"]
     ELSE t[f]]

LEMMA ViewSeen == View = Seen(tree, manifest, unsettled)
  BY DEF View, Seen, Shown, Touches, Unfinished, Pending, Recorded, Half, Writes, At

LEMMA ViewSeenNext == View' = Seen(tree', manifest', unsettled')
  BY DEF View, Seen, Shown, Touches, Unfinished, Pending, Recorded, Half, Writes, At

LEMMA SeenNone ==
  ASSUME NEW t \in Trees, NEW m, NEW u, \A id \in DOMAIN m : ~ Half(m, u, id)
  PROVE  Seen(t, m, u) = t
  BY DEF Seen, Trees

LEMMA SeenOne ==
  ASSUME NEW t, NEW m, NEW u, NEW id \in DOMAIN m, Half(m, u, id),
         \A k \in DOMAIN m : Half(m, u, k) => k = id
  PROVE  Seen(t, m, u) = IF m[id].state = "pending" THEN Before(t, m[id].entries)
                                                    ELSE After(t, m[id].entries)
<1>1. \A f : (\E k \in DOMAIN m : Half(m, u, k) /\ Writes(m[k].entries, f))
               <=> Writes(m[id].entries, f)
  OBVIOUS
<1>2. \A f : Writes(m[id].entries, f) =>
               (CHOOSE k \in DOMAIN m : Half(m, u, k) /\ Writes(m[k].entries, f)) = id
  OBVIOUS
<1>3. CASE m[id].state = "pending"
  BY <1>1, <1>2, <1>3 DEF Seen, Before
<1>4. CASE m[id].state # "pending"
  BY <1>1, <1>2, <1>4 DEF Seen, After
<1>5. QED
  BY <1>3, <1>4

LEMMA LedgerIs ==
  Ledger = [id \in {id \in DOMAIN manifest : manifest[id].state # "pending"} |-> manifest[id]]
  BY DEF Ledger, Pending, Recorded

-----------------------------------------------------------------------------
(* The planner inside the atomic specification is the same planner         *)

LEMMA SameMarks ==
  /\ Atomic!Header = Header /\ Atomic!Supersessions = Supersessions
  /\ Atomic!WikiMarks = WikiMarks /\ Atomic!Labels = Labels
  /\ \A p : Atomic!Section(p) = Section(p) /\ Atomic!Titled(p) = Titled(p)
  /\ \A g : Atomic!SupersededBy(g) = SupersededBy(g) /\ Atomic!Links(g) = Links(g)
  /\ \A g, l : Atomic!Link(g, l) = Link(g, l)
  /\ \A w : Atomic!Wiki(w) = Wiki(w) /\ Atomic!Skeleton(w) = Skeleton(w)
  /\ \A p, g : Atomic!Applied(p, g) = Applied(p, g)
  /\ \A c : Atomic!Text(c) = Text(c)
  /\ \A f, old, new : Atomic!Change(f, old, new) = Change(f, old, new)
  BY DEF Atomic!Header, Header, Atomic!Supersessions, Supersessions, Atomic!SupersededBy,
         SupersededBy, Atomic!WikiMarks, WikiMarks, Atomic!Wiki, Wiki, Atomic!Labels, Labels,
         Atomic!Section, Section, Atomic!Titled, Titled, Atomic!Link, Link, Atomic!Links, Links,
         Atomic!Skeleton, Skeleton, Atomic!Applied, Applied, Atomic!Text, Text,
         Atomic!Change, Change

LEMMA SamePlans ==
  ASSUME NEW t, NEW r
  PROVE  /\ Atomic!Entries(t, r) = Entries(t, r) /\ Atomic!PlanId(t, r) = PlanId(t, r)
         /\ Atomic!Plannable(t, r) = Plannable(t, r)
<1>1. Atomic!PageChange(t, r) = PageChange(t, r)
  BY SameMarks DEF Atomic!PageChange, PageChange
<1>2. Atomic!SupersedeChange(t, r) = SupersedeChange(t, r)
  BY SameMarks DEF Atomic!SupersedeChange, SupersedeChange
<1>3. Atomic!IndexChange(t, r) = IndexChange(t, r)
  BY SameMarks DEF Atomic!IndexChange, IndexChange
<1>4. \A f, x : Atomic!SkeletonChange(t, f, x) = SkeletonChange(t, f, x)
  BY SameMarks DEF Atomic!SkeletonChange, SkeletonChange
<1>5. \A x : Atomic!RouterChange(t, x) = RouterChange(t, x)
  BY SameMarks DEF Atomic!RouterChange, RouterChange
<1>6. Atomic!RegistrationChanges(t, r) = RegistrationChanges(t, r)
  BY SameMarks, <1>4, <1>5 DEF Atomic!RegistrationChanges, RegistrationChanges
<1>7. Atomic!CreatesNewWiki(t, r) = CreatesNewWiki(t, r)
  BY SameMarks DEF Atomic!CreatesNewWiki, CreatesNewWiki, Atomic!Known, Known
<1>8. Atomic!PlanChanges(t, r) = PlanChanges(t, r)
  BY <1>1, <1>2, <1>3, <1>6, <1>7 DEF Atomic!PlanChanges, PlanChanges
<1>9. Atomic!Entries(t, r) = Entries(t, r)
  BY <1>8, SameMarks DEF Atomic!Entries, Entries
<1>10. Atomic!PlanId(t, r) = PlanId(t, r)
  BY <1>8 DEF Atomic!PlanId, PlanId, Atomic!PlanAction, PlanAction
<1>11. Atomic!Plannable(t, r) = Plannable(t, r)
  BY SameMarks DEF Atomic!Plannable, Plannable, Atomic!IsNoop, IsNoop
<1>12. QED
  BY <1>9, <1>10, <1>11

(* The ledger l with an outcome for id.                                    *)
Outcome(l, id, state, entries) ==
  [k \in DOMAIN l \cup {id} |-> IF k = id THEN [state |-> state, entries |-> entries] ELSE l[k]]

LEMMA AtomicApply ==
  ASSUME NEW r \in Requests, Plannable(View, r), PlanId(View, r) \notin DOMAIN Ledger,
         View' = After(View, Entries(View, r)),
         Ledger' = Outcome(Ledger, PlanId(View, r), "applied", Entries(View, r))
  PROVE  Atomic!Next
<1>1. DOMAIN View = Paths
  BY DEF View
<1>2. After(View, Entries(View, r)) = Atomic!Overlay(Entries(View, r), "new")
  BY <1>1 DEF After, Writes, At, Atomic!Overlay
<1>3. Atomic!Apply(r)
  BY <1>2, SamePlans DEF Atomic!Apply, Atomic!Outcome, Outcome
<1>4. QED
  BY <1>3 DEF Atomic!Next

LEMMA AtomicAbandon ==
  ASSUME NEW r \in Requests, Plannable(View, r), PlanId(View, r) \notin DOMAIN Ledger,
         View' = View, Ledger' = Outcome(Ledger, PlanId(View, r), "rolled_back", Entries(View, r))
  PROVE  Atomic!Next
<1>1. Atomic!Abandon(r)
  BY SamePlans DEF Atomic!Abandon, Atomic!Outcome, Outcome
<1>2. QED
  BY <1>1 DEF Atomic!Next

LEMMA AtomicUndo ==
  ASSUME NEW id \in DOMAIN Ledger, NEW entries, Ledger[id].state = "applied",
         Ledger[id].entries = entries,
         \A i \in DOMAIN entries : View[entries[i].path] = entries[i].new,
         View' = Before(View, entries), Ledger' = Outcome(Ledger, id, "rolled_back", entries)
  PROVE  Atomic!Next
<1>1. DOMAIN View = Paths
  BY DEF View
<1>2. Before(View, entries) = Atomic!Overlay(entries, "old")
  BY <1>1 DEF Before, Writes, At, Atomic!Overlay
<1>3. Atomic!Undo(id)
  BY <1>2 DEF Atomic!Undo, Atomic!Outcome, Outcome
<1>4. QED
  BY <1>3 DEF Atomic!Next

-----------------------------------------------------------------------------
(* A transaction takes effect at one instant                               *)

(* Under these conditions: one process at a time; an interrupted           *)
(* transaction is settled before the next one; nobody edits the files; no  *)
(* two changes of a plan are for one file; nobody asks for two successors  *)
(* of one page; and the vault starts out with no page that carries two     *)
(* pointers and no wiki in its router that is not registered.              *)
Serial ==
  /\ OneProcess /\ FinishFirst /\ Editable = {}
  /\ SeparatePages /\ OneSuccessor /\ AbsentIsNoText /\ Tidy(InitialTree)

(* A pending transaction is a plan of the vault as it is seen; every plan  *)
(* was one of a vault that lists the registered wikis in its router.       *)
Planning(t, m, v, x) ==
  /\ Tidy(v)
  /\ \A id \in DOMAIN m : OfTidy(id, m[id].entries)
  /\ \A id \in DOMAIN m : m[id].state = "pending" => OfVault(id, m[id].entries, v)
  /\ x.phase = "record" => OfVault(x.id, x.entries, t)

RefInv ==
  /\ KeepInv /\ edited = {}
  /\ \A p \in Processes : Planning(tree, manifest, View, run[p])
  /\ Tidy(View)
  /\ \A id \in Recorded : OfTidy(id, manifest[id].entries)

LEMMA RefParts ==
  ASSUME Serial, RefInv, NEW p \in Processes
  PROVE  /\ KeepInv /\ OneInv /\ SoloInv /\ Alone /\ edited = {} /\ tree \in Trees
         /\ Planning(tree, manifest, View, run[p])
         /\ Holds(manifest, run[p]) /\ Tracks(tree, edited, run[p])
         /\ AllStand(tree, edited, manifest, unsettled)
  BY KeepParts, SoloParts DEF RefInv

LEMMA RefNext ==
  ASSUME Serial, RefInv, NEW p \in Processes, Step(p), NEW v, View' = v,
         Planning(tree', manifest', v, run'[p])
  PROVE  RefInv'
<1>1. KeepInv'
  <2>1. Registry \notin Editable /\ Next
    BY DEF Serial, Next
  <2>2. QED
    BY <2>1, NextKeep DEF Serial, RefInv
<1>2. edited' = {}
  <2>1. CASE run[p].phase = "idle"
    BY <2>1, BeginSolo, RefParts DEF Serial
  <2>2. CASE run[p].phase # "idle"
    BY <2>2, WorkSolo, RefParts DEF Serial
  <2>3. QED
    BY <2>1, <2>2
<1>3. \A q \in Processes : q = p
  BY DEF Serial, OneProcess
<1>4. \A q \in Processes : Planning(tree', manifest', View', run'[q])
  BY <1>3
<1>5. QED
  BY <1>1, <1>2, <1>4 DEF RefInv, Planning, Recorded

(* A step that changes no file and no record shows nothing new.            *)
LEMMA QuietRef ==
  ASSUME Serial, RefInv, NEW p \in Processes, Step(p), UNCHANGED <<tree, manifest, unsettled>>
  PROVE  RefInv' /\ UNCHANGED <<View, Ledger>>
<1>1. View' = View
  BY ViewSeen, ViewSeenNext
<1>2. Ledger' = Ledger
  BY DEF Ledger, Pending, Recorded
<1>3. Planning(tree, manifest, View, run[p])
  BY RefParts
<1>4. run'[p].phase = "record" => OfVault(run'[p].id, run'[p].entries, tree)
  <2>1. CASE run[p].phase = "idle"
    BY <2>1, BeginSolo, RefParts DEF OfVault, Serial
  <2>2. CASE run[p].phase # "idle"
    BY <2>2, WorkSolo, RefParts DEF Serial
  <2>3. QED
    BY <2>1, <2>2
<1>5. Planning(tree', manifest', View, run'[p])
  BY <1>3, <1>4 DEF Planning
<1>6. QED
  BY <1>1, <1>2, <1>5, RefNext

(* The transaction of the process, and the others.                         *)
LEMMA OthersDone ==
  ASSUME Serial, RefInv, NEW p \in Processes, run[p].phase # "idle"
  PROVE  /\ \A k \in DOMAIN manifest : Half(manifest, unsettled, k) => k = run[p].id
         /\ run[p].id \in DOMAIN manifest => OfTidy(run[p].id, run[p].entries)
         /\ run[p].entries \in Seq(Changes) /\ Distinct(run[p].entries)
         /\ DOMAIN run[p].entries = 1 .. Len(run[p].entries)
<1>1. \A k \in DOMAIN manifest : Half(manifest, unsettled, k) => k = run[p].id
  BY RefParts DEF Alone, Done, Half, Recorded
<1>2. FromPlan(run[p].id, run[p].entries)
  BY RefParts DEF Holds
<1>3. run[p].entries \in Seq(Changes) /\ Distinct(run[p].entries)
  BY <1>2, EntryOfPlan DEF Serial
<1>4. run[p].id \in DOMAIN manifest => OfTidy(run[p].id, run[p].entries)
  <2>1. run[p].phase \in {"idle", "record", "check", "write", "audit"}
    BY RefParts, SoloParts DEF Runs
  <2>2. CASE run[p].phase = "record"
    BY <2>2, RefParts DEF Holds
  <2>3. CASE run[p].phase \in {"check", "write", "audit"}
    <3>1. run[p].id \in DOMAIN manifest /\ manifest[run[p].id].entries = run[p].entries
      BY <2>3, RefParts DEF Holds
    <3>2. OfTidy(run[p].id, manifest[run[p].id].entries)
      BY <3>1, RefParts DEF Planning
    <3>3. QED
      BY <3>1, <3>2
  <2>4. QED
    BY <2>1, <2>2, <2>3
<1>5. QED
  BY <1>1, <1>3, <1>4

(* A transaction on record: what the vault shows of it before a step ...   *)
LEMMA ViewOf ==
  ASSUME Serial, RefInv, NEW p \in Processes, run[p].phase \in {"check", "write", "audit"}
  PROVE  LET x == run[p] IN
         /\ x.id \in DOMAIN manifest /\ manifest[x.id].entries = x.entries
         /\ View = IF manifest[x.id].state = "pending" THEN Before(tree, x.entries)
                   ELSE IF x.id \in unsettled THEN After(tree, x.entries) ELSE tree
<1> DEFINE x == run[p]
<1>1. x.id \in DOMAIN manifest /\ manifest[x.id].entries = x.entries /\ tree \in Trees
  BY RefParts DEF Holds
<1>2. \A k \in DOMAIN manifest : Half(manifest, unsettled, k) => k = x.id
  BY OthersDone
<1>3. CASE Half(manifest, unsettled, x.id)
  BY <1>1, <1>2, <1>3, ViewSeen, SeenOne DEF Half
<1>4. CASE ~ Half(manifest, unsettled, x.id)
  <2>1. View = tree
    BY <1>1, <1>2, <1>4, ViewSeen, SeenNone
  <2>2. QED
    BY <1>1, <1>4, <2>1 DEF Half
<1>5. QED
  BY <1>3, <1>4

(* ... and after one.                                                      *)
LEMMA ViewAfter ==
  ASSUME Serial, RefInv, NEW p \in Processes, Step(p), run[p].phase # "idle",
         run[p].id \in DOMAIN manifest', manifest'[run[p].id].entries = run[p].entries
  PROVE  LET x == run[p] IN
         /\ tree' \in Trees
         /\ View' = IF manifest'[x.id].state = "pending" THEN Before(tree', x.entries)
                    ELSE IF x.id \in unsettled' THEN After(tree', x.entries) ELSE tree'
<1> DEFINE x == run[p]
<1>1. tree' \in Trees
  <2>1. KeepInv'
    BY NextKeep DEF Serial, RefInv, Next
  <2>2. QED
    BY <2>1 DEF KeepInv, OneInv, SoloInv, IInv, TypeOK, Trees
<1>2. \A k \in DOMAIN manifest' : Half(manifest', unsettled', k) => k = x.id
  <2>1. \A k \in DOMAIN manifest : Half(manifest, unsettled, k) => k = x.id
    BY OthersDone
  <2>2. /\ \A k \in DOMAIN manifest' : k \in DOMAIN manifest \/ k = x.id
        /\ \A k \in DOMAIN manifest' : k # x.id => manifest'[k] = manifest[k]
        /\ \A k : k # x.id => (k \in unsettled' <=> k \in unsettled)
    BY WorkSolo, RefParts DEF Serial, Recorded
  <2>3. QED
    BY <2>1, <2>2 DEF Half
<1>3. CASE Half(manifest', unsettled', x.id)
  <2>1. View' = IF manifest'[x.id].state = "pending" THEN Before(tree', manifest'[x.id].entries)
                                               ELSE After(tree', manifest'[x.id].entries)
    BY <1>2, <1>3, ViewSeenNext, SeenOne
  <2>2. QED
    BY <1>1, <1>3, <2>1 DEF Half
<1>4. CASE ~ Half(manifest', unsettled', x.id)
  <2>1. View' = tree'
    BY <1>1, <1>2, <1>4, ViewSeenNext, SeenNone
  <2>2. QED
    BY <1>1, <1>4, <2>1 DEF Half
<1>5. QED
  BY <1>3, <1>4

(* What is left to be shown of a step of a process that is under way.      *)
LEMMA WorkRef ==
  ASSUME Serial, RefInv, NEW p \in Processes, Step(p), run[p].phase # "idle",
         NEW v, View' = v, Tidy(v),
         run[p].id \in DOMAIN manifest' =>
           /\ OfTidy(run[p].id, manifest'[run[p].id].entries)
           /\ manifest'[run[p].id].state = "pending" =>
                OfVault(run[p].id, manifest'[run[p].id].entries, v)
  PROVE  RefInv'
<1> DEFINE x == run[p]
<1>1. ASSUME NEW k \in DOMAIN manifest', k # x.id
      PROVE  OfTidy(k, manifest'[k].entries) /\ manifest'[k].state # "pending"
  <2>1. k \in DOMAIN manifest /\ manifest'[k] = manifest[k]
    BY <1>1, WorkSolo, RefParts DEF Serial, Recorded
  <2>2. manifest[k].state # "pending"
    BY <1>1, <2>1, OthersDone DEF Half
  <2>3. QED
    BY <2>1, <2>2, RefParts DEF Planning
<1>2. run'[p].phase # "record"
  BY WorkSolo, RefParts DEF Serial
<1>3. Planning(tree', manifest', v, run'[p])
  BY <1>1, <1>2 DEF Planning
<1>4. QED
  BY <1>3, RefNext

(* The targets of a transaction that is being written ...                  *)
LEMMA TargetsAre ==
  ASSUME Serial, RefInv, NEW p \in Processes, run[p].phase \in {"write", "audit"}
  PROVE  LET x == run[p] IN
         /\ \A i \in DOMAIN x.entries :
              tree[x.entries[i].path] \in {x.entries[i].old, x.entries[i].new}
         /\ (\A i \in DOMAIN x.entries : Passed(x, i)) =>
              \A i \in DOMAIN x.entries : tree[x.entries[i].path] = Aim(x, i)
<1> DEFINE x == run[p]
<1>1. Tracks(tree, {}, x) /\ Distinct(x.entries)
  BY RefParts, OthersDone
<1>2. ASSUME NEW i \in DOMAIN x.entries
      PROVE  /\ x.cur[i] \in {x.entries[i].old, x.entries[i].new}
             /\ \/ tree[x.entries[i].path] = Aim(x, i)
                \/ ~ Passed(x, i) /\ tree[x.entries[i].path] = x.cur[i]
  <2>1. x.cur[i] \in {x.entries[i].old, x.entries[i].new} /\ Tracked(tree, {}, x, i)
    BY <1>1 DEF Tracks
  <2>2. \A j \in DOMAIN x.entries : x.entries[j].path = x.entries[i].path => j = i
    BY <1>1 DEF Distinct
  <2>3. QED
    BY <2>1, <2>2 DEF Tracked
<1>3. QED
  BY <1>2 DEF Aim

(* ... and of one that stands.                                             *)
LEMMA StandingIsNew ==
  ASSUME Serial, RefInv, NEW p \in Processes, run[p].phase \in {"write", "audit"},
         Standing(manifest, unsettled, run[p].id)
  PROVE  /\ \A i \in DOMAIN run[p].entries : tree[run[p].entries[i].path] = run[p].entries[i].new
         /\ \E i \in DOMAIN run[p].entries : run[p].entries[i].old # run[p].entries[i].new
<1> DEFINE x == run[p]
<1>1. /\ x.id \in DOMAIN manifest /\ manifest[x.id].entries = x.entries
      /\ OfTidy(x.id, x.entries) /\ DOMAIN x.entries = 1 .. Len(x.entries)
  BY ViewOf, OthersDone
<1>2. Stands(tree, {}, x.entries)
  BY <1>1, RefParts DEF AllStand
<1>3. ASSUME NEW i \in DOMAIN x.entries
      PROVE  tree[x.entries[i].path] = x.entries[i].new
  <2>1. Has(x.entries, x.entries[i])
    BY <1>1 DEF Has
  <2>2. Claim(x.entries[i]) \subseteq Text(tree[x.entries[i].path])
    BY <1>2, <2>1 DEF Stands
  <2>3. \/ ~ (Claim(x.entries[i]) \subseteq Text(x.entries[i].old))
        \/ x.entries[i].new = x.entries[i].old
    BY <1>1, <2>1, Fruitful DEF Serial
  <2>4. tree[x.entries[i].path] \in {x.entries[i].old, x.entries[i].new}
    BY TargetsAre
  <2>5. QED
    BY <2>2, <2>3, <2>4
<1>4. \E i \in DOMAIN x.entries : x.entries[i].old # x.entries[i].new
  BY <1>1, ChangesSomething DEF Serial
<1>5. QED
  BY <1>3, <1>4

-----------------------------------------------------------------------------
(* Every step, under View and Ledger                                       *)

LEMMA OfVaultStart ==
  ASSUME NEW t \in Trees, NEW id, NEW entries, OfVault(id, entries, t)
  PROVE  /\ \A i \in DOMAIN entries : t[entries[i].path] = entries[i].old
         /\ DOMAIN entries # {}
<1>1. PICK r \in Requests :
        Plannable(t, r) /\ id = PlanId(t, r) /\ entries = Entries(t, r)
  BY DEF OfVault
<1>2. 1 \in DOMAIN entries
  BY <1>1, PlanParts
<1>3. Planned(t, entries)
  BY <1>1, EntriesStartFromDisk
<1>4. QED
  BY <1>2, <1>3 DEF Planned, StartsFrom

(* What entries write hides the difference of two vaults there.            *)
LEMMA OverlaySame ==
  ASSUME NEW t, NEW u, NEW entries,
         \A f \in Paths : ~ Writes(entries, f) => t[f] = u[f]
  PROVE  Before(t, entries) = Before(u, entries) /\ After(t, entries) = After(u, entries)
  BY DEF Before, After

LEMMA OverlayIsTree ==
  ASSUME NEW t \in Trees, NEW entries \in Seq(Changes)
  PROVE  Before(t, entries) \in Trees /\ After(t, entries) \in Trees
<1>1. \A f \in Paths : Writes(entries, f) => At(entries, f) \in DOMAIN entries
  BY DEF At, Writes
<1>2. \A i \in DOMAIN entries : entries[i].old \in Content /\ entries[i].new \in Content
  BY EntryFields
<1>3. QED
  BY <1>1, <1>2 DEF Before, After, Trees

LEMMA LedgerOutcome ==
  ASSUME NEW id \in DOMAIN manifest, NEW state, state # "pending", NEW entries,
         manifest' = [manifest EXCEPT ![id] = Record(state, entries)]
  PROVE  Ledger' = Outcome(Ledger, id, state, entries)
<1>1. DOMAIN manifest' = DOMAIN manifest
  OBVIOUS
<1>2. /\ manifest'[id] = [state |-> state, entries |-> entries]
      /\ \A k \in DOMAIN manifest : k # id => manifest'[k] = manifest[k]
  BY DEF Record
<1>3. Ledger' = [k \in {k \in DOMAIN manifest' : manifest'[k].state # "pending"} |-> manifest'[k]]
  BY DEF Ledger, Pending, Recorded
<1>4. {k \in DOMAIN manifest' : manifest'[k].state # "pending"}
        = {k \in DOMAIN manifest : manifest[k].state # "pending"} \cup {id}
  BY <1>1, <1>2
<1>5. /\ DOMAIN Ledger = {k \in DOMAIN manifest : manifest[k].state # "pending"}
      /\ \A k \in DOMAIN Ledger : Ledger[k] = manifest[k]
  BY DEF Ledger, Pending, Recorded
<1>6. QED
  BY <1>2, <1>3, <1>4, <1>5 DEF Outcome

(* The record: a plan of the vault as it is, which shows no other one.     *)
LEMMA WriteManifestRef ==
  ASSUME Serial, RefInv, NEW p \in Processes, WriteManifest(p)
  PROVE  RefInv' /\ UNCHANGED <<View, Ledger>>
<1> DEFINE x == run[p]
<1>1. /\ x.phase = "record" /\ tree' = tree /\ unsettled' = unsettled /\ Step(p)
      /\ manifest' = With(manifest, x.id, Record("pending", x.entries))
  BY DEF WriteManifest, Step
<1>2. x.id \notin DOMAIN manifest /\ tree \in Trees
  BY <1>1, RefParts DEF Holds
<1>3. View = tree
  <2>1. \A k \in DOMAIN manifest : ~ Half(manifest, unsettled, k)
    BY <1>1, <1>2, OthersDone
  <2>2. QED
    BY <1>2, <2>1, ViewSeen, SeenNone
<1>4. OfVault(x.id, x.entries, tree) /\ Tidy(tree)
  BY <1>1, <1>3, RefParts DEF Planning
<1>5. /\ x.id \in DOMAIN manifest' /\ manifest'[x.id].entries = x.entries
      /\ manifest'[x.id].state = "pending"
      /\ \A k \in DOMAIN manifest' : k # x.id => k \in DOMAIN manifest /\ manifest'[k] = manifest[k]
      /\ DOMAIN manifest \subseteq DOMAIN manifest'
  BY <1>1 DEF With, Record
<1>6. View' = tree
  <2>1. View' = Before(tree, x.entries)
    BY <1>1, <1>5, ViewAfter
  <2>2. x.entries \in Seq(Changes) /\ Distinct(x.entries)
    BY <1>1, OthersDone
  <2>3. tree = Before(tree, x.entries)
    BY <1>2, <1>4, <2>2, OfVaultStart, IsBefore
  <2>4. QED
    BY <2>1, <2>3
<1>7. Ledger' = Ledger
  <2>1. Ledger' = [k \in {k \in DOMAIN manifest' : manifest'[k].state # "pending"} |-> manifest'[k]]
    BY DEF Ledger, Pending, Recorded
  <2>2. {k \in DOMAIN manifest' : manifest'[k].state # "pending"}
          = {k \in DOMAIN manifest : manifest[k].state # "pending"}
    BY <1>2, <1>5
  <2>3. \A k \in DOMAIN manifest : manifest'[k] = manifest[k]
    BY <1>2, <1>5
  <2>4. QED
    BY <2>1, <2>2, <2>3, LedgerIs
<1>8. OfTidy(x.id, x.entries)
  BY <1>2, <1>4 DEF OfTidy
<1>9. RefInv'
  BY <1>1, <1>4, <1>5, <1>6, <1>8, WorkRef
<1>10. QED
  BY <1>3, <1>6, <1>7, <1>9

(* A write or a restore: it shows only when the outcome is recorded.       *)
LEMMA StoreRef ==
  ASSUME Serial, RefInv, NEW p \in Processes, Step(p), run[p].phase = "write",
         run[p].next \in DOMAIN run[p].entries, NEW content, NEW next,
         Store(p, run[p].entries[run[p].next], content, next), UNCHANGED manifest
  PROVE  RefInv' /\ UNCHANGED <<View, Ledger>>
<1> DEFINE x == run[p]
           e == x.entries[x.next]
<1>1. CASE UNCHANGED <<tree, unsettled>>
  BY <1>1, QuietRef
<1>2. CASE ~ UNCHANGED <<tree, unsettled>>
  <2>1. tree' = [tree EXCEPT ![e.path] = content] /\ unsettled' = unsettled \cup {x.id}
    BY <1>2 DEF Store
  <2>2. /\ x.id \in DOMAIN manifest /\ manifest[x.id].entries = x.entries
        /\ View = IF manifest[x.id].state = "pending" THEN Before(tree, x.entries)
                  ELSE IF x.id \in unsettled THEN After(tree, x.entries) ELSE tree
    BY ViewOf
  <2>3. /\ Before(tree', x.entries) = Before(tree, x.entries)
        /\ After(tree', x.entries) = After(tree, x.entries)
    <3>1. \A f \in Paths : ~ Writes(x.entries, f) => tree'[f] = tree[f]
      BY <2>1, RefParts DEF Writes, Trees
    <3>2. QED
      BY <3>1, OverlaySame
  <2>4. View' = IF manifest[x.id].state = "pending" THEN Before(tree', x.entries)
                                                    ELSE After(tree', x.entries)
    BY <2>1, <2>2, ViewAfter
  <2>5. View' = View
    <3>1. CASE manifest[x.id].state = "pending" \/ x.id \in unsettled
      BY <2>2, <2>3, <2>4, <3>1
    <3>2. CASE manifest[x.id].state # "pending" /\ x.id \notin unsettled
      <4>1. manifest[x.id].state = "applied"
        BY <2>2, <3>2, RefParts, SoloParts DEF Holds, Runs, States
      <4>2. \A i \in DOMAIN x.entries : tree[x.entries[i].path] = x.entries[i].new
        BY <2>2, <3>2, <4>1, StandingIsNew DEF Standing
      <4>3. x.entries \in Seq(Changes) /\ Distinct(x.entries) /\ tree \in Trees
        BY OthersDone, RefParts
      <4>4. tree = After(tree, x.entries)
        BY <4>2, <4>3, IsAfter
      <4>5. QED
        BY <2>2, <2>3, <2>4, <3>2, <4>4
    <3>3. QED
      BY <3>1, <3>2
  <2>6. Ledger' = Ledger
    BY DEF Ledger, Pending, Recorded
  <2>7. Tidy(View) /\ OfTidy(x.id, manifest[x.id].entries)
        /\ (manifest[x.id].state = "pending" => OfVault(x.id, manifest[x.id].entries, View))
    BY <2>2, RefParts DEF Planning
  <2>8. RefInv'
    BY <2>5, <2>7, WorkRef
  <2>9. QED
    BY <2>5, <2>6, <2>8
<1>3. QED
  BY <1>1, <1>2

(* The writes of a repair end: the vault is as it was shown.               *)
LEMMA EndWritesRef ==
  ASSUME Serial, RefInv, NEW p \in Processes, EndWrites(p)
  PROVE  RefInv' /\ UNCHANGED <<View, Ledger>>
<1> DEFINE x == run[p]
<1>1. /\ x.phase = "write" /\ x.op = "apply" /\ x.next > Len(x.entries) /\ Step(p)
      /\ UNCHANGED <<tree, manifest>>
  BY DEF EndWrites, Step
<1>2. CASE unsettled' = unsettled
  BY <1>1, <1>2, QuietRef
<1>3. CASE unsettled' # unsettled
  <2>1. x.state = "applied" /\ unsettled' = unsettled \ {x.id} /\ x.id \in unsettled
    BY <1>3 DEF EndWrites
  <2>2. /\ x.id \in DOMAIN manifest /\ manifest[x.id].entries = x.entries
        /\ View = IF manifest[x.id].state = "pending" THEN Before(tree, x.entries)
                  ELSE IF x.id \in unsettled THEN After(tree, x.entries) ELSE tree
    BY <1>1, ViewOf
  <2>3. manifest[x.id].state = "applied"
    BY <1>1, <2>1, RefParts DEF Holds
  <2>4. View = After(tree, x.entries)
    BY <2>1, <2>2, <2>3
  <2>5. View' = tree
    BY <1>1, <2>1, <2>2, <2>3, ViewAfter
  <2>6. /\ x.entries \in Seq(Changes) /\ Distinct(x.entries) /\ tree \in Trees
        /\ DOMAIN x.entries = 1 .. Len(x.entries) /\ x.next \in Nat
    BY <1>1, OthersDone, RefParts, SoloParts
  <2>7. \A i \in DOMAIN x.entries : Passed(x, i)
    BY <1>1, <2>6 DEF Passed
  <2>8. \A i \in DOMAIN x.entries : tree[x.entries[i].path] = x.entries[i].new
    BY <1>1, <2>7, TargetsAre DEF Aim
  <2>9. tree = After(tree, x.entries)
    BY <2>6, <2>8, IsAfter
  <2>10. View' = View
    BY <2>4, <2>5, <2>9
  <2>11. Ledger' = Ledger
    BY <1>1 DEF Ledger, Pending, Recorded
  <2>12. Tidy(View) /\ OfTidy(x.id, manifest[x.id].entries)
    BY <2>2, RefParts DEF Planning
  <2>13. RefInv'
    BY <1>1, <2>3, <2>10, <2>12, WorkRef
  <2>14. QED
    BY <2>10, <2>11, <2>13
<1>4. QED
  BY <1>2, <1>3

(* A plan takes effect when it is recorded as applied.                     *)
LEMMA MarkAppliedRef ==
  ASSUME Serial, RefInv, NEW p \in Processes, MarkApplied(p)
  PROVE  RefInv' /\ Atomic!Next
<1> DEFINE x == run[p]
<1>1. /\ x.phase = "audit" /\ x.op = "apply" /\ Step(p) /\ tree' = tree
      /\ manifest' = [manifest EXCEPT ![x.id] = Record("applied", x.entries)]
      /\ unsettled' = unsettled \ {x.id}
  BY DEF MarkApplied, Mark, Step
<1>2. manifest[x.id].state = "pending"
  BY <1>1, RefParts DEF Holds
<1>3. /\ x.id \in DOMAIN manifest /\ manifest[x.id].entries = x.entries
      /\ View = Before(tree, x.entries)
  BY <1>1, <1>2, ViewOf
<1>4. /\ x.id \in DOMAIN manifest' /\ manifest'[x.id].entries = x.entries
      /\ manifest'[x.id].state = "applied"
  BY <1>1, <1>3 DEF Record
<1>5. View' = tree
  BY <1>1, <1>4, ViewAfter
<1>6. /\ x.entries \in Seq(Changes) /\ Distinct(x.entries) /\ tree \in Trees
      /\ View \in Trees
  BY <1>1, <1>3, OthersDone, RefParts, OverlayIsTree
<1>7. \A i \in DOMAIN x.entries : tree[x.entries[i].path] = x.entries[i].new
  BY <1>1, TargetsAre DEF Passed, Aim
<1>8. View' = After(View, x.entries)
  <2>1. \A f \in Paths : (\A i \in DOMAIN x.entries : x.entries[i].path # f) => tree[f] = View[f]
    BY <1>3, <1>6, OverlayAt
  <2>2. QED
    BY <1>5, <1>6, <1>7, <2>1, IsAfter
<1>9. /\ OfVault(x.id, x.entries, View) /\ Tidy(View) /\ OfTidy(x.id, x.entries)
  BY <1>2, <1>3, RefParts DEF Planning
<1>10. PICK r \in Requests :
         Plannable(View, r) /\ x.id = PlanId(View, r) /\ x.entries = Entries(View, r)
  BY <1>9 DEF OfVault
<1>11. Tidy(View')
  BY <1>6, <1>8, <1>9, <1>10, ApplyTidy DEF Serial
<1>12. RefInv'
  BY <1>1, <1>4, <1>9, <1>11, WorkRef
<1>13. Ledger' = Outcome(Ledger, x.id, "applied", x.entries)
  BY <1>1, <1>3, LedgerOutcome
<1>14. x.id \notin DOMAIN Ledger
  BY <1>2 DEF Ledger, Pending
<1>15. Atomic!Next
  BY <1>8, <1>10, <1>13, <1>14, AtomicApply
<1>16. QED
  BY <1>12, <1>15

(* A rollback is: of an interrupted apply, which nobody saw; or of an      *)
(* applied plan, whose files are all as it left them.                      *)
LEMMA MarkRolledBackRef ==
  ASSUME Serial, RefInv, NEW p \in Processes, MarkRolledBack(p)
  PROVE  RefInv' /\ Atomic!Next
<1> DEFINE x == run[p]
<1>1. /\ x.phase = "write" /\ x.op = "rollback" /\ x.next = 0 /\ Step(p) /\ tree' = tree
      /\ manifest' = [manifest EXCEPT ![x.id] = Record("rolled_back", x.entries)]
      /\ unsettled' = unsettled \ {x.id}
  BY DEF MarkRolledBack, Mark, Step
<1>2. /\ x.id \in DOMAIN manifest /\ manifest[x.id].entries = x.entries
      /\ View = IF manifest[x.id].state = "pending" THEN Before(tree, x.entries)
                ELSE IF x.id \in unsettled THEN After(tree, x.entries) ELSE tree
  BY <1>1, ViewOf
<1>3. /\ x.id \in DOMAIN manifest' /\ manifest'[x.id].entries = x.entries
      /\ manifest'[x.id].state = "rolled_back"
  BY <1>1, <1>2 DEF Record
<1>4. View' = tree
  BY <1>1, <1>3, ViewAfter
<1>5. /\ x.entries \in Seq(Changes) /\ Distinct(x.entries) /\ tree \in Trees
      /\ DOMAIN x.entries = 1 .. Len(x.entries)
  BY <1>1, OthersDone, RefParts
<1>6. \A i \in DOMAIN x.entries : tree[x.entries[i].path] = x.entries[i].old
  <2>1. \A i \in DOMAIN x.entries : Passed(x, i)
    BY <1>1, <1>5 DEF Passed
  <2>2. QED
    BY <1>1, <2>1, TargetsAre DEF Aim
<1>7. OfTidy(x.id, x.entries) /\ Tidy(View)
  BY <1>2, RefParts DEF Planning
<1>8. Ledger' = Outcome(Ledger, x.id, "rolled_back", x.entries)
  BY <1>1, <1>2, LedgerOutcome
<1>9. CASE manifest[x.id].state = "pending"
  <2>1. View' = View
    BY <1>2, <1>4, <1>5, <1>6, <1>9, IsBefore
  <2>2. OfVault(x.id, x.entries, View)
    BY <1>2, <1>9, RefParts DEF Planning
  <2>3. PICK r \in Requests :
          Plannable(View, r) /\ x.id = PlanId(View, r) /\ x.entries = Entries(View, r)
    BY <2>2 DEF OfVault
  <2>4. x.id \notin DOMAIN Ledger
    BY <1>9 DEF Ledger, Pending
  <2>5. Atomic!Next
    BY <1>8, <2>1, <2>3, <2>4, AtomicAbandon
  <2>6. RefInv'
    BY <1>1, <1>3, <1>7, <2>1, WorkRef
  <2>7. QED
    BY <2>5, <2>6
<1>10. CASE manifest[x.id].state # "pending"
  <2>1. manifest[x.id].state = "applied"
    BY <1>1, <1>10, RefParts, SoloParts DEF Holds, Runs, States
  <2>2. x.id \in unsettled
    <3>1. SUFFICES ASSUME x.id \notin unsettled PROVE FALSE
      OBVIOUS
    <3>2. /\ \A i \in DOMAIN x.entries : tree[x.entries[i].path] = x.entries[i].new
          /\ \E i \in DOMAIN x.entries : x.entries[i].old # x.entries[i].new
      BY <1>1, <1>2, <2>1, <3>1, StandingIsNew DEF Standing
    <3>3. QED
      BY <1>6, <3>2
  <2>3. View = After(tree, x.entries)
    BY <1>2, <2>1, <2>2
  <2>4. View' = Before(View, x.entries)
    <3>1. \A f \in Paths : (\A i \in DOMAIN x.entries : x.entries[i].path # f) => tree[f] = View[f]
      BY <1>5, <2>3, OverlayAt
    <3>2. QED
      BY <1>4, <1>5, <1>6, <3>1, IsBefore
  <2>5. \A i \in DOMAIN x.entries : View[x.entries[i].path] = x.entries[i].new
    BY <1>5, <2>3, OverlayAt
  <2>6. /\ x.id \in DOMAIN Ledger /\ Ledger[x.id].state = "applied"
        /\ Ledger[x.id].entries = x.entries
    BY <1>2, <2>1 DEF Ledger, Pending, Recorded
  <2>7. Atomic!Next
    BY <1>8, <2>4, <2>5, <2>6, AtomicUndo
  <2>8. Tidy(View')
    BY <1>7, <2>4, UndoTidy DEF Serial
  <2>9. RefInv'
    BY <1>1, <1>3, <1>7, <2>8, WorkRef
  <2>10. QED
    BY <2>7, <2>9
<1>11. QED
  BY <1>9, <1>10

LEMMA StepRef ==
  ASSUME Serial, RefInv, NEW p \in Processes, Step(p)
  PROVE  RefInv' /\ [Atomic!Next]_<<View, Ledger>>
<1>1. ASSUME UNCHANGED <<tree, manifest, unsettled>>
      PROVE  RefInv' /\ [Atomic!Next]_<<View, Ledger>>
  BY <1>1, QuietRef
<1>2. CASE \E r \in Requests : BeginApply(p, r)
  BY <1>1, <1>2 DEF BeginApply
<1>3. CASE WriteManifest(p)
  BY <1>3, WriteManifestRef
<1>4. CASE \E id \in Recorded, op \in {"apply", "rollback"} : BeginRecovery(p, id, op)
  BY <1>1, <1>4 DEF BeginRecovery
<1>5. CASE Check(p)
  BY <1>1, <1>5 DEF Check
<1>6. CASE WriteEntry(p)
  BY <1>6, StoreRef DEF WriteEntry
<1>7. CASE RestoreEntry(p)
  BY <1>7, StoreRef DEF RestoreEntry
<1>8. CASE EndWrites(p)
  BY <1>8, EndWritesRef
<1>9. CASE AuditApply(p)
  BY <1>1, <1>9 DEF AuditApply
<1>10. CASE MarkApplied(p)
  BY <1>10, MarkAppliedRef
<1>11. CASE MarkRolledBack(p)
  BY <1>11, MarkRolledBackRef
<1>12. CASE AuditRollback(p)
  BY <1>1, <1>12 DEF AuditRollback
<1>13. CASE Crash(p)
  BY <1>1, <1>13 DEF Crash
<1>14. QED
  BY <1>2, <1>3, <1>4, <1>5, <1>6, <1>7, <1>8, <1>9, <1>10, <1>11, <1>12, <1>13 DEF Step

LEMMA NextRef ==
  ASSUME Serial, RefInv, [Next]_vars
  PROVE  RefInv' /\ [Atomic!Next]_<<View, Ledger>>
<1>1. CASE \E p \in Processes : Step(p)
  BY <1>1, StepRef
<1>2. CASE UNCHANGED <<tree, manifest, run, unsettled, edited>>
  <2>1. UNCHANGED <<View, Ledger>>
    BY <1>2, ViewSeen, ViewSeenNext DEF Ledger, Pending, Recorded
  <2>2. KeepInv'
    BY NextKeep DEF Serial, RefInv
  <2>3. QED
    BY <1>2, <2>1, <2>2 DEF RefInv, Recorded
<1>3. CASE \E r \in Requests : DryRun(r)
  BY <1>2, <1>3 DEF DryRun
<1>4. CASE UNCHANGED vars
  BY <1>2, <1>4 DEF vars
<1>5. QED
  BY <1>1, <1>3, <1>4 DEF Next, Serial

LEMMA InitRef ==
  ASSUME Serial, Init
  PROVE  RefInv /\ Atomic!Init
<1>1. /\ tree = InitialTree /\ tree \in Trees /\ DOMAIN manifest = {} /\ edited = {}
      /\ \A p \in Processes : run[p] = Idle
  BY TxnConstants DEF Init, Trees
<1>2. View = InitialTree
  BY <1>1, ViewSeen, SeenNone
<1>3. Ledger = [id \in {} |-> {}]
  BY <1>1 DEF Ledger, Recorded
<1>4. Tidy(View)
  BY <1>2 DEF Serial
<1>5. \A p \in Processes : Planning(tree, manifest, View, run[p])
  BY <1>1, <1>4 DEF Planning, Idle
<1>6. RefInv
  BY <1>1, <1>4, <1>5, InitKeep DEF RefInv, Recorded
<1>7. QED
  BY <1>2, <1>3, <1>6 DEF Atomic!Init

(* Whatever dies in between, an apply or a rollback that is written file   *)
(* by file (`apply_plan`, `rollback_evolution` in evolve.py) changes all   *)
(* of its files at one instant, for somebody who reads the files of an     *)
(* unfinished transaction as its record says they were; and the plan that  *)
(* takes effect is the plan of the vault at that instant, whole.           *)
THEOREM TransactionIsAtomic ==
  ASSUME Serial
  PROVE  Spec => ImplementsAtomicEvolve
<1>1. Init => RefInv /\ Atomic!Init
  BY InitRef
<1>2. RefInv /\ [Next]_vars => RefInv' /\ [Atomic!Next]_<<View, Ledger>>
  BY NextRef
<1>3. QED
  BY <1>1, <1>2, PTL DEF Spec, ImplementsAtomicEvolve, Atomic!Spec
=============================================================================
