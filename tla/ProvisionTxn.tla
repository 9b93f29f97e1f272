---------------------------- MODULE ProvisionTxn ----------------------------
(***************************************************************************)
(* `provision-wiki --apply` and `--rollback` (src/src/megamind/            *)
(* gardening.py): a new wiki is registered and its files are generated by  *)
(* one write-ahead transaction.  Unlike `evolve`, an apply that fails      *)
(* undoes itself before the error leaves the process, and removes its      *)
(* record when the undo is complete; a process that dies leaves the record *)
(* to a later `--apply` (resume) or `--rollback`.                          *)
(*                                                                         *)
(* A file is the set of marks it carries, or Absent.  Card(w) stands for   *)
(* the five generated files of w other than its log.  One process runs at  *)
(* a time; people may edit any file and author pages in between its steps. *)
(***************************************************************************)
EXTENDS Naturals, Sequences, FiniteSets

CONSTANTS
  Wikis,         \* the wikis that may be provisioned, each with its own path
  Registry,      \* .megamind/registry.json
  Router,        \* ROUTER.md
  Absent,        \* the content of a path that holds no file
  Editable,      \* the paths somebody may edit
  MaxRecords,    \* bound: transactions that reach a record
  MaxFaults,     \* bound: failures, deaths and edits
  FinishFirst    \* TRUE: the user settles an interrupted transaction before
                 \* starting another one, which the tool does not ask of them

Card(w) == <<"CARD.md", w>>
Log(w)  == <<"wiki/log.md", w>>
Own(w)  == {Card(w), Log(w)}
Paths   == {Registry, Router} \cup (UNION {Own(w) : w \in Wikis})
Shared  == {Registry, Router}

Wiki(w)   == <<"wiki", w>>
Header    == <<"header", Router>>
Generated == <<"generated", Registry>>    \* the text the plan gives a file
Event     == <<"event", Registry>>        \* the evaluation event of the apply
Later     == <<"later", Registry>>        \* events of later work on the wiki
Edited(f) == <<"edit", f>>
WikiMarks == {Wiki(w) : w \in Wikis}
Marks     == WikiMarks \cup {Header, Generated, Event, Later} \cup {Edited(f) : f \in Paths}
Content   == {Absent} \cup SUBSET Marks

ASSUME ProvisionConstants ==
  /\ FinishFirst \in BOOLEAN
  /\ Registry # Router
  /\ \A w \in Wikis : Own(w) \cap Shared = {}
  /\ \A c \in SUBSET Marks : c # Absent
  /\ Editable \subseteq Paths
  /\ MaxRecords \in Nat
  /\ MaxFaults \in Nat

VARIABLES
  tree,        \* the content of every path
  dirs,        \* the wikis whose directory exists
  authored,    \* the wikis in whose directory somebody wrote a page
  manifest,    \* plan id -> its record under .megamind/audit
  reviewed,    \* the plan id of the last dry run for each wiki
  run,         \* what the process holds in memory
  faults,
  (* history, read by no action of the program *)
  edited,      \* paths ever edited by somebody
  torn,        \* replaced by a write that raised once it had replaced it
  unsettled    \* ids written to since their state was last recorded

files == <<tree, dirs>>
vars  == <<tree, dirs, authored, manifest, reviewed, run, faults, edited, torn, unsettled>>

NoPlan == [wiki |-> Registry, changes |-> <<>>]
Idle == [op |-> "none", phase |-> "idle", id |-> NoPlan, entries |-> <<>>,
         todo |-> {}, next |-> 0, count |-> 0, raced |-> {}]

Init ==
  /\ \E router \in {Absent, {}} :     \* not there, or written by hand
       tree = [f \in Paths |-> IF f = Registry THEN {}
                               ELSE IF f = Router THEN router ELSE Absent]
  /\ dirs = {} /\ authored = {}
  /\ manifest = [id \in {} |-> {}]
  /\ reviewed = [w \in Wikis |-> NoPlan]
  /\ run = Idle
  /\ faults = 0
  /\ edited = {} /\ torn = {} /\ unsettled = {}

-----------------------------------------------------------------------------
(* The plan                                                                *)

Change(path, old, new) == [path |-> path, old |-> old, new |-> new]

(* A router without the generated header is somebody's own.                *)
RouterChange(registered) ==
  IF tree[Router] # Absent /\ Header \notin tree[Router] THEN <<>>
  ELSE <<Change(Router, tree[Router], {Header} \cup (registered \cap WikiMarks))>>

PlanChanges(w) ==
  LET registered == tree[Registry] \cup {Wiki(w)} IN
  <<Change(Registry, tree[Registry], registered),
    Change(Card(w), Absent, {Generated}),
    Change(Log(w), Absent, {Generated})>> \o RouterChange(registered)

(* The wiki is new: neither registered nor present as a directory.         *)
Plannable(w) ==
  /\ tree[Registry] # Absent
  /\ Wiki(w) \notin tree[Registry]
  /\ w \notin dirs

PlanId(w) == [wiki |-> w, changes |-> PlanChanges(w)]

-----------------------------------------------------------------------------
(* What recovery reads in a target                                         *)

(* The wiki log may have grown since the transaction wrote it.             *)
Grown(e) == \E w \in Wikis :
  /\ e.path = Log(w)
  /\ tree[e.path] # Absent
  /\ e.new \subseteq tree[e.path] /\ tree[e.path] \ e.new \subseteq {Event, Later}

(* Faulty: the log must hold the planned bytes; any file there will do.    *)
DoneExactly(e) == tree[e.path] = e.new
DonePresent(e) == tree[e.path] # Absent

Done(e)       == tree[e.path] = e.new \/ Grown(e)
Incomplete(e) == tree[e.path] \in {Absent, e.old}
Foreign(e)    == ~ Done(e) /\ ~ Incomplete(e)

Recorded == DOMAIN manifest
Open(id) == manifest[id].state \in {"pending", "partial"} \/ id \in unsettled

With(f, key, value) ==
  [k \in DOMAIN f \cup {key} |-> IF k = key THEN value ELSE f[k]]
Record(state, entries) == [state |-> state, entries |-> entries]

MayStart(id) == FinishFirst => \A other \in Recorded \ {id} : ~ Open(other)

(* Faulty: nothing is looked at before a recovery.                         *)
NoForeignUnread(entries) == TRUE
NoForeign(entries) == \A i \in DOMAIN entries : ~ Foreign(entries[i])

-----------------------------------------------------------------------------
(* Writing                                                                 *)

(* A write creates the directory of its target, a removal leaves it.       *)
Put(path, content) ==
  /\ tree' = [tree EXCEPT ![path] = content]
  /\ dirs' = IF content = Absent THEN dirs
             ELSE dirs \cup {w \in Wikis : path \in Own(w)}

(* Cleanup is never recursive: a directory goes when nothing is left in it.*)
Empty(w) == w \notin authored /\ \A f \in Own(w) : tree[f] = Absent
(* Faulty: the directory goes with whatever it holds.                      *)
PrunedWhole(w) == dirs \ {w}
Pruned(w) == IF Empty(w) THEN dirs \ {w} ELSE dirs

DryRun(w) ==
  /\ run = Idle
  /\ Plannable(w)
  /\ reviewed' = [reviewed EXCEPT ![w] = PlanId(w)]
  /\ UNCHANGED <<files, authored, manifest, run, faults, edited, torn, unsettled>>

(* Faulty: the targets are written before there is a record.               *)
BeginApplyUnrecorded(w) ==
  /\ run = Idle /\ Plannable(w) /\ PlanId(w) = reviewed[w]
  /\ reviewed[w] \notin Recorded
  /\ run' = [Idle EXCEPT !.op = "apply", !.phase = "write", !.id = reviewed[w],
                         !.entries = PlanChanges(w), !.todo = DOMAIN PlanChanges(w), !.next = 1]
  /\ UNCHANGED <<files, authored, manifest, reviewed, faults, edited, torn, unsettled>>

(* An apply with no record, or one that was rolled back: the plan is       *)
(* computed again, hashes to the reviewed id and holds the bytes on disk.  *)
BeginApply(w) ==
  LET entries == PlanChanges(w) IN
  /\ run = Idle
  /\ Plannable(w) /\ PlanId(w) = reviewed[w]
  /\ reviewed[w] \in Recorded => manifest[reviewed[w]].state = "rolled_back"
  /\ Cardinality(Recorded \cup {reviewed[w]}) <= MaxRecords
  /\ MayStart(reviewed[w])
  /\ run' = [Idle EXCEPT !.op = "apply", !.phase = "record", !.id = reviewed[w],
                         !.entries = entries, !.todo = DOMAIN entries, !.next = 1]
  /\ UNCHANGED <<files, authored, manifest, reviewed, faults, edited, torn, unsettled>>

WriteManifest ==
  /\ run.phase = "record"
  /\ manifest' = With(manifest, run.id, Record("pending", run.entries))
  /\ run' = [run EXCEPT !.phase = "write"]
  /\ unsettled' = unsettled \ {run.id}
  /\ UNCHANGED <<files, authored, reviewed, faults, edited, torn>>

(* Faulty: only a transaction that never finished an undo is resumed.      *)
BeginResumePending(id) ==
  /\ run = Idle /\ manifest[id].state = "pending" /\ NoForeign(manifest[id].entries)
  /\ MayStart(id)
  /\ run' = [Idle EXCEPT !.op = "resume", !.phase = "write", !.id = id, !.next = 1,
                         !.entries = manifest[id].entries, !.todo = DOMAIN manifest[id].entries]
  /\ UNCHANGED <<files, authored, manifest, reviewed, faults, edited, torn, unsettled>>

(* An apply with a record: from it alone, the targets that are not done.   *)
BeginResume(id) ==
  LET entries == manifest[id].entries
      todo    == {i \in DOMAIN entries : ~ Done(entries[i])} IN
  /\ run = Idle
  /\ manifest[id].state # "rolled_back"
  /\ NoForeign(entries)
  /\ manifest[id].state = "applied" => todo # {}
  /\ MayStart(id)
  /\ run' = [Idle EXCEPT !.op = "resume", !.phase = "write", !.id = id,
                         !.entries = entries, !.todo = todo, !.next = 1]
  /\ UNCHANGED <<files, authored, manifest, reviewed, faults, edited, torn, unsettled>>

(* A replay over targets that are all done is a verified no-op.            *)
Verify(id) ==
  /\ run = Idle
  /\ manifest[id].state = "applied"
  /\ \A i \in DOMAIN manifest[id].entries : Done(manifest[id].entries[i])
  /\ unsettled' = unsettled \ {id}
  /\ UNCHANGED <<files, authored, manifest, reviewed, run, faults, edited, torn>>

(* The next target of an apply or a resume.                                *)
WriteTarget ==
  LET e == run.entries[run.next] IN
  /\ run.phase = "write" /\ run.next \in DOMAIN run.entries
  /\ IF run.next \in run.todo
     THEN Put(e.path, e.new) /\ unsettled' = unsettled \cup {run.id}
     ELSE UNCHANGED <<files, unsettled>>
  /\ run' = [run EXCEPT !.next = @ + 1, !.count = run.next]
  /\ UNCHANGED <<authored, manifest, reviewed, faults, edited, torn>>

(* The evaluation event is appended to the log, and the log as it then is  *)
(* becomes what the record says was written.                               *)
AppendEvent ==
  LET log == Log(run.id.wiki) IN
  /\ run.phase = "write" /\ run.next > Len(run.entries)
  /\ IF tree[log] = Absent
     THEN run' = [run EXCEPT !.phase = "commit"] /\ UNCHANGED files
     ELSE /\ Put(log, tree[log] \cup {Event})
          /\ run' = [run EXCEPT !.phase = "commit",
               !.entries = [i \in DOMAIN @ |->
                  IF @[i].path = log THEN [@[i] EXCEPT !.new = tree[log] \cup {Event}] ELSE @[i]]]
  /\ UNCHANGED <<authored, manifest, reviewed, faults, edited, torn, unsettled>>

(* The record says applied only over targets that all landed; otherwise    *)
(* the apply raises, which a resume leaves as it is.                       *)
Commit ==
  /\ run.phase = "commit"
  /\ IF \A i \in DOMAIN run.entries : Done(run.entries[i])
     THEN /\ manifest' = [manifest EXCEPT ![run.id] = Record("applied", run.entries)]
          /\ unsettled' = unsettled \ {run.id}
          /\ run' = [run EXCEPT !.phase = "audit"]
     ELSE /\ run' = IF run.op = "apply" THEN [run EXCEPT !.phase = "undo", !.next = @ - 1]
                                        ELSE Idle
          /\ UNCHANGED <<manifest, unsettled>>
  /\ UNCHANGED <<files, authored, reviewed, faults, edited, torn>>

(* The audit line of a create or a rollback is the last thing written.     *)
Audit ==
  /\ run.phase = "audit"
  /\ run' = Idle
  /\ UNCHANGED <<files, authored, manifest, reviewed, faults, edited, torn, unsettled>>

-----------------------------------------------------------------------------
(* Failing                                                                 *)

(* A fresh apply raises (an I/O error, an interrupt): the write under way  *)
(* may have replaced its target already, and is not among the written.     *)
Raise ==
  /\ run.op = "apply" /\ run.phase \in {"write", "commit", "audit"}
  /\ faults < MaxFaults
  /\ faults' = faults + 1
  /\ run' = [run EXCEPT !.phase = "undo", !.next = @ - 1]
  /\ \/ UNCHANGED <<files, torn, unsettled>>
     \/ /\ run.phase = "write" /\ run.next \in DOMAIN run.entries
        /\ Put(run.entries[run.next].path, run.entries[run.next].new)
        /\ torn' = torn \cup {run.entries[run.next].path}
        /\ unsettled' = unsettled \cup {run.id}
  /\ UNCHANGED <<authored, manifest, reviewed, edited>>

(* Each written target in reverse: its backup, or nothing.                 *)
UndoTarget ==
  LET e == run.entries[run.next] IN
  /\ run.phase = "undo" /\ run.next \in DOMAIN run.entries
  /\ Put(e.path, e.old)
  /\ run' = [run EXCEPT !.next = @ - 1]
  /\ unsettled' = unsettled \cup {run.id}
  /\ UNCHANGED <<authored, manifest, reviewed, faults, edited, torn>>

(* Faulty: the record goes whatever the undo left behind.                  *)
EndUndoForgetting ==
  /\ run.phase = "undo" /\ run.next = 0
  /\ dirs' = Pruned(run.id.wiki)
  /\ run' = Idle
  /\ manifest' = [id \in Recorded \ {run.id} |-> manifest[id]]
  /\ unsettled' = unsettled \ {run.id}
  /\ UNCHANGED <<tree, authored, reviewed, faults, edited, torn>>

(* The record goes after a complete undo, and stays as partial when the    *)
(* wiki directory does, or when a written target has not its prior bytes.  *)
EndUndo ==
  LET w == run.id.wiki IN
  /\ run.phase = "undo" /\ run.next = 0
  /\ dirs' = Pruned(w)
  /\ run' = Idle
  /\ IF w \notin dirs' /\ \A i \in 1 .. run.count : tree[run.entries[i].path] = run.entries[i].old
     THEN /\ manifest' = [id \in Recorded \ {run.id} |-> manifest[id]]
          /\ unsettled' = unsettled \ {run.id}
     ELSE /\ manifest' = [manifest EXCEPT ![run.id] = Record("partial", run.entries)]
          /\ UNCHANGED unsettled
  /\ UNCHANGED <<tree, authored, reviewed, faults, edited, torn>>

(* The process dies; the directory of the write under way may exist.       *)
Crash ==
  /\ run # Idle
  /\ faults < MaxFaults
  /\ faults' = faults + 1
  /\ run' = Idle
  /\ \/ UNCHANGED dirs
     \/ /\ run.phase = "write" /\ run.next \in run.todo
        /\ dirs' = dirs \cup {w \in Wikis : run.entries[run.next].path \in Own(w)}
  /\ UNCHANGED <<tree, authored, manifest, reviewed, edited, torn, unsettled>>

-----------------------------------------------------------------------------
(* Rolling back                                                            *)

BeginRollback(id) ==
  LET entries == manifest[id].entries IN
  /\ run = Idle
  /\ manifest[id].state # "rolled_back"
  /\ NoForeign(entries)
  /\ MayStart(id)
  /\ run' = [Idle EXCEPT !.op = "rollback", !.phase = "restore", !.id = id,
                         !.entries = entries, !.next = Len(entries)]
  /\ UNCHANGED <<files, authored, manifest, reviewed, faults, edited, torn, unsettled>>

RestoreTarget ==
  LET e == run.entries[run.next] IN
  /\ run.phase = "restore" /\ run.next \in DOMAIN run.entries
  /\ Put(e.path, e.old)
  /\ run' = [run EXCEPT !.next = @ - 1]
  /\ unsettled' = unsettled \cup {run.id}
  /\ UNCHANGED <<authored, manifest, reviewed, faults, edited, torn>>

EndRollback ==
  /\ run.phase = "restore" /\ run.next = 0
  /\ dirs' = Pruned(run.id.wiki)
  /\ manifest' = [manifest EXCEPT ![run.id] = Record("rolled_back", run.entries)]
  /\ unsettled' = unsettled \ {run.id}
  /\ run' = [run EXCEPT !.phase = "audit"]
  /\ UNCHANGED <<tree, authored, reviewed, faults, edited, torn>>

-----------------------------------------------------------------------------
(* Everybody else                                                          *)

Noticed(path) == IF run = Idle THEN Idle ELSE [run EXCEPT !.raced = @ \cup {path}]

Edit(f) ==
  /\ faults < MaxFaults
  /\ faults' = faults + 1
  /\ tree[f] # Absent
  /\ \E content \in {tree[f] \cup {Edited(f)}, Absent} :
       tree' = [tree EXCEPT ![f] = content]
  /\ edited' = edited \cup {f}
  /\ run' = Noticed(f)
  /\ UNCHANGED <<dirs, authored, manifest, reviewed, torn, unsettled>>

(* Work on the wiki: a page is written, an event is appended to its log.   *)
Author(w) ==
  /\ w \in dirs
  /\ authored' = authored \cup {w}
  /\ UNCHANGED <<files, manifest, reviewed, run, faults, edited, torn, unsettled>>

AppendLater(w) ==
  /\ run = Idle
  /\ tree[Log(w)] # Absent
  /\ tree' = [tree EXCEPT ![Log(w)] = @ \cup {Later}]
  /\ UNCHANGED <<dirs, authored, manifest, reviewed, run, faults, edited, torn, unsettled>>

-----------------------------------------------------------------------------
Progress ==
  \/ WriteManifest \/ WriteTarget \/ AppendEvent \/ Commit \/ Audit
  \/ UndoTarget \/ EndUndo \/ RestoreTarget \/ EndRollback

Next ==
  \/ \E w \in Wikis : DryRun(w) \/ BeginApply(w) \/ Author(w) \/ AppendLater(w)
  \/ \E id \in Recorded : BeginResume(id) \/ Verify(id) \/ BeginRollback(id)
  \/ Progress
  \/ Raise \/ Crash
  \/ \E f \in Editable : Edit(f)

Spec == Init /\ [][Next]_vars

(* A process that does not die runs on; an open transaction is resumed.    *)
Retry == \E id \in Recorded : Open(id) /\ (BeginResume(id) \/ Verify(id))
FairSpec == Spec /\ WF_vars(Progress) /\ WF_vars(Retry)

-----------------------------------------------------------------------------
(* Properties                                                              *)

Changes == [path : Paths, old : Content, new : SUBSET Marks]
PlanIds == [wiki : Wikis, changes : Seq(Changes)]
States  == {"pending", "applied", "partial", "rolled_back"}
Runs    == [op : {"none", "apply", "resume", "rollback"},
            phase : {"idle", "record", "write", "commit", "audit", "undo", "restore"},
            id : PlanIds \cup {NoPlan}, entries : Seq(Changes), todo : SUBSET Nat,
            next : Nat, count : Nat, raced : SUBSET Paths]

(* Type correctness.                                                       *)
TypeOK ==
  /\ tree \in [Paths -> Content]
  /\ dirs \subseteq Wikis /\ authored \subseteq dirs
  /\ \A id \in Recorded : /\ id \in PlanIds
                          /\ manifest[id] \in [state : States, entries : Seq(Changes)]
  /\ reviewed \in [Wikis -> PlanIds \cup {NoPlan}]
  /\ run \in Runs
  /\ faults \in 0 .. MaxFaults
  /\ edited \subseteq Paths /\ torn \subseteq Paths /\ unsettled \subseteq Recorded

(* Wherever a transaction stopped, in an apply, in its undo or in a        *)
(* rollback, both recovery paths accept every target that nobody edited.   *)
NeverWedged ==
  \A id \in Recorded :
    Open(id) => \A i \in DOMAIN manifest[id].entries :
                  Foreign(manifest[id].entries[i]) => manifest[id].entries[i].path \in edited

(* A wiki recorded as applied is whole: registered, routed and with its    *)
(* files, through the applies, undos and rollbacks of the other wikis too. *)
AppliedIsWhole ==
  \A id \in Recorded \ unsettled :
    manifest[id].state = "applied" =>
      LET w == id.wiki IN
      /\ Registry \in edited \/ Wiki(w) \in tree[Registry]
      /\ Shared \cap edited # {} \/ (Header \in tree[Router] => Wiki(w) \in tree[Router])
      /\ Card(w) \in edited \/ tree[Card(w)] = {Generated}
      /\ Log(w) \in edited \/ {Generated, Event} \subseteq tree[Log(w)]

Live(w) == \E id \in Recorded : id.wiki = w /\ manifest[id].state # "rolled_back"

(* What is left of w in f, or of its directory.                            *)
Trace(w, f) ==
  tree[f] # Absent /\ (f \in Own(w) \/ Wiki(w) \in tree[f])

(* A registry or a router that a failing write had replaced is not undone, *)
(* and later plans start from it.                                          *)
Torn == IF torn \cap Shared = {} THEN {} ELSE Shared

(* A wiki that no transaction on record accounts for has left no trace: an *)
(* undo that removes its record, and a rollback, leave nothing behind them *)
(* but what others wrote, save in such a registry or router.               *)
NoTrace ==
  \A w \in Wikis :
    ~ Live(w) =>
      /\ \A f \in Paths : Trace(w, f) => f \in edited \cup Torn
      /\ w \in dirs => w \in authored \/ Own(w) \cap edited # {}

(* An undo removes the record only when it is complete, without exception. *)
RecordOutlivesTraces ==
  \A w \in Wikis : ~ Live(w) => \A f \in Paths : Trace(w, f) => f \in edited

(* A page somebody wrote in the wiki is not removed with it.               *)
KeepsAuthored == [][\A w \in authored : w \in dirs']_vars

(* The file a step of the transaction replaces holds bytes of its own plan *)
(* or a log that has grown, unless it was changed after the check.         *)
Replaces ==
  LET e == run.entries[run.next] IN
  Done(e) \/ Incomplete(e) \/ e.path \in run.raced
NoForeignOverwrite ==
  [][(WriteTarget /\ run.next \in run.todo) \/ UndoTarget \/ RestoreTarget => Replaces]_vars

(* After the last fault an open transaction is settled, unless somebody    *)
(* edited a file.                                                          *)
EventuallySettled ==
  (\E id \in Recorded : Open(id)) ~> ((\A id \in Recorded : ~ Open(id)) \/ edited # {})
=============================================================================
