-------------------------- MODULE EvolveRefinement --------------------------
(***************************************************************************)
(* EvolveTxn implements AtomicEvolve when one process runs at a time, the  *)
(* user settles an interrupted transaction before starting another         *)
(* (FinishFirst) and nobody edits the files by hand; and then every        *)
(* transaction is settled in the end.                                      *)
(***************************************************************************)
EXTENDS EvolveTxn

(* What the vault shows once the files of an unfinished transaction are    *)
(* read as its record says they were (pending) or as they became (applied, *)
(* while a rollback is under way).                                         *)
Shown(f, id, key) ==
  LET entries == manifest[id].entries
      i == CHOOSE i \in DOMAIN entries : entries[i].path = f IN entries[i][key]

Touches(id, f) ==
  \E i \in DOMAIN manifest[id].entries : manifest[id].entries[i].path = f

Pending(id)    == manifest[id].state = "pending"
Unfinished(id) == Pending(id) \/ id \in unsettled

View ==
  [f \in Paths |->
     IF \E id \in Recorded : Unfinished(id) /\ Touches(id, f)
     THEN LET id == CHOOSE id \in Recorded : Unfinished(id) /\ Touches(id, f) IN
          Shown(f, id, IF Pending(id) THEN "old" ELSE "new")
     ELSE tree[f]]

Ledger == [id \in {id \in Recorded : ~ Pending(id)} |-> manifest[id]]

Atomic == INSTANCE AtomicEvolve WITH tree <- View, ledger <- Ledger

(* Refinement: every behaviour of the crash-prone transaction is one of    *)
(* the atomic specification under View and Ledger.  A plan takes effect    *)
(* when it is marked applied, on the vault it was planned from.            *)
ImplementsAtomicEvolve == Atomic!Spec

(* A process that does not die runs on to its end ...                      *)
Progress(p) ==
  \/ WriteManifest(p) \/ Check(p) \/ WriteEntry(p) \/ RestoreEntry(p)
  \/ EndWrites(p) \/ AuditApply(p) \/ MarkApplied(p)
  \/ MarkRolledBack(p) \/ AuditRollback(p)

(* ... and the user runs the apply of an unfinished plan again.            *)
Retry(p) == \E id \in Recorded : Unfinished(id) /\ BeginRecovery(p, id, "apply")

FairSpec ==
  Spec /\ \A p \in Processes : WF_vars(Progress(p)) /\ WF_vars(Retry(p))

(* An interrupted transaction does not stay half done: after the last      *)
(* crash, retrying it ends with every transaction settled.                 *)
EventuallySettled ==
  (\E id \in Recorded : Unfinished(id)) ~> (\A id \in Recorded : ~ Unfinished(id))
=============================================================================
