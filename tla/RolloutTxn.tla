----------------------------- MODULE RolloutTxn -----------------------------
(***************************************************************************)
(* `rollout promote --apply` and `rollout rollback --apply`                *)
(* (src/src/megamind/rollout.py): one host/wiki binding is armed with an   *)
(* immutable proof, or disarmed, by a write-ahead transaction that a later *)
(* run of the same command finishes.  The directory has no lock: a promote *)
(* writes its pending record first and looks for others afterwards.        *)
(*                                                                         *)
(* A plan, its promotion and its proof have one name, for each follows     *)
(* from the one before it; a rollback is a promotion and a reason, which   *)
(* its plan id binds.  Artifacts are written whole and nobody edits them.  *)
(***************************************************************************)
EXTENDS FiniteSets, Naturals

CONSTANTS
  Plans,        \* the promotion plans; p also names its promotion and proof
  Ready,        \* those whose checks all pass; the others are blocked
  Bindings,     \* pairs of a host and a wiki
  Binding,      \* [Plans -> Bindings]
  Reasons,      \* the reason and the date a rollback states
  Nothing,      \* no projection: the active file does not exist
  Processes,    \* the commands that may run at one time
  MaxFaults,    \* bound: commands that die, and drifts of the evidence
  Disciplines   \* the values `careful` may have

ASSUME RolloutConstants ==
  /\ Ready \subseteq Plans
  /\ Binding \in [Plans -> Bindings]
  /\ MaxFaults \in Nat
  /\ Disciplines \subseteq BOOLEAN

Rollbacks == [promotion : Plans, reason : Reasons]
Ids       == Plans \cup Rollbacks

Promoted(p) == <<"promoted", p>>
Disarmed(r) == <<"rolled-back", r>>
Disarms     == {Disarmed(r) : r \in Rollbacks}
Projections == {Nothing} \cup {Promoted(p) : p \in Plans} \cup Disarms

(* Digests of different artifacts differ, and none is the absent one.      *)
ASSUME RolloutNames ==
  /\ Plans \cap Rollbacks = {}
  /\ Nothing \notin Ids
  /\ Nothing \notin {Promoted(p) : p \in Plans} \cup Disarms

VARIABLES
  tx,         \* id -> its record under transactions/
  proofs,     \* the proofs stored under proofs/
  active,     \* the projection of each binding under active/
  receipts,   \* the rollbacks with a receipt under receipts/
  outcomes,   \* the blocked plans with a file under outcomes/
  fresh,      \* the plans that building them again reproduces exactly
  run,        \* what each process holds in memory
  faults,
  careful,    \* the user settles a binding's unfinished transaction, and
              \* runs one command for it at a time, which nothing enforces
  retired     \* history: the rollbacks that have disarmed their promotion

vars == <<tx, proofs, active, receipts, outcomes, fresh, run, faults, careful, retired>>

Idle == [id |-> Nothing, phase |-> "idle", previous |-> Nothing]
Recorded == DOMAIN tx

Init ==
  /\ tx = [id \in {} |-> {}]
  /\ proofs = {} /\ receipts = {} /\ outcomes = {}
  /\ active = [b \in Bindings |-> Nothing]
  /\ fresh = Plans
  /\ run = [q \in Processes |-> Idle]
  /\ faults = 0
  /\ careful \in Disciplines
  /\ retired = {}

-----------------------------------------------------------------------------
With(f, key, value) ==
  [k \in DOMAIN f \cup {key} |-> IF k = key THEN value ELSE f[k]]
Record(state, previous) == [state |-> state, previous |-> previous]

Pending(id) == id \in Recorded /\ tx[id].state = "pending"

(* Faulty: its own record counts as another's.                             *)
OwnedBySelf(p) == \E other \in Recorded \cap Ready : Binding[other] = Binding[p] /\ Pending(other)

(* Another promote of the binding is unfinished: its record says so.       *)
Owned(p) ==
  \E other \in (Recorded \cap Ready) \ {p} : Binding[other] = Binding[p] /\ Pending(other)

(* Two promotes of different plans may run at the same time; a rollback is *)
(* the only command for its binding, and a careful user runs no other.     *)
BindingOf(id) == IF id \in Plans THEN Binding[id] ELSE Binding[id.promotion]
Clash(id, other) ==
  /\ BindingOf(id) = BindingOf(other)
  /\ careful \/ id = other \/ {id, other} \cap Rollbacks # {}

MayStart(id) ==
  /\ \A q \in Processes : run[q] # Idle => ~ Clash(id, run[q].id)
  /\ careful =>
       \A other \in Ids \ {id} : BindingOf(other) = BindingOf(id) => ~ Pending(other)

Go(q, id, phase, previous) ==
  run' = [run EXCEPT ![q] = [id |-> id, phase |-> phase, previous |-> previous]]
At(q, phase) == run[q].phase = phase
Then(q, phase) == run' = [run EXCEPT ![q].phase = phase]
Stop(q) == run' = [run EXCEPT ![q] = Idle]

-----------------------------------------------------------------------------
(* Promoting                                                               *)

(* Faulty: an armed binding is not refused; a record is not looked for.    *)
BeginPromoteArmed(q, p) ==
  /\ run[q] = Idle /\ p \in (Ready \cap fresh) \ Recorded
  /\ MayStart(p)
  /\ Go(q, p, "record", active[Binding[p]])
  /\ UNCHANGED <<tx, proofs, active, receipts, outcomes, fresh, faults, careful, retired>>
BeginPromoteAgain(q, p) ==
  /\ run[q] = Idle /\ p \in Ready \cap fresh
  /\ MayStart(p)
  /\ \A other \in Plans : active[Binding[p]] # Promoted(other)
  /\ Go(q, p, "record", active[Binding[p]])
  /\ UNCHANGED <<tx, proofs, active, receipts, outcomes, fresh, faults, careful, retired>>

(* No record of the plan: its binding must not be armed.                   *)
BeginPromote(q, p) ==
  /\ run[q] = Idle /\ p \in (Ready \cap fresh) \ Recorded
  /\ MayStart(p)
  /\ \A other \in Plans : active[Binding[p]] # Promoted(other)
  /\ Go(q, p, "record", active[Binding[p]])
  /\ UNCHANGED <<tx, proofs, active, receipts, outcomes, fresh, faults, careful, retired>>

(* The replay of an unfinished one.  Of an applied one it is a no-op or,   *)
(* when its binding has moved on, a refusal.                               *)
ReplayPromote(q, p) ==
  /\ run[q] = Idle /\ p \in Ready \cap fresh
  /\ MayStart(p)
  /\ Pending(p)
  /\ active[Binding[p]] \in {tx[p].previous, Promoted(p)}
  /\ Go(q, p, "owner", tx[p].previous)
  /\ UNCHANGED <<tx, proofs, active, receipts, outcomes, fresh, faults, careful, retired>>

(* Faulty: the record does not say what the promotion replaces.            *)
WritePendingForgetting(q) ==
  /\ At(q, "record") /\ run[q].id \in Plans
  /\ tx' = With(tx, run[q].id, Record("pending", Nothing))
  /\ Then(q, "owner")
  /\ UNCHANGED <<proofs, active, receipts, outcomes, fresh, faults, careful, retired>>

WritePending(q) ==
  /\ At(q, "record") /\ run[q].id \in Plans
  /\ tx' = With(tx, run[q].id, Record("pending", run[q].previous))
  /\ Then(q, "owner")
  /\ UNCHANGED <<proofs, active, receipts, outcomes, fresh, faults, careful, retired>>

(* Faulty: the proof is left for later.                                    *)
CheckOwnerSkipping(q) ==
  /\ At(q, "owner")
  /\ IF Owned(run[q].id) THEN Stop(q) ELSE Then(q, "look")
  /\ UNCHANGED <<tx, proofs, active, receipts, outcomes, fresh, faults, careful, retired>>

(* A refusal here leaves the pending record of this plan behind.           *)
CheckOwner(q) ==
  /\ At(q, "owner")
  /\ IF Owned(run[q].id) THEN Stop(q) ELSE Then(q, "proof")
  /\ UNCHANGED <<tx, proofs, active, receipts, outcomes, fresh, faults, careful, retired>>

WriteProof(q) ==
  /\ At(q, "proof")
  /\ proofs' = proofs \cup {run[q].id}
  /\ Then(q, "look")
  /\ UNCHANGED <<tx, active, receipts, outcomes, fresh, faults, careful, retired>>

(* Faulty: what the binding shows now is not looked at.                    *)
CheckActiveBlind(q) ==
  /\ At(q, "look")
  /\ Then(q, "arm")
  /\ UNCHANGED <<tx, proofs, active, receipts, outcomes, fresh, faults, careful, retired>>

CheckActive(q) ==
  LET p == run[q].id IN
  /\ At(q, "look")
  /\ IF active[Binding[p]] \in {Nothing, Promoted(p), run[q].previous}
     THEN Then(q, "arm") ELSE Stop(q)
  /\ UNCHANGED <<tx, proofs, active, receipts, outcomes, fresh, faults, careful, retired>>

Arm(q) ==
  /\ At(q, "arm")
  /\ active' = [active EXCEPT ![Binding[run[q].id]] = Promoted(run[q].id)]
  /\ Then(q, "mark")
  /\ UNCHANGED <<tx, proofs, receipts, outcomes, fresh, faults, careful, retired>>

MarkApplied(q) ==
  /\ At(q, "mark")
  /\ tx' = With(tx, run[q].id, Record("applied", run[q].previous))
  /\ Stop(q)
  /\ UNCHANGED <<proofs, active, receipts, outcomes, fresh, faults, careful, retired>>

-----------------------------------------------------------------------------
(* A plan some of whose checks failed: a record, then an outcome.          *)

RecordBlocked(q, p) ==
  /\ run[q] = Idle /\ p \in fresh \ Ready
  /\ MayStart(p)
  /\ tx' = With(tx, p, Record("applied", Nothing))
  /\ Go(q, p, "outcome", Nothing)
  /\ UNCHANGED <<proofs, active, receipts, outcomes, fresh, faults, careful, retired>>

WriteOutcome(q) ==
  /\ At(q, "outcome")
  /\ outcomes' = outcomes \cup {run[q].id}
  /\ Stop(q)
  /\ UNCHANGED <<tx, proofs, active, receipts, fresh, faults, careful, retired>>

-----------------------------------------------------------------------------
(* Rolling back                                                            *)

(* No record of the rollback: its promotion must be the armed one.         *)
BeginRollback(q, r) ==
  /\ run[q] = Idle /\ r.promotion \in proofs /\ r \notin Recorded
  /\ MayStart(r)
  /\ active[BindingOf(r)] = Promoted(r.promotion)
  /\ Go(q, r, "record", Nothing)
  /\ UNCHANGED <<tx, proofs, active, receipts, outcomes, fresh, faults, careful, retired>>

ReplayRollback(q, r) ==
  /\ run[q] = Idle /\ r.promotion \in proofs
  /\ MayStart(r)
  /\ Pending(r)
  /\ active[BindingOf(r)] \in {Promoted(r.promotion), Disarmed(r)}
  /\ Go(q, r, "disarm", Nothing)
  /\ UNCHANGED <<tx, proofs, active, receipts, outcomes, fresh, faults, careful, retired>>

RecordRollback(q) ==
  /\ At(q, "record") /\ run[q].id \in Rollbacks
  /\ tx' = With(tx, run[q].id, Record("pending", Nothing))
  /\ Then(q, "disarm")
  /\ UNCHANGED <<proofs, active, receipts, outcomes, fresh, faults, careful, retired>>

(* Faulty: the receipt is forgotten.                                       *)
DisarmUnreceipted(q) ==
  LET r == run[q].id IN
  /\ At(q, "disarm")
  /\ active' = [active EXCEPT ![BindingOf(r)] = Disarmed(r)]
  /\ retired' = retired \cup {r}
  /\ Then(q, "mark")
  /\ UNCHANGED <<tx, proofs, receipts, outcomes, fresh, faults, careful>>

Disarm(q) ==
  LET r == run[q].id IN
  /\ At(q, "disarm")
  /\ active' = [active EXCEPT ![BindingOf(r)] = Disarmed(r)]
  /\ retired' = retired \cup {r}
  /\ Then(q, "receipt")
  /\ UNCHANGED <<tx, proofs, receipts, outcomes, fresh, faults, careful>>

WriteReceipt(q) ==
  /\ At(q, "receipt")
  /\ receipts' = receipts \cup {run[q].id}
  /\ Then(q, "mark")
  /\ UNCHANGED <<tx, proofs, active, outcomes, fresh, faults, careful, retired>>

-----------------------------------------------------------------------------
Crash(q) ==
  /\ run[q] # Idle
  /\ faults < MaxFaults
  /\ faults' = faults + 1
  /\ Stop(q)
  /\ UNCHANGED <<tx, proofs, active, receipts, outcomes, fresh, careful, retired>>

(* The card, the catalog or the evidence a plan binds changes, or changes  *)
(* back: building the plan again gives another id, or the same one.        *)
Drift(p) ==
  /\ faults < MaxFaults
  /\ faults' = faults + 1
  /\ fresh' = IF p \in fresh THEN fresh \ {p} ELSE fresh \cup {p}
  /\ UNCHANGED <<tx, proofs, active, receipts, outcomes, run, careful, retired>>

Progress(q) ==
  \/ WritePending(q) \/ CheckOwner(q) \/ WriteProof(q) \/ CheckActive(q) \/ Arm(q)
  \/ MarkApplied(q) \/ WriteOutcome(q)
  \/ RecordRollback(q) \/ Disarm(q) \/ WriteReceipt(q)

Replay(q, id) ==
  \/ id \in Plans /\ ReplayPromote(q, id)
  \/ id \in Rollbacks /\ ReplayRollback(q, id)

Next ==
  \/ \E q \in Processes :
       \/ \E p \in Plans : BeginPromote(q, p) \/ RecordBlocked(q, p)
       \/ \E r \in Rollbacks : BeginRollback(q, r)
       \/ \E id \in Ids : Replay(q, id)
       \/ Progress(q)
       \/ Crash(q)
  \/ \E p \in Plans : Drift(p)

Spec == Init /\ [][Next]_vars

(* A command that does not die runs on; an unfinished one is run again.    *)
FairSpec ==
  /\ Spec
  /\ \A q \in Processes : WF_vars(Progress(q))
  /\ \A id \in Ids : WF_vars(\E q \in Processes : Replay(q, id))

-----------------------------------------------------------------------------
(* Properties                                                              *)

(* The promotions that have been rolled back.                              *)
Withdrawn == {r.promotion : r \in retired}

(* Type correctness; what a promote replaces is never an armed projection. *)
TypeOK ==
  /\ Recorded \subseteq Ids
  /\ \A id \in Recorded :
       tx[id] \in [state : {"pending", "applied"}, previous : {Nothing} \cup Disarms]
  /\ proofs \subseteq Ready /\ outcomes \subseteq Plans \ Ready
  /\ active \in [Bindings -> Projections]
  /\ receipts \subseteq Rollbacks
  /\ fresh \subseteq Plans
  /\ run \in [Processes -> [id : Ids \cup {Nothing}, previous : {Nothing} \cup Disarms,
                            phase : {"idle", "record", "owner", "proof", "look", "arm",
                                     "mark", "outcome", "disarm", "receipt"}]]
  /\ faults \in 0 .. MaxFaults
  /\ careful \in BOOLEAN
  /\ retired \subseteq Rollbacks

(* Whatever a binding shows can be explained and undone from the other     *)
(* files: an armed one has its proof and its record, a disarmed one has    *)
(* the record of the rollback that disarmed it.                            *)
Backed ==
  \A b \in Bindings :
    /\ \A p \in Plans : active[b] = Promoted(p) => p \in proofs \cap Recorded
    /\ \A r \in Rollbacks : active[b] = Disarmed(r) => r \in Recorded

(* A promotion that was rolled back is never armed again, by no replay of  *)
(* it and in no order of deaths and other promotions; only a fresh plan    *)
(* arms its binding.                                                       *)
NeverRearmed == \A p \in Withdrawn : active[Binding[p]] # Promoted(p)

(* A promotion never takes the place of an armed one, even when two        *)
(* commands for one binding run at the same time.                          *)
NeverReplaced ==
  [][\A b \in Bindings, p, other \in Plans :
       active[b] = Promoted(p) /\ active'[b] = Promoted(other) => p = other]_vars

(* Both ledgers are true: a rollback recorded as applied has its receipt   *)
(* and has disarmed its promotion, and a promotion recorded as applied is  *)
(* the armed one of its binding until it is rolled back.                   *)
SettledTruth ==
  \A id \in Recorded :
    tx[id].state = "applied" =>
      /\ id \in Rollbacks => id \in receipts \cap retired
      /\ id \in Ready \ Withdrawn => active[Binding[id]] = Promoted(id)

(* No promotion is rolled back twice, be it for two reasons.               *)
UndoneOnce == \A r, s \in receipts : r.promotion = s.promotion => r = s

(* A replay of the unfinished transaction gets past every refusal, as long *)
(* as its plan still builds to the same id.                                *)
Accepted(id) ==
  IF id \in Plans
  THEN id \in fresh => /\ active[Binding[id]] \in {tx[id].previous, Promoted(id)}
                       /\ ~ Owned(id)
  ELSE active[BindingOf(id)] \in {Promoted(id.promotion), Disarmed(id)}

(* An interrupted promote or rollback of a careful user can be finished.   *)
NeverWedged == careful => \A id \in Ids : Pending(id) => Accepted(id)

(* A replay resumes a pending transaction once no command is running,      *)
(* whoever the user is.                                                    *)
ReplayResumes ==
  (\A q \in Processes : run[q] = Idle) => \A id \in Ids : Pending(id) => Accepted(id)

(* And it is finished in the end, unless its plan has drifted.             *)
EventuallySettled ==
  \A id \in Ids : (careful /\ Pending(id)) ~> (~ Pending(id) \/ id \in Plans \ fresh)

(* What the bindings are armed with and what the ledgers say is done.      *)
ArmedBy(shown) ==
  IF \E p \in Plans : shown = Promoted(p) THEN CHOOSE p \in Plans : shown = Promoted(p)
  ELSE Nothing
Armed == [b \in Bindings |-> ArmedBy(active[b])]
Done  == {id \in Recorded : tx[id].state = "applied"}

Abstract == INSTANCE Arming WITH
  Promotions <- Ready, Blocked <- Plans \ Ready, NoPromotion <- Nothing,
  armed <- Armed, undone <- retired, settled <- Done

(* A promote or a rollback, with its record, its checks, its proof and its *)
(* receipt, takes effect at the instant it writes the projection, and only *)
(* then is it recorded as applied, in any order of commands, replays and   *)
(* deaths.                                                                 *)
ImplementsArming == Abstract!ArmingSpec
=============================================================================
