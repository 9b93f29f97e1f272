-------------------------- MODULE RolloutTxn_proofs --------------------------
(***************************************************************************)
(* Theorems about RolloutTxn for any plans, bindings and reasons, any      *)
(* number of commands at one time and any order in which they die.         *)
(***************************************************************************)
EXTENDS RolloutTxn, TLAPS

-----------------------------------------------------------------------------
(* The inductive invariant                                                 *)

Held == {"owner", "proof", "look", "arm", "mark"}

(* What a command that promotes knows: it wrote its record, which nobody   *)
(* else touches, and what it looked at stays as it saw it.                 *)
Promoting(q) ==
  LET p == run[q].id  phase == run[q].phase IN
  p \in Plans =>
    /\ phase \in {"record", "outcome"} \cup Held
    /\ phase = "outcome" <=> p \notin Ready
    /\ phase = "record" => p \notin Recorded
    /\ phase \in Held => p \in Recorded /\ tx[p] = Record("pending", run[q].previous)
    /\ phase \in {"look", "arm", "mark"} => p \in proofs
    /\ phase = "arm" => active[Binding[p]] \in {Nothing, Promoted(p), run[q].previous}
    /\ phase = "mark" => active[Binding[p]] = Promoted(p)

(* What a command that rolls back knows.                                   *)
Disarming(q) ==
  LET r == run[q].id  phase == run[q].phase IN
  r \in Rollbacks =>
    /\ phase \in {"record", "disarm", "receipt", "mark"}
    /\ phase = "record" => r \notin Recorded
    /\ phase # "record" => r \in Recorded /\ tx[r].state = "pending"
    /\ phase \in {"record", "disarm"} =>
         active[Binding[r.promotion]] \in {Promoted(r.promotion), Disarmed(r)}
    /\ phase \in {"receipt", "mark"} => r \in retired
    /\ phase = "mark" => r \in receipts

Working ==
  \A q \in Processes :
    /\ run[q] # Idle => run[q].id \in Ids
    /\ Promoting(q) /\ Disarming(q)

(* The commands that run are ones that may run at the same time ...        *)
Apart ==
  \A q, o \in Processes :
    q # o /\ run[q] # Idle /\ run[o] # Idle => ~ Clash(run[q].id, run[o].id)

(* ... and the pending records leave one of them past the search for an    *)
(* owner: each writes its own before it looks for the others'.             *)
Past(q) == run[q].id \in Plans /\ run[q].phase \in Held \ {"owner"}
Alone ==
  \A q, o \in Processes :
    Past(q) /\ Past(o) /\ Binding[run[q].id] = Binding[run[o].id] => q = o

(* Whoever names a disarmed projection names a rollback that disarmed it,  *)
(* and the projection a withdrawn promotion replaced never comes back.     *)
Chain ==
  /\ \A r \in Rollbacks :
       /\ \A b \in Bindings : active[b] = Disarmed(r) => r \in retired
       /\ \A q \in Processes : run[q].previous = Disarmed(r) => r \in retired
       /\ \A p \in Plans \cap Recorded : tx[p].previous = Disarmed(r) => r \in retired
  /\ \A p \in Withdrawn :
       /\ p \in Ready \cap Recorded
       /\ active[Binding[p]] \notin {Nothing, Promoted(p), tx[p].previous}

RInv == TypeOK /\ Working /\ Apart /\ Alone /\ Chain /\ Backed /\ SettledTruth

-----------------------------------------------------------------------------
(* Names and helpers                                                       *)

LEMMA SameWithdrawn ==
  /\ UNCHANGED retired => Withdrawn' = Withdrawn
  /\ \A r : retired' = retired \cup {r} => Withdrawn' = Withdrawn \cup {r.promotion}
  /\ \A r \in retired : r.promotion \in Withdrawn
  BY DEF Withdrawn

LEMMA Names ==
  /\ \A p, o \in Plans : Promoted(p) = Promoted(o) => p = o
  /\ \A r, s \in Rollbacks : Disarmed(r) = Disarmed(s) => r = s
  /\ \A p \in Plans, r \in Rollbacks : Promoted(p) # Disarmed(r)
  /\ \A p \in Plans : Nothing # Promoted(p)
  /\ \A r \in Rollbacks : Nothing # Disarmed(r)
  /\ \A r \in Rollbacks : r \notin Plans /\ r.promotion \in Plans /\ r # Nothing
  /\ Nothing \notin Ids /\ Nothing \notin Plans
  /\ \A x \in Disarms : \E r \in Rollbacks : x = Disarmed(r)
  /\ Ids = Plans \cup Rollbacks
  /\ Ready \subseteq Plans
  /\ \A p \in Plans : Binding[p] \in Bindings
<1>1. \A r \in Rollbacks : r.promotion \in Plans
  BY DEF Rollbacks
<1>2. Disarms = {Disarmed(r) : r \in Rollbacks}
  BY DEF Disarms
<1>3. \A p, o \in Plans : Promoted(p) = Promoted(o) => p = o
  BY DEF Promoted
<1>4. \A r, s \in Rollbacks : Disarmed(r) = Disarmed(s) => r = s
  BY DEF Disarmed
<1>5. \A p \in Plans, r \in Rollbacks : Promoted(p) # Disarmed(r)
  BY DEF Promoted, Disarmed
<1>6. /\ \A p \in Plans : Nothing # Promoted(p)
      /\ \A r \in Rollbacks : Nothing # Disarmed(r)
  BY <1>2, RolloutNames
<1>7. Ids = Plans \cup Rollbacks
  BY DEF Ids
<1>8. QED
  BY <1>1, <1>2, <1>3, <1>4, <1>5, <1>6, <1>7, RolloutNames, RolloutConstants

(* A command of a plan or of a rollback, not both, and none when idle.     *)
LEMMA Kinds ==
  ASSUME RInv, NEW q \in Processes
  PROVE  /\ run[q] = Idle => run[q].id = Nothing /\ run[q].phase = "idle"
         /\ run[q].phase # "idle" => run[q] # Idle /\ run[q].id \in Ids
         /\ run[q].id \in Ids => run[q] # Idle
         /\ run[q].phase \in {"owner", "proof", "look", "arm", "outcome"} => run[q].id \in Plans
         /\ run[q].phase \in {"owner", "proof", "look", "arm"} => run[q].id \in Ready
         /\ run[q].phase \in {"disarm", "receipt"} => run[q].id \in Rollbacks
         /\ run[q].id \in Rollbacks => run[q].id \notin Plans
<1>1. run[q] = Idle => run[q].id = Nothing /\ run[q].phase = "idle"
  BY DEF Idle
<1>2. Nothing \notin Ids
  BY Names
<1>3. Working
  BY DEF RInv
<1>4. run[q].phase # "idle" => run[q] # Idle /\ run[q].id \in Ids
  BY <1>1, <1>3 DEF Working
<1>5. QED
  BY <1>1, <1>2, <1>3, <1>4, Names DEF Working, Promoting, Disarming, Held

-----------------------------------------------------------------------------
(* What concerns several commands                                          *)

(* One process goes on with its command, or ends it.                       *)
LEMMA ApartKept ==
  ASSUME Apart, NEW q \in Processes,
         \A o \in Processes \ {q} : run'[o] = run[o],
         run'[q] = Idle \/ (run[q] # Idle /\ run'[q].id = run[q].id),
         UNCHANGED careful
  PROVE  Apart'
<1>1. \A id, other : Clash(id, other)' <=> Clash(id, other)
  BY DEF Clash, BindingOf
<1>2. \A id, other : Clash(id, other) <=> Clash(other, id)
  BY DEF Clash
<1>3. QED
  BY <1>1, <1>2 DEF Apart

(* One process starts a command.                                           *)
LEMMA ApartStarts ==
  ASSUME Apart, NEW q \in Processes, run[q] = Idle,
         \A o \in Processes \ {q} : run'[o] = run[o],
         MayStart(run'[q].id), UNCHANGED careful
  PROVE  Apart'
<1>1. \A id, other : Clash(id, other)' <=> Clash(id, other)
  BY DEF Clash, BindingOf
<1>2. \A id, other : Clash(id, other) <=> Clash(other, id)
  BY DEF Clash
<1>3. QED
  BY <1>1, <1>2 DEF Apart, MayStart

(* No process gets past the search for an owner in this step.              *)
LEMMA AloneKept ==
  ASSUME Alone, NEW q \in Processes,
         \A o \in Processes \ {q} : run'[o] = run[o],
         Past(q)' => Past(q) /\ run'[q].id = run[q].id
  PROVE  Alone'
  BY DEF Alone, Past

-----------------------------------------------------------------------------
(* Steps that change only what a process holds                             *)

Runs == [id : Ids \cup {Nothing}, previous : {Nothing} \cup Disarms,
         phase : {"idle", "record", "owner", "proof", "look", "arm",
                  "mark", "outcome", "disarm", "receipt"}]

(* The fields of a process in memory.                                      *)
LEMMA RunFields ==
  ASSUME TypeOK, NEW q \in Processes
  PROVE  /\ run \in [Processes -> Runs]
         /\ run[q] \in Runs
         /\ run[q].id \in Ids \cup {Nothing}
         /\ run[q].previous \in {Nothing} \cup Disarms
  BY DEF TypeOK, Runs

LEMMA IdleFields == Idle \in Runs /\ Idle.id = Nothing /\ Idle.previous = Nothing /\ Idle.phase = "idle"
  BY DEF Idle, Runs

(* A process replaces what it holds.                                       *)
LEMMA Replaced ==
  ASSUME TypeOK, NEW q \in Processes, NEW x \in Runs, run' = [run EXCEPT ![q] = x]
  PROVE  /\ run' \in [Processes -> Runs]
         /\ run'[q] = x
         /\ \A o \in Processes \ {q} : run'[o] = run[o]
  BY RunFields

(* ... or only its phase.                                                  *)
LEMMA Proceeds ==
  ASSUME TypeOK, NEW q \in Processes, NEW phase, Then(q, phase),
         phase \in {"owner", "proof", "look", "arm", "mark", "disarm", "receipt"}
  PROVE  /\ run' \in [Processes -> Runs]
         /\ run'[q].id = run[q].id /\ run'[q].phase = phase
         /\ run'[q].previous = run[q].previous
         /\ \A o \in Processes \ {q} : run'[o] = run[o]
<1>1. run[q] \in Runs /\ run \in [Processes -> Runs]
  BY RunFields
<1>2. run' = [run EXCEPT ![q] = [run[q] EXCEPT !.phase = phase]]
  BY <1>1 DEF Then
<1>3. [run[q] EXCEPT !.phase = phase] \in Runs
  BY <1>1 DEF Runs
<1>4. /\ [run[q] EXCEPT !.phase = phase].id = run[q].id
      /\ [run[q] EXCEPT !.phase = phase].previous = run[q].previous
      /\ [run[q] EXCEPT !.phase = phase].phase = phase
  BY <1>1 DEF Runs
<1>5. QED
  BY <1>1, <1>2, <1>3, <1>4

Files == <<tx, proofs, active, receipts, retired>>

LEMMA MemoryStep ==
  ASSUME RInv, NEW q \in Processes, UNCHANGED <<Files, careful>>,
         run' \in [Processes -> Runs], \A o \in Processes \ {q} : run'[o] = run[o],
         run'[q] # Idle => run'[q].id \in Ids,
         Promoting(q)', Disarming(q)', Apart', Alone',
         run'[q].previous \in {Nothing, run[q].previous}
           \/ \E b \in Bindings : run'[q].previous = active[b]
           \/ \E p \in Plans \cap Recorded : run'[q].previous = tx[p].previous,
         outcomes' \subseteq Plans \ Ready, fresh' \subseteq Plans, faults' \in 0 .. MaxFaults
  PROVE  RInv'
<1> USE DEF Files
<1>1. TypeOK'
  BY DEF RInv, TypeOK, Runs, Recorded
<1>2. Working'
  <2> SUFFICES ASSUME NEW o \in Processes, o # q
               PROVE  (run'[o] # Idle => run'[o].id \in Ids) /\ Promoting(o)' /\ Disarming(o)'
    BY DEF Working
  <2>1. run'[o] = run[o]
    OBVIOUS
  <2>2. QED
    BY <2>1 DEF RInv, Working, Promoting, Disarming, Recorded
<1>3. Chain'
  BY Names, SameWithdrawn DEF RInv, Chain, Recorded
<1>4. Backed' /\ SettledTruth'
  BY SameWithdrawn DEF RInv, Backed, SettledTruth, Recorded
<1>5. QED
  BY <1>1, <1>2, <1>3, <1>4 DEF RInv

(* A command that ends here, or dies.                                      *)
LEMMA StopStep ==
  ASSUME RInv, NEW q \in Processes, Stop(q), UNCHANGED <<Files, careful>>,
         outcomes' \subseteq Plans \ Ready, fresh' \subseteq Plans, faults' \in 0 .. MaxFaults
  PROVE  RInv'
<1>1. TypeOK
  BY DEF RInv
<1>2. /\ run' \in [Processes -> Runs] /\ run'[q] = Idle
      /\ \A o \in Processes \ {q} : run'[o] = run[o]
  BY <1>1, IdleFields, Replaced DEF Stop
<1>3. Promoting(q)' /\ Disarming(q)'
  BY <1>2, IdleFields, Names DEF Promoting, Disarming
<1>4. Apart'
  BY <1>2, ApartKept DEF RInv
<1>5. Alone'
  BY <1>2, IdleFields, Names, AloneKept DEF RInv, Past
<1>6. QED
  BY <1>2, <1>3, <1>4, <1>5, IdleFields, MemoryStep

(* A command that starts or goes on, with no file written.                 *)
LEMMA BeginPromoteStep ==
  ASSUME RInv, NEW q \in Processes, NEW p \in Plans, BeginPromote(q, p)
  PROVE  RInv'
<1> DEFINE x == [id |-> p, phase |-> "record", previous |-> active[Binding[p]]]
<1>1. TypeOK /\ p \in Ready /\ p \notin Recorded /\ run[q] = Idle
  BY DEF RInv, BeginPromote
<1>2. active[Binding[p]] \in {Nothing} \cup Disarms
  BY <1>1, Names DEF TypeOK, Projections, BeginPromote
<1>3. x \in Runs
  BY <1>2, Names DEF Runs
<1>4. /\ run' \in [Processes -> Runs] /\ run'[q] = x
      /\ \A o \in Processes \ {q} : run'[o] = run[o]
  BY <1>1, <1>3, Replaced DEF BeginPromote, Go
<1>5. UNCHANGED <<Files, careful>> /\ UNCHANGED <<outcomes, fresh, faults>>
  BY DEF BeginPromote, Files
<1>6. Promoting(q)' /\ Disarming(q)'
  BY <1>1, <1>4, <1>5, Names DEF Promoting, Disarming, Held, Recorded, Files
<1>7. Apart'
  BY <1>1, <1>4, <1>5, ApartStarts DEF RInv, BeginPromote
<1>8. Alone'
  BY <1>4, AloneKept DEF RInv, Past, Held
<1>9. QED
  BY <1>1, <1>4, <1>5, <1>6, <1>7, <1>8, Names, MemoryStep DEF TypeOK

LEMMA ReplayPromoteStep ==
  ASSUME RInv, NEW q \in Processes, NEW p \in Plans, ReplayPromote(q, p)
  PROVE  RInv'
<1> DEFINE x == [id |-> p, phase |-> "owner", previous |-> tx[p].previous]
<1>1. TypeOK /\ p \in Ready /\ p \in Recorded /\ run[q] = Idle /\ tx[p].state = "pending"
  BY DEF RInv, ReplayPromote, Pending
<1>2. tx[p].previous \in {Nothing} \cup Disarms /\ tx[p] = Record("pending", tx[p].previous)
  BY <1>1 DEF TypeOK, Record
<1>3. x \in Runs
  BY <1>2, Names DEF Runs
<1>4. /\ run' \in [Processes -> Runs] /\ run'[q] = x
      /\ \A o \in Processes \ {q} : run'[o] = run[o]
  BY <1>1, <1>3, Replaced DEF ReplayPromote, Go
<1>5. UNCHANGED <<Files, careful>> /\ UNCHANGED <<outcomes, fresh, faults>>
  BY DEF ReplayPromote, Files
<1>6. Promoting(q)' /\ Disarming(q)'
  BY <1>1, <1>2, <1>4, <1>5, Names DEF Promoting, Disarming, Held, Recorded, Files, Record
<1>7. Apart'
  BY <1>1, <1>4, <1>5, ApartStarts DEF RInv, ReplayPromote
<1>8. Alone'
  BY <1>4, AloneKept DEF RInv, Past, Held
<1>9. QED
  BY <1>1, <1>4, <1>5, <1>6, <1>7, <1>8, Names, MemoryStep DEF TypeOK

LEMMA BeginRollbackStep ==
  ASSUME RInv, NEW q \in Processes, NEW r \in Rollbacks, BeginRollback(q, r)
  PROVE  RInv'
<1> DEFINE x == [id |-> r, phase |-> "record", previous |-> Nothing]
<1>1. TypeOK /\ r \notin Recorded /\ run[q] = Idle
  BY DEF RInv, BeginRollback
<1>2. x \in Runs
  BY Names DEF Runs
<1>3. /\ run' \in [Processes -> Runs] /\ run'[q] = x
      /\ \A o \in Processes \ {q} : run'[o] = run[o]
  BY <1>1, <1>2, Replaced DEF BeginRollback, Go
<1>4. UNCHANGED <<Files, careful>> /\ UNCHANGED <<outcomes, fresh, faults>>
  BY DEF BeginRollback, Files
<1>5. active[Binding[r.promotion]] = Promoted(r.promotion)
  BY Names DEF BeginRollback, BindingOf
<1>6. Promoting(q)' /\ Disarming(q)'
  BY <1>1, <1>3, <1>4, <1>5, Names DEF Promoting, Disarming, Held, Recorded, Files
<1>7. Apart'
  BY <1>1, <1>3, <1>4, ApartStarts DEF RInv, BeginRollback
<1>8. Alone'
  BY <1>3, Names, AloneKept DEF RInv, Past
<1>9. QED
  BY <1>1, <1>3, <1>4, <1>6, <1>7, <1>8, Names, MemoryStep DEF TypeOK

LEMMA ReplayRollbackStep ==
  ASSUME RInv, NEW q \in Processes, NEW r \in Rollbacks, ReplayRollback(q, r)
  PROVE  RInv'
<1> DEFINE x == [id |-> r, phase |-> "disarm", previous |-> Nothing]
<1>1. TypeOK /\ r \in Recorded /\ tx[r].state = "pending" /\ run[q] = Idle
  BY DEF RInv, ReplayRollback, Pending
<1>2. x \in Runs
  BY Names DEF Runs
<1>3. /\ run' \in [Processes -> Runs] /\ run'[q] = x
      /\ \A o \in Processes \ {q} : run'[o] = run[o]
  BY <1>1, <1>2, Replaced DEF ReplayRollback, Go
<1>4. UNCHANGED <<Files, careful>> /\ UNCHANGED <<outcomes, fresh, faults>>
  BY DEF ReplayRollback, Files
<1>5. active[Binding[r.promotion]] \in {Promoted(r.promotion), Disarmed(r)}
  BY Names DEF ReplayRollback, BindingOf
<1>6. Promoting(q)' /\ Disarming(q)'
  BY <1>1, <1>3, <1>4, <1>5, Names DEF Promoting, Disarming, Held, Recorded, Files
<1>7. Apart'
  BY <1>1, <1>3, <1>4, ApartStarts DEF RInv, ReplayRollback
<1>8. Alone'
  BY <1>3, Names, AloneKept DEF RInv, Past
<1>9. QED
  BY <1>1, <1>3, <1>4, <1>6, <1>7, <1>8, Names, MemoryStep DEF TypeOK

(* The search for an owner: whoever is past it has its record on disk, and *)
(* so has this process.                                                    *)
LEMMA CheckOwnerStep ==
  ASSUME RInv, NEW q \in Processes, CheckOwner(q)
  PROVE  RInv'
<1>1. /\ TypeOK /\ run[q].phase = "owner" /\ run[q] # Idle
      /\ run[q].id \in Plans /\ run[q].id \in Ready
  BY Kinds DEF RInv, CheckOwner, At
<1>2. UNCHANGED <<Files, careful>> /\ UNCHANGED <<outcomes, fresh, faults>>
  BY DEF CheckOwner, Files
<1>3. CASE Owned(run[q].id)
  BY <1>1, <1>2, <1>3, StopStep DEF CheckOwner, TypeOK
<1>4. CASE ~ Owned(run[q].id)
  <2>1. /\ run' \in [Processes -> Runs]
        /\ run'[q].id = run[q].id /\ run'[q].phase = "proof"
        /\ run'[q].previous = run[q].previous
        /\ \A o \in Processes \ {q} : run'[o] = run[o]
    BY <1>1, <1>4, Proceeds DEF CheckOwner
  <2>2. Promoting(q)
    BY DEF RInv, Working
  <2>3. Promoting(q)' /\ Disarming(q)'
    BY <1>1, <1>2, <2>1, <2>2, Names DEF Promoting, Disarming, Held, Recorded, Files
  <2>4. Apart'
    BY <1>1, <1>2, <2>1, ApartKept DEF RInv
  <2>5. \A o \in Processes \ {q} : Past(o) => Binding[run[o].id] # Binding[run[q].id]
    <3> SUFFICES ASSUME NEW o \in Processes, o # q, Past(o),
                        Binding[run[o].id] = Binding[run[q].id]
                 PROVE  FALSE
      OBVIOUS
    <3>1. run[o].id \in Plans /\ run[o] # Idle /\ Promoting(o)
      BY Kinds, Names DEF Past, RInv, Working
    <3>2. run[o].phase \in Held /\ run[o].phase # "outcome"
      BY DEF Past, Held
    <3>3. run[o].id \in Recorded \cap Ready /\ tx[run[o].id].state = "pending"
      BY <3>1, <3>2 DEF Promoting, Record
    <3>4. run[o].id # run[q].id
      BY <1>1, <3>1 DEF RInv, Apart, Clash
    <3>5. QED
      BY <1>4, <3>3, <3>4 DEF Owned, Pending
  <2>6. Alone'
    BY <1>1, <2>1, <2>5 DEF RInv, Alone, Past
  <2>7. QED
    BY <1>1, <1>2, <2>1, <2>3, <2>4, <2>6, Names, MemoryStep DEF TypeOK
<1>5. QED
  BY <1>3, <1>4

LEMMA CheckActiveStep ==
  ASSUME RInv, NEW q \in Processes, CheckActive(q)
  PROVE  RInv'
<1> DEFINE p == run[q].id
           clear == active[Binding[p]] \in {Nothing, Promoted(p), run[q].previous}
<1>1. TypeOK /\ run[q].phase = "look" /\ run[q] # Idle /\ p \in Plans /\ p \in Ready
  BY Kinds DEF RInv, CheckActive, At
<1>2. UNCHANGED <<Files, careful>> /\ UNCHANGED <<outcomes, fresh, faults>>
  BY DEF CheckActive, Files
<1>3. CASE ~ clear
  BY <1>1, <1>2, <1>3, StopStep DEF CheckActive, TypeOK
<1>4. CASE clear
  <2>1. /\ run' \in [Processes -> Runs]
        /\ run'[q].id = run[q].id /\ run'[q].phase = "arm"
        /\ run'[q].previous = run[q].previous
        /\ \A o \in Processes \ {q} : run'[o] = run[o]
    BY <1>1, <1>4, Proceeds DEF CheckActive
  <2>2. Promoting(q)
    BY DEF RInv, Working
  <2>3. Promoting(q)' /\ Disarming(q)'
    BY <1>1, <1>2, <1>4, <2>1, <2>2, Names DEF Promoting, Disarming, Held, Recorded, Files
  <2>4. Apart'
    BY <1>1, <1>2, <2>1, ApartKept DEF RInv
  <2>5. Alone'
    BY <1>1, <2>1, AloneKept DEF RInv, Past, Held
  <2>6. QED
    BY <1>1, <1>2, <2>1, <2>3, <2>4, <2>5, Names, MemoryStep DEF TypeOK
<1>5. QED
  BY <1>3, <1>4

LEMMA WriteOutcomeStep ==
  ASSUME RInv, NEW q \in Processes, WriteOutcome(q)
  PROVE  RInv'
<1>1. TypeOK /\ run[q].id \in Plans /\ run[q].phase = "outcome"
  BY Kinds DEF RInv, WriteOutcome, At
<1>2. run[q].id \notin Ready
  BY <1>1 DEF RInv, Working, Promoting
<1>3. QED
  BY <1>1, <1>2, StopStep DEF WriteOutcome, TypeOK, Files

LEMMA CrashStep ==
  ASSUME RInv, NEW q \in Processes, Crash(q)
  PROVE  RInv'
<1>1. TypeOK /\ MaxFaults \in Nat
  BY RolloutConstants DEF RInv
<1>2. faults' \in 0 .. MaxFaults
  BY <1>1 DEF Crash, TypeOK
<1>3. QED
  BY <1>1, <1>2, StopStep DEF Crash, TypeOK, Files

(* Nothing the invariant speaks of changes.                                *)
LEMMA DriftStep ==
  ASSUME RInv, NEW p \in Plans, Drift(p)
  PROVE  RInv'
<1>1. MaxFaults \in Nat
  BY RolloutConstants
<1>2. TypeOK'
  BY <1>1 DEF RInv, Drift, TypeOK, Recorded
<1>3. Working'
  BY DEF RInv, Drift, Working, Promoting, Disarming, Recorded
<1>4. Apart' /\ Alone'
  BY DEF RInv, Drift, Apart, Clash, BindingOf, Alone, Past
<1>5. Chain' /\ Backed' /\ SettledTruth'
  BY SameWithdrawn DEF RInv, Drift, Chain, Backed, SettledTruth, Recorded
<1>6. QED
  BY <1>2, <1>3, <1>4, <1>5 DEF RInv

-----------------------------------------------------------------------------
(* Steps that write a file                                                 *)

(* A proof is stored.                                                      *)
LEMMA WriteProofStep ==
  ASSUME RInv, NEW q \in Processes, WriteProof(q)
  PROVE  RInv'
<1>1. TypeOK /\ run[q].phase = "proof" /\ run[q] # Idle /\ run[q].id \in Plans /\ run[q].id \in Ready
  BY Kinds DEF RInv, WriteProof, At
<1>2. /\ run' \in [Processes -> Runs]
      /\ run'[q].id = run[q].id /\ run'[q].phase = "look"
      /\ run'[q].previous = run[q].previous
      /\ \A o \in Processes \ {q} : run'[o] = run[o]
  BY <1>1, Proceeds DEF WriteProof
<1>3. proofs' = proofs \cup {run[q].id}
      /\ UNCHANGED <<tx, active, receipts, outcomes, fresh, faults, careful, retired>>
  BY DEF WriteProof
<1>4. TypeOK'
  BY <1>1, <1>2, <1>3 DEF TypeOK, Runs, Recorded
<1>5. Working'
  <2> SUFFICES ASSUME NEW o \in Processes
               PROVE  (run'[o] # Idle => run'[o].id \in Ids) /\ Promoting(o)' /\ Disarming(o)'
    BY DEF Working
  <2>1. Promoting(o) /\ Disarming(o) /\ (run[o] # Idle => run[o].id \in Ids)
    BY DEF RInv, Working
  <2>2. CASE o = q
    BY <1>1, <1>2, <1>3, <2>1, <2>2, Names DEF Promoting, Disarming, Held, Recorded
  <2>3. CASE o # q
    BY <1>2, <1>3, <2>1, <2>3 DEF Promoting, Disarming, Recorded
  <2>4. QED
    BY <2>2, <2>3
<1>6. Apart'
  BY <1>1, <1>2, <1>3, ApartKept DEF RInv
<1>7. Alone'
  BY <1>1, <1>2, AloneKept DEF RInv, Past, Held
<1>8. Chain' /\ Backed' /\ SettledTruth'
  <2>1. \A o \in Processes : run'[o].previous = run[o].previous
    BY <1>2
  <2>2. Chain'
    BY <1>3, <2>1, SameWithdrawn DEF RInv, Chain, Recorded
  <2>3. QED
    BY <1>3, <2>2, SameWithdrawn DEF RInv, Backed, SettledTruth, Recorded
<1>9. QED
  BY <1>4, <1>5, <1>6, <1>7, <1>8 DEF RInv

(* A receipt is stored.                                                    *)
LEMMA WriteReceiptStep ==
  ASSUME RInv, NEW q \in Processes, WriteReceipt(q)
  PROVE  RInv'
<1>1. TypeOK /\ run[q].phase = "receipt" /\ run[q] # Idle /\ run[q].id \in Rollbacks /\ run[q].id \notin Plans
  BY Kinds, Names DEF RInv, WriteReceipt, At
<1>2. /\ run' \in [Processes -> Runs]
      /\ run'[q].id = run[q].id /\ run'[q].phase = "mark"
      /\ run'[q].previous = run[q].previous
      /\ \A o \in Processes \ {q} : run'[o] = run[o]
  BY <1>1, Proceeds DEF WriteReceipt
<1>3. receipts' = receipts \cup {run[q].id}
      /\ UNCHANGED <<tx, proofs, active, outcomes, fresh, faults, careful, retired>>
  BY DEF WriteReceipt
<1>4. TypeOK'
  BY <1>1, <1>2, <1>3 DEF TypeOK, Runs, Recorded
<1>5. Working'
  <2> SUFFICES ASSUME NEW o \in Processes
               PROVE  (run'[o] # Idle => run'[o].id \in Ids) /\ Promoting(o)' /\ Disarming(o)'
    BY DEF Working
  <2>1. Promoting(o) /\ Disarming(o) /\ (run[o] # Idle => run[o].id \in Ids)
    BY DEF RInv, Working
  <2>2. CASE o = q
    BY <1>1, <1>2, <1>3, <2>1, <2>2, Names DEF Promoting, Disarming, Held, Recorded
  <2>3. CASE o # q
    BY <1>2, <1>3, <2>1, <2>3 DEF Promoting, Disarming, Recorded
  <2>4. QED
    BY <2>2, <2>3
<1>6. Apart'
  BY <1>1, <1>2, <1>3, ApartKept DEF RInv
<1>7. Alone'
  BY <1>1, <1>2, AloneKept DEF RInv, Past
<1>8. Chain' /\ Backed' /\ SettledTruth'
  <2>1. \A o \in Processes : run'[o].previous = run[o].previous
    BY <1>2
  <2>2. Chain'
    BY <1>3, <2>1, SameWithdrawn DEF RInv, Chain, Recorded
  <2>3. QED
    BY <1>3, <2>2, SameWithdrawn DEF RInv, Backed, SettledTruth, Recorded
<1>9. QED
  BY <1>4, <1>5, <1>6, <1>7, <1>8 DEF RInv

-----------------------------------------------------------------------------
(* Steps that write a record                                               *)

TxRecords == [state : {"pending", "applied"}, previous : {Nothing} \cup Disarms]

LEMMA RecordFields ==
  ASSUME NEW state \in {"pending", "applied"}, NEW previous \in {Nothing} \cup Disarms
  PROVE  /\ Record(state, previous) \in TxRecords
         /\ Record(state, previous).state = state
         /\ Record(state, previous).previous = previous
  BY DEF Record, TxRecords

LEMMA RecordStep ==
  ASSUME RInv, NEW q \in Processes, NEW id \in Ids, NEW rec \in TxRecords,
         tx' = With(tx, id, rec),
         UNCHANGED <<proofs, active, receipts, outcomes, fresh, faults, careful, retired>>,
         run' \in [Processes -> Runs], \A o \in Processes \ {q} : run'[o] = run[o],
         run'[q] # Idle => run'[q].id \in Ids,
         \A o \in Processes \ {q} : run[o].id # id,
         Promoting(q)', Disarming(q)', Apart', Alone',
         run'[q].previous \in {Nothing, run[q].previous},
         \A r \in Rollbacks : rec.previous = Disarmed(r) => r \in retired,
         id \in Withdrawn => rec.previous = tx[id].previous,
         rec.state = "applied" => /\ id \in Rollbacks => id \in receipts /\ id \in retired
                                  /\ id \in Ready \ Withdrawn => active[Binding[id]] = Promoted(id)
  PROVE  RInv'
<1>1. /\ Recorded' = Recorded \cup {id} /\ tx'[id] = rec
      /\ \A k \in Recorded \ {id} : tx'[k] = tx[k]
  BY DEF Recorded, With
<1>2. TypeOK'
  BY <1>1, Names DEF RInv, TypeOK, Runs, TxRecords
<1>3. Working'
  <2> SUFFICES ASSUME NEW o \in Processes, o # q
               PROVE  (run'[o] # Idle => run'[o].id \in Ids) /\ Promoting(o)' /\ Disarming(o)'
    BY DEF Working
  <2>1. Promoting(o) /\ Disarming(o) /\ (run[o] # Idle => run[o].id \in Ids)
    BY DEF RInv, Working
  <2>2. run'[o] = run[o] /\ run[o].id # id
    OBVIOUS
  <2>3. Promoting(o)'
    BY <1>1, <2>1, <2>2 DEF Promoting
  <2>4. Disarming(o)'
    BY <1>1, <2>1, <2>2 DEF Disarming
  <2>5. QED
    BY <2>1, <2>2, <2>3, <2>4
<1>4. Chain'
  <2>1. Chain
    BY DEF RInv
  <2>2. \A r \in Rollbacks : \A o \in Processes :
          run'[o].previous = Disarmed(r) => r \in retired
    BY <2>1, Names DEF Chain
  <2>3. \A r \in Rollbacks : \A p \in Plans \cap Recorded' :
          tx'[p].previous = Disarmed(r) => r \in retired
    BY <1>1, <2>1 DEF Chain
  <2>4. \A p \in Withdrawn : p \in Recorded' /\ tx'[p].previous = tx[p].previous
    BY <1>1, <2>1 DEF Chain
  <2>5. QED
    BY <2>1, <2>2, <2>3, <2>4, SameWithdrawn DEF Chain
<1>5. Backed'
  BY <1>1 DEF RInv, Backed
<1>6. SettledTruth'
  BY <1>1, SameWithdrawn DEF RInv, SettledTruth
<1>7. QED
  BY <1>2, <1>3, <1>4, <1>5, <1>6 DEF RInv

(* No two commands with one id run at the same time.                       *)
LEMMA OwnId ==
  ASSUME RInv, NEW q \in Processes, run[q] # Idle
  PROVE  \A o \in Processes \ {q} : run[o].id # run[q].id
<1>1. run[q].id \in Ids
  BY DEF RInv, Working
<1>2. QED
  BY <1>1, Kinds, Names DEF RInv, Apart, Clash

LEMMA WritePendingStep ==
  ASSUME RInv, NEW q \in Processes, WritePending(q)
  PROVE  RInv'
<1> DEFINE p == run[q].id
           rec == Record("pending", run[q].previous)
<1>1. /\ TypeOK /\ p \in Plans /\ p \in Ids /\ run[q].phase = "record" /\ run[q] # Idle
      /\ Promoting(q) /\ p \notin Recorded
  BY Kinds, Names DEF RInv, WritePending, At, Working, Promoting
<1>2. rec \in TxRecords /\ rec.state = "pending" /\ rec.previous = run[q].previous
  BY <1>1, RunFields, RecordFields
<1>3. /\ tx' = With(tx, p, rec)
      /\ UNCHANGED <<proofs, active, receipts, outcomes, fresh, faults, careful, retired>>
  BY DEF WritePending
<1>4. Recorded' = Recorded \cup {p} /\ tx'[p] = rec
  BY <1>3 DEF Recorded, With
<1>5. /\ run' \in [Processes -> Runs]
      /\ run'[q].id = p /\ run'[q].phase = "owner"
      /\ run'[q].previous = run[q].previous
      /\ \A o \in Processes \ {q} : run'[o] = run[o]
  BY <1>1, Proceeds DEF WritePending
<1>6. Promoting(q)' /\ Disarming(q)'
  BY <1>1, <1>3, <1>4, <1>5, Names DEF Promoting, Disarming, Held
<1>7. Apart' /\ Alone'
  BY <1>1, <1>3, <1>5, ApartKept, AloneKept DEF RInv, Past, Held
<1>8. p \notin Withdrawn
  BY <1>1 DEF RInv, Chain
<1>9. \A r \in Rollbacks : rec.previous = Disarmed(r) => r \in retired
  BY <1>2 DEF RInv, Chain
<1>10. QED
  BY <1>1, <1>2, <1>3, <1>5, <1>6, <1>7, <1>8, <1>9, OwnId, RecordStep

LEMMA RecordBlockedStep ==
  ASSUME RInv, NEW q \in Processes, NEW p \in Plans, RecordBlocked(q, p)
  PROVE  RInv'
<1> DEFINE x == [id |-> p, phase |-> "outcome", previous |-> Nothing]
           rec == Record("applied", Nothing)
<1>1. TypeOK /\ p \notin Ready /\ p \in Ids /\ run[q] = Idle
  BY Names DEF RInv, RecordBlocked
<1>2. rec \in TxRecords /\ rec.previous = Nothing
  BY RecordFields
<1>3. /\ tx' = With(tx, p, rec)
      /\ UNCHANGED <<proofs, active, receipts, outcomes, fresh, faults, careful, retired>>
  BY DEF RecordBlocked
<1>4. x \in Runs
  BY Names DEF Runs
<1>5. /\ run' \in [Processes -> Runs] /\ run'[q] = x
      /\ \A o \in Processes \ {q} : run'[o] = run[o]
  BY <1>1, <1>4, Replaced DEF RecordBlocked, Go
<1>6. Promoting(q)' /\ Disarming(q)'
  BY <1>1, <1>5, Names DEF Promoting, Disarming, Held
<1>7. Apart'
  BY <1>1, <1>3, <1>5, ApartStarts DEF RInv, RecordBlocked
<1>8. Alone'
  BY <1>5, AloneKept DEF RInv, Past, Held
<1>9. \A o \in Processes \ {q} : run[o].id # p
  BY <1>1, Kinds DEF RecordBlocked, MayStart, Clash
<1>10. p \notin Withdrawn
  BY <1>1 DEF RInv, Chain
<1>11. p \notin Rollbacks /\ \A r \in Rollbacks : rec.previous # Disarmed(r)
  BY <1>2, Names
<1>12. QED
  BY <1>1, <1>2, <1>3, <1>5, <1>6, <1>7, <1>8, <1>9, <1>10, <1>11, RecordStep

LEMMA RecordRollbackStep ==
  ASSUME RInv, NEW q \in Processes, RecordRollback(q)
  PROVE  RInv'
<1> DEFINE r == run[q].id
           rec == Record("pending", Nothing)
<1>1. /\ TypeOK /\ r \in Rollbacks /\ r \in Ids /\ r \notin Plans
      /\ run[q].phase = "record" /\ run[q] # Idle /\ Disarming(q)
  BY Kinds, Names DEF RInv, RecordRollback, At, Working
<1>2. rec \in TxRecords /\ rec.state = "pending" /\ rec.previous = Nothing
  BY RecordFields
<1>3. /\ tx' = With(tx, r, rec)
      /\ UNCHANGED <<proofs, active, receipts, outcomes, fresh, faults, careful, retired>>
  BY DEF RecordRollback
<1>4. Recorded' = Recorded \cup {r} /\ tx'[r] = rec
  BY <1>3 DEF Recorded, With
<1>5. /\ run' \in [Processes -> Runs]
      /\ run'[q].id = r /\ run'[q].phase = "disarm"
      /\ run'[q].previous = run[q].previous
      /\ \A o \in Processes \ {q} : run'[o] = run[o]
  BY <1>1, Proceeds DEF RecordRollback
<1>6. Promoting(q)' /\ Disarming(q)'
  BY <1>1, <1>2, <1>3, <1>4, <1>5 DEF Promoting, Disarming
<1>7. Apart' /\ Alone'
  BY <1>1, <1>3, <1>5, ApartKept, AloneKept DEF RInv, Past
<1>8. r \notin Withdrawn
  BY <1>1, Names DEF RInv, Chain
<1>9. \A s \in Rollbacks : rec.previous # Disarmed(s)
  BY <1>2, Names
<1>10. QED
  BY <1>1, <1>2, <1>3, <1>5, <1>6, <1>7, <1>8, <1>9, OwnId, RecordStep

LEMMA MarkAppliedStep ==
  ASSUME RInv, NEW q \in Processes, MarkApplied(q)
  PROVE  RInv'
<1> DEFINE id == run[q].id
           rec == Record("applied", run[q].previous)
<1>1. /\ TypeOK /\ id \in Ids /\ run[q].phase = "mark" /\ run[q] # Idle
      /\ Promoting(q) /\ Disarming(q)
  BY Kinds DEF RInv, MarkApplied, At, Working
<1>2. rec \in TxRecords /\ rec.previous = run[q].previous
  BY <1>1, RunFields, RecordFields
<1>3. /\ tx' = With(tx, id, rec)
      /\ UNCHANGED <<proofs, active, receipts, outcomes, fresh, faults, careful, retired>>
  BY DEF MarkApplied
<1>4. /\ run' \in [Processes -> Runs] /\ run'[q] = Idle
      /\ \A o \in Processes \ {q} : run'[o] = run[o]
  BY <1>1, IdleFields, Replaced DEF MarkApplied, Stop
<1>5. Promoting(q)' /\ Disarming(q)'
  BY <1>4, IdleFields, Names DEF Promoting, Disarming
<1>6. Apart' /\ Alone'
  BY <1>3, <1>4, IdleFields, Names, ApartKept, AloneKept DEF RInv, Past
<1>7. \A r \in Rollbacks : rec.previous = Disarmed(r) => r \in retired
  BY <1>2 DEF RInv, Chain
<1>8. id \in Plans => tx[id].previous = run[q].previous /\ active[Binding[id]] = Promoted(id)
  BY <1>1 DEF Promoting, Held, Record
<1>9. id \in Withdrawn => rec.previous = tx[id].previous
  BY <1>2, <1>8, Names DEF RInv, Chain
<1>10. /\ id \in Rollbacks => id \in receipts /\ id \in retired
       /\ id \in Ready \ Withdrawn => active[Binding[id]] = Promoted(id)
  BY <1>1, <1>8, Names DEF Disarming
<1>11. QED
  BY <1>1, <1>2, <1>3, <1>4, <1>5, <1>6, <1>7, <1>9, <1>10, IdleFields, OwnId, RecordStep

-----------------------------------------------------------------------------
(* Steps that change what a binding shows                                  *)

(* What a promote finds when it arms its binding.                          *)
LEMMA BeforeArm ==
  ASSUME RInv, NEW q \in Processes, Arm(q)
  PROVE  LET p == run[q].id IN
         /\ run[q] # Idle /\ run[q].phase = "arm" /\ p \in Plans /\ p \in Ready
         /\ p \in Recorded \cap proofs /\ tx[p].previous = run[q].previous
         /\ p \notin Withdrawn
         /\ \A other \in Plans : active[Binding[p]] = Promoted(other) => other = p
<1> DEFINE p == run[q].id
<1>1. TypeOK /\ run[q].phase = "arm" /\ run[q] # Idle /\ p \in Plans /\ p \in Ready /\ Promoting(q)
  BY Kinds DEF RInv, Arm, At, Working
<1>2. /\ p \in Recorded /\ tx[p] = Record("pending", run[q].previous) /\ p \in proofs
      /\ active[Binding[p]] \in {Nothing, Promoted(p), run[q].previous}
  BY <1>1 DEF Promoting, Held
<1>3. tx[p].previous = run[q].previous
  BY <1>2 DEF Record
<1>4. p \notin Withdrawn
  BY <1>2, <1>3 DEF RInv, Chain
<1>5. run[q].previous \in {Nothing} \cup Disarms
  BY <1>1, RunFields
<1>6. \A other \in Plans : active[Binding[p]] = Promoted(other) => other = p
  BY <1>1, <1>2, <1>5, Names
<1>7. QED
  BY <1>1, <1>2, <1>3, <1>4, <1>6

LEMMA ArmStep ==
  ASSUME RInv, NEW q \in Processes, Arm(q)
  PROVE  RInv'
<1> DEFINE p == run[q].id
           b == Binding[p]
<1>1. /\ TypeOK /\ run[q] # Idle /\ run[q].phase = "arm" /\ p \in Plans /\ p \in Ready
      /\ p \in Recorded \cap proofs /\ p \notin Withdrawn
      /\ \A other \in Plans : active[b] = Promoted(other) => other = p
  BY BeforeArm DEF RInv
<1>2. b \in Bindings /\ active \in [Bindings -> Projections]
  BY <1>1, Names DEF TypeOK
<1>3. /\ active' = [active EXCEPT ![b] = Promoted(p)]
      /\ UNCHANGED <<tx, proofs, receipts, outcomes, fresh, faults, careful, retired>>
  BY DEF Arm
<1>4. active'[b] = Promoted(p) /\ \A c \in Bindings \ {b} : active'[c] = active[c]
  BY <1>2, <1>3
<1>5. /\ run' \in [Processes -> Runs]
      /\ run'[q].id = p /\ run'[q].phase = "mark"
      /\ run'[q].previous = run[q].previous
      /\ \A o \in Processes \ {q} : run'[o] = run[o]
  BY <1>1, Proceeds DEF Arm
<1>6. TypeOK'
  <2>1. Promoted(p) \in Projections
    BY <1>1 DEF Projections
  <2>2. active' \in [Bindings -> Projections]
    BY <1>2, <1>3, <2>1
  <2>3. QED
    BY <1>1, <1>3, <1>5, <2>2 DEF TypeOK, Runs, Recorded
<1>7. Working'
  <2> SUFFICES ASSUME NEW o \in Processes
               PROVE  (run'[o] # Idle => run'[o].id \in Ids) /\ Promoting(o)' /\ Disarming(o)'
    BY DEF Working
  <2>1. Promoting(o) /\ Disarming(o) /\ (run[o] # Idle => run[o].id \in Ids)
    BY DEF RInv, Working
  <2>2. CASE o = q
    BY <1>1, <1>3, <1>4, <1>5, <2>1, <2>2, Names DEF Promoting, Disarming, Held, Recorded
  <2>3. CASE o # q
    <3>1. run'[o] = run[o]
      BY <1>5, <2>3
    <3>2. (run[o].id \in Plans /\ run[o].phase \in {"arm", "mark"}) => Binding[run[o].id] # b
      BY <1>1, <2>3 DEF RInv, Alone, Past, Held
    <3>3. run[o].id \in Rollbacks => Binding[run[o].id.promotion] # b
      BY <1>1, <2>3, Kinds, Names DEF RInv, Apart, Clash, BindingOf
    <3>4. Promoting(o)'
      BY <1>3, <1>4, <2>1, <3>1, <3>2, Names DEF Promoting, Recorded
    <3>5. Disarming(o)'
      BY <1>3, <1>4, <2>1, <3>1, <3>3, Names DEF Disarming, Recorded
    <3>6. QED
      BY <2>1, <3>1, <3>4, <3>5
  <2>4. QED
    BY <2>2, <2>3
<1>8. Apart' /\ Alone'
  BY <1>1, <1>3, <1>5, ApartKept, AloneKept DEF RInv, Past, Held
<1>9. Chain'
  <2>1. Chain
    BY DEF RInv
  <2>2. \A r \in Rollbacks, c \in Bindings : active'[c] = Disarmed(r) => r \in retired
    BY <1>1, <1>4, <2>1, Names DEF Chain
  <2>3. \A o \in Processes : run'[o].previous = run[o].previous
    BY <1>5
  <2>4. \A k \in Withdrawn : tx[k].previous \in {Nothing} \cup Disarms /\ k \in Plans
    BY <1>1, <2>1, Names DEF Chain, TypeOK
  <2>5. \A k \in Withdrawn : active'[Binding[k]] \notin {Nothing, Promoted(k), tx[k].previous}
    BY <1>1, <1>4, <2>1, <2>4, Names DEF Chain
  <2>6. QED
    BY <1>3, <2>1, <2>2, <2>3, <2>5, SameWithdrawn DEF Chain, Recorded
<1>10. Backed'
  BY <1>1, <1>3, <1>4, Names DEF RInv, Backed, Recorded
<1>11. SettledTruth'
  BY <1>1, <1>3, <1>4, Names, SameWithdrawn DEF RInv, SettledTruth, Recorded
<1>12. QED
  BY <1>6, <1>7, <1>8, <1>9, <1>10, <1>11 DEF RInv

LEMMA DisarmStep ==
  ASSUME RInv, NEW q \in Processes, Disarm(q)
  PROVE  RInv'
<1> DEFINE r == run[q].id
           m == r.promotion
           b == Binding[m]
<1>1. /\ TypeOK /\ r \in Rollbacks /\ r \in Ids /\ r \notin Plans /\ m \in Plans
      /\ run[q].phase = "disarm" /\ run[q] # Idle /\ Disarming(q)
  BY Kinds, Names DEF RInv, Disarm, At, Working
<1>2. b \in Bindings /\ active \in [Bindings -> Projections] /\ BindingOf(r) = b
  BY <1>1, Names DEF TypeOK, BindingOf
<1>3. r \in Recorded /\ active[b] \in {Promoted(m), Disarmed(r)}
  BY <1>1 DEF Disarming
<1>4. /\ active' = [active EXCEPT ![b] = Disarmed(r)] /\ retired' = retired \cup {r}
      /\ UNCHANGED <<tx, proofs, receipts, outcomes, fresh, faults, careful>>
  BY <1>2 DEF Disarm
<1>5. active'[b] = Disarmed(r) /\ \A c \in Bindings \ {b} : active'[c] = active[c]
  BY <1>2, <1>4
<1>6. /\ run' \in [Processes -> Runs]
      /\ run'[q].id = r /\ run'[q].phase = "receipt"
      /\ run'[q].previous = run[q].previous
      /\ \A o \in Processes \ {q} : run'[o] = run[o]
  BY <1>1, Proceeds DEF Disarm
<1>7. m \in Ready \cap Recorded
  BY <1>1, <1>2, <1>3, SameWithdrawn DEF RInv, Backed, Chain, TypeOK
<1>8. TypeOK'
  <2>1. Disarmed(r) \in Projections
    BY <1>1 DEF Projections, Disarms
  <2>2. active' \in [Bindings -> Projections]
    BY <1>2, <1>4, <2>1
  <2>3. QED
    BY <1>1, <1>4, <1>6, <2>2 DEF TypeOK, Runs, Recorded
<1>9. Working'
  <2> SUFFICES ASSUME NEW o \in Processes
               PROVE  (run'[o] # Idle => run'[o].id \in Ids) /\ Promoting(o)' /\ Disarming(o)'
    BY DEF Working
  <2>1. Promoting(o) /\ Disarming(o) /\ (run[o] # Idle => run[o].id \in Ids)
    BY DEF RInv, Working
  <2>2. CASE o = q
    BY <1>1, <1>4, <1>6, <2>1, <2>2 DEF Promoting, Disarming, Recorded
  <2>3. CASE o # q
    <3>1. run'[o] = run[o]
      BY <1>6, <2>3
    <3>2. run[o] # Idle => BindingOf(run[o].id) # b
      BY <1>1, <1>2, <2>3 DEF RInv, Apart, Clash
    <3>3. run[o].id \in Plans => Binding[run[o].id] # b
      BY <3>2, Kinds, Names DEF BindingOf
    <3>4. run[o].id \in Rollbacks => Binding[run[o].id.promotion] # b
      BY <3>2, Kinds, Names DEF BindingOf
    <3>5. Promoting(o)'
      BY <1>4, <1>5, <2>1, <3>1, <3>3, Names DEF Promoting, Recorded
    <3>6. Disarming(o)'
      BY <1>4, <1>5, <2>1, <3>1, <3>4, Names DEF Disarming, Recorded
    <3>7. QED
      BY <2>1, <3>1, <3>5, <3>6
  <2>4. QED
    BY <2>2, <2>3
<1>10. Apart' /\ Alone'
  BY <1>1, <1>4, <1>6, ApartKept, AloneKept DEF RInv, Past
<1>11. Chain'
  <2>1. Chain
    BY DEF RInv
  <2>2. \A s \in Rollbacks, c \in Bindings : active'[c] = Disarmed(s) => s \in retired'
    BY <1>1, <1>4, <1>5, <2>1, Names DEF Chain
  <2>3. \A o \in Processes : run'[o].previous = run[o].previous
    BY <1>6
  <2>4. \A k \in Withdrawn' : k \in Ready \cap Recorded /\ k \in Plans
    BY <1>4, <1>7, <2>1, Names, SameWithdrawn DEF Chain
  <2>5. ASSUME NEW k \in Withdrawn', Binding[k] = b PROVE tx[k].previous # Disarmed(r)
    <3> SUFFICES ASSUME tx[k].previous = Disarmed(r) PROVE FALSE
      OBVIOUS
    <3>1. m \in Withdrawn
      BY <1>1, <2>1, <2>4, SameWithdrawn DEF Chain
    <3>2. active[b] # Promoted(m) /\ k \in Withdrawn
      BY <1>4, <2>1, <3>1, SameWithdrawn DEF Chain
    <3>3. QED
      BY <1>3, <2>1, <2>5, <3>2 DEF Chain
  <2>6. \A k \in Withdrawn' : active'[Binding[k]] \notin {Nothing, Promoted(k), tx[k].previous}
    <3> SUFFICES ASSUME NEW k \in Withdrawn'
                 PROVE  active'[Binding[k]] \notin {Nothing, Promoted(k), tx[k].previous}
      OBVIOUS
    <3>1. k \in Plans /\ Binding[k] \in Bindings
      BY <2>4, Names
    <3>2. CASE Binding[k] = b
      BY <1>1, <1>5, <2>5, <3>1, <3>2, Names
    <3>3. CASE Binding[k] # b
      BY <1>4, <1>5, <2>1, <3>1, <3>3, SameWithdrawn DEF Chain
    <3>4. QED
      BY <3>2, <3>3
  <2>7. QED
    BY <1>4, <2>1, <2>2, <2>3, <2>4, <2>6 DEF Chain, Recorded
<1>12. Backed'
  BY <1>1, <1>3, <1>4, <1>5, Names DEF RInv, Backed, Recorded
<1>13. SettledTruth'
  BY <1>1, <1>3, <1>4, <1>5, Names, SameWithdrawn DEF RInv, SettledTruth, Recorded
<1>14. QED
  BY <1>8, <1>9, <1>10, <1>11, <1>12, <1>13 DEF RInv

-----------------------------------------------------------------------------
(* The theorems                                                            *)

LEMMA InitRInv == Init => RInv
<1> SUFFICES ASSUME Init PROVE RInv
  OBVIOUS
<1>1. Recorded = {} /\ \A q \in Processes : run[q] = Idle
  BY DEF Init, Recorded
<1>2. TypeOK
  BY <1>1, IdleFields, RolloutConstants DEF Init, TypeOK, Runs, Projections
<1>3. Working /\ Apart /\ Alone
  BY <1>1, IdleFields, Names DEF Working, Promoting, Disarming, Apart, Alone, Past
<1>4. Chain
  BY <1>1, IdleFields, Names DEF Init, Chain, Withdrawn
<1>5. Backed /\ SettledTruth
  BY <1>1, Names DEF Init, Backed, SettledTruth
<1>6. QED
  BY <1>2, <1>3, <1>4, <1>5 DEF RInv

LEMMA StutterRInv == RInv /\ UNCHANGED vars => RInv'
<1> SUFFICES ASSUME RInv, UNCHANGED vars PROVE RInv'
  OBVIOUS
<1>1. TypeOK' /\ Chain' /\ Backed' /\ SettledTruth'
  BY SameWithdrawn DEF RInv, vars, TypeOK, Chain, Backed, SettledTruth, Recorded
<1>2. Working'
  BY DEF RInv, vars, Working, Promoting, Disarming, Recorded
<1>3. Apart' /\ Alone'
  BY DEF RInv, vars, Apart, Clash, BindingOf, Alone, Past
<1>4. QED
  BY <1>1, <1>2, <1>3 DEF RInv

LEMMA NextRInv == RInv /\ [Next]_vars => RInv'
<1> SUFFICES ASSUME RInv, [Next]_vars PROVE RInv'
  OBVIOUS
<1>1. CASE UNCHANGED vars
  BY <1>1, StutterRInv
<1>2. ASSUME NEW q \in Processes, NEW p \in Plans,
             BeginPromote(q, p) \/ RecordBlocked(q, p) \/ ReplayPromote(q, p)
      PROVE  RInv'
  BY <1>2, BeginPromoteStep, RecordBlockedStep, ReplayPromoteStep
<1>3. ASSUME NEW q \in Processes, NEW r \in Rollbacks, BeginRollback(q, r) \/ ReplayRollback(q, r)
      PROVE  RInv'
  BY <1>3, BeginRollbackStep, ReplayRollbackStep
<1>4. ASSUME NEW q \in Processes, Progress(q) PROVE RInv'
  BY <1>4, WritePendingStep, CheckOwnerStep, WriteProofStep, CheckActiveStep, ArmStep,
     MarkAppliedStep, WriteOutcomeStep, RecordRollbackStep, DisarmStep, WriteReceiptStep
     DEF Progress
<1>5. ASSUME NEW q \in Processes, Crash(q) PROVE RInv'
  BY <1>5, CrashStep
<1>6. ASSUME NEW p \in Plans, Drift(p) PROVE RInv'
  BY <1>6, DriftStep
<1>7. QED
  BY <1>1, <1>2, <1>3, <1>4, <1>5, <1>6 DEF Next, Replay

(* The inductive invariant: what each command knows, that two of them do   *)
(* not interfere, and the chain of what was armed and disarmed.            *)
THEOREM RolloutInvariance == Spec => []RInv
<1>1. QED
  BY InitRInv, NextRInv, PTL DEF Spec

(* Type correctness.                                                       *)
THEOREM RolloutTypeCorrect == Spec => []TypeOK
<1>1. RInv => TypeOK
  BY DEF RInv
<1>2. QED
  BY <1>1, RolloutInvariance, PTL

(* Whatever a binding shows can be explained and undone.                   *)
THEOREM AlwaysBacked == Spec => []Backed
<1>1. RInv => Backed
  BY DEF RInv
<1>2. QED
  BY <1>1, RolloutInvariance, PTL

(* A promotion that was rolled back is never armed again, provided that a *)
(* rollback is the only command for its binding while it runs (MayStart).  *)
THEOREM StaysDisarmed == Spec => []NeverRearmed
<1>1. RInv => NeverRearmed
  BY DEF RInv, Chain, NeverRearmed
<1>2. QED
  BY <1>1, RolloutInvariance, PTL

(* Both ledgers are true.                                                  *)
THEOREM LedgersTrue == Spec => []SettledTruth
<1>1. RInv => SettledTruth
  BY DEF RInv
<1>2. QED
  BY <1>1, RolloutInvariance, PTL

(* A promotion never takes the place of an armed one.                      *)
THEOREM ReplacesNothingArmed == Spec => NeverReplaced
<1> DEFINE Kept == \A b \in Bindings, p, other \in Plans :
                     active[b] = Promoted(p) /\ active'[b] = Promoted(other) => p = other
<1>1. RInv /\ [Next]_vars => [Kept]_vars
  <2> SUFFICES ASSUME RInv, Next PROVE Kept
    OBVIOUS
  <2>1. ASSUME NEW q \in Processes, Arm(q) PROVE Kept
    <3> DEFINE a == run[q].id
    <3>1. /\ a \in Plans /\ Binding[a] \in Bindings
          /\ \A other \in Plans : active[Binding[a]] = Promoted(other) => other = a
      BY <2>1, BeforeArm, Names
    <3>2. active \in [Bindings -> Projections]
      BY DEF RInv, TypeOK
    <3>3. active' = [active EXCEPT ![Binding[a]] = Promoted(a)]
      BY <2>1 DEF Arm
    <3>4. \A b \in Bindings : active'[b] = IF b = Binding[a] THEN Promoted(a) ELSE active[b]
      BY <3>2, <3>3
    <3>5. QED
      BY <3>1, <3>4, Names
  <2>2. ASSUME NEW q \in Processes, Disarm(q) PROVE Kept
    <3>1. active \in [Bindings -> Projections] /\ run[q].id \in Rollbacks
      BY <2>2, Kinds DEF RInv, TypeOK, Disarm, At
    <3>2. QED
      BY <2>2, <3>1, Names DEF Disarm
  <2>3. CASE UNCHANGED active
    BY <2>3, Names
  <2>4. QED
    BY <2>1, <2>2, <2>3
       DEF Next, Replay, Progress, BeginPromote, RecordBlocked, ReplayPromote, BeginRollback,
           ReplayRollback, WritePending, CheckOwner, WriteProof, CheckActive, MarkApplied,
           WriteOutcome, RecordRollback, WriteReceipt, Crash, Drift
<1>2. QED
  BY <1>1, RolloutInvariance, PTL DEF Spec, NeverReplaced

-----------------------------------------------------------------------------
(* A careful user is never stuck                                           *)

(* The binding of id shows what a replay of id accepts.                    *)
Shows(id) ==
  IF id \in Plans THEN active[Binding[id]] \in {tx[id].previous, Promoted(id)}
                  ELSE active[BindingOf(id)] \in {Promoted(id.promotion), Disarmed(id)}

(* A binding has at most one unfinished transaction, and a command for it  *)
(* is a command for that one; its binding shows what the transaction found *)
(* or what it leaves, and a promote that has no record yet knows which.    *)
Careful ==
  careful =>
    /\ \A id, other \in Ids :
         BindingOf(id) = BindingOf(other) /\ Pending(id) /\ Pending(other) => id = other
    /\ \A q \in Processes : run[q] # Idle =>
         \A other \in Ids \ {run[q].id} :
           BindingOf(other) = BindingOf(run[q].id) => ~ Pending(other)
    /\ \A id \in Ids : Pending(id) => Shows(id)
    /\ \A q \in Processes : run[q].phase = "record" /\ run[q].id \in Plans =>
         active[Binding[run[q].id]] = run[q].previous

CareInv == RInv /\ Careful

(* What has to be shown of a step of the command for id.                   *)
LEMMA CarefulStep ==
  ASSUME CareInv, NEW q \in Processes, NEW id \in Ids, UNCHANGED careful,
         \A o \in Processes \ {q} : run'[o] = run[o],
         run'[q] = Idle \/ run'[q].id = id,
         \/ run[q] # Idle /\ run[q].id = id
         \/ run[q] = Idle /\ MayStart(id),
         \A k \in Ids \ {id} : (Pending(k)' <=> Pending(k)) /\ (Pending(k) => tx'[k] = tx[k]),
         \A b \in Bindings : b # BindingOf(id) => active'[b] = active[b],
         Pending(id)' => Shows(id)',
         run'[q].phase = "record" /\ id \in Plans =>
           active'[Binding[id]] = run'[q].previous
  PROVE  Careful'
<1> SUFFICES ASSUME careful PROVE Careful'
  BY DEF Careful
<1>1. \A k \in Ids \ {id} : BindingOf(k) = BindingOf(id) => ~ Pending(k)
  BY DEF CareInv, Careful, MayStart
<1>2. \A o \in Processes \ {q} : run[o] # Idle => BindingOf(run[o].id) # BindingOf(id)
  BY DEF CareInv, RInv, Apart, Clash, MayStart
<1>3. \A k \in Ids : BindingOf(k) \in Bindings /\ (k \in Plans => BindingOf(k) = Binding[k])
  BY Names DEF BindingOf
<1>4. \A o \in Processes : run[o] # Idle => run[o].id \in Ids
  BY DEF CareInv, RInv, Working
<1>5. \A i, k \in Ids : BindingOf(i) = BindingOf(k) /\ Pending(i)' /\ Pending(k)' => i = k
  BY <1>1 DEF CareInv, Careful
<1>6. \A o \in Processes : run'[o] # Idle =>
        \A k \in Ids \ {run'[o].id} : BindingOf(k) = BindingOf(run'[o].id) => ~ Pending(k)'
  <2>1. ASSUME NEW o \in Processes \ {q}, run[o] # Idle, NEW k \in Ids \ {run[o].id},
               BindingOf(k) = BindingOf(run[o].id)
        PROVE  ~ Pending(k)'
    BY <1>2, <2>1 DEF CareInv, Careful
  <2>2. QED
    BY <1>1, <2>1
<1>7. \A k \in Ids : Pending(k)' => Shows(k)'
  <2>1. ASSUME NEW k \in Ids \ {id}, Pending(k) PROVE Shows(k)'
    <3>1. BindingOf(k) # BindingOf(id) /\ Shows(k)
      BY <1>1, <2>1 DEF CareInv, Careful
    <3>2. active'[BindingOf(k)] = active[BindingOf(k)] /\ tx'[k] = tx[k]
      BY <1>3, <2>1, <3>1
    <3>3. QED
      BY <1>3, <3>1, <3>2 DEF Shows
  <2>2. QED
    BY <2>1
<1>8. \A o \in Processes : run'[o].phase = "record" /\ run'[o].id \in Plans =>
        active'[Binding[run'[o].id]] = run'[o].previous
  <2>1. ASSUME NEW o \in Processes \ {q}, run[o].phase = "record", run[o].id \in Plans
        PROVE  active'[Binding[run[o].id]] = run[o].previous
    <3>1. run[o] # Idle
      BY <2>1 DEF Idle
    <3>2. Binding[run[o].id] \in Bindings /\ Binding[run[o].id] # BindingOf(id)
      BY <1>2, <1>3, <1>4, <3>1, <2>1
    <3>3. QED
      BY <2>1, <3>2 DEF CareInv, Careful
  <2>2. Idle.phase # "record"
    BY DEF Idle
  <2>3. QED
    BY <2>1, <2>2
<1>9. QED
  BY <1>5, <1>6, <1>7, <1>8 DEF Careful, BindingOf

(* A command that starts, or writes a file of no binding and no record.    *)
LEMMA QuietCareful ==
  ASSUME CareInv, NEW q \in Processes, NEW id \in Ids, UNCHANGED <<careful, tx, active>>,
         \A o \in Processes \ {q} : run'[o] = run[o],
         run'[q] = Idle \/ run'[q].id = id,
         \/ run[q] # Idle /\ run[q].id = id
         \/ run[q] = Idle /\ MayStart(id),
         run'[q].phase = "record" /\ id \in Plans => active[Binding[id]] = run'[q].previous
  PROVE  Careful'
<1> SUFFICES ASSUME careful PROVE Careful'
  BY DEF Careful
<1>1. \A k \in Ids : Pending(k)' <=> Pending(k)
  BY DEF Pending, Recorded
<1>2. Pending(id)' => Shows(id)'
  BY <1>1 DEF CareInv, Careful, Shows, BindingOf
<1>3. QED
  BY <1>1, <1>2, CarefulStep

LEMMA BeginCareful ==
  ASSUME CareInv, NEW q \in Processes, NEW id \in Ids,
         \/ id \in Plans /\ (BeginPromote(q, id) \/ ReplayPromote(q, id))
         \/ id \in Rollbacks /\ (BeginRollback(q, id) \/ ReplayRollback(q, id))
  PROVE  Careful'
<1>1. PICK phase, previous :
        /\ run' = [run EXCEPT ![q] = [id |-> id, phase |-> phase, previous |-> previous]]
        /\ phase = "record" /\ id \in Plans => previous = active[Binding[id]]
  <2>1. CASE id \in Plans /\ BeginPromote(q, id)
    BY <2>1 DEF BeginPromote, Go
  <2>2. CASE id \in Plans /\ ReplayPromote(q, id)
    <3>1. run' = [run EXCEPT ![q] = [id |-> id, phase |-> "owner", previous |-> tx[id].previous]]
      BY <2>2 DEF ReplayPromote, Go
    <3>2. "owner" # "record"
      OBVIOUS
    <3>3. QED
      BY <3>1, <3>2
  <2>3. CASE id \in Rollbacks /\ (BeginRollback(q, id) \/ ReplayRollback(q, id))
    BY <2>3, Names DEF BeginRollback, ReplayRollback, Go
  <2>4. QED
    BY <2>1, <2>2, <2>3
<1>2. run[q] = Idle /\ MayStart(id) /\ UNCHANGED <<careful, tx, active>>
  BY DEF BeginPromote, ReplayPromote, BeginRollback, ReplayRollback
<1>3. /\ run'[q] = [id |-> id, phase |-> phase, previous |-> previous]
      /\ \A o \in Processes \ {q} : run'[o] = run[o]
  <2>1. run \in [Processes -> Runs]
    BY RunFields DEF CareInv, RInv
  <2>2. QED
    BY <1>1, <2>1
<1>4. QED
  BY <1>1, <1>2, <1>3, QuietCareful

(* A record of the transaction id and of no other.                         *)
LEMMA RecordOf ==
  ASSUME NEW id, NEW state, NEW previous, tx' = With(tx, id, Record(state, previous))
  PROVE  /\ \A k \in Ids \ {id} : (Pending(k)' <=> Pending(k)) /\ (Pending(k) => tx'[k] = tx[k])
         /\ Pending(id)' <=> state = "pending"
         /\ tx'[id].previous = previous
<1>1. /\ DOMAIN tx' = DOMAIN tx \cup {id}
      /\ tx'[id] = [state |-> state, previous |-> previous]
      /\ \A k \in DOMAIN tx : k # id => tx'[k] = tx[k]
  BY DEF With, Record
<1>2. \A k : Pending(k)' <=> k \in DOMAIN tx' /\ tx'[k].state = "pending"
  BY DEF Pending, Recorded
<1>3. \A k : Pending(k) <=> k \in DOMAIN tx /\ tx[k].state = "pending"
  BY DEF Pending, Recorded
<1>4. QED
  BY <1>1, <1>2, <1>3

LEMMA ProgressCareful ==
  ASSUME CareInv, NEW q \in Processes, NEW id, id = run[q].id, Progress(q) \/ Crash(q)
  PROVE  Careful'
<1>1. RInv /\ TypeOK
  BY DEF CareInv, RInv
<1>2. run[q] # Idle /\ id \in Ids
  <2>1. CASE Crash(q)
    BY <1>1, <2>1 DEF Crash, RInv, Working
  <2>2. CASE Progress(q)
    <3>1. run[q].phase # "idle"
      BY <2>2 DEF Progress, WritePending, CheckOwner, WriteProof, CheckActive, Arm,
         MarkApplied, WriteOutcome, RecordRollback, Disarm, WriteReceipt, At
    <3>2. QED
      BY <1>1, <3>1, Kinds
  <2>3. QED
    BY <2>1, <2>2
<1>3. CASE Crash(q) \/ CheckOwner(q) \/ WriteProof(q) \/ CheckActive(q) \/ WriteOutcome(q)
           \/ WriteReceipt(q)
  <2>1. UNCHANGED <<careful, tx, active>>
    BY <1>3 DEF Crash, CheckOwner, WriteProof, CheckActive, WriteOutcome, WriteReceipt
  <2>2. \/ Stop(q)
        \/ \E phase \in {"proof", "look", "arm", "mark"} : Then(q, phase)
    BY <1>3 DEF Crash, CheckOwner, WriteProof, CheckActive, WriteOutcome, WriteReceipt
  <2>3. /\ \A o \in Processes \ {q} : run'[o] = run[o]
        /\ run'[q] = Idle \/ (run'[q].id = id /\ run'[q].phase # "record")
    <3>1. CASE Stop(q)
      BY <1>1, <3>1, IdleFields, Replaced DEF Stop
    <3>2. ASSUME NEW phase \in {"proof", "look", "arm", "mark"}, Then(q, phase)
          PROVE  /\ \A o \in Processes \ {q} : run'[o] = run[o]
                 /\ run'[q].id = id /\ run'[q].phase # "record"
      BY <1>1, <3>2, Proceeds
    <3>3. QED
      BY <2>2, <3>1, <3>2
  <2>4. QED
    BY <1>2, <2>1, <2>3, IdleFields, QuietCareful
<1>4. CASE WritePending(q)
  <2>1. /\ run[q].phase = "record" /\ id \in Plans /\ Then(q, "owner")
        /\ UNCHANGED <<careful, active>>
        /\ tx' = With(tx, id, Record("pending", run[q].previous))
    BY <1>4 DEF WritePending, At
  <2>2. /\ \A o \in Processes \ {q} : run'[o] = run[o]
        /\ run'[q].id = id /\ run'[q].phase = "owner"
    BY <1>1, <2>1, Proceeds
  <2>3. careful => Shows(id)'
    BY <2>1, RecordOf DEF CareInv, Careful, Shows
  <2>4. CASE careful
    BY <1>2, <2>1, <2>2, <2>3, <2>4, RecordOf, CarefulStep
  <2>5. QED
    BY <2>1, <2>4 DEF Careful
<1>5. CASE RecordRollback(q)
  <2>1. /\ run[q].phase = "record" /\ id \in Rollbacks /\ Then(q, "disarm")
        /\ UNCHANGED <<careful, active>>
        /\ tx' = With(tx, id, Record("pending", Nothing))
    BY <1>5 DEF RecordRollback, At
  <2>2. /\ \A o \in Processes \ {q} : run'[o] = run[o]
        /\ run'[q].id = id /\ run'[q].phase = "disarm"
    BY <1>1, <2>1, Proceeds
  <2>3. active[Binding[id.promotion]] \in {Promoted(id.promotion), Disarmed(id)}
    BY <1>1, <2>1 DEF RInv, Working, Disarming
  <2>4. Shows(id)'
    BY <2>1, <2>3, Names DEF Shows, BindingOf
  <2>5. QED
    BY <1>2, <2>1, <2>2, <2>4, RecordOf, CarefulStep
<1>6. CASE Arm(q)
  <2>1. /\ run[q].phase = "arm" /\ Then(q, "mark") /\ UNCHANGED <<careful, tx>>
        /\ active' = [active EXCEPT ![Binding[id]] = Promoted(id)]
    BY <1>6 DEF Arm, At
  <2>2. /\ \A o \in Processes \ {q} : run'[o] = run[o]
        /\ run'[q].id = id /\ run'[q].phase = "mark"
    BY <1>1, <2>1, Proceeds
  <2>3. id \in Plans /\ Binding[id] \in Bindings /\ BindingOf(id) = Binding[id]
    BY <1>1, <2>1, Kinds, Names DEF BindingOf
  <2>4. active \in [Bindings -> Projections]
    BY <1>1 DEF TypeOK
  <2>5. Shows(id)' /\ \A b \in Bindings : b # BindingOf(id) => active'[b] = active[b]
    BY <2>1, <2>3, <2>4 DEF Shows
  <2>6. \A k \in Ids : Pending(k)' <=> Pending(k)
    BY <2>1 DEF Pending, Recorded
  <2>7. QED
    BY <1>2, <2>1, <2>2, <2>5, <2>6, CarefulStep
<1>7. CASE Disarm(q)
  <2>1. /\ run[q].phase = "disarm" /\ Then(q, "receipt") /\ UNCHANGED <<careful, tx>>
        /\ active' = [active EXCEPT ![BindingOf(id)] = Disarmed(id)]
    BY <1>7 DEF Disarm, At
  <2>2. /\ \A o \in Processes \ {q} : run'[o] = run[o]
        /\ run'[q].id = id /\ run'[q].phase = "receipt"
    BY <1>1, <2>1, Proceeds
  <2>3. id \notin Plans /\ BindingOf(id) \in Bindings
    BY <1>1, <2>1, Kinds, Names DEF BindingOf
  <2>4. active \in [Bindings -> Projections]
    BY <1>1 DEF TypeOK
  <2>5. active'[BindingOf(id)] = Disarmed(id)
    BY <2>1, <2>3, <2>4
  <2>6. Shows(id)' /\ \A b \in Bindings : b # BindingOf(id) => active'[b] = active[b]
    BY <2>1, <2>3, <2>4, <2>5 DEF Shows, BindingOf
  <2>7. \A k \in Ids : Pending(k)' <=> Pending(k)
    BY <2>1 DEF Pending, Recorded
  <2>8. QED
    BY <1>2, <2>1, <2>2, <2>6, <2>7, CarefulStep
<1>8. CASE MarkApplied(q)
  <2>1. /\ Stop(q) /\ UNCHANGED <<careful, active>>
        /\ tx' = With(tx, id, Record("applied", run[q].previous))
    BY <1>8 DEF MarkApplied
  <2>2. run'[q] = Idle /\ \A o \in Processes \ {q} : run'[o] = run[o]
    BY <1>1, <2>1, IdleFields, Replaced DEF Stop
  <2>3. QED
    BY <1>2, <2>1, <2>2, IdleFields, RecordOf, CarefulStep
<1>9. QED
  BY <1>3, <1>4, <1>5, <1>6, <1>7, <1>8 DEF Progress

LEMMA RecordBlockedCareful ==
  ASSUME CareInv, NEW q \in Processes, NEW p \in Plans, RecordBlocked(q, p)
  PROVE  Careful'
<1>1. /\ run[q] = Idle /\ MayStart(p) /\ UNCHANGED <<careful, active>>
      /\ run' = [run EXCEPT ![q] = [id |-> p, phase |-> "outcome", previous |-> Nothing]]
      /\ tx' = With(tx, p, Record("applied", Nothing))
  BY DEF RecordBlocked, Go
<1>2. run \in [Processes -> Runs]
  BY RunFields DEF CareInv, RInv
<1>3. /\ run'[q].id = p /\ run'[q].phase = "outcome"
      /\ \A o \in Processes \ {q} : run'[o] = run[o]
  BY <1>1, <1>2
<1>4. p \in Ids
  BY Names
<1>5. QED
  BY <1>1, <1>3, <1>4, RecordOf, CarefulStep

LEMMA NextCareful == CareInv /\ [Next]_vars => CareInv'
<1> SUFFICES ASSUME CareInv, [Next]_vars PROVE CareInv'
  OBVIOUS
<1>1. RInv'
  BY NextRInv DEF CareInv
<1>2. CASE UNCHANGED <<careful, tx, active, run>>
  <2>1. \A k : Pending(k)' <=> Pending(k)
    BY <1>2 DEF Pending, Recorded
  <2>2. Careful'
    BY <1>2, <2>1 DEF CareInv, Careful, Shows, BindingOf
  <2>3. QED
    BY <1>1, <2>2 DEF CareInv
<1>3. ASSUME NEW q \in Processes, NEW p \in Plans, BeginPromote(q, p) \/ RecordBlocked(q, p)
      PROVE  Careful'
  BY <1>3, Names, BeginCareful, RecordBlockedCareful
<1>4. ASSUME NEW q \in Processes, NEW r \in Rollbacks, BeginRollback(q, r) PROVE Careful'
  BY <1>4, Names, BeginCareful
<1>5. ASSUME NEW q \in Processes, NEW id \in Ids, Replay(q, id) PROVE Careful'
  BY <1>5, BeginCareful DEF Replay
<1>6. ASSUME NEW q \in Processes, Progress(q) \/ Crash(q) PROVE Careful'
  BY <1>6, ProgressCareful
<1>7. ASSUME NEW p \in Plans, Drift(p) PROVE CareInv'
  BY <1>2, <1>7 DEF Drift
<1>8. CASE UNCHANGED vars
  BY <1>2, <1>8 DEF vars
<1>9. QED
  BY <1>1, <1>3, <1>4, <1>5, <1>6, <1>7, <1>8 DEF Next, CareInv

LEMMA InitCareful == Init => CareInv
<1> SUFFICES ASSUME Init PROVE CareInv
  OBVIOUS
<1>1. RInv /\ Recorded = {} /\ \A q \in Processes : run[q] = Idle
  BY InitRInv DEF Init, Recorded
<1>2. Careful
  BY <1>1, IdleFields DEF Careful, Pending
<1>3. QED
  BY <1>1, <1>2 DEF CareInv

(* An interrupted promote or rollback of a user who settles a binding's    *)
(* transaction before starting another one, and runs one command for it at *)
(* a time, passes every check that its replay makes.                       *)
THEOREM CarefulIsNeverWedged == Spec => []NeverWedged
<1>1. CareInv => NeverWedged
  <2> SUFFICES ASSUME CareInv, careful, NEW id \in Ids, Pending(id) PROVE Accepted(id)
    BY DEF NeverWedged
  <2>1. Shows(id)
    BY DEF CareInv, Careful
  <2>2. CASE id \in Plans
    <3>1. ~ Owned(id)
      <4> SUFFICES ASSUME NEW other \in (Recorded \cap Ready) \ {id},
                          Binding[other] = Binding[id], Pending(other)
                   PROVE  FALSE
        BY DEF Owned
      <4>1. other \in Ids /\ BindingOf(other) = BindingOf(id)
        BY <2>2, Names DEF BindingOf
      <4>2. QED
        BY <4>1 DEF CareInv, Careful
    <3>2. QED
      BY <2>1, <2>2, <3>1 DEF Accepted, Shows
  <2>3. CASE id \notin Plans
    BY <2>1, <2>3 DEF Accepted, Shows
  <2>4. QED
    BY <2>2, <2>3
<1>2. QED
  BY <1>1, InitCareful, NextCareful, PTL DEF Spec

-----------------------------------------------------------------------------
(* What rollout promises                                                   *)

LEMMA ArmedByIs ==
  /\ \A p \in Plans : ArmedBy(Promoted(p)) = p
  /\ \A r \in Rollbacks : ArmedBy(Disarmed(r)) = Nothing
  /\ ArmedBy(Nothing) = Nothing
  /\ \A x : ArmedBy(x) # Nothing => \E p \in Plans : x = Promoted(p)
<1>1. \A p \in Plans : ArmedBy(Promoted(p)) = p
  BY Names DEF ArmedBy
<1>2. \A x : (\A p \in Plans : x # Promoted(p)) => ArmedBy(x) = Nothing
  BY DEF ArmedBy
<1>3. QED
  BY <1>1, <1>2, Names

(* A binding that shows something else.                                    *)
LEMMA ArmedStep ==
  ASSUME TypeOK, NEW b \in Bindings, NEW x, active' = [active EXCEPT ![b] = x]
  PROVE  Armed' = [Armed EXCEPT ![b] = ArmedBy(x)]
<1>1. active'[b] = x /\ \A c \in Bindings \ {b} : active'[c] = active[c]
  BY DEF TypeOK
<1>2. Armed' = [c \in Bindings |-> ArmedBy(active'[c])]
  BY DEF Armed, ArmedBy
<1>3. DOMAIN Armed = Bindings /\ \A c \in Bindings : Armed[c] = ArmedBy(active[c])
  BY DEF Armed
<1>4. \A c \in Bindings : Armed'[c] = IF c = b THEN ArmedBy(x) ELSE Armed[c]
  BY <1>1, <1>2, <1>3
<1>5. Armed' = [c \in Bindings |-> IF c = b THEN ArmedBy(x) ELSE Armed[c]]
  BY <1>2, <1>4
<1>6. QED
  BY <1>3, <1>5

LEMMA DoneStep ==
  ASSUME NEW id, NEW rec, tx' = With(tx, id, rec)
  PROVE  /\ rec.state = "applied" => Done' = Done \cup {id}
         /\ rec.state # "applied" => Done' = Done \ {id}
<1>1. /\ Recorded' = Recorded \cup {id} /\ tx'[id] = rec
      /\ \A k \in Recorded \ {id} : tx'[k] = tx[k]
  BY DEF Recorded, With
<1>2. QED
  BY <1>1 DEF Done

(* A promote takes effect, unless this is a replay of one that has.        *)
LEMMA ArmRefines ==
  ASSUME RInv, NEW q \in Processes, Arm(q)
  PROVE  [Abstract!ArmingNext]_<<Armed, retired, Done>>
<1> DEFINE p == run[q].id
           b == Binding[p]
<1>1. /\ TypeOK /\ p \in Plans /\ p \in Ready /\ p \notin Withdrawn
      /\ \A other \in Plans : active[b] = Promoted(other) => other = p
  BY BeforeArm DEF RInv
<1>2. b \in Bindings /\ active \in [Bindings -> Projections]
  BY <1>1, Names DEF TypeOK
<1>3. active' = [active EXCEPT ![b] = Promoted(p)] /\ UNCHANGED <<tx, retired>>
  BY DEF Arm
<1>4. UNCHANGED Done
  BY <1>3 DEF Done, Recorded
<1>5. Armed' = [Armed EXCEPT ![b] = p]
  BY <1>1, <1>2, <1>3, ArmedStep, ArmedByIs
<1>6. CASE active[b] = Promoted(p)
  <2>1. active' = active
    BY <1>2, <1>3, <1>6
  <2>2. QED
    BY <1>3, <1>4, <2>1 DEF Armed
<1>7. CASE active[b] # Promoted(p)
  <2>1. Armed[b] = Nothing
    BY <1>1, <1>2, <1>7, ArmedByIs DEF Armed
  <2>2. \A r \in retired : r.promotion # p
    BY <1>1, SameWithdrawn
  <2>3. Abstract!Arm(p)
    BY <1>3, <1>4, <1>5, <2>1, <2>2 DEF Abstract!Arm
  <2>4. QED
    BY <1>1, <2>3 DEF Abstract!ArmingNext
<1>8. QED
  BY <1>6, <1>7

(* So does a rollback.                                                     *)
LEMMA DisarmRefines ==
  ASSUME RInv, NEW q \in Processes, Disarm(q)
  PROVE  [Abstract!ArmingNext]_<<Armed, retired, Done>>
<1> DEFINE r == run[q].id
           m == r.promotion
           b == Binding[m]
<1>1. /\ TypeOK /\ r \in Rollbacks /\ r \notin Plans /\ m \in Plans
      /\ run[q].phase = "disarm" /\ Disarming(q)
  BY Kinds, Names DEF RInv, Disarm, At, Working
<1>2. b \in Bindings /\ active \in [Bindings -> Projections] /\ BindingOf(r) = b
  BY <1>1, Names DEF TypeOK, BindingOf
<1>3. active[b] \in {Promoted(m), Disarmed(r)}
  BY <1>1 DEF Disarming
<1>4. /\ active' = [active EXCEPT ![b] = Disarmed(r)] /\ retired' = retired \cup {r}
      /\ UNCHANGED tx
  BY <1>2 DEF Disarm
<1>5. UNCHANGED Done
  BY <1>4 DEF Done, Recorded
<1>6. Armed' = [Armed EXCEPT ![b] = Nothing]
  <2>1. Armed' = [Armed EXCEPT ![b] = ArmedBy(Disarmed(r))]
    BY <1>1, <1>2, <1>4, ArmedStep
  <2>2. QED
    BY <1>1, <2>1, ArmedByIs
<1>7. CASE active[b] = Disarmed(r)
  <2>1. r \in retired
    BY <1>1, <1>2, <1>7 DEF RInv, Chain
  <2>2. active' = active /\ retired' = retired
    BY <1>2, <1>4, <1>7, <2>1
  <2>3. QED
    BY <1>5, <2>2 DEF Armed
<1>8. CASE active[b] = Promoted(m)
  <2>1. Armed[b] = m
    BY <1>1, <1>2, <1>8, ArmedByIs DEF Armed
  <2>2. Abstract!Disarm(r)
    BY <1>4, <1>5, <1>6, <2>1 DEF Abstract!Disarm
  <2>3. QED
    BY <1>1, <2>2 DEF Abstract!ArmingNext
<1>9. QED
  BY <1>3, <1>7, <1>8

(* The ledgers say so afterwards ...                                       *)
LEMMA MarkRefines ==
  ASSUME RInv, NEW q \in Processes, MarkApplied(q)
  PROVE  [Abstract!ArmingNext]_<<Armed, retired, Done>>
<1> DEFINE id == run[q].id
<1>1. /\ TypeOK /\ id \in Ids /\ run[q].phase = "mark" /\ Promoting(q) /\ Disarming(q)
  BY Kinds DEF RInv, MarkApplied, At, Working
<1>2. /\ tx' = With(tx, id, Record("applied", run[q].previous))
      /\ UNCHANGED <<active, retired>>
  BY DEF MarkApplied
<1>3. Done' = Done \cup {id} /\ UNCHANGED Armed
  BY <1>2, DoneStep DEF Record, Armed
<1>4. id \in Ready => Armed[Binding[id]] = id
  <2> SUFFICES ASSUME id \in Ready PROVE Armed[Binding[id]] = id
    OBVIOUS
  <2>1. id \in Plans /\ Binding[id] \in Bindings
    BY Names
  <2>2. active[Binding[id]] = Promoted(id)
    BY <1>1, <2>1 DEF Promoting
  <2>3. QED
    BY <2>1, <2>2, ArmedByIs DEF Armed
<1>5. id \in Rollbacks => id \in retired
  BY <1>1 DEF Disarming
<1>6. Abstract!Settle(id)
  BY <1>2, <1>3, <1>4, <1>5 DEF Abstract!Settle
<1>7. QED
  BY <1>1, <1>6, Names DEF Abstract!ArmingNext

LEMMA BlockedRefines ==
  ASSUME RInv, NEW q \in Processes, NEW p \in Plans, RecordBlocked(q, p)
  PROVE  [Abstract!ArmingNext]_<<Armed, retired, Done>>
<1>1. p \notin Ready /\ p \notin Rollbacks
  BY Names DEF RecordBlocked
<1>2. tx' = With(tx, p, Record("applied", Nothing)) /\ UNCHANGED <<active, retired>>
  BY DEF RecordBlocked
<1>3. Done' = Done \cup {p} /\ UNCHANGED Armed
  BY <1>2, DoneStep DEF Record, Armed
<1>4. Abstract!Settle(p)
  BY <1>1, <1>2, <1>3 DEF Abstract!Settle
<1>5. QED
  BY <1>1, <1>4 DEF Abstract!ArmingNext

(* ... and not before: a first record is a pending one.                    *)
LEMMA PendingRefines ==
  ASSUME RInv, NEW q \in Processes, WritePending(q) \/ RecordRollback(q)
  PROVE  UNCHANGED <<Armed, retired, Done>>
<1>1. run[q].id \notin Recorded
  BY DEF RInv, Working, Promoting, Disarming, WritePending, RecordRollback, At
<1>2. PICK previous : tx' = With(tx, run[q].id, Record("pending", previous))
  BY DEF WritePending, RecordRollback
<1>3. Done' = Done \ {run[q].id}
  BY <1>2, DoneStep DEF Record
<1>4. run[q].id \notin Done
  BY <1>1 DEF Done
<1>5. UNCHANGED <<active, retired>>
  BY DEF WritePending, RecordRollback
<1>6. QED
  BY <1>3, <1>4, <1>5 DEF Armed

LEMMA NextRefines == RInv /\ [Next]_vars => [Abstract!ArmingNext]_<<Armed, retired, Done>>
<1> SUFFICES ASSUME RInv, [Next]_vars PROVE [Abstract!ArmingNext]_<<Armed, retired, Done>>
  OBVIOUS
<1>1. ASSUME UNCHANGED <<tx, active, retired>> PROVE UNCHANGED <<Armed, retired, Done>>
  BY <1>1 DEF Armed, Done, Recorded
<1>2. CASE UNCHANGED vars
  BY <1>1, <1>2 DEF vars
<1>3. ASSUME NEW q \in Processes, NEW p \in Plans,
             BeginPromote(q, p) \/ RecordBlocked(q, p) \/ ReplayPromote(q, p)
      PROVE  [Abstract!ArmingNext]_<<Armed, retired, Done>>
  BY <1>1, <1>3, BlockedRefines DEF BeginPromote, ReplayPromote
<1>4. ASSUME NEW q \in Processes, NEW r \in Rollbacks, BeginRollback(q, r) \/ ReplayRollback(q, r)
      PROVE  [Abstract!ArmingNext]_<<Armed, retired, Done>>
  BY <1>1, <1>4 DEF BeginRollback, ReplayRollback
<1>5. ASSUME NEW q \in Processes, Progress(q)
      PROVE  [Abstract!ArmingNext]_<<Armed, retired, Done>>
  <2>1. CASE CheckOwner(q) \/ WriteProof(q) \/ CheckActive(q) \/ WriteOutcome(q) \/ WriteReceipt(q)
    BY <1>1, <2>1 DEF CheckOwner, WriteProof, CheckActive, WriteOutcome, WriteReceipt
  <2>2. CASE WritePending(q) \/ RecordRollback(q)
    BY <2>2, PendingRefines
  <2>3. CASE Arm(q)
    BY <2>3, ArmRefines
  <2>4. CASE Disarm(q)
    BY <2>4, DisarmRefines
  <2>5. CASE MarkApplied(q)
    BY <2>5, MarkRefines
  <2>6. QED
    BY <1>5, <2>1, <2>2, <2>3, <2>4, <2>5 DEF Progress
<1>6. ASSUME NEW q \in Processes, Crash(q)
      PROVE  [Abstract!ArmingNext]_<<Armed, retired, Done>>
  BY <1>1, <1>6 DEF Crash
<1>7. ASSUME NEW p \in Plans, Drift(p)
      PROVE  [Abstract!ArmingNext]_<<Armed, retired, Done>>
  BY <1>1, <1>7 DEF Drift
<1>8. QED
  BY <1>2, <1>3, <1>4, <1>5, <1>6, <1>7 DEF Next, Replay

(* Rollout implements its promise: a promote or a rollback takes effect at *)
(* the instant it writes the projection, and only on a binding that lets   *)
(* it, however many commands race, die and are replayed in between.        *)
THEOREM RolloutRefinesArming == Spec => ImplementsArming
<1>1. Init => Abstract!ArmingInit
  <2> SUFFICES ASSUME Init PROVE Abstract!ArmingInit
    OBVIOUS
  <2>1. Armed = [b \in Bindings |-> Nothing]
    BY ArmedByIs DEF Init, Armed
  <2>2. Done = {} /\ retired = {}
    BY DEF Init, Done, Recorded
  <2>3. QED
    BY <2>1, <2>2 DEF Abstract!ArmingInit
<1>2. RInv /\ [Next]_vars => [Abstract!ArmingNext]_<<Armed, retired, Done>>
  BY NextRefines
<1>3. QED
  BY <1>1, <1>2, RolloutInvariance, PTL
     DEF Spec, ImplementsArming, Abstract!ArmingSpec, Abstract!armingVars

(* A receipt is that of a rollback that has taken effect.                  *)
Receipted == receipts \subseteq retired

LEMMA ReceiptsAreEarned == Spec => []Receipted
<1>1. Init => Receipted
  BY DEF Init, Receipted
<1>2. RInv /\ Receipted /\ [Next]_vars => Receipted'
  <2> SUFFICES ASSUME RInv, Receipted, [Next]_vars PROVE Receipted'
    OBVIOUS
  <2>1. ASSUME NEW q \in Processes, WriteReceipt(q) PROVE Receipted'
    <3>1. run[q].phase = "receipt" /\ Disarming(q) /\ run[q].id \in Rollbacks
      BY <2>1, Kinds DEF RInv, Working, WriteReceipt, At
    <3>2. run[q].id \in retired
      BY <3>1 DEF Disarming
    <3>3. QED
      BY <2>1, <3>2 DEF WriteReceipt, Receipted
  <2>2. ASSUME NEW q \in Processes, Disarm(q) PROVE Receipted'
    BY <2>2 DEF Disarm, Receipted
  <2>3. CASE UNCHANGED <<receipts, retired>>
    BY <2>3 DEF Receipted
  <2>4. QED
    BY <2>1, <2>2, <2>3 DEF Next, Replay, Progress, vars, BeginPromote, RecordBlocked,
       BeginRollback, ReplayPromote, ReplayRollback, WritePending, CheckOwner, WriteProof,
       CheckActive, Arm, MarkApplied, WriteOutcome, RecordRollback, Crash, Drift
<1>3. QED
  BY <1>1, <1>2, RolloutInvariance, PTL DEF Spec

(* In the promise alone: what was disarmed is not armed again, so that no  *)
(* promotion is disarmed twice.                                            *)
Once ==
  /\ retired \subseteq Rollbacks
  /\ \A r \in retired : Armed[Binding[r.promotion]] # r.promotion
  /\ \A r, s \in retired : r.promotion = s.promotion => r = s

LEMMA PromiseIsOnce == Abstract!ArmingSpec => []Once
<1>1. Abstract!ArmingInit => Once
  BY DEF Abstract!ArmingInit, Once
<1>2. Once /\ [Abstract!ArmingNext]_<<Armed, retired, Done>> => Once'
  <2> SUFFICES ASSUME Once, [Abstract!ArmingNext]_<<Armed, retired, Done>> PROVE Once'
    OBVIOUS
  <2> DOMAIN Armed = Bindings
    BY DEF Armed
  <2>1. ASSUME NEW p \in Ready, Abstract!Arm(p) PROVE Once'
    BY <2>1, Names DEF Once, Abstract!Arm
  <2>2. ASSUME NEW r \in Rollbacks, Abstract!Disarm(r) PROVE Once'
    <3>1. /\ r.promotion \in Plans /\ Binding[r.promotion] \in Bindings
          /\ Nothing \notin Plans
      BY Names
    <3>2. /\ Armed' = [Armed EXCEPT ![Binding[r.promotion]] = Nothing]
          /\ retired' = retired \cup {r} /\ Armed[Binding[r.promotion]] = r.promotion
      BY <2>2 DEF Abstract!Disarm
    <3>3. /\ Armed'[Binding[r.promotion]] = Nothing
          /\ \A c \in Bindings : c # Binding[r.promotion] => Armed'[c] = Armed[c]
      BY <3>1, <3>2
    <3>4. \A s \in retired : /\ s.promotion # r.promotion /\ s.promotion \in Plans
                             /\ Binding[s.promotion] \in Bindings
      BY <3>2, Names DEF Once
    <3>5. \A s \in retired' : Armed'[Binding[s.promotion]] # s.promotion
      BY <3>1, <3>2, <3>3, <3>4 DEF Once
    <3>6. QED
      BY <3>2, <3>4, <3>5 DEF Once
  <2>3. ASSUME NEW id, Abstract!Settle(id) PROVE Once'
    BY <2>3 DEF Once, Abstract!Settle
  <2>4. CASE UNCHANGED <<Armed, retired, Done>>
    BY <2>4 DEF Once
  <2>5. QED
    BY <2>1, <2>2, <2>3, <2>4 DEF Abstract!ArmingNext
<1>3. QED
  BY <1>1, <1>2, PTL DEF Abstract!ArmingSpec, Abstract!armingVars

(* No promotion has two receipts, be it for two reasons to roll it back:   *)
(* the second rollback finds its promotion disarmed, however the first one *)
(* was interrupted.                                                        *)
THEOREM UndoneOnlyOnce == Spec => []UndoneOnce
<1>1. Receipted /\ Once => UndoneOnce
  BY DEF Receipted, Once, UndoneOnce
<1>2. Spec => []Receipted
  BY ReceiptsAreEarned
<1>3. QED
  BY <1>1, <1>2, RolloutRefinesArming, PromiseIsOnce, PTL DEF ImplementsArming
=============================================================================
