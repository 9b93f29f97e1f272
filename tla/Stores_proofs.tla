---------------------------- MODULE Stores_proofs ----------------------------
(***************************************************************************)
(* Theorems about the components that share no state, for any constants:   *)
(* any number of processes, any journals, plans and files, and any bound   *)
(* on what is done.                                                        *)
(***************************************************************************)
EXTENDS Stores, SelectExisting_proofs, EvidenceStore_proofs, FiniteSetTheorems, TLAPS

-----------------------------------------------------------------------------
(* Numbers                                                                 *)

(* The order of the numbers is well founded: a set of them has a least ... *)
LEMMA Least ==
  ASSUME NEW S \in SUBSET Nat, S # {}
  PROVE  \E n \in S : \A m \in S : n <= m
<1>1. IsWellFoundedOn(OpToRel(<, Nat), Nat)
  BY NatLessThanWellFounded, Zenon
<1>2. PICK n \in S : \A m \in S : ~(<<m, n>> \in OpToRel(<, Nat))
  BY <1>1, WFMin, Zenon
<1>3. \A m \in S : ~(m < n)
  BY <1>2 DEF OpToRel
<1>4. QED
  BY <1>3

-----------------------------------------------------------------------------
(* Sequences                                                               *)

LEMMA MaxIsIn ==
  ASSUME NEW n \in Nat, NEW S \in SUBSET (1 .. n), S # {}
  PROVE  Max(S) \in S /\ \A m \in S : m <= Max(S)
<1> DEFINE D == {n - m : m \in S}
<1>1. D \in SUBSET Nat /\ D # {}
  OBVIOUS
<1>2. PICK d \in D : \A c \in D : d <= c
  BY <1>1, Least
<1>3. PICK x \in S : d = n - x
  OBVIOUS
<1>4. \A m \in S : x >= m
  <2>1. TAKE m \in S
  <2>2. n - m \in D
    OBVIOUS
  <2>3. d <= n - m
    BY <1>2, <2>2
  <2>4. QED
    BY <2>3, <1>3
<1> HIDE DEF D
<1>5. Max(S) \in S /\ \A m \in S : Max(S) >= m
  BY <1>4 DEF Max
<1>6. QED
  BY <1>5

Lined(s) == s = [i \in 1 .. Len(s) |-> s[i]] /\ Len(s) \in Nat

LEMMA OneMore ==
  ASSUME NEW s, Lined(s), NEW e
  PROVE  /\ Lined(Append(s, e)) /\ Len(Append(s, e)) = Len(s) + 1
         /\ DOMAIN s = 1 .. Len(s) /\ DOMAIN Append(s, e) = 1 .. Len(s) + 1
         /\ Append(s, e)[Len(s) + 1] = e /\ \A i \in 1 .. Len(s) : Append(s, e)[i] = s[i]
<1> DEFINE S == {s[i] : i \in 1 .. Len(s)} \cup {e}
<1>1. s \in Seq(S) /\ e \in S
  BY DEF Lined
<1> HIDE DEF S
<1>2. Append(s, e) \in Seq(S) /\ Len(Append(s, e)) = Len(s) + 1 /\ Len(s) \in Nat
  BY <1>1
<1>3. Append(s, e)[Len(s) + 1] = e /\ \A i \in 1 .. Len(s) : Append(s, e)[i] = s[i]
  BY <1>1
<1>4. DOMAIN s = 1 .. Len(s) /\ DOMAIN Append(s, e) = 1 .. Len(s) + 1
  BY <1>1, <1>2
<1>5. Lined(Append(s, e))
  <2>1. \A t \in Seq(S) : t = [i \in 1 .. Len(t) |-> t[i]] /\ Len(t) \in Nat
    OBVIOUS
  <2>2. QED
    BY <1>2, <2>1 DEF Lined
<1>6. QED
  BY <1>2, <1>3, <1>4, <1>5

LEMMA NoneYet == Lined(<<>>) /\ DOMAIN <<>> = {} /\ Len(<<>>) = 0
BY DEF Lined

-----------------------------------------------------------------------------
(* The research jobs                                                       *)

(* What a command may still store: receipts, of its own plan if they rest  *)
(* on one, and a job that comes with it for a reason.                      *)
Storable(w, r) ==
  /\ r.kind \in {"plans", "candidates", "packets", "outcomes", "jobs"}
  /\ r.kind \in {"packets", "outcomes"} => r.what = w.plan
  /\ r.kind = "jobs" =>
       \/ w.why = "plan" /\ r.body.state = "planned"
       \/ /\ w.why = "discovery" /\ r.body.state = "discovering"
          /\ w.seen # NoJob /\ w.seen.state = "planned"
       \/ w.why = "cancel" /\ r.body.state = "cancelled"

Commanded(h) ==
  \/ host[h] = Free
  \/ /\ host[h] = [why |-> host[h].why, plan |-> host[h].plan, seen |-> host[h].seen, left |-> host[h].left]
     /\ host[h].plan \in Plans
     /\ \/ host[h].left = <<host[h].left[1]>>
        \/ host[h].left = <<host[h].left[1], host[h].left[2]>> /\ Storable(host[h], host[h].left[2])
     /\ Storable(host[h], host[h].left[1])

JobsInv ==
  /\ ResearchTypeOK
  /\ host = [h \in Hosts |-> host[h]] /\ jobs = [p \in Plans |-> jobs[p]]
  /\ \A h \in Hosts : Commanded(h)
  /\ NoOrphans

(* A command is taken with what it is going to store.                      *)
LEMMA Commanding ==
  ASSUME JobsInv, NEW h \in Hosts, NEW p \in Plans, NEW why, NEW left,
         Command(h, p, why, left),
         \/ left = <<left[1]>>
         \/ left = <<left[1], left[2]>> /\ Storable([why |-> why, plan |-> p, seen |-> jobs[p], left |-> left], left[2]),
         Storable([why |-> why, plan |-> p, seen |-> jobs[p], left |-> left], left[1])
  PROVE  JobsInv' /\ jobs' = jobs
<1> DEFINE w == [why |-> why, plan |-> p, seen |-> jobs[p], left |-> left]
<1>1. /\ host' = [host EXCEPT ![h] = w] /\ UNCHANGED <<permitted, records, jobs, policyChanges>>
      /\ commands < MaxCommands /\ commands' = commands + 1
  BY DEF Command
<1>2. host' = [k \in Hosts |-> host'[k]] /\ host'[h] = w /\ \A k \in Hosts \ {h} : host'[k] = host[k]
  BY <1>1 DEF JobsInv
<1>3. w.why = why /\ w.plan = p /\ w.seen = jobs[p] /\ w.left = left
  OBVIOUS
<1>4. Commanded(h)'
  BY <1>2, <1>3 DEF Commanded, Storable
<1>5. \A k \in Hosts \ {h} : Commanded(k)'
  BY <1>2 DEF Commanded, Storable, JobsInv
<1>6. ResearchTypeOK' /\ NoOrphans'
  BY <1>1, ResearchConstants DEF JobsInv, ResearchTypeOK, NoOrphans, OrphanJobs
<1>7. QED
  BY <1>1, <1>2, <1>4, <1>5, <1>6 DEF JobsInv

LEMMA Freed ==
  ASSUME JobsInv, NEW h \in Hosts, host' = [host EXCEPT ![h] = Free],
         UNCHANGED <<permitted, records, jobs, commands, policyChanges>>
  PROVE  JobsInv'
<1>1. host' = [k \in Hosts |-> host'[k]] /\ host'[h] = Free /\ \A k \in Hosts \ {h} : host'[k] = host[k]
  BY DEF JobsInv
<1>2. \A k \in Hosts : Commanded(k)'
  BY <1>1 DEF Commanded, Storable, JobsInv
<1>3. ResearchTypeOK' /\ NoOrphans'
  BY DEF JobsInv, ResearchTypeOK, NoOrphans, OrphanJobs
<1>4. QED
  BY <1>1, <1>2, <1>3 DEF JobsInv

(* A job is revived only by planning it or by what was read before.        *)
Revived(p) ==
  (jobs[p] # NoJob /\ ~Resumable(p) /\ Resumable(p)') =>
    \E h \in Hosts :
      /\ host[h] # Free /\ host[h].plan = p
      /\ host[h].why = "plan" \/ (host[h].why = "discovery" /\ host[h].seen # jobs[p])

LEMMA PutStep ==
  ASSUME JobsInv, NEW h \in Hosts, Put(h)
  PROVE  JobsInv' /\ \A p \in Plans : Revived(p)
<1> DEFINE w == host[h]
           r == Head(w.left)
           admitted == permitted /\ (r.kind \in {"plans", "candidates"} \/ Receipt("plans", w.plan) \in records)
<1>a. \A x : Tail(<<x>>) = <<>> /\ Head(<<x>>) = x
  OBVIOUS
<1>b. \A x, y : Head(<<x, y>>) = x /\ Tail(<<x, y>>) = <<y>> /\ <<y>> # <<>>
  OBVIOUS
<1>c. w # Free /\ Commanded(h)
  BY DEF Put, JobsInv
<1>d. /\ w.plan \in Plans /\ Storable(w, w.left[1])
      /\ w = [why |-> w.why, plan |-> w.plan, seen |-> w.seen, left |-> w.left]
      /\ \/ w.left = <<w.left[1]>>
         \/ w.left = <<w.left[1], w.left[2]>> /\ Storable(w, w.left[2])
  BY <1>c DEF Commanded
<1>e. r = w.left[1]
  BY <1>a, <1>b, <1>d
<1>1. /\ w # Free /\ w.plan \in Plans /\ Storable(w, r) /\ r = w.left[1]
      /\ w = [why |-> w.why, plan |-> w.plan, seen |-> w.seen, left |-> w.left]
      /\ \/ w.left = <<w.left[1]>> /\ Tail(w.left) = <<>>
         \/ /\ w.left = <<w.left[1], w.left[2]>> /\ Storable(w, w.left[2]) /\ Tail(w.left) # <<>>
            /\ Tail(w.left) = <<w.left[2]>>
  <2>1. CASE w.left = <<w.left[1]>>
    <3>1. Tail(w.left) = <<>>
      BY <2>1, <1>a
    <3>2. QED
      BY <3>1, <2>1, <1>c, <1>d, <1>e
  <2>2. CASE w.left = <<w.left[1], w.left[2]>> /\ Storable(w, w.left[2])
    <3>1. Tail(w.left) = <<w.left[2]>> /\ Tail(w.left) # <<>>
      BY <2>2, <1>b
    <3>2. QED
      BY <3>1, <2>2, <1>c, <1>d, <1>e
  <2>3. QED
    BY <2>1, <2>2, <1>d
<1>2. UNCHANGED <<permitted, commands, policyChanges>>
  BY DEF Put
<1>3. CASE ~admitted
  <2>1. host' = [host EXCEPT ![h] = Free] /\ UNCHANGED <<records, jobs>>
    BY <1>3 DEF Put
  <2>2. JobsInv'
    BY <2>1, <1>2, Freed
  <2>3. jobs' = jobs
    BY <2>1
  <2>4. \A p \in Plans : Revived(p)
    BY <2>3 DEF Revived, Resumable
  <2>5. QED
    BY <2>2, <2>4
<1>4. CASE admitted
  <2>1. /\ IF r.kind = "jobs" THEN jobs' = [jobs EXCEPT ![w.plan] = r.body] /\ UNCHANGED records
           ELSE records' = records \cup {r} /\ UNCHANGED jobs
        /\ host' = [host EXCEPT ![h] = IF Tail(w.left) = <<>> THEN Free ELSE [w EXCEPT !.left = Tail(w.left)]]
    BY <1>4 DEF Put
  <2>2. /\ host' = [k \in Hosts |-> host'[k]] /\ \A k \in Hosts \ {h} : host'[k] = host[k]
        /\ host'[h] = IF Tail(w.left) = <<>> THEN Free ELSE [w EXCEPT !.left = Tail(w.left)]
    BY <2>1 DEF JobsInv
  <2>3. Commanded(h)'
    <3>1. CASE Tail(w.left) = <<>>
      BY <2>2, <3>1 DEF Commanded
    <3>2. CASE Tail(w.left) # <<>>
      <4> DEFINE v == [why |-> w.why, plan |-> w.plan, seen |-> w.seen, left |-> <<w.left[2]>>]
      <4>1. host'[h] = v
        BY <2>2, <3>2, <1>1
      <4>2. v.why = w.why /\ v.plan = w.plan /\ v.seen = w.seen /\ v.left = <<w.left[2]>> /\ v.left[1] = w.left[2]
        OBVIOUS
      <4>3. Storable(v, w.left[2])
        BY <1>1, <3>2, <4>2 DEF Storable
      <4> HIDE DEF v
      <4>4. v = [why |-> v.why, plan |-> v.plan, seen |-> v.seen, left |-> v.left] /\ v.left = <<v.left[1]>>
        BY <4>2 DEF v
      <4>5. QED
        BY <4>1, <4>2, <4>3, <4>4, <1>1 DEF Commanded, Storable
    <3>3. QED
      BY <3>1, <3>2
  <2>4. \A k \in Hosts \ {h} : Commanded(k)'
    BY <2>2 DEF Commanded, Storable, JobsInv
  <2>5. CASE r.kind = "jobs"
    <3>1. /\ jobs' = [p \in Plans |-> jobs'[p]] /\ jobs'[w.plan] = r.body /\ records' = records
          /\ \A p \in Plans \ {w.plan} : jobs'[p] = jobs[p]
      BY <2>1, <2>5, <1>1 DEF JobsInv
    <3>2. Receipt("plans", w.plan) \in records
      BY <1>4, <2>5
    <3>3. r.body.state \in {"planned", "discovering", "cancelled"}
      BY <1>1, <2>5 DEF Storable
    <3>4. ResearchTypeOK'
      BY <3>1, <3>3, <1>2 DEF JobsInv, ResearchTypeOK
    <3>5. NoOrphans'
      BY <3>1, <3>2 DEF JobsInv, NoOrphans, OrphanJobs
    <3>6. ASSUME NEW p \in Plans PROVE Revived(p)
      <4>1. CASE p # w.plan
        BY <4>1, <3>1 DEF Revived, Resumable
      <4>2. CASE p = w.plan
        <5>1. Resumable(p)' => w.why = "plan" \/ (w.why = "discovery" /\ w.seen # NoJob /\ w.seen.state = "planned")
          BY <4>2, <3>1, <1>1, <2>5 DEF Resumable, Storable
        <5>2. w.seen # NoJob /\ w.seen.state = "planned" /\ w.seen = jobs[p] => Resumable(p)
          BY DEF Resumable
        <5>3. QED
          BY <5>1, <5>2, <4>2, <1>1 DEF Revived
      <4>3. QED
        BY <4>1, <4>2
    <3>7. QED
      BY <3>1, <3>4, <3>5, <3>6, <2>2, <2>3, <2>4 DEF JobsInv
  <2>6. CASE r.kind # "jobs"
    <3>1. jobs' = jobs /\ records' = records \cup {r}
      BY <2>1, <2>6
    <3>2. r.kind \in {"packets", "outcomes"} => Receipt("plans", r.what) \in records
      BY <1>1, <1>4 DEF Storable
    <3>3. ResearchTypeOK' /\ NoOrphans'
      BY <3>1, <3>2, <1>2 DEF JobsInv, ResearchTypeOK, NoOrphans, OrphanJobs
    <3>4. \A p \in Plans : Revived(p)
      BY <3>1 DEF Revived, Resumable
    <3>5. QED
      BY <3>1, <3>3, <3>4, <2>2, <2>3, <2>4 DEF JobsInv
  <2>7. QED
    BY <2>5, <2>6
<1>5. QED
  BY <1>3, <1>4

LEMMA JobsInit == ResearchInit => JobsInv
<1> SUFFICES ASSUME ResearchInit PROVE JobsInv
  OBVIOUS
<1>1. host = [h \in Hosts |-> Free] /\ jobs = [p \in Plans |-> NoJob] /\ records = {}
  BY DEF ResearchInit
<1>2. \A h \in Hosts : Commanded(h)
  BY <1>1 DEF Commanded
<1>3. ResearchTypeOK /\ NoOrphans
  BY ResearchConstants DEF ResearchInit, ResearchTypeOK, NoOrphans, OrphanJobs
<1>4. QED
  BY <1>1, <1>2, <1>3 DEF JobsInv

LEMMA JobsStep ==
  ASSUME JobsInv, [ResearchNext]_rsVars
  PROVE  JobsInv' /\ \A p \in Plans : Revived(p)
<1>0. jobs' = jobs => \A p \in Plans : Revived(p)
  BY DEF Revived, Resumable
<1>1. CASE UNCHANGED rsVars
  BY <1>1 DEF rsVars, JobsInv, ResearchTypeOK, NoOrphans, OrphanJobs, Commanded, Storable, Revived, Resumable
<1>2. ASSUME NEW h \in Hosts, NEW p \in Plans, PermissionCheck(h, p) \/ Plan(h, p)
      PROVE  JobsInv' /\ jobs' = jobs
  <2> DEFINE left == <<Receipt("plans", p), JobRecord("planned", <<>>)>>
  <2>1. Command(h, p, "plan", left)
    BY <1>2 DEF PermissionCheck, Plan
  <2>2. left[1].kind = "plans" /\ left[2].kind = "jobs" /\ left[2].body.state = "planned"
    BY DEF Receipt, JobRecord
  <2>3. left = <<left[1], left[2]>>
    OBVIOUS
  <2> HIDE DEF left
  <2>4. QED
    BY <2>1, <2>2, <2>3, Commanding DEF Storable
<1>3. ASSUME NEW h \in Hosts, NEW p \in Plans, Cancel(h, p)
      PROVE  JobsInv' /\ jobs' = jobs
  <2> DEFINE left == <<JobRecord("cancelled", Append(jobs[p].events, "cancelled"))>>
  <2>1. Command(h, p, "cancel", left)
    BY <1>3 DEF Cancel
  <2>2. left[1].kind = "jobs" /\ left[1].body.state = "cancelled"
    BY DEF JobRecord
  <2>3. left = <<left[1]>>
    OBVIOUS
  <2> HIDE DEF left
  <2>4. QED
    BY <2>1, <2>2, <2>3, Commanding DEF Storable
<1>4. ASSUME NEW h \in Hosts, NEW p \in Plans, NEW o \in Origins, Discover(h, p, o)
      PROVE  JobsInv' /\ jobs' = jobs
  <2> DEFINE left == <<Receipt("candidates", o), JobRecord("discovering", <<"legacy-discovery">>)>>
  <2>1. Command(h, p, "discovery", left) /\ jobs[p] # NoJob /\ jobs[p].state = "planned"
    BY <1>4 DEF Discover
  <2>2. left[1].kind = "candidates" /\ left[2].kind = "jobs" /\ left[2].body.state = "discovering"
    BY DEF Receipt, JobRecord
  <2>3. left = <<left[1], left[2]>>
    OBVIOUS
  <2> HIDE DEF left
  <2>4. QED
    BY <2>1, <2>2, <2>3, Commanding DEF Storable
<1>5. ASSUME NEW h \in Hosts, NEW p \in Plans, NEW o \in Origins, DiscoverCandidates(h, p, o)
      PROVE  JobsInv' /\ jobs' = jobs
  <2> DEFINE left == <<Receipt("candidates", o)>>
  <2>1. Command(h, p, "candidates", left)
    BY <1>5 DEF DiscoverCandidates
  <2>2. left[1].kind = "candidates" /\ left = <<left[1]>>
    BY DEF Receipt
  <2> HIDE DEF left
  <2>3. QED
    BY <2>1, <2>2, Commanding DEF Storable
<1>6. ASSUME NEW h \in Hosts, NEW p \in Plans, Packet(h, p) \/ Outcome(h, p)
      PROVE  JobsInv' /\ jobs' = jobs
  <2>1. PICK kind \in {"packets", "outcomes"} : Command(h, p, kind, <<Receipt(kind, p)>>)
    BY <1>6 DEF Packet, Outcome, Conclude
  <2> DEFINE left == <<Receipt(kind, p)>>
  <2>2. left[1].kind = kind /\ left[1].what = p /\ left = <<left[1]>> /\ Command(h, p, kind, left)
    BY <2>1 DEF Receipt
  <2> HIDE DEF left
  <2>3. QED
    BY <2>2, Commanding DEF Storable
<1>7. ASSUME PolicyChanges PROVE JobsInv' /\ jobs' = jobs
  BY <1>7, ResearchConstants DEF PolicyChanges, JobsInv, ResearchTypeOK, NoOrphans, OrphanJobs, Commanded, Storable
<1>8. ASSUME NEW h \in Hosts, HostDies(h) PROVE JobsInv' /\ jobs' = jobs
  BY <1>8, Freed DEF HostDies
<1>9. CASE ResearchNext
  BY <1>9, <1>0, <1>2, <1>3, <1>4, <1>5, <1>6, <1>7, <1>8, PutStep DEF ResearchNext
<1>10. QED
  BY <1>1, <1>9

-----------------------------------------------------------------------------
(* The legacy journal                                                      *)

LEMMA BeforeOf ==
  ASSUME NEW s, Lined(s), NEW e
  PROVE  \A j : \A i \in 1 .. Len(s) + 1 :
           /\ Before(j, Append(s, e), i) = Before(j, s, i)
           /\ Before(j, s, i) # {} => Append(s, e)[Max(Before(j, s, i))] = s[Max(Before(j, s, i))]
<1> SUFFICES ASSUME NEW j, NEW i \in 1 .. Len(s) + 1
             PROVE  /\ Before(j, Append(s, e), i) = Before(j, s, i)
                    /\ Before(j, s, i) # {} => Append(s, e)[Max(Before(j, s, i))] = s[Max(Before(j, s, i))]
  OBVIOUS
<1>1. /\ Before(j, Append(s, e), i) = Before(j, s, i)
      /\ Before(j, s, i) \in SUBSET (1 .. Len(s)) /\ Len(s) \in Nat
  BY OneMore DEF Before, Lined
<1>2. Before(j, s, i) # {} => Max(Before(j, s, i)) \in 1 .. Len(s)
  BY <1>1, MaxIsIn
<1>3. QED
  BY <1>1, <1>2, OneMore

(* Whoever checks an event as the reader does keeps the journal readable.  *)
LEMMA StillReadable ==
  ASSUME NEW s, Lined(s), Readable(s), NEW e,
         IF Begun(e.job, s) THEN ReaderAccepts(LastEvent(e.job, s), e) ELSE e.state = "gap-open"
  PROVE  Readable(Append(s, e))
<1>0. \A j : \A i \in 1 .. Len(s) + 1 :
        /\ Before(j, Append(s, e), i) = Before(j, s, i)
        /\ Before(j, s, i) # {} => Append(s, e)[Max(Before(j, s, i))] = s[Max(Before(j, s, i))]
  BY BeforeOf, Zenon
<1>1. Len(s) \in Nat /\ Len(s) + 1 \in 1 .. Len(s) + 1
  BY DEF Lined
<1>2. ASSUME NEW i \in 1 .. Len(s) PROVE EventReadable(Append(s, e), i)
  <2> DEFINE b == Before(s[i].job, s, i)
  <2>1. EventReadable(s, i) /\ Append(s, e)[i] = s[i] /\ i \in 1 .. Len(s) + 1
    BY <1>1, OneMore DEF Readable
  <2>2. Before(s[i].job, Append(s, e), i) = b /\ (b # {} => Append(s, e)[Max(b)] = s[Max(b)])
    BY <1>0, <2>1, Zenon
  <2>3. IF b = {} THEN s[i].state = "gap-open" ELSE ReaderAccepts(s[Max(b)], s[i])
    BY <2>1 DEF EventReadable
  <2>4. Before(Append(s, e)[i].job, Append(s, e), i) = b
    BY <2>1, <2>2, Zenon
  <2> HIDE DEF b
  <2>5. IF b = {} THEN Append(s, e)[i].state = "gap-open" ELSE ReaderAccepts(Append(s, e)[Max(b)], Append(s, e)[i])
    BY <2>1, <2>2, <2>3
  <2>6. QED
    BY <2>4, <2>5, Zenon DEF EventReadable
<1>3. EventReadable(Append(s, e), Len(s) + 1)
  <2>0. PICK n \in 1 .. Len(s) + 1 : n = Len(s) + 1
    BY <1>1
  <2> DEFINE b == Before(e.job, s, n)
  <2>1. Before(e.job, Append(s, e), n) = b /\ (b # {} => Append(s, e)[Max(b)] = s[Max(b)])
    BY <1>0, Zenon
  <2>2. Append(s, e)[n] = e
    BY <2>0, OneMore
  <2>3. IF b = {} THEN e.state = "gap-open" ELSE ReaderAccepts(s[Max(b)], e)
    BY <2>0 DEF Begun, LastEvent
  <2> HIDE DEF b
  <2>4. Before(Append(s, e)[n].job, Append(s, e), n) = b
    BY <2>1, <2>2, Zenon
  <2>5. IF b = {} THEN Append(s, e)[n].state = "gap-open" ELSE ReaderAccepts(Append(s, e)[Max(b)], Append(s, e)[n])
    BY <2>1, <2>2, <2>3
  <2>6. EventReadable(Append(s, e), n)
    BY <2>4, <2>5, Zenon DEF EventReadable
  <2>7. QED
    BY <2>0, <2>6
<1>4. QED
  BY <1>1, <1>2, <1>3, OneMore DEF Readable

Pending(k) ==
  \/ clerk[k] = NoClerk
  \/ /\ clerk[k].phase = "append" /\ Lined(clerk[k].seen)
     /\ careless \/ Readable(Append(clerk[k].seen, clerk[k].event))
  \/ /\ clerk[k].phase = "replace" /\ Lined(clerk[k].seen)
     /\ careless \/ Readable(Append(clerk[k].checked, clerk[k].event))

LegacyInv ==
  /\ clerk = [k \in Clerks |-> clerk[k]] /\ careless \in BOOLEAN /\ overlapped \in BOOLEAN
  /\ Lined(legacy)
  /\ \A k \in Clerks : Pending(k)
  /\ StaysReadable

LEMMA LegacyInvInit == LegacyInit => LegacyInv
BY LegacyHistory DEF LegacyInit, LegacyInv, Pending, StaysReadable, Lined

LEMMA AppendingStep ==
  ASSUME LegacyInv, NEW k \in Clerks, NEW e, NEW odd \in BOOLEAN, Appending(k, e, odd), Readable(legacy),
         ~odd => IF Begun(e.job, legacy) THEN ReaderAccepts(LastEvent(e.job, legacy), e) ELSE e.state = "gap-open"
  PROVE  LegacyInv'
<1> DEFINE c == [phase |-> "append", event |-> e, seen |-> legacy]
<1>1. clerk' = [clerk EXCEPT ![k] = c] /\ careless' = (careless \/ odd) /\ UNCHANGED <<legacy, overlapped>>
  BY DEF Appending
<1>2. clerk' = [m \in Clerks |-> clerk'[m]] /\ clerk'[k] = c /\ \A m \in Clerks \ {k} : clerk'[m] = clerk[m]
  BY <1>1 DEF LegacyInv
<1>3. ~odd => Readable(Append(legacy, e))
  BY StillReadable DEF LegacyInv
<1>4. Pending(k)'
  BY <1>1, <1>2, <1>3 DEF Pending, LegacyInv
<1>5. \A m \in Clerks \ {k} : Pending(m)'
  BY <1>1, <1>2 DEF Pending, LegacyInv
<1>6. StaysReadable'
  BY <1>1 DEF StaysReadable, LegacyInv
<1>7. careless' \in BOOLEAN
  BY <1>1 DEF LegacyInv
<1>8. QED
  BY <1>1, <1>2, <1>4, <1>5, <1>6, <1>7 DEF LegacyInv

LEMMA AppendEventStep ==
  ASSUME LegacyInv, NEW k \in Clerks, AppendEvent(k)
  PROVE  LegacyInv'
<1> DEFINE c == clerk[k]
<1>1. c # NoClerk /\ UNCHANGED careless
  BY DEF AppendEvent
<1>2. CASE c.phase = "append"
  <2>1. /\ UNCHANGED <<legacy, overlapped>>
        /\ clerk' = [clerk EXCEPT ![k] = IF Readable(legacy)
             THEN [phase |-> "replace", event |-> c.event, seen |-> legacy, checked |-> c.seen] ELSE NoClerk]
    BY <1>2 DEF AppendEvent
  <2>2. /\ clerk' = [m \in Clerks |-> clerk'[m]] /\ \A m \in Clerks \ {k} : clerk'[m] = clerk[m]
        /\ clerk'[k] = IF Readable(legacy)
             THEN [phase |-> "replace", event |-> c.event, seen |-> legacy, checked |-> c.seen] ELSE NoClerk
    BY <2>1 DEF LegacyInv
  <2>3. careless \/ Readable(Append(c.seen, c.event))
    BY <1>1, <1>2 DEF LegacyInv, Pending
  <2>4. Pending(k)'
    BY <2>1, <2>2, <2>3, <1>1 DEF Pending, LegacyInv
  <2>5. \A m \in Clerks \ {k} : Pending(m)'
    BY <1>1, <2>2 DEF Pending, LegacyInv
  <2>6. StaysReadable'
    BY <1>1, <2>1 DEF StaysReadable, LegacyInv
  <2>7. QED
    BY <1>1, <2>1, <2>2, <2>4, <2>5, <2>6 DEF LegacyInv
<1>3. CASE c.phase # "append"
  <2>1. /\ legacy' = Append(c.seen, c.event) /\ clerk' = [clerk EXCEPT ![k] = NoClerk]
        /\ overlapped' = (overlapped \/ c.seen # legacy \/ c.checked # c.seen)
    BY <1>3 DEF AppendEvent
  <2>2. Lined(c.seen) /\ (careless \/ Readable(Append(c.checked, c.event)))
    BY <1>1, <1>3 DEF LegacyInv, Pending
  <2>3. Lined(legacy')
    BY <2>1, <2>2, OneMore
  <2>4. StaysReadable'
    BY <1>1, <2>1, <2>2 DEF StaysReadable
  <2>5. clerk' = [m \in Clerks |-> clerk'[m]] /\ clerk'[k] = NoClerk /\ \A m \in Clerks \ {k} : clerk'[m] = clerk[m]
    BY <2>1 DEF LegacyInv
  <2>6. \A m \in Clerks : Pending(m)'
    BY <1>1, <2>5 DEF Pending, LegacyInv
  <2>7. overlapped' \in BOOLEAN
    BY <2>1
  <2>8. QED
    BY <1>1, <2>3, <2>4, <2>5, <2>6, <2>7 DEF LegacyInv
<1>4. QED
  BY <1>2, <1>3

LEMMA LegacyInvStep == LegacyInv /\ [LegacyNext]_lgVars => LegacyInv'
<1> SUFFICES ASSUME LegacyInv, [LegacyNext]_lgVars PROVE LegacyInv'
  OBVIOUS
<1>1. CASE UNCHANGED lgVars
  BY <1>1 DEF lgVars, LegacyInv, Pending, StaysReadable
<1>2. ASSUME NEW k \in Clerks, NEW j \in LegacyJobIds, NEW state \in AskedStates, NEW attempt \in Attempts,
             NEW digest \in Digests, NEW given \in ArtifactSets \cup {Unsaid},
             FirstEvent(k, j, state, attempt, digest, given)
      PROVE  LegacyInv'
  <2> DEFINE e == [job |-> j, state |-> state, attempt |-> attempt, digest |-> digest,
                   artifacts |-> IF given = Unsaid THEN {} ELSE given]
  <2>1. Readable(legacy) /\ ~Begun(j, legacy) /\ Appending(k, e, state # "gap-open")
    BY <1>2 DEF FirstEvent
  <2>2. e.job = j /\ e.state = state
    OBVIOUS
  <2> HIDE DEF e
  <2>3. QED
    BY <2>1, <2>2, AppendingStep
<1>3. ASSUME NEW k \in Clerks, NEW j \in LegacyJobIds, NEW state \in AskedStates, NEW attempt \in Attempts,
             NEW digest \in Digests, NEW given \in ArtifactSets \cup {Unsaid},
             NextEvent(k, j, state, attempt, digest, given)
      PROVE  LegacyInv'
  <2> DEFINE now     == LastEvent(j, legacy)
             resumed == Resumes(now, [state |-> state, attempt |-> attempt])
             kept    == IF resumed THEN {} ELSE now.artifacts
             e == [job |-> j, state |-> state, attempt |-> attempt,
                   digest |-> IF digest = NoDigest THEN now.digest ELSE digest,
                   artifacts |-> IF given = Unsaid THEN kept ELSE given]
             odd == IF resumed THEN e.artifacts # {} ELSE e.digest # now.digest
  <2>1. /\ Readable(legacy) /\ Begun(j, legacy) /\ Appending(k, e, odd)
        /\ attempt = now.attempt \/ resumed
        /\ resumed \/ state \in Successors(now.state)
        /\ now.state = "accepting" => e.artifacts = now.artifacts
    BY <1>3 DEF NextEvent
  <2>2. e.job = j /\ e.state = state /\ e.attempt = attempt
    OBVIOUS
  <2>3. resumed <=> Resumes(now, e)
    BY <2>2 DEF Resumes
  <2>4. ~odd => ReaderAccepts(now, e)
    BY <2>1, <2>2, <2>3 DEF ReaderAccepts
  <2>5. odd \in BOOLEAN
    OBVIOUS
  <2> HIDE DEF e, odd, resumed
  <2>6. QED
    BY <2>1, <2>2, <2>4, <2>5, AppendingStep
<1>4. QED
  BY <1>1, <1>2, <1>3, AppendEventStep DEF LegacyNext

-----------------------------------------------------------------------------

(* However commands of research overtake each other, die or lose their     *)
(* permission between two records, and however the legacy journal is       *)
(* written: a cancelled job is revived only by a plan or by a discovery    *)
(* that read it before, no job, packet or outcome is without its plan, and *)
(* the journal stays readable unless two processes wrote at once or a      *)
(* caller was careless.                                                    *)
THEOREM JobsAreKept == ResearchSpec /\ LegacySpec => JobsKept
<1>1. JobsInv /\ [ResearchNext]_rsVars => JobsInv'
  BY JobsStep
<1>2. JobsInv => NoOrphans
  BY DEF JobsInv
<1>3. LegacyInv => StaysReadable
  BY DEF LegacyInv
<1>4. JobsInv /\ [ResearchNext]_rsVars =>
        [\A p \in Plans :
           (jobs[p] # NoJob /\ ~Resumable(p) /\ Resumable(p)') =>
             \E h \in Hosts :
               /\ host[h] # Free /\ host[h].plan = p
               /\ host[h].why = "plan" \/ (host[h].why = "discovery" /\ host[h].seen # jobs[p])]_rsVars
  BY JobsStep DEF Revived
<1>5. QED
  BY <1>1, <1>2, <1>3, <1>4, JobsInit, LegacyInvInit, LegacyInvStep, PTL
  DEF ResearchSpec, LegacySpec, JobsKept, CancelledStays

-----------------------------------------------------------------------------
(* Adoption                                                                *)

LEMMA FirstIsOf ==
  ASSUME NEW list, list \in Seq(Range(list)), NEW S, S # {}, S \subseteq Range(list)
  PROVE  First(S, list) \in S
<1> DEFINE I == {i \in DOMAIN list : list[i] \in S}
<1>1. DOMAIN list = 1 .. Len(list) /\ Len(list) \in Nat
  OBVIOUS
<1>2. I \in SUBSET Nat /\ I # {}
  BY <1>1 DEF Range
<1>3. PICK n \in I : \A m \in I : n <= m
  BY <1>2, Least
<1>4. n \in DOMAIN list /\ list[n] \in S /\ \A k \in 1 .. n - 1 : list[k] \notin S
  <2>1. ASSUME NEW k \in 1 .. n - 1 PROVE list[k] \notin S
    <3>1. k \in DOMAIN list /\ ~(n <= k)
      BY <1>1, <1>3
    <3>2. QED
      BY <3>1, <1>3
  <2>2. QED
    BY <2>1, <1>3
<1>5. QED
  BY <1>4 DEF First

(* What an adoption found missing.                                         *)
MissingIn(n) == {f \in AdFiles : origin[n].tree[f] = "absent"}
DirsIn(n)    == Range(Directories) \ origin[n].folders

(* A directory that holds a file is there.                                 *)
Carried(t, fs) == \A f \in AdFiles : t[f] # "absent" /\ DirOf[f] \in Range(Directories) => DirOf[f] \in fs
Directory(t, fs) ==
  t \in [AdFiles -> {"absent", "own", "generated"}] /\ fs \subseteq Range(Directories) /\ Carried(t, fs)

Truthful(r) == r.of \in 1 .. adopted /\ r.files = MissingIn(r.of) /\ r.dirs = DirsIn(r.of)

Adopting ==
  /\ adopter = [phase |-> adopter.phase, files |-> adopter.files, left |-> adopter.left,
                dirs |-> adopter.dirs, number |-> adopter.number]
  /\ adopter.phase \in {"dirs", "files", "record"}
  /\ adopter.number \in 1 .. adopted
  /\ adopter.files = MissingIn(adopter.number) /\ adopter.left \subseteq adopter.files
  /\ adopter.dirs = DirsIn(adopter.number)

Unadopting ==
  /\ \/ adopter = [phase |-> "check", record |-> adopter.record, left |-> adopter.left, dirs |-> adopter.dirs]
     \/ /\ adopter = [phase |-> "unlink", record |-> adopter.record, left |-> adopter.left,
                      dirs |-> adopter.dirs, saw |-> "generated"]
        /\ adopter.left # {}
  /\ adopter.record \in adoptions
  /\ adopter.left \subseteq adopter.record.files /\ adopter.dirs \subseteq adopter.record.dirs
  /\ \A f \in adopter.record.files \ adopter.left : tree[f] # "generated"

AdoptShape ==
  /\ adopted \in 0 .. MaxAdoptions /\ adoptDeaths \in 0 .. MaxAdoptDeaths /\ userSteps \in 0 .. MaxUserSteps
  /\ Lined(origin) /\ Len(origin) = adopted
  /\ Directory(tree, folders) /\ \A n \in 1 .. adopted : Directory(origin[n].tree, origin[n].folders)
  /\ \A r \in adoptions : Truthful(r)
  /\ adopter = Off \/ Adopting \/ Unadopting

(* Whatever nobody but the one adoption has touched can be taken back.     *)
Restorable ==
  userSteps = 0 /\ adopted = 1 =>
    /\ \A f \in AdFiles : IF f \in MissingIn(1) THEN tree[f] # "own" ELSE tree[f] = origin[1].tree[f]
    /\ origin[1].folders \subseteq folders
    /\ adopter.phase \in {"check", "unlink"} =>
         /\ adopter.left # {} => adopter.dirs = adopter.record.dirs
         /\ \A d \in DirsIn(1) \ adopter.dirs : d \notin folders

AdoptInv == AdoptShape /\ RollbackReaches /\ Restorable

(* What somebody wrote, and what the one adoption found.                   *)
Respects ==
  /\ \A f \in AdFiles :
       tree[f] = "own" /\ tree'[f] # "own" /\ adopter # adopter' =>
         \/ Now("files")  /\ origin[adopter.number].tree[f] = "absent"
         \/ Now("unlink") /\ adopter.saw = "generated"
  /\ Now("check") /\ adopter' = Off /\ adoptions' # adoptions /\ userSteps = 0 /\ adopted = 1 =>
       tree' = origin[1].tree /\ folders' = origin[1].folders

LEMMA FirstFile ==
  ASSUME AdoptShape, adopter.left # {}, Adopting \/ Unadopting
  PROVE  First(adopter.left, Scaffold) \in adopter.left /\ adopter.left \subseteq AdFiles
<1>1. adopter.left \subseteq AdFiles
  BY DEF AdoptShape, Adopting, Unadopting, Truthful, MissingIn
<1>2. QED
  BY <1>1, FirstIsOf, AdoptConstants DEF AdFiles

LEMMA FirstDir ==
  ASSUME AdoptShape, Unadopting, adopter.dirs # {}
  PROVE  First(adopter.dirs, Directories) \in adopter.dirs /\ adopter.dirs \subseteq Range(Directories)
<1>1. adopter.dirs \subseteq Range(Directories)
  BY DEF AdoptShape, Unadopting, Truthful, DirsIn
<1>2. QED
  BY <1>1, FirstIsOf, AdoptConstants

LEMMA AdoptInvInit == AdoptInit => AdoptInv
<1> SUFFICES ASSUME AdoptInit PROVE AdoptInv
  OBVIOUS
<1>1. Directory(tree, folders)
  BY DEF AdoptInit, Directory, Carried, Holds
<1>2. AdoptShape
  BY <1>1, NoneYet, AdoptConstants DEF AdoptInit, AdoptShape
<1>3. RollbackReaches /\ Restorable
  BY DEF AdoptInit, RollbackReaches, Restorable
<1>4. QED
  BY <1>2, <1>3 DEF AdoptInv

LEMMA BeginApplyStep ==
  ASSUME AdoptInv, BeginApply
  PROVE  AdoptInv' /\ Respects
<1>0. PICK n : n = adopted + 1
  OBVIOUS
<1> DEFINE o == [tree |-> tree, folders |-> folders]
           a == [phase |-> "dirs", files |-> Missing, left |-> Missing,
                 dirs |-> Range(Directories) \ folders, number |-> n]
<1>1. /\ adopter.phase = "off" /\ adopter' = a /\ adopted' = n /\ adopted < MaxAdoptions
      /\ origin' = Append(origin, o) /\ UNCHANGED <<tree, folders, adoptions, userSteps, adoptDeaths>>
  BY <1>0 DEF BeginApply, Now
<1>2. adopted \in Nat /\ Lined(origin) /\ Len(origin) = adopted /\ n \in 1 .. n
  BY <1>0 DEF AdoptInv, AdoptShape
<1>3. /\ Lined(origin') /\ Len(origin') = n /\ origin'[n] = o
      /\ \A i \in 1 .. adopted : origin'[i] = origin[i]
  BY <1>0, <1>1, <1>2, OneMore
<1>4. /\ MissingIn(n)' = Missing /\ DirsIn(n)' = Range(Directories) \ folders
      /\ \A i \in 1 .. adopted : MissingIn(i)' = MissingIn(i) /\ DirsIn(i)' = DirsIn(i)
  BY <1>3 DEF MissingIn, DirsIn, Missing
<1>5. adopter = Off
  BY <1>1 DEF AdoptInv, AdoptShape, Adopting, Unadopting
<1>6. \A r \in adoptions' : Truthful(r)'
  BY <1>0, <1>1, <1>2, <1>4 DEF AdoptInv, AdoptShape, Truthful
<1>7. Adopting'
  <2>1. a.phase = "dirs" /\ a.files = Missing /\ a.left = Missing /\ a.number = n /\ a.dirs = Range(Directories) \ folders
    OBVIOUS
  <2>2. adopter' = [phase |-> adopter'.phase, files |-> adopter'.files, left |-> adopter'.left,
                    dirs |-> adopter'.dirs, number |-> adopter'.number]
    BY <1>1
  <2> HIDE DEF a
  <2>3. QED
    BY <1>1, <1>2, <1>4, <2>1, <2>2 DEF Adopting
<1>8. \A i \in 1 .. n : Directory(origin'[i].tree, origin'[i].folders)
  <2>1. TAKE i \in 1 .. n
  <2>2. CASE i = n
    BY <2>2, <1>3 DEF AdoptInv, AdoptShape
  <2>3. CASE i # n
    BY <2>3, <1>0, <1>2, <1>3 DEF AdoptInv, AdoptShape
  <2>4. QED
    BY <2>2, <2>3
<1>9. AdoptShape'
  BY <1>0, <1>1, <1>2, <1>3, <1>6, <1>7, <1>8, AdoptConstants DEF AdoptInv, AdoptShape, Directory, Carried
<1>10. RollbackReaches'
  BY <1>1, <1>5 DEF AdoptInv, RollbackReaches, Off
<1>11. Restorable'
  <2>1. ASSUME adopted' = 1 PROVE n = 1
    BY <1>1, <2>1
  <2>2. a.phase = "dirs"
    OBVIOUS
  <2> HIDE DEF a
  <2>3. QED
    BY <1>1, <1>3, <1>4, <2>1, <2>2 DEF Restorable, Missing
<1>12. Respects
  BY <1>1 DEF Respects, Now
<1>13. QED
  BY <1>9, <1>10, <1>11, <1>12 DEF AdoptInv
LEMMA OriginSame ==
  ASSUME UNCHANGED <<origin, adopted>>
  PROVE  /\ \A n : MissingIn(n)' = MissingIn(n) /\ DirsIn(n)' = DirsIn(n)
         /\ \A r : Truthful(r)' <=> Truthful(r)
BY DEF MissingIn, DirsIn, Truthful

LEMMA FileWritten ==
  ASSUME NEW t, NEW fs, Directory(t, fs), NEW f \in AdFiles, NEW v \in {"own", "generated"}
  PROVE  Directory([t EXCEPT ![f] = v], fs \cup Within(f))
BY DEF Directory, Carried, Within

LEMMA FileRemoved ==
  ASSUME NEW t, NEW fs, Directory(t, fs), NEW f \in AdFiles
  PROVE  Directory([t EXCEPT ![f] = "absent"], fs)
BY DEF Directory, Carried

LEMMA MakeDirsStep ==
  ASSUME AdoptInv, MakeDirs
  PROVE  AdoptInv' /\ Respects
<1>1. /\ adopter.phase = "dirs" /\ folders' = folders \cup adopter.dirs
      /\ adopter' = [adopter EXCEPT !.phase = "files"]
      /\ UNCHANGED <<tree, adoptions, userSteps, adoptDeaths, adopted, origin>>
  BY DEF MakeDirs, Now, adCounts
<1>2. Adopting
  BY <1>1 DEF AdoptInv, AdoptShape, Unadopting, Off
<1>3. /\ adopter' = [phase |-> "files", files |-> adopter.files, left |-> adopter.left,
                     dirs |-> adopter.dirs, number |-> adopter.number]
  BY <1>1, <1>2 DEF Adopting
<1>4. Adopting'
  <2>1. adopter'.phase = "files" /\ adopter'.files = adopter.files /\ adopter'.left = adopter.left
        /\ adopter'.dirs = adopter.dirs /\ adopter'.number = adopter.number
    BY <1>3
  <2>2. QED
    BY <1>1, <1>2, <1>3, <2>1, OriginSame DEF Adopting
<1>5. Directory(tree, folders)'
  BY <1>1, <1>2 DEF AdoptInv, AdoptShape, Directory, Carried, Adopting, DirsIn
<1>6. AdoptShape'
  BY <1>1, <1>4, <1>5, OriginSame DEF AdoptInv, AdoptShape
<1>7. RollbackReaches'
  BY <1>1 DEF AdoptInv, RollbackReaches
<1>8. Restorable'
  BY <1>1, <1>3, OriginSame DEF AdoptInv, Restorable
<1>9. Respects
  BY <1>1, <1>3 DEF Respects, Now
<1>10. QED
  BY <1>6, <1>7, <1>8, <1>9 DEF AdoptInv

LEMMA WriteScaffoldStep ==
  ASSUME AdoptInv, WriteScaffold
  PROVE  AdoptInv' /\ Respects
<1>1. adopter.phase = "files" /\ UNCHANGED <<adoptions, userSteps, adoptDeaths, adopted, origin>>
  BY DEF WriteScaffold, Now, adCounts
<1>2. Adopting
  BY <1>1 DEF AdoptInv, AdoptShape, Unadopting, Off
<1>3. CASE adopter.left = {}
  <2>1. adopter' = [adopter EXCEPT !.phase = "record"] /\ UNCHANGED <<tree, folders>>
    BY <1>3 DEF WriteScaffold
  <2>2. adopter' = [phase |-> "record", files |-> adopter.files, left |-> adopter.left,
                    dirs |-> adopter.dirs, number |-> adopter.number]
    BY <2>1, <1>2 DEF Adopting
  <2>3. adopter'.phase = "record" /\ adopter'.files = adopter.files /\ adopter'.left = adopter.left
        /\ adopter'.dirs = adopter.dirs /\ adopter'.number = adopter.number
    BY <2>2
  <2>4. Adopting'
    BY <1>1, <1>2, <2>2, <2>3, OriginSame DEF Adopting
  <2>5. AdoptShape'
    BY <1>1, <2>1, <2>4, OriginSame DEF AdoptInv, AdoptShape
  <2>6. RollbackReaches'
    BY <1>1, <2>1, <2>3 DEF AdoptInv, RollbackReaches
  <2>7. Restorable'
    BY <1>1, <2>1, <2>3, OriginSame DEF AdoptInv, Restorable
  <2>8. Respects
    BY <1>1, <2>1 DEF Respects, Now
  <2>9. QED
    BY <2>5, <2>6, <2>7, <2>8 DEF AdoptInv
<1>4. CASE adopter.left # {}
  <2>1. PICK f : f = First(adopter.left, Scaffold)
    OBVIOUS
  <2>2. /\ tree' = [tree EXCEPT ![f] = "generated"] /\ folders' = folders \cup Within(f)
        /\ adopter' = [adopter EXCEPT !.left = @ \ {f}]
    BY <1>4, <2>1 DEF WriteScaffold
  <2>3. f \in adopter.left /\ f \in AdFiles /\ f \in MissingIn(adopter.number)
    BY <1>2, <1>4, <2>1, FirstFile DEF AdoptInv, Adopting
  <2>4. adopter' = [phase |-> "files", files |-> adopter.files, left |-> adopter.left \ {f},
                    dirs |-> adopter.dirs, number |-> adopter.number]
    BY <1>1, <2>2, <1>2 DEF Adopting
  <2>5. adopter'.phase = "files" /\ adopter'.files = adopter.files /\ adopter'.left = adopter.left \ {f}
        /\ adopter'.dirs = adopter.dirs /\ adopter'.number = adopter.number
    BY <2>4
  <2>6. Adopting'
    BY <1>1, <1>2, <2>4, <2>5, OriginSame DEF Adopting
  <2>7. Directory(tree', folders')
    BY <2>2, <2>3, FileWritten DEF AdoptInv, AdoptShape
  <2>8. AdoptShape'
    BY <1>1, <2>6, <2>7, OriginSame DEF AdoptInv, AdoptShape
  <2>9. \A g \in AdFiles : tree'[g] = IF g = f THEN "generated" ELSE tree[g]
    BY <2>2, <2>3 DEF AdoptInv, AdoptShape, Directory
  <2>10. RollbackReaches'
    BY <1>1, <1>2, <2>3, <2>5, <2>9 DEF AdoptInv, RollbackReaches, Adopting
  <2>11. Restorable'
    <3>1. adopted = 1 => f \in MissingIn(1)
      BY <1>2, <2>3 DEF Adopting
    <3>2. folders \subseteq folders'
      BY <2>2
    <3>3. QED
      BY <1>1, <2>5, <2>9, <3>1, <3>2, OriginSame DEF AdoptInv, Restorable
  <2>12. Respects
    BY <1>1, <2>3, <2>9 DEF Respects, Now, MissingIn
  <2>13. QED
    BY <2>8, <2>10, <2>11, <2>12 DEF AdoptInv
<1>5. QED
  BY <1>3, <1>4

LEMMA WriteRecordStep ==
  ASSUME AdoptInv, WriteRecord
  PROVE  AdoptInv' /\ Respects
<1>0. PICK r : r = [files |-> adopter.files, dirs |-> adopter.dirs, of |-> adopter.number]
  OBVIOUS
<1>1. /\ adopter.phase = "record" /\ adoptions' = adoptions \cup {r} /\ adopter' = Off
      /\ UNCHANGED <<tree, folders, userSteps, adoptDeaths, adopted, origin>>
  BY <1>0 DEF WriteRecord, Now, adCounts
<1>2. Adopting
  BY <1>1 DEF AdoptInv, AdoptShape, Unadopting, Off
<1>3. Truthful(r) /\ r.files = adopter.files
  BY <1>0, <1>2 DEF Truthful, Adopting
<1>4. \A s \in adoptions' : Truthful(s)'
  BY <1>1, <1>3, OriginSame DEF AdoptInv, AdoptShape
<1>5. AdoptShape'
  BY <1>1, <1>4 DEF AdoptInv, AdoptShape
<1>6. RollbackReaches'
  BY <1>1, <1>3 DEF AdoptInv, RollbackReaches
<1>7. Restorable'
  BY <1>1, OriginSame DEF AdoptInv, Restorable, Off
<1>8. Respects
  BY <1>1 DEF Respects, Now
<1>9. QED
  BY <1>5, <1>6, <1>7, <1>8 DEF AdoptInv

LEMMA BeginRollbackStep ==
  ASSUME AdoptInv, BeginRollback
  PROVE  AdoptInv' /\ Respects
<1>1. PICK r \in adoptions : adopter' = [phase |-> "check", record |-> r, left |-> r.files, dirs |-> r.dirs]
  BY DEF BeginRollback
<1>2. adopter.phase = "off" /\ UNCHANGED <<tree, folders, adoptions, userSteps, adoptDeaths, adopted, origin>>
  BY DEF BeginRollback, Now, adCounts
<1>3. adopter = Off
  BY <1>2 DEF AdoptInv, AdoptShape, Adopting, Unadopting
<1>4. adopter'.phase = "check" /\ adopter'.record = r /\ adopter'.left = r.files /\ adopter'.dirs = r.dirs
  BY <1>1
<1>5. Unadopting'
  BY <1>1, <1>2, <1>4 DEF Unadopting
<1>6. AdoptShape'
  BY <1>2, <1>5, OriginSame DEF AdoptInv, AdoptShape
<1>7. RollbackReaches'
  BY <1>2, <1>3 DEF AdoptInv, RollbackReaches, Off
<1>8. Restorable'
  <2>1. Truthful(r)
    BY DEF AdoptInv, AdoptShape
  <2>2. adopted = 1 => r.dirs = DirsIn(1)
    BY <2>1 DEF Truthful
  <2>3. QED
    BY <1>2, <1>4, <2>2, OriginSame DEF AdoptInv, Restorable
<1>9. Respects
  BY <1>2 DEF Respects, Now
<1>10. QED
  BY <1>6, <1>7, <1>8, <1>9 DEF AdoptInv

(* What the record of a rollback says of the directory.                    *)
LEMMA RecordSays ==
  ASSUME AdoptInv, Unadopting
  PROVE  /\ Truthful(adopter.record)
         /\ adopter.record.files \subseteq AdFiles /\ adopter.record.dirs \subseteq Range(Directories)
         /\ adopted = 1 => adopter.record.files = MissingIn(1) /\ adopter.record.dirs = DirsIn(1)
<1>1. Truthful(adopter.record)
  BY DEF AdoptInv, AdoptShape, Unadopting
<1>2. QED
  BY <1>1 DEF Truthful, MissingIn, DirsIn

LEMMA CheckFileStep ==
  ASSUME AdoptInv, CheckFile
  PROVE  AdoptInv' /\ Respects
<1>0. PICK f : f = First(adopter.left, Scaffold)
  OBVIOUS
<1>1. /\ adopter.phase = "check" /\ adopter.left # {}
      /\ adopter' = IF tree[f] # "generated" THEN [adopter EXCEPT !.left = @ \ {f}]
                    ELSE [phase |-> "unlink", record |-> adopter.record, left |-> adopter.left,
                          dirs |-> adopter.dirs, saw |-> tree[f]]
      /\ UNCHANGED <<tree, folders, adoptions, userSteps, adoptDeaths, adopted, origin>>
  BY <1>0 DEF CheckFile, Now, adCounts
<1>2. /\ Unadopting
      /\ adopter = [phase |-> "check", record |-> adopter.record, left |-> adopter.left, dirs |-> adopter.dirs]
  BY <1>1 DEF AdoptInv, AdoptShape, Adopting, Unadopting, Off
<1>3. f \in adopter.left
  BY <1>0, <1>1, <1>2, FirstFile DEF AdoptInv
<1>4. /\ adopter'.record = adopter.record /\ adopter'.dirs = adopter.dirs
      /\ adopter'.left \subseteq adopter.left /\ adopter'.phase \in {"check", "unlink"}
      /\ Unadopting'
  <2>1. CASE tree[f] # "generated"
    <3>1. adopter' = [phase |-> "check", record |-> adopter.record, left |-> adopter.left \ {f}, dirs |-> adopter.dirs]
      BY <1>1, <1>2, <2>1
    <3>2. adopter'.phase = "check" /\ adopter'.record = adopter.record /\ adopter'.left = adopter.left \ {f}
          /\ adopter'.dirs = adopter.dirs
      BY <3>1
    <3>3. QED
      BY <1>1, <1>2, <2>1, <3>1, <3>2 DEF Unadopting
  <2>2. CASE tree[f] = "generated"
    <3>1. adopter' = [phase |-> "unlink", record |-> adopter.record, left |-> adopter.left,
                      dirs |-> adopter.dirs, saw |-> "generated"]
      BY <1>1, <2>2
    <3>2. adopter'.phase = "unlink" /\ adopter'.record = adopter.record /\ adopter'.left = adopter.left
          /\ adopter'.dirs = adopter.dirs
      BY <3>1
    <3>3. QED
      BY <1>1, <1>2, <2>2, <3>1, <3>2 DEF Unadopting
  <2>3. QED
    BY <2>1, <2>2
<1>5. AdoptShape'
  BY <1>1, <1>4, OriginSame DEF AdoptInv, AdoptShape
<1>6. RollbackReaches'
  BY <1>1 DEF AdoptInv, RollbackReaches
<1>7. Restorable'
  BY <1>1, <1>4, OriginSame DEF AdoptInv, Restorable
<1>8. Respects
  BY <1>1 DEF Respects
<1>9. QED
  BY <1>5, <1>6, <1>7, <1>8 DEF AdoptInv

LEMMA UnlinkFileStep ==
  ASSUME AdoptInv, UnlinkFile
  PROVE  AdoptInv' /\ Respects
<1>0. PICK f : f = First(adopter.left, Scaffold)
  OBVIOUS
<1>1. /\ adopter.phase = "unlink" /\ tree' = [tree EXCEPT ![f] = "absent"]
      /\ adopter' = [phase |-> "check", record |-> adopter.record, left |-> adopter.left \ {f},
                     dirs |-> adopter.dirs]
      /\ UNCHANGED <<folders, adoptions, userSteps, adoptDeaths, adopted, origin>>
  BY <1>0 DEF UnlinkFile, Now, adCounts
<1>2. Unadopting /\ adopter.saw = "generated" /\ adopter.left # {}
  BY <1>1 DEF AdoptInv, AdoptShape, Adopting, Unadopting, Off
<1>3. f \in adopter.left /\ f \in AdFiles /\ f \in adopter.record.files
  BY <1>0, <1>2, FirstFile DEF AdoptInv, Unadopting
<1>4. \A g \in AdFiles : tree'[g] = IF g = f THEN "absent" ELSE tree[g]
  BY <1>1, <1>3 DEF AdoptInv, AdoptShape, Directory
<1>5. Directory(tree', folders')
  BY <1>1, <1>3, FileRemoved DEF AdoptInv, AdoptShape
<1>6. adopter'.phase = "check" /\ adopter'.record = adopter.record /\ adopter'.left = adopter.left \ {f}
      /\ adopter'.dirs = adopter.dirs
  BY <1>1
<1>7. Unadopting'
  BY <1>1, <1>2, <1>4, <1>6, RecordSays DEF Unadopting
<1>8. AdoptShape'
  BY <1>1, <1>5, <1>7, OriginSame DEF AdoptInv, AdoptShape
<1>9. RollbackReaches'
  BY <1>1, <1>4 DEF AdoptInv, RollbackReaches
<1>10. Restorable'
  <2>1. adopted = 1 => f \in MissingIn(1)
    BY <1>2, <1>3, RecordSays
  <2>2. QED
    BY <1>1, <1>2, <1>4, <1>6, <2>1, OriginSame DEF AdoptInv, Restorable
<1>11. Respects
  BY <1>1, <1>2, <1>4 DEF Respects, Now
<1>12. QED
  BY <1>8, <1>9, <1>10, <1>11 DEF AdoptInv

LEMMA RemoveDirsStep ==
  ASSUME AdoptInv, RemoveDirs
  PROVE  AdoptInv' /\ Respects
<1>0. PICK d : d = First(adopter.dirs, Directories)
  OBVIOUS
<1>1. /\ adopter.phase = "check" /\ adopter.left = {} /\ adopter.dirs # {}
      /\ folders' = IF Holds(d) THEN folders ELSE folders \ {d}
      /\ adopter' = [adopter EXCEPT !.dirs = @ \ {d}]
      /\ UNCHANGED <<tree, adoptions, userSteps, adoptDeaths, adopted, origin>>
  BY <1>0 DEF RemoveDirs, Now, adCounts
<1>2. /\ Unadopting
      /\ adopter = [phase |-> "check", record |-> adopter.record, left |-> adopter.left, dirs |-> adopter.dirs]
  BY <1>1 DEF AdoptInv, AdoptShape, Adopting, Unadopting, Off
<1>3. d \in adopter.dirs /\ d \in Range(Directories) /\ d \in adopter.record.dirs
  BY <1>0, <1>1, <1>2, FirstDir DEF AdoptInv, Unadopting
<1>4. adopter' = [phase |-> "check", record |-> adopter.record, left |-> {}, dirs |-> adopter.dirs \ {d}]
  BY <1>1, <1>2
<1>5. adopter'.phase = "check" /\ adopter'.record = adopter.record /\ adopter'.left = {}
      /\ adopter'.dirs = adopter.dirs \ {d}
  BY <1>4
<1>6. Unadopting'
  BY <1>1, <1>2, <1>4, <1>5 DEF Unadopting
<1>7. Directory(tree, folders)'
  BY <1>1 DEF AdoptInv, AdoptShape, Directory, Carried, Holds
<1>8. AdoptShape'
  BY <1>1, <1>6, <1>7, OriginSame DEF AdoptInv, AdoptShape
<1>9. RollbackReaches'
  BY <1>1, <1>5 DEF AdoptInv, RollbackReaches
<1>10. Restorable'
  <2> SUFFICES ASSUME userSteps = 0, adopted = 1
               PROVE  /\ \A f \in AdFiles : IF f \in MissingIn(1) THEN tree[f] # "own" ELSE tree[f] = origin[1].tree[f]
                      /\ origin[1].folders \subseteq folders'
                      /\ \A e \in DirsIn(1) \ (adopter.dirs \ {d}) : e \notin folders'
    BY <1>1, <1>5, OriginSame DEF Restorable
  <2>1. /\ \A f \in AdFiles : IF f \in MissingIn(1) THEN tree[f] # "own" ELSE tree[f] = origin[1].tree[f]
        /\ origin[1].folders \subseteq folders /\ \A e \in DirsIn(1) \ adopter.dirs : e \notin folders
    BY <1>1 DEF AdoptInv, Restorable
  <2>2. d \in DirsIn(1) /\ \A f \in MissingIn(1) : tree[f] # "generated"
    BY <1>1, <1>2, <1>3, RecordSays DEF Unadopting
  <2>3. ~Holds(d)
    <3>1. SUFFICES ASSUME NEW f \in AdFiles, DirOf[f] = d, tree[f] # "absent" PROVE FALSE
      BY DEF Holds
    <3>2. Directory(tree, folders) /\ Directory(origin[1].tree, origin[1].folders)
      BY DEF AdoptInv, AdoptShape
    <3>3. f \notin MissingIn(1)
      BY <2>1, <2>2, <3>1, <3>2 DEF Directory
    <3>4. origin[1].tree[f] # "absent"
      BY <3>3 DEF MissingIn
    <3>5. d \in origin[1].folders
      BY <3>1, <3>2, <3>4, <1>3 DEF Directory, Carried
    <3>6. QED
      BY <2>2, <3>5 DEF DirsIn
  <2>4. folders' = folders \ {d} /\ d \notin origin[1].folders
    BY <1>1, <2>2, <2>3 DEF DirsIn
  <2>5. QED
    BY <2>1, <2>4
<1>11. Respects
  BY <1>1, <1>5 DEF Respects, Off
<1>12. QED
  BY <1>8, <1>9, <1>10, <1>11 DEF AdoptInv

LEMMA EndRollbackStep ==
  ASSUME AdoptInv, EndRollback
  PROVE  AdoptInv' /\ Respects
<1>1. /\ adopter.phase = "check" /\ adopter.left = {} /\ adopter.dirs = {}
      /\ adoptions' = adoptions \ {adopter.record} /\ adopter' = Off
      /\ UNCHANGED <<tree, folders, userSteps, adoptDeaths, adopted, origin>>
  BY DEF EndRollback, Now, adCounts
<1>2. Unadopting
  BY <1>1 DEF AdoptInv, AdoptShape, Adopting, Off
<1>3. AdoptShape'
  BY <1>1, OriginSame DEF AdoptInv, AdoptShape
<1>4. RollbackReaches'
  BY <1>1, <1>2 DEF AdoptInv, RollbackReaches, Unadopting
<1>5. Restorable'
  BY <1>1, OriginSame DEF AdoptInv, Restorable, Off
<1>6. ASSUME userSteps = 0, adopted = 1
      PROVE  tree = origin[1].tree /\ folders = origin[1].folders
  <2>1. /\ \A f \in AdFiles : IF f \in MissingIn(1) THEN tree[f] # "own" ELSE tree[f] = origin[1].tree[f]
        /\ origin[1].folders \subseteq folders /\ \A d \in DirsIn(1) : d \notin folders
    BY <1>1, <1>6 DEF AdoptInv, Restorable
  <2>2. \A f \in MissingIn(1) : tree[f] # "generated"
    BY <1>1, <1>2, <1>6, RecordSays DEF Unadopting
  <2>3. Directory(tree, folders) /\ Directory(origin[1].tree, origin[1].folders)
    BY <1>6 DEF AdoptInv, AdoptShape
  <2>4. \A f \in AdFiles : tree[f] = origin[1].tree[f]
    BY <2>1, <2>2, <2>3 DEF Directory, MissingIn
  <2>5. tree = origin[1].tree
    BY <2>3, <2>4 DEF Directory
  <2>6. folders = origin[1].folders
    BY <2>1, <2>3 DEF Directory, DirsIn
  <2>7. QED
    BY <2>5, <2>6
<1>7. Respects
  BY <1>1, <1>6 DEF Respects
<1>8. QED
  BY <1>3, <1>4, <1>5, <1>7 DEF AdoptInv

LEMMA UserStepStep ==
  ASSUME AdoptInv, UserStep
  PROVE  AdoptInv' /\ Respects
<1>1. PICK f \in AdFiles, to \in {"own", "absent"} :
        /\ tree' = [tree EXCEPT ![f] = to]
        /\ folders' = IF to = "own" THEN folders \cup Within(f) ELSE folders
  BY DEF UserStep
<1>2. /\ userSteps < MaxUserSteps /\ userSteps' = userSteps + 1
      /\ UNCHANGED <<adoptions, adopter, adoptDeaths, adopted, origin>>
  BY DEF UserStep
<1>3. Directory(tree', folders')
  BY <1>1, FileWritten, FileRemoved DEF AdoptInv, AdoptShape
<1>4. \A g \in AdFiles : tree'[g] = IF g = f THEN to ELSE tree[g]
  BY <1>1 DEF AdoptInv, AdoptShape, Directory
<1>5. Adopting => Adopting'
  BY <1>2, OriginSame DEF Adopting
<1>6. Unadopting => Unadopting'
  <2>1. SUFFICES ASSUME Unadopting PROVE Unadopting'
    OBVIOUS
  <2>2. adopter.record.files \subseteq AdFiles
    BY <2>1, RecordSays
  <2>3. QED
    BY <1>2, <1>4, <2>1, <2>2 DEF Unadopting
<1>7. AdoptShape'
  BY <1>2, <1>3, <1>5, <1>6, OriginSame, AdoptConstants DEF AdoptInv, AdoptShape
<1>8. RollbackReaches'
  BY <1>2, <1>4 DEF AdoptInv, RollbackReaches
<1>9. Restorable' /\ Respects
  BY <1>2 DEF AdoptInv, AdoptShape, Restorable, Respects
<1>10. QED
  BY <1>7, <1>8, <1>9 DEF AdoptInv

LEMMA AdopterDiesStep ==
  ASSUME AdoptInv, AdopterDies
  PROVE  AdoptInv' /\ Respects
<1>1. /\ adoptDeaths < MaxAdoptDeaths /\ adoptDeaths' = adoptDeaths + 1 /\ adopter' = Off
      /\ UNCHANGED <<tree, folders, adoptions, userSteps, adopted, origin>>
  BY DEF AdopterDies
<1>2. AdoptShape'
  BY <1>1, OriginSame, AdoptConstants DEF AdoptInv, AdoptShape
<1>3. RollbackReaches'
  BY <1>1 DEF AdoptInv, AdoptShape, RollbackReaches
<1>4. Restorable'
  BY <1>1, OriginSame DEF AdoptInv, Restorable, Off
<1>5. Respects
  BY <1>1 DEF Respects
<1>6. QED
  BY <1>2, <1>3, <1>4, <1>5 DEF AdoptInv

LEMMA AdoptInvStep ==
  ASSUME AdoptInv, [AdoptNext]_adVars
  PROVE  AdoptInv' /\ (Respects \/ UNCHANGED adVars)
<1>1. CASE UNCHANGED adVars
  <2>1. UNCHANGED <<tree, folders, adoptions, adopter, userSteps, adoptDeaths, adopted, origin>>
    BY <1>1 DEF adVars
  <2>2. AdoptShape'
    BY <2>1, OriginSame DEF AdoptInv, AdoptShape, Adopting, Unadopting
  <2>3. RollbackReaches' /\ Restorable'
    BY <2>1, OriginSame DEF AdoptInv, RollbackReaches, Restorable
  <2>4. QED
    BY <1>1, <2>2, <2>3 DEF AdoptInv
<1>2. CASE AdoptNext
  BY <1>2, BeginApplyStep, BeginRollbackStep, MakeDirsStep, WriteScaffoldStep, WriteRecordStep, CheckFileStep,
     UnlinkFileStep, RemoveDirsStep, EndRollbackStep, UserStepStep, AdopterDiesStep DEF AdoptNext, AdoptProgress
<1>3. QED
  BY <1>1, <1>2

(* Whatever its owner does in the directory meanwhile and wherever the     *)
(* process dies: adoption overwrites nothing and rollback removes nothing  *)
(* that somebody else wrote, but for what appears between the look and the *)
(* write; rollback reaches every generated file unless an apply died; and  *)
(* what only the one adoption touched is put back exactly as it was.       *)
THEOREM AdoptionIsKept == AdoptSpec => AdoptionKept
<1>1. AdoptInv /\ [AdoptNext]_adVars => AdoptInv'
  BY AdoptInvStep
<1>2. AdoptInv => RollbackReaches
  BY DEF AdoptInv
<1>3. AdoptInv /\ [AdoptNext]_adVars =>
        [\A f \in AdFiles :
           tree[f] = "own" /\ tree'[f] # "own" /\ adopter # adopter' =>
             \/ Now("files")  /\ origin[adopter.number].tree[f] = "absent"
             \/ Now("unlink") /\ adopter.saw = "generated"]_adVars
  BY AdoptInvStep DEF Respects
<1>4. AdoptInv /\ [AdoptNext]_adVars =>
        [Now("check") /\ adopter' = Off /\ adoptions' # adoptions /\ userSteps = 0 /\ adopted = 1 =>
           tree' = origin[1].tree /\ folders' = origin[1].folders]_adVars
  BY AdoptInvStep DEF Respects
<1>5. QED
  BY <1>1, <1>2, <1>3, <1>4, AdoptInvInit, PTL DEF AdoptSpec, AdoptionKept, OwnFilesKept, RollbackRestores

-----------------------------------------------------------------------------
(* The gap journal                                                         *)

(* A snapshot by itself: a rejection is kept exactly until it is undone.   *)
Snapshot(s) ==
  /\ s = [gap |-> s.gap, status |-> s.status, event |-> s.event, attempts |-> s.attempts,
          rejected |-> s.rejected, serial |-> s.serial, base |-> s.base]
  /\ s.gap \in Gaps /\ s.status \in Statuses /\ s.rejected \in BOOLEAN
  /\ s.base \in Nat /\ s.serial \in Nat /\ s.base < s.serial
  /\ s.status = "rejected" => s.rejected
  /\ s.rejected => s.status \in {"rejected", "superseded"}

(* Any set of snapshots: a number names one, and each follows the one it   *)
(* was computed from.                                                      *)
Lineage(S, n) ==
  /\ \A s \in S : Snapshot(s) /\ s.serial <= n
  /\ \A s, t \in S : s.serial = t.serial => s = t
  /\ \A s, t \in S : s.gap = t.gap /\ s.serial = t.base => Follows(s, t)

(* All the snapshots that are in the journal, or may get there again.      *)
Held(w) ==
  IF Doing(w, "reread") THEN {gardener[w].snapshot}
  ELSE IF Doing(w, "append") THEN {gardener[w].snapshot} \cup Range(gardener[w].old) ELSE {}
Snapshots == Range(journal) \cup UNION {Held(w) : w \in Gardeners}

Gardening(w) ==
  \/ gardener[w] = Rest
  \/ gardener[w] = [phase |-> "reread", snapshot |-> gardener[w].snapshot]
  \/ /\ gardener[w] = [phase |-> "append", snapshot |-> gardener[w].snapshot, old |-> gardener[w].old]
     /\ Lined(gardener[w].old)
  \/ /\ gardener[w] = [phase |-> "audit", snapshot |-> gardener[w].snapshot, old |-> gardener[w].old]
     /\ gardener[w].snapshot.serial \in 1 .. serials
  \/ /\ "phase" \in DOMAIN gardener[w] /\ gardener[w].phase \in {"log", "write"}
  \/ /\ gardener[w] = [phase |-> "propose", correlation |-> gardener[w].correlation,
                       sources |-> gardener[w].sources]
     /\ gardener[w].correlation \in Correlations /\ gardener[w].sources \in Sources
  \/ /\ "phase" \in DOMAIN gardener[w] /\ gardener[w].phase = "auditProposal"
     /\ gardener[w].correlation \in Correlations

GapInv ==
  /\ gardener = [w \in Gardeners |-> gardener[w]] /\ \A w \in Gardeners : Gardening(w)
  /\ proposal \in [Correlations -> Sources \cup {NoSources}]
  /\ gapAudit \subseteq (1 .. serials) \cup Correlations
  /\ serials \in 0 .. MaxSnapshots /\ gardenDeaths \in 0 .. MaxGardenDeaths
  /\ Lined(journal)
  /\ Lineage(Snapshots, serials)

LEMMA InLine ==
  ASSUME NEW s, Lined(s), NEW e
  PROVE  /\ Range(Append(s, e)) = Range(s) \cup {e}
         /\ \A i \in DOMAIN s : s[i] \in Range(s)
         /\ IsPrefix(s, s) /\ IsPrefix(s, Append(s, e))
<1> DEFINE S == {s[i] : i \in 1 .. Len(s)} \cup {e}
<1>1. s \in Seq(S) /\ Append(s, e) \in Seq(S) /\ Len(s) \in Nat
  <2>1. s \in Seq(S) /\ e \in S /\ Len(s) \in Nat
    BY DEF Lined
  <2> HIDE DEF S
  <2>2. QED
    BY <2>1
<1>2. Range(Append(s, e)) = Range(s) \cup {e}
  <2>1. ASSUME NEW x \in Range(Append(s, e)) PROVE x \in Range(s) \cup {e}
    BY OneMore DEF Range, Lined
  <2>2. ASSUME NEW x \in Range(s) \cup {e} PROVE x \in Range(Append(s, e))
    BY OneMore DEF Range, Lined
  <2>3. QED
    BY <2>1, <2>2
<1>3. \A i \in DOMAIN s : s[i] \in Range(s)
  BY DEF Range
<1>4. IsPrefix(s, s)
  BY <1>1 DEF IsPrefix
<1>5. IsPrefix(s, Append(s, e))
  <2>1. SubSeq(s, 1, Len(s)) = SubSeq(Append(s, e), 1, Len(s))
    BY <1>1, OneMore
  <2>2. Len(s) <= Len(Append(s, e))
    BY <1>1, OneMore
  <2> HIDE DEF S
  <2>3. QED
    BY <2>1, <2>2 DEF IsPrefix
<1>6. QED
  BY <1>2, <1>3, <1>4, <1>5

LEMMA LineageOf ==
  ASSUME NEW S, NEW n, Lineage(S, n), NEW T, T \subseteq S
  PROVE  Lineage(T, n)
BY DEF Lineage

(* A new snapshot is computed from one that is there, or from nothing.     *)
LEMMA LineageGrows ==
  ASSUME NEW S, NEW n \in Nat, Lineage(S, n), NEW t, Snapshot(t), t.serial = n + 1,
         t.base # 0 => \E s \in S : s.serial = t.base /\ Follows(s, t)
  PROVE  Lineage(S \cup {t}, n + 1)
<1>1. \A s \in S : Snapshot(s) /\ s.serial <= n /\ s.serial # t.serial /\ s.base # t.serial /\ s.serial # 0
  BY DEF Lineage, Snapshot
<1>2. \A s \in S \cup {t} : Snapshot(s) /\ s.serial <= n + 1
  BY <1>1 DEF Snapshot
<1>3. \A x, y \in S \cup {t} : x.serial = y.serial => x = y
  BY <1>1 DEF Lineage
<1>4. ASSUME NEW x \in S \cup {t}, NEW y \in S \cup {t}, x.gap = y.gap, x.serial = y.base
      PROVE  Follows(x, y)
  <2>1. x # t
    BY <1>1, <1>4 DEF Snapshot
  <2>2. CASE y = t
    <3>1. t.base # 0
      BY <1>1, <1>4, <2>1, <2>2
    <3>2. PICK s \in S : s.serial = t.base /\ Follows(s, t)
      BY <3>1
    <3>3. s = x
      BY <1>4, <2>1, <2>2, <3>2 DEF Lineage
    <3>4. QED
      BY <2>2, <3>2, <3>3
  <2>3. CASE y # t
    BY <1>4, <2>1, <2>3 DEF Lineage
  <2>4. QED
    BY <2>2, <2>3
<1>5. QED
  BY <1>2, <1>3, <1>4 DEF Lineage

LEMMA LatestIsThere ==
  ASSUME GapInv, NEW g, Known(g)
  PROVE  Latest(g) \in Range(journal) /\ Latest(g) \in Snapshots /\ Snapshot(Latest(g)) /\ Latest(g).gap = g
<1>1. DOMAIN journal = 1 .. Len(journal) /\ Len(journal) \in Nat
  BY DEF GapInv, Lined
<1>2. Of(g) \in SUBSET (1 .. Len(journal)) /\ Of(g) # {}
  BY <1>1 DEF Of, Known
<1>3. Max(Of(g)) \in Of(g)
  BY <1>1, <1>2, MaxIsIn
<1>4. Latest(g) \in Range(journal) /\ Latest(g).gap = g
  BY <1>3 DEF Of, Latest, Range
<1>5. QED
  BY <1>4 DEF GapInv, Snapshots, Lineage
(* One gardener moves; the others hold what they held.                     *)
LEMMA GardenerMoves ==
  ASSUME GapInv, NEW w \in Gardeners, NEW v, gardener' = [gardener EXCEPT ![w] = v],
         serials' \in Nat, serials <= serials'
  PROVE  /\ gardener' = [k \in Gardeners |-> gardener'[k]] /\ gardener'[w] = v
         /\ \A k \in Gardeners \ {w} : gardener'[k] = gardener[k] /\ Gardening(k)'
         /\ Snapshots' \subseteq Snapshots \cup Range(journal') \cup Held(w)'
<1>1. gardener' = [k \in Gardeners |-> gardener'[k]] /\ gardener'[w] = v
      /\ \A k \in Gardeners \ {w} : gardener'[k] = gardener[k]
  BY DEF GapInv
<1>2. ASSUME NEW k \in Gardeners \ {w} PROVE Gardening(k)'
  <2>1. gardener'[k] = gardener[k] /\ Gardening(k) /\ serials \in Nat
    BY <1>1 DEF GapInv
  <2>2. QED
    BY <2>1 DEF Gardening
<1>3. \A k \in Gardeners \ {w} : Held(k)' = Held(k)
  BY <1>1 DEF Held, Doing
<1>4. Snapshots' \subseteq Snapshots \cup Range(journal') \cup Held(w)'
  BY <1>3 DEF Snapshots
<1>5. QED
  BY <1>1, <1>2, <1>4

(* What a step does to the rest of the invariant when it computes nothing. *)
LEMMA GardenRests ==
  ASSUME GapInv, NEW w \in Gardeners, NEW v, gardener' = [gardener EXCEPT ![w] = v], Gardening(w)',
         serials' = serials, Lined(journal'), Range(journal') \subseteq Snapshots, Held(w)' \subseteq Snapshots,
         proposal' \in [Correlations -> Sources \cup {NoSources}],
         gapAudit' \subseteq (1 .. serials) \cup Correlations, gardenDeaths' \in 0 .. MaxGardenDeaths
  PROVE  GapInv'
<1>1. serials' \in Nat /\ serials <= serials'
  BY DEF GapInv
<1>a. /\ gardener' = [k \in Gardeners |-> gardener'[k]] /\ gardener'[w] = v
      /\ \A k \in Gardeners \ {w} : gardener'[k] = gardener[k] /\ Gardening(k)'
      /\ Snapshots' \subseteq Snapshots \cup Range(journal') \cup Held(w)'
  BY <1>1, GardenerMoves
<1>2. /\ gardener' = [k \in Gardeners |-> gardener'[k]]
      /\ \A k \in Gardeners : Gardening(k)'
      /\ Snapshots' \subseteq Snapshots
  BY <1>a
<1>3. Lineage(Snapshots', serials')
  BY <1>2, LineageOf DEF GapInv
<1>4. QED
  BY <1>2, <1>3 DEF GapInv

LEMMA StartStep ==
  ASSUME GapInv, NEW w \in Gardeners, NEW s, Start(w, s), NEW t, t = [s EXCEPT !.serial = serials + 1],
         Snapshot(t), t.serial = serials + 1, t.base # 0 => \E x \in Snapshots : x.serial = t.base /\ Follows(x, t)
  PROVE  GapInv'
<1>1. /\ gardener' = [gardener EXCEPT ![w] = [phase |-> "reread", snapshot |-> t]]
      /\ serials' = serials + 1 /\ serials < MaxSnapshots
      /\ UNCHANGED <<journal, proposal, gapAudit, wikiLog, excused, gardenDeaths>>
  BY DEF Start, gapHistory
<1>2. serials \in Nat /\ serials' \in 0 .. MaxSnapshots /\ serials' \in Nat /\ serials <= serials'
  BY <1>1, GapConstants DEF GapInv
<1>3. /\ gardener' = [k \in Gardeners |-> gardener'[k]]
      /\ gardener'[w] = [phase |-> "reread", snapshot |-> t]
      /\ \A k \in Gardeners \ {w} : Gardening(k)'
      /\ Snapshots' \subseteq Snapshots \cup Range(journal') \cup Held(w)'
  BY <1>1, <1>2, GardenerMoves
<1>4. Gardening(w)' /\ Held(w)' = {t}
  <2>1. gardener'[w].phase = "reread" /\ gardener'[w].snapshot = t
    BY <1>3
  <2>2. QED
    BY <1>3, <2>1 DEF Gardening, Held, Doing
<1>5. Snapshots' \subseteq Snapshots \cup {t}
  BY <1>1, <1>3, <1>4 DEF Snapshots
<1>6. Lineage(Snapshots \cup {t}, serials + 1)
  BY <1>2, LineageGrows DEF GapInv
<1>7. Lineage(Snapshots', serials')
  BY <1>1, <1>5, <1>6, LineageOf
<1>8. \A k \in Gardeners : Gardening(k)'
  BY <1>3, <1>4
<1>9. QED
  BY <1>1, <1>2, <1>3, <1>7, <1>8 DEF GapInv

LEMMA CreateStep ==
  ASSUME GapInv, NEW w \in Gardeners, NEW g \in Gaps, Create(w, g)
  PROVE  GapInv'
<1> DEFINE s == [gap |-> g, status |-> "open", event |-> "created", attempts |-> 0,
                 rejected |-> FALSE, serial |-> 0, base |-> 0]
<1>1. Start(w, s) /\ serials \in Nat
  BY DEF Create, GapInv
<1>2. PICK t : t = [s EXCEPT !.serial = serials + 1]
  OBVIOUS
<1>3. t = [gap |-> g, status |-> "open", event |-> "created", attempts |-> 0,
           rejected |-> FALSE, serial |-> serials + 1, base |-> 0]
  BY <1>2
<1>4. Snapshot(t) /\ t.serial = serials + 1 /\ t.base = 0
  BY <1>1, <1>3 DEF Snapshot, Statuses
<1> HIDE DEF s
<1>5. QED
  BY <1>1, <1>2, <1>4, StartStep

LEMMA TransitionStep ==
  ASSUME GapInv, NEW w \in Gardeners, NEW g \in Gaps, NEW to \in Asked, Transition(w, g, to)
  PROVE  GapInv'
<1> DEFINE l == Latest(g)
           s == [l EXCEPT !.status = to, !.event = "transition", !.base = l.serial,
                          !.rejected = to = "rejected" \/ (@ /\ to # "open")]
<1>1. Start(w, s) /\ serials \in Nat /\ Known(g) /\ Allowed(l.status, to)
  BY DEF Transition, GapInv
<1>2. PICK t : t = [s EXCEPT !.serial = serials + 1]
  OBVIOUS
<1>3. l \in Snapshots /\ Snapshot(l) /\ l.serial <= serials
  BY <1>1, LatestIsThere DEF GapInv, Lineage
<1>4. t = [gap |-> l.gap, status |-> to, event |-> "transition", attempts |-> l.attempts,
           rejected |-> (to = "rejected" \/ (l.rejected /\ to # "open")), serial |-> serials + 1, base |-> l.serial]
  BY <1>2, <1>3 DEF Snapshot
<1>5. to \in Statuses /\ (l.status \in {"rejected", "superseded"} => to \in {"open", "superseded"})
  BY <1>1, <1>3 DEF Allowed, Snapshot, Statuses
<1>6. /\ t.gap = l.gap /\ t.status = to /\ t.event = "transition" /\ t.attempts = l.attempts
      /\ t.serial = serials + 1 /\ t.base = l.serial
      /\ t.rejected = (to = "rejected" \/ (l.rejected /\ to # "open"))
  BY <1>4
<1>7. /\ t = [gap |-> t.gap, status |-> t.status, event |-> t.event, attempts |-> t.attempts,
              rejected |-> t.rejected, serial |-> t.serial, base |-> t.base]
  BY <1>4
<1> HIDE DEF s, l
<1>8. /\ t.rejected \in BOOLEAN /\ (t.status = "rejected" => t.rejected)
      /\ (t.rejected => t.status \in {"rejected", "superseded"})
  BY <1>3, <1>5, <1>6 DEF Snapshot
<1>9. Snapshot(t) /\ Follows(l, t)
  BY <1>1, <1>3, <1>5, <1>6, <1>7, <1>8 DEF Snapshot, Follows
<1>10. QED
  BY <1>1, <1>2, <1>3, <1>6, <1>9, StartStep

LEMMA AttemptStep ==
  ASSUME GapInv, NEW w \in Gardeners, NEW g \in Gaps, Attempt(w, g)
  PROVE  GapInv'
<1> DEFINE l == Latest(g)
           s == [l EXCEPT !.attempts = @ + 1, !.event = "attempt", !.base = l.serial]
<1>1. Start(w, s) /\ serials \in Nat /\ Known(g)
  BY DEF Attempt, GapInv
<1>2. PICK t : t = [s EXCEPT !.serial = serials + 1]
  OBVIOUS
<1>3. l \in Snapshots /\ Snapshot(l) /\ l.serial <= serials
  BY <1>1, LatestIsThere DEF GapInv, Lineage
<1>4. t = [gap |-> l.gap, status |-> l.status, event |-> "attempt", attempts |-> l.attempts + 1,
           rejected |-> l.rejected, serial |-> serials + 1, base |-> l.serial]
  BY <1>2, <1>3 DEF Snapshot
<1>5. /\ t.gap = l.gap /\ t.status = l.status /\ t.event = "attempt" /\ t.attempts = l.attempts + 1
      /\ t.serial = serials + 1 /\ t.base = l.serial /\ t.rejected = l.rejected
  BY <1>4
<1>6. t = [gap |-> t.gap, status |-> t.status, event |-> t.event, attempts |-> t.attempts,
           rejected |-> t.rejected, serial |-> t.serial, base |-> t.base]
  BY <1>4
<1> HIDE DEF s, l
<1>7. Snapshot(t) /\ Follows(l, t)
  BY <1>1, <1>3, <1>5, <1>6 DEF Snapshot, Follows
<1>8. QED
  BY <1>1, <1>2, <1>3, <1>5, <1>7, StartStep

LEMMA JournalHeld == Range(journal) \subseteq Snapshots /\ \A w \in Gardeners : Held(w) \subseteq Snapshots
BY DEF Snapshots

LEMMA RereadStep ==
  ASSUME GapInv, NEW w \in Gardeners, Reread(w)
  PROVE  GapInv'
<1> DEFINE s == gardener[w].snapshot
           v == [phase |-> "append", snapshot |-> s, old |-> journal]
<1>1. /\ gardener[w].phase = "reread" /\ gardener' = [gardener EXCEPT ![w] = v]
      /\ UNCHANGED <<journal, proposal, gapAudit, wikiLog, serials, excused, gardenDeaths>>
  BY DEF Reread, Doing, gapHistory
<1>2. gardener'[w] = v /\ v.phase = "append" /\ v.snapshot = s /\ v.old = journal
  BY <1>1 DEF GapInv
<1>3. Gardening(w)'
  BY <1>1, <1>2 DEF Gardening, GapInv
<1>4. Held(w)' = {s} \cup Range(journal) /\ Held(w) = {s}
  BY <1>1, <1>2 DEF Held, Doing
<1>5. Lined(journal') /\ Range(journal') \subseteq Snapshots /\ Held(w)' \subseteq Snapshots
  BY <1>1, <1>4, JournalHeld DEF GapInv
<1>6. gapAudit' \subseteq (1 .. serials) \cup Correlations /\ gardenDeaths' \in 0 .. MaxGardenDeaths
      /\ proposal' \in [Correlations -> Sources \cup {NoSources}] /\ serials' = serials
  BY <1>1 DEF GapInv
<1> HIDE DEF v, s
<1>7. QED
  BY <1>1, <1>3, <1>5, <1>6, GardenRests

(* Turning to the next phase changes that field and nothing else.          *)
LEMMA SnapshotTurned ==
  ASSUME NEW s, NEW old, NEW from, NEW to
  PROVE  [[phase |-> from, snapshot |-> s, old |-> old] EXCEPT !.phase = to]
           = [phase |-> to, snapshot |-> s, old |-> old]
  OBVIOUS

LEMMA ResultTurned ==
  ASSUME NEW c, NEW s, NEW from, NEW to
  PROVE  [[phase |-> from, correlation |-> c, sources |-> s] EXCEPT !.phase = to]
           = [phase |-> to, correlation |-> c, sources |-> s]
  OBVIOUS

LEMMA AppendSnapshotStep ==
  ASSUME GapInv, NEW w \in Gardeners, AppendSnapshot(w)
  PROVE  GapInv' /\ (gardener[w].old = journal => IsPrefix(journal, journal'))
<1> DEFINE s == gardener[w].snapshot
           old == gardener[w].old
           v == [phase |-> "audit", snapshot |-> s, old |-> old]
<1>1. /\ gardener[w].phase = "append" /\ gardener' = [gardener EXCEPT ![w].phase = "audit"]
      /\ journal' = Append(old, s)
      /\ UNCHANGED <<proposal, gapAudit, wikiLog, serials, excused, gardenDeaths>>
  BY DEF AppendSnapshot, Doing, Turn, gapHistory
<1>2. gardener[w] = [phase |-> "append", snapshot |-> s, old |-> old] /\ Lined(old)
  BY <1>1 DEF GapInv, Gardening, Rest
<1>3. /\ gardener' = [gardener EXCEPT ![w] = v] /\ gardener'[w] = v
      /\ v.phase = "audit" /\ v.snapshot = s /\ v.old = old
  <2>1. [gardener[w] EXCEPT !.phase = "audit"] = v
    <3> HIDE DEF s, old
    <3>1. QED
      BY <1>2, SnapshotTurned
  <2>2. gardener' = [gardener EXCEPT ![w] = v]
    BY <1>1, <2>1, Zenon
  <2>3. QED
    BY <2>2 DEF GapInv
<1>4. Held(w) = {s} \cup Range(old) /\ Held(w)' = {}
  BY <1>1, <1>3 DEF Held, Doing
<1>5. Lined(journal') /\ Range(journal') = Held(w)
  BY <1>1, <1>2, <1>4, OneMore, InLine
<1>6. Snapshot(s) /\ s.serial <= serials /\ serials \in Nat
  BY <1>4, JournalHeld DEF GapInv, Lineage
<1>7. s.serial \in 1 .. serials'
  BY <1>1, <1>6 DEF Snapshot
<1>8. Gardening(w)'
  BY <1>3, <1>7 DEF Gardening
<1>9. gapAudit' \subseteq (1 .. serials) \cup Correlations /\ gardenDeaths' \in 0 .. MaxGardenDeaths
      /\ proposal' \in [Correlations -> Sources \cup {NoSources}] /\ serials' = serials
  BY <1>1 DEF GapInv
<1>10. Range(journal') \subseteq Snapshots /\ Held(w)' \subseteq Snapshots
  BY <1>4, <1>5, JournalHeld
<1>11. old = journal => IsPrefix(journal, journal')
  BY <1>1, <1>2, InLine
<1> HIDE DEF v, s, old
<1>12. GapInv'
  BY <1>3, <1>5, <1>8, <1>9, <1>10, GardenRests
<1>13. QED
  BY <1>11, <1>12 DEF old

(* A step that touches neither the journal nor what may get there.         *)
LEMMA GardenGoesOn ==
  ASSUME GapInv, NEW w \in Gardeners, NEW v, gardener' = [gardener EXCEPT ![w] = v],
         "phase" \in DOMAIN v, v.phase \notin {"reread", "append"}, Gardening(w)',
         serials' = serials, UNCHANGED journal,
         proposal' \in [Correlations -> Sources \cup {NoSources}],
         gapAudit' \subseteq (1 .. serials) \cup Correlations, gardenDeaths' \in 0 .. MaxGardenDeaths
  PROVE  GapInv'
<1>1. gardener'[w] = v
  BY DEF GapInv
<1>2. Held(w)' = {}
  BY <1>1 DEF Held, Doing
<1>3. Lined(journal') /\ Range(journal') \subseteq Snapshots /\ Held(w)' \subseteq Snapshots
  BY <1>2, JournalHeld DEF GapInv
<1>4. QED
  BY <1>3, GardenRests

LEMMA GardenRestsAgain ==
  ASSUME GapInv, NEW w \in Gardeners, gardener' = [gardener EXCEPT ![w] = Rest],
         serials' = serials, UNCHANGED <<journal, proposal, gapAudit>>, gardenDeaths' \in 0 .. MaxGardenDeaths
  PROVE  GapInv'
<1>1. "phase" \in DOMAIN Rest /\ Rest.phase \notin {"reread", "append"}
  BY DEF Rest
<1>2. Gardening(w)'
  BY DEF Gardening, GapInv
<1>3. gapAudit' \subseteq (1 .. serials) \cup Correlations /\ proposal' \in [Correlations -> Sources \cup {NoSources}]
  BY DEF GapInv
<1>4. QED
  BY <1>1, <1>2, <1>3, GardenGoesOn

LEMMA AuditSnapshotStep ==
  ASSUME GapInv, NEW w \in Gardeners, AuditSnapshot(w)
  PROVE  GapInv'
<1>1. /\ gardener[w].phase = "audit" /\ gardener' = [gardener EXCEPT ![w].phase = "log"]
      /\ gapAudit' = gapAudit \cup {gardener[w].snapshot.serial}
      /\ UNCHANGED <<journal, proposal, wikiLog, serials, excused, gardenDeaths>>
  BY DEF AuditSnapshot, Doing, Turn, gapHistory
<1>2. /\ gardener[w] = [phase |-> "audit", snapshot |-> gardener[w].snapshot, old |-> gardener[w].old]
      /\ gardener[w].snapshot.serial \in 1 .. serials
  BY <1>1 DEF GapInv, Gardening, Rest
<1>3. PICK v : v = [phase |-> "log", snapshot |-> gardener[w].snapshot, old |-> gardener[w].old]
  OBVIOUS
<1>4. gardener' = [gardener EXCEPT ![w] = v] /\ gardener'[w] = v
  <2>1. PICK s, old : s = gardener[w].snapshot /\ old = gardener[w].old
    OBVIOUS
  <2>2. [gardener[w] EXCEPT !.phase = "log"] = v
    BY <1>2, <1>3, <2>1, SnapshotTurned
  <2>3. gardener' = [gardener EXCEPT ![w] = v]
    BY <1>1, <2>2, Zenon
  <2>4. QED
    BY <2>3 DEF GapInv
<1>5. "phase" \in DOMAIN v /\ v.phase = "log"
  BY <1>3
<1>6. Gardening(w)'
  BY <1>4, <1>5 DEF Gardening
<1>7. /\ gapAudit' \subseteq (1 .. serials) \cup Correlations /\ serials' = serials
      /\ proposal' \in [Correlations -> Sources \cup {NoSources}] /\ gardenDeaths' \in 0 .. MaxGardenDeaths
  BY <1>1, <1>2 DEF GapInv
<1>8. QED
  BY <1>1, <1>4, <1>5, <1>6, <1>7, GardenGoesOn

LEMMA ReadLogStep ==
  ASSUME GapInv, NEW w \in Gardeners, ReadLog(w)
  PROVE  GapInv'
<1>1. UNCHANGED <<journal, proposal, gapAudit, wikiLog, serials, excused, gardenDeaths>>
  BY DEF ReadLog, gapHistory
<1>2. CASE IdOf(w) \in wikiLog
  BY <1>1, <1>2, GardenRestsAgain DEF ReadLog, Resting, GapInv
<1>3. CASE IdOf(w) \notin wikiLog
  <2>1. PICK v : v = [phase |-> "write", id |-> IdOf(w), old |-> wikiLog]
    OBVIOUS
  <2>2. gardener' = [gardener EXCEPT ![w] = v] /\ gardener'[w] = v
    BY <1>3, <2>1 DEF ReadLog, GapInv
  <2>3. "phase" \in DOMAIN v /\ v.phase = "write"
    BY <2>1
  <2>4. Gardening(w)'
    BY <2>2, <2>3 DEF Gardening
  <2>5. /\ gapAudit' \subseteq (1 .. serials) \cup Correlations /\ serials' = serials
        /\ proposal' \in [Correlations -> Sources \cup {NoSources}] /\ gardenDeaths' \in 0 .. MaxGardenDeaths
    BY <1>1 DEF GapInv
  <2>6. QED
    BY <1>1, <2>2, <2>3, <2>4, <2>5, GardenGoesOn
<1>4. QED
  BY <1>2, <1>3

LEMMA IngestStep ==
  ASSUME GapInv, NEW w \in Gardeners, NEW c \in Correlations, NEW s \in Sources, Ingest(w, c, s)
  PROVE  GapInv'
<1> DEFINE v == [phase |-> "propose", correlation |-> c, sources |-> s]
<1>1. /\ gardener' = [gardener EXCEPT ![w] = v] /\ serials' = serials + 1 /\ serials < MaxSnapshots
      /\ UNCHANGED <<journal, proposal, gapAudit, wikiLog, excused, gardenDeaths>>
  BY DEF Ingest, gapHistory
<1>2. serials \in Nat /\ serials' \in 0 .. MaxSnapshots /\ serials' \in Nat /\ serials <= serials'
  BY <1>1, GapConstants DEF GapInv
<1>3. /\ gardener' = [k \in Gardeners |-> gardener'[k]] /\ gardener'[w] = v
      /\ \A k \in Gardeners \ {w} : gardener'[k] = gardener[k] /\ Gardening(k)'
      /\ Snapshots' \subseteq Snapshots \cup Range(journal') \cup Held(w)'
  BY <1>1, <1>2, GardenerMoves
<1>4. Gardening(w)' /\ Held(w)' = {}
  <2>1. gardener'[w].phase = "propose" /\ gardener'[w].correlation = c /\ gardener'[w].sources = s
    BY <1>3
  <2>2. QED
    BY <1>3, <2>1 DEF Gardening, Held, Doing
<1>5. Snapshots' \subseteq Snapshots
  BY <1>1, <1>3, <1>4, JournalHeld
<1>6. Lineage(Snapshots, serials')
  BY <1>1, <1>2 DEF GapInv, Lineage, Snapshot
<1>7. Lineage(Snapshots', serials')
  BY <1>5, <1>6, LineageOf
<1>8. \A k \in Gardeners : Gardening(k)'
  BY <1>3, <1>4
<1>9. QED
  BY <1>1, <1>2, <1>3, <1>7, <1>8 DEF GapInv

LEMMA WriteResultStep ==
  ASSUME GapInv, NEW w \in Gardeners, WriteResult(w)
  PROVE  GapInv'
<1>1. /\ gardener[w].phase = "propose" /\ gardener' = [gardener EXCEPT ![w].phase = "auditProposal"]
      /\ proposal' = [proposal EXCEPT ![gardener[w].correlation] = gardener[w].sources]
      /\ UNCHANGED <<journal, gapAudit, wikiLog, serials, excused, gardenDeaths>>
  BY DEF WriteResult, Doing, Turn, gapHistory
<1>2. /\ gardener[w] = [phase |-> "propose", correlation |-> gardener[w].correlation, sources |-> gardener[w].sources]
      /\ gardener[w].correlation \in Correlations /\ gardener[w].sources \in Sources
  BY <1>1 DEF GapInv, Gardening, Rest
<1>3. PICK v : v = [phase |-> "auditProposal", correlation |-> gardener[w].correlation, sources |-> gardener[w].sources]
  OBVIOUS
<1>4. gardener' = [gardener EXCEPT ![w] = v] /\ gardener'[w] = v
  <2>1. PICK c, s : c = gardener[w].correlation /\ s = gardener[w].sources
    OBVIOUS
  <2>2. [gardener[w] EXCEPT !.phase = "auditProposal"] = v
    BY <1>2, <1>3, <2>1, ResultTurned
  <2>3. gardener' = [gardener EXCEPT ![w] = v]
    BY <1>1, <2>2, Zenon
  <2>4. QED
    BY <2>3 DEF GapInv
<1>5. "phase" \in DOMAIN v /\ v.phase = "auditProposal" /\ v.correlation = gardener[w].correlation
  BY <1>3
<1>6. Gardening(w)'
  BY <1>2, <1>4, <1>5 DEF Gardening
<1>7. /\ gapAudit' \subseteq (1 .. serials) \cup Correlations /\ serials' = serials
      /\ proposal' \in [Correlations -> Sources \cup {NoSources}] /\ gardenDeaths' \in 0 .. MaxGardenDeaths
  BY <1>1, <1>2 DEF GapInv
<1>8. QED
  BY <1>1, <1>4, <1>5, <1>6, <1>7, GardenGoesOn

LEMMA AuditProposalStep ==
  ASSUME GapInv, NEW w \in Gardeners, AuditProposal(w)
  PROVE  GapInv'
<1>1. /\ gardener[w].phase = "auditProposal" /\ gardener' = [gardener EXCEPT ![w].phase = "log"]
      /\ gapAudit' = gapAudit \cup {gardener[w].correlation}
      /\ UNCHANGED <<journal, proposal, wikiLog, serials, excused, gardenDeaths>>
  BY DEF AuditProposal, Doing, Turn, gapHistory
<1>2. "phase" \in DOMAIN gardener[w] /\ gardener[w].correlation \in Correlations
  BY <1>1 DEF GapInv, Gardening, Rest
<1>3. PICK v : v = [gardener[w] EXCEPT !.phase = "log"]
  OBVIOUS
<1>4. gardener' = [gardener EXCEPT ![w] = v] /\ gardener'[w] = v
  BY <1>1, <1>3 DEF GapInv
<1>5. "phase" \in DOMAIN v /\ v.phase = "log"
  BY <1>2, <1>3
<1>6. Gardening(w)'
  BY <1>4, <1>5 DEF Gardening
<1>7. /\ gapAudit' \subseteq (1 .. serials) \cup Correlations /\ serials' = serials
      /\ proposal' \in [Correlations -> Sources \cup {NoSources}] /\ gardenDeaths' \in 0 .. MaxGardenDeaths
  BY <1>1, <1>2 DEF GapInv
<1>8. QED
  BY <1>1, <1>4, <1>5, <1>6, <1>7, GardenGoesOn

LEMMA GapInvInit == GapInit => GapInv
<1> SUFFICES ASSUME GapInit PROVE GapInv
  OBVIOUS
<1>1. journal = <<>> /\ gardener = [w \in Gardeners |-> Rest]
  BY DEF GapInit
<1>2. Snapshots = {}
  BY <1>1, NoneYet DEF Snapshots, Held, Doing, Rest, Range
<1>3. \A w \in Gardeners : Gardening(w)
  BY <1>1 DEF Gardening
<1>4. Lineage(Snapshots, serials)
  BY <1>2 DEF Lineage
<1>5. QED
  BY <1>1, <1>3, <1>4, NoneYet, GapConstants DEF GapInit, GapInv

LEMMA GapInvStep == GapInv /\ [GapNext]_gapVars => GapInv'
<1> SUFFICES ASSUME GapInv, [GapNext]_gapVars PROVE GapInv'
  OBVIOUS
<1>1. CASE UNCHANGED gapVars
  <2>1. UNCHANGED <<journal, proposal, gapAudit, gardener, serials, gardenDeaths>>
    BY <1>1 DEF gapVars, gapHistory
  <2>2. Snapshots' = Snapshots
    BY <2>1 DEF Snapshots, Held, Doing
  <2>3. \A w \in Gardeners : Gardening(w)'
    BY <2>1 DEF GapInv, Gardening
  <2>4. QED
    BY <2>1, <2>2, <2>3 DEF GapInv
<1>2. ASSUME NEW w \in Gardeners, WriteLog(w) \/ GardenerDies(w) PROVE GapInv'
  <2>1. /\ gardener' = [gardener EXCEPT ![w] = Rest] /\ UNCHANGED <<journal, proposal, gapAudit, serials>>
        /\ gardenDeaths' \in 0 .. MaxGardenDeaths
    BY <1>2, GapConstants DEF WriteLog, GardenerDies, Resting, GapInv
  <2>2. QED
    BY <2>1, GardenRestsAgain
<1>3. CASE GapNext
  BY <1>3, <1>2, CreateStep, AttemptStep, TransitionStep, IngestStep, RereadStep, AppendSnapshotStep,
     AuditSnapshotStep, ReadLogStep, WriteResultStep, AuditProposalStep DEF GapNext, GapProgress
<1>4. QED
  BY <1>1, <1>3

LEMMA OnlyRaces ==
  ASSUME GapInv, GapNext
  PROVE  IsPrefix(journal, journal') \/ \E w \in Gardeners : Doing(w, "append") /\ gardener[w].old # journal
<1>1. Lined(journal)
  BY DEF GapInv
<1>2. ASSUME NEW w \in Gardeners, AppendSnapshot(w)
      PROVE  IsPrefix(journal, journal') \/ (Doing(w, "append") /\ gardener[w].old # journal)
  BY <1>2, AppendSnapshotStep DEF AppendSnapshot
<1>3. CASE journal' = journal
  BY <1>1, <1>3, InLine
<1>4. (\E w \in Gardeners : AppendSnapshot(w)) \/ journal' = journal
  BY DEF GapNext, GapProgress, Create, Attempt, Transition, Start, Ingest, Reread, AuditSnapshot, ReadLog, WriteLog,
         WriteResult, AuditProposal, GardenerDies
<1>5. QED
  BY <1>2, <1>3, <1>4

LEMMA LineageIsLegal == GapInv => LegalLineage
<1> SUFFICES ASSUME GapInv, NEW i \in DOMAIN journal
             PROVE  LET t == journal[i] IN
                    /\ \A s \in Range(journal) : s.gap = t.gap /\ s.serial = t.base => Follows(s, t)
                    /\ t.status = "rejected" => t.rejected
                    /\ t.rejected => t.status \in {"rejected", "superseded"}
  BY DEF LegalLineage
<1>1. journal[i] \in Snapshots /\ Range(journal) \subseteq Snapshots
  BY JournalHeld DEF Range
<1>2. QED
  BY <1>1 DEF GapInv, Lineage, Snapshot

(* However the processes of the gap journal interleave and die: only one   *)
(* that read it before another replaced it loses lines, each line is a     *)
(* legal step from the one it was computed from, and a rejection is kept   *)
(* exactly until the gap is opened again.                                  *)
THEOREM GapsAreKept == GapSpec => GapKept
<1>1. GapInv /\ [GapNext]_gapVars =>
        [\/ IsPrefix(journal, journal')
         \/ \E w \in Gardeners : Doing(w, "append") /\ gardener[w].old # journal]_gapVars
  BY OnlyRaces
<1>2. QED
  BY <1>1, GapInvInit, GapInvStep, LineageIsLegal, PTL DEF GapSpec, GapKept, OnlyRacesLose

-----------------------------------------------------------------------------
(* The experiment                                                          *)

(* What a score has settled so far: the outputs it read are of its plan,   *)
(* and unless an input was edited since, the inputs are the frozen ones and*)
(* the grades are what the frozen tasks give.                              *)
Grades(read, plan) == [l \in Labels |-> Grade[read[l].answers, plan.frozen.tasks]]

Scoring(r, i, P, V) ==
  /\ r.pc \in {"none", "collect", "unblind", "judge", "record"}
  /\ "shifted" \in DOMAIN r <=> r.pc \in {"collect", "unblind", "judge"}
  /\ r.pc \in {"collect", "unblind", "judge"} =>
       /\ {"pc", "plan", "read", "shifted"} \subseteq DOMAIN r
       /\ r.plan \in P
       /\ \A l \in DOMAIN r.read : r.read[l].plan = r.plan
       /\ ~r.shifted => i = r.plan.frozen
  /\ r.pc = "collect" => "left" \in DOMAIN r
  /\ r.pc \in {"unblind", "judge"} => DOMAIN r.read = Labels /\ (~r.shifted => r.sealed = Grades(r.read, r.plan))
  /\ r.pc = "judge" => r.labelOf = [c \in Conditions |-> CHOOSE l \in Labels : Assigned(r.plan)[l] = c]
  /\ r.pc = "record" => r.verdict \in V /\ Lined(r.old) /\ Range(r.old) \subseteq V

(* A verdict that the frozen inputs give.                                  *)
GradeOf(v, c) == LET l == CHOOSE k \in Labels : Assigned(v.plan)[k] = c IN
                 Grade[v.read[l].answers, v.plan.frozen.tasks]
WellGraded(v) ==
  v.status # "unsettled" =>
    /\ \A l \in Labels : v.read[l].plan = v.plan /\ v.read[l].snapshot = Commitment(v.plan, l)
    /\ ~v.shifted =>
         (v.status = "promoted" <=>
            Passes(GradeOf(v, "updated-wiki"), GradeOf(v, "current-wiki"), Gate[v.plan.frozen.gates]))

ScoreInv ==
  /\ ExperimentTypeOK
  /\ scorer = [g \in Scorers |-> scorer[g]]
  /\ Lined(evaluations)
  /\ \A g \in Scorers : Scoring(scorer[g], inputs, planned, verdicts)
  /\ \A v \in verdicts : WellGraded(v)

LEMMA EarnedVerdicts == (\A v \in verdicts : WellGraded(v)) <=> VerdictsEarned
BY DEF WellGraded, GradeOf, VerdictsEarned

(* A scorer goes on, and everything else only grows.                       *)
LEMMA ScorerMoves ==
  ASSUME ScoreInv, NEW g \in Scorers, NEW r, scorer' = [scorer EXCEPT ![g] = r],
         Scoring(r, inputs, planned, verdicts'), verdicts \subseteq verdicts',
         \A v \in verdicts' \ verdicts :
           WellGraded(v) /\ v.plan \in planned /\ v.status \in {"unsettled", "promoted", "rollback-required"},
         Lined(evaluations'), Range(evaluations') \subseteq verdicts',
         UNCHANGED <<inputs, trees, planned, armRuns, inputChanges>>, scores' \in 0 .. MaxScores
  PROVE  ScoreInv'
<1>1. scorer' = [h \in Scorers |-> scorer'[h]] /\ scorer'[g] = r /\ \A h \in Scorers \ {g} : scorer'[h] = scorer[h]
  BY DEF ScoreInv
<1>2. \A h \in Scorers : Scoring(scorer'[h], inputs', planned', verdicts')
  <2>1. ASSUME NEW h \in Scorers \ {g} PROVE Scoring(scorer[h], inputs, planned, verdicts')
    BY DEF ScoreInv, Scoring
  <2>2. QED
    BY <2>1, <1>1
<1>3. \A v \in verdicts' : WellGraded(v)
  BY DEF ScoreInv
<1>4. ExperimentTypeOK'
  BY DEF ScoreInv, ExperimentTypeOK
<1>5. QED
  BY <1>1, <1>2, <1>3, <1>4 DEF ScoreInv

(* The same, with no verdict and no record.                                *)
LEMMA ScorerTurns ==
  ASSUME ScoreInv, NEW g \in Scorers, NEW r, scorer' = [scorer EXCEPT ![g] = r],
         Scoring(r, inputs, planned, verdicts), scores' \in 0 .. MaxScores,
         UNCHANGED <<inputs, trees, planned, verdicts, evaluations, armRuns, inputChanges>>
  PROVE  ScoreInv'
<1>1. Lined(evaluations') /\ Range(evaluations') \subseteq verdicts'
  BY DEF ScoreInv, ExperimentTypeOK
<1>2. QED
  BY <1>1, ScorerMoves

LEMMA NoScore == \A i, P, V : Scoring(NotScoring, i, P, V)
BY DEF Scoring, NotScoring

LEMMA BeginScoreStep ==
  ASSUME ScoreInv, NEW g \in Scorers, NEW p \in planned, NEW s \in Submissions, BeginScore(g, p, s)
  PROVE  ScoreInv'
<1>1. PICK r : r = [pc |-> "collect", plan |-> p, left |-> s, read |-> <<>>, shifted |-> FALSE]
  OBVIOUS
<1>2. scorer' = [scorer EXCEPT ![g] = r] /\ inputs = p.frozen /\ scores' = scores + 1 /\ scores < MaxScores
      /\ UNCHANGED <<inputs, trees, planned, verdicts, evaluations, armRuns, inputChanges>>
  BY <1>1 DEF BeginScore
<1>3. Scoring(r, inputs, planned, verdicts)
  BY <1>1, <1>2 DEF Scoring
<1>4. scores' \in 0 .. MaxScores
  BY <1>2, ExperimentConstants DEF ScoreInv, ExperimentTypeOK
<1>5. QED
  BY <1>2, <1>3, <1>4, ScorerTurns

LEMMA ScorerGivesUp ==
  ASSUME ScoreInv, NEW g \in Scorers, Done(g),
         UNCHANGED <<inputs, trees, planned, verdicts, evaluations, armRuns, scores, inputChanges>>
  PROVE  ScoreInv'
<1>1. scorer' = [scorer EXCEPT ![g] = NotScoring] /\ scores' \in 0 .. MaxScores
  BY DEF Done, ScoreInv, ExperimentTypeOK
<1>2. QED
  BY <1>1, NoScore, ScorerTurns

LEMMA CollectStep ==
  ASSUME ScoreInv, NEW g \in Scorers, CollectArm(g)
  PROVE  ScoreInv'
<1>1. UNCHANGED <<inputs, trees, planned, outputs, verdicts, evaluations, armRuns, scores, inputChanges>>
      /\ scorer[g].pc = "collect" /\ scores' \in 0 .. MaxScores
  BY DEF CollectArm, Has, ScoreInv, ExperimentTypeOK
<1>2. CASE Done(g)
  BY <1>1, <1>2, ScorerGivesUp
<1>3. CASE ~Done(g)
  <2>1. PICK l \in scorer[g].left :
          /\ ValidOutput(scorer[g].plan, l)
          /\ scorer' = [scorer EXCEPT ![g].left = @ \ {l},
               ![g].read = [k \in DOMAIN @ \cup {l} |-> IF k = l THEN outputs[l] ELSE @[k]]]
    BY <1>3 DEF CollectArm
  <2>2. PICK r : r = [scorer[g] EXCEPT !.left = @ \ {l},
               !.read = [k \in DOMAIN @ \cup {l} |-> IF k = l THEN outputs[l] ELSE @[k]]]
    OBVIOUS
  <2>3. scorer' = [scorer EXCEPT ![g] = r]
    BY <2>1, <2>2 DEF ScoreInv
  <2>4. Scoring(scorer[g], inputs, planned, verdicts) /\ outputs[l].plan = scorer[g].plan
    BY <2>1 DEF ScoreInv, ValidOutput
  <2>5. /\ DOMAIN r = DOMAIN scorer[g] /\ r.pc = "collect" /\ r.plan = scorer[g].plan /\ r.shifted = scorer[g].shifted
        /\ r.read = [k \in DOMAIN scorer[g].read \cup {l} |-> IF k = l THEN outputs[l] ELSE scorer[g].read[k]]
    BY <2>2, <2>4, <1>1 DEF Scoring
  <2>6. \A k \in DOMAIN r.read : r.read[k].plan = r.plan
    BY <2>4, <2>5, <1>1 DEF Scoring
  <2>7. Scoring(r, inputs, planned, verdicts)
    BY <2>4, <2>5, <2>6, <1>1 DEF Scoring
  <2>8. QED
    BY <1>1, <2>3, <2>7, ScorerTurns
<1>4. QED
  BY <1>2, <1>3

LEMMA SealStep ==
  ASSUME ScoreInv, NEW g \in Scorers, Seal(g)
  PROVE  ScoreInv'
<1> DEFINE me == scorer[g]
<1>1. UNCHANGED <<inputs, trees, planned, outputs, evaluations, armRuns, scores, inputChanges>>
      /\ me.pc = "collect" /\ scores' \in 0 .. MaxScores
  BY DEF Seal, Has, ScoreInv, ExperimentTypeOK
<1>2. Scoring(me, inputs, planned, verdicts)
  BY DEF ScoreInv
<1>3. CASE DOMAIN me.read # Labels
  <2>1. PICK v : v = [plan |-> me.plan, status |-> "unsettled", read |-> me.read, shifted |-> me.shifted]
    OBVIOUS
  <2>2. verdicts' = verdicts \cup {v} /\ scorer' = [scorer EXCEPT ![g] = NotScoring]
    BY <1>3, <2>1 DEF Seal, Done
  <2>3. WellGraded(v) /\ v.plan \in planned /\ v.status = "unsettled"
    BY <2>1, <1>1, <1>2 DEF WellGraded, Scoring
  <2>4. Lined(evaluations') /\ Range(evaluations') \subseteq verdicts'
    BY <1>1, <2>2 DEF ScoreInv, ExperimentTypeOK
  <2>5. Scoring(NotScoring, inputs, planned, verdicts')
    BY NoScore
  <2>6. QED
    BY <1>1, <2>2, <2>3, <2>4, <2>5, ScorerMoves
<1>4. CASE DOMAIN me.read = Labels /\ Done(g) /\ verdicts' = verdicts
  BY <1>1, <1>4, ScorerGivesUp
<1>5. CASE DOMAIN me.read = Labels /\ ~(Done(g) /\ verdicts' = verdicts)
  <2>1. PICK r : r = [pc |-> "unblind", plan |-> me.plan, read |-> me.read, shifted |-> me.shifted,
                      sealed |-> [l \in Labels |-> Grade[me.read[l].answers, inputs.tasks]]]
    OBVIOUS
  <2>2. scorer' = [scorer EXCEPT ![g] = r] /\ verdicts' = verdicts
    BY <1>5, <2>1 DEF Seal
  <2>3. /\ DOMAIN r = {"pc", "plan", "read", "shifted", "sealed"} /\ r.pc = "unblind"
        /\ r.plan = me.plan /\ r.read = me.read /\ r.shifted = me.shifted
        /\ r.sealed = [l \in Labels |-> Grade[r.read[l].answers, inputs.tasks]]
    BY <2>1
  <2>4. ~r.shifted => r.sealed = Grades(r.read, r.plan)
    BY <2>3, <1>1, <1>2 DEF Scoring, Grades
  <2>5. Scoring(r, inputs, planned, verdicts)
    BY <2>3, <2>4, <1>1, <1>2, <1>5 DEF Scoring
  <2>6. QED
    BY <1>1, <2>2, <2>5, ScorerTurns
<1>6. QED
  BY <1>3, <1>4, <1>5

(* Only the assignment that the key and the frozen inputs derive is opened,*)
(* whatever map is given.                                                  *)
LEMMA UnblindStep ==
  ASSUME ScoreInv, NEW g \in Scorers, Unblind(g)
  PROVE  ScoreInv'
<1> DEFINE me == scorer[g]
<1>1. UNCHANGED <<inputs, trees, planned, outputs, verdicts, evaluations, armRuns, scores, inputChanges>>
      /\ me.pc = "unblind" /\ scores' \in 0 .. MaxScores
  BY DEF Unblind, Has, ScoreInv, ExperimentTypeOK
<1>2. Scoring(me, inputs, planned, verdicts)
  BY DEF ScoreInv
<1>3. CASE Done(g)
  BY <1>1, <1>3, ScorerGivesUp
<1>4. CASE ~Done(g)
  <2>1. PICK m \in Maps(me.plan) :
          /\ Opens(m, me.plan)
          /\ scorer' = [scorer EXCEPT ![g] =
               [pc |-> "judge", plan |-> @.plan, read |-> @.read, shifted |-> @.shifted,
                sealed |-> @.sealed, labelOf |-> [c \in Conditions |-> CHOOSE l \in Labels : m.assignments[l] = c]]]
    BY <1>4 DEF Unblind
  <2>2. PICK r : r = [pc |-> "judge", plan |-> me.plan, read |-> me.read, shifted |-> me.shifted,
                sealed |-> me.sealed, labelOf |-> [c \in Conditions |-> CHOOSE l \in Labels : m.assignments[l] = c]]
    OBVIOUS
  <2>3. scorer' = [scorer EXCEPT ![g] = r]
    BY <2>1, <2>2 DEF ScoreInv
  <2>4. /\ DOMAIN r = {"pc", "plan", "read", "shifted", "sealed", "labelOf"} /\ r.pc = "judge"
        /\ r.plan = me.plan /\ r.read = me.read /\ r.shifted = me.shifted /\ r.sealed = me.sealed
        /\ r.labelOf = [c \in Conditions |-> CHOOSE l \in Labels : m.assignments[l] = c]
    BY <2>2
  <2>5. m.assignments = Assigned(r.plan)
    BY <2>1, <2>4 DEF Opens, Assigned
  <2>6. r.labelOf = [c \in Conditions |-> CHOOSE l \in Labels : Assigned(r.plan)[l] = c]
    BY <2>4, <2>5
  <2>7. ~r.shifted => r.sealed = Grades(r.read, r.plan)
    BY <2>4, <1>1, <1>2 DEF Scoring
  <2>8. Scoring(r, inputs, planned, verdicts)
    BY <2>4, <2>6, <2>7, <1>1, <1>2 DEF Scoring
  <2>9. QED
    BY <1>1, <2>3, <2>8, ScorerTurns
<1>5. QED
  BY <1>3, <1>4

(* Each condition has its label.                                           *)
LEMMA Labelled ==
  ASSUME ScoreInv, NEW p \in planned, NEW c \in Conditions
  PROVE  (CHOOSE l \in Labels : Assigned(p)[l] = c) \in Labels
<1>1. <<p.key, p.frozen>> \in DOMAIN AssignmentOf
  BY ExperimentConstants DEF ScoreInv, ExperimentTypeOK
<1>2. {Assigned(p)[l] : l \in Labels} = Conditions
  BY <1>1, ExperimentConstants DEF Assigned
<1>3. \E l \in Labels : Assigned(p)[l] = c
  BY <1>2
<1>4. QED
  BY <1>3

LEMMA JudgeStep ==
  ASSUME ScoreInv, NEW g \in Scorers, Judge(g)
  PROVE  ScoreInv'
<1> DEFINE me == scorer[g]
           passed == Passes(me.sealed[me.labelOf["updated-wiki"]], me.sealed[me.labelOf["current-wiki"]],
                            Gate[inputs.gates])
<1>1. UNCHANGED <<inputs, trees, planned, outputs, evaluations, armRuns, scores, inputChanges>>
      /\ me.pc = "judge" /\ scores' \in 0 .. MaxScores /\ Done(g)
  BY DEF Judge, Has, ScoreInv, ExperimentTypeOK
<1>2. Scoring(me, inputs, planned, verdicts)
  BY DEF ScoreInv
<1>3. CASE ~(\A l \in Labels : me.read[l].snapshot = Commitment(me.plan, l))
  <2>1. verdicts' = verdicts
    BY <1>3 DEF Judge
  <2>2. QED
    BY <1>1, <2>1, ScorerGivesUp
<1>4. CASE \A l \in Labels : me.read[l].snapshot = Commitment(me.plan, l)
  <2>1. PICK v : v = [plan |-> me.plan, read |-> me.read, shifted |-> me.shifted,
                      status |-> IF passed THEN "promoted" ELSE "rollback-required"]
    OBVIOUS
  <2>2. verdicts' = verdicts \cup {v} /\ scorer' = [scorer EXCEPT ![g] = NotScoring]
    BY <1>1, <1>4, <2>1 DEF Judge, Done
  <2>3. /\ v.plan = me.plan /\ v.read = me.read /\ v.shifted = me.shifted
        /\ v.status = IF passed THEN "promoted" ELSE "rollback-required"
    BY <2>1
  <2>4. v.plan \in planned /\ \A l \in Labels : v.read[l].plan = v.plan
    BY <2>3, <1>1, <1>2 DEF Scoring
  <2>5. v.status \in {"promoted", "rollback-required"} /\ (v.status = "promoted" <=> passed)
    BY <2>3
  <2>6. ASSUME ~v.shifted, NEW c \in Conditions PROVE me.sealed[me.labelOf[c]] = GradeOf(v, c)
    <3>1. me.sealed = Grades(me.read, me.plan) /\ me.labelOf[c] = CHOOSE l \in Labels : Assigned(me.plan)[l] = c
      BY <1>1, <1>2, <2>3, <2>6 DEF Scoring
    <3>2. me.labelOf[c] \in Labels
      BY <3>1, <2>3, <2>4, Labelled
    <3>3. ASSUME NEW l \in Labels PROVE Grades(v.read, v.plan)[l] = Grade[v.read[l].answers, v.plan.frozen.tasks]
      BY Zenon DEF Grades
    <3>4. PICK l \in Labels : l = me.labelOf[c]
      BY <3>2
    <3>5. GradeOf(v, c) = Grade[v.read[l].answers, v.plan.frozen.tasks]
      BY <3>1, <3>4, <2>3, Zenon DEF GradeOf
    <3>6. QED
      BY <3>1, <3>3, <3>4, <3>5, <2>3, Zenon
  <2>7. ~v.shifted => inputs = v.plan.frozen
    BY <1>1, <1>2, <2>3 DEF Scoring
  <2>8. ~v.shifted => (passed <=> Passes(GradeOf(v, "updated-wiki"), GradeOf(v, "current-wiki"),
                                         Gate[v.plan.frozen.gates]))
    <3>1. "updated-wiki" \in Conditions /\ "current-wiki" \in Conditions
      BY DEF Conditions
    <3>2. QED
      BY <2>6, <2>7, <3>1
  <2>9. \A l \in Labels : v.read[l].snapshot = Commitment(v.plan, l)
    BY <1>4, <2>3
  <2>10. WellGraded(v)
    BY <2>4, <2>5, <2>8, <2>9 DEF WellGraded
  <2>11. Lined(evaluations') /\ Range(evaluations') \subseteq verdicts'
    BY <1>1, <2>2 DEF ScoreInv, ExperimentTypeOK
  <2>12. Scoring(NotScoring, inputs, planned, verdicts')
    BY NoScore
  <2>13. QED
    BY <1>1, <2>2, <2>4, <2>5, <2>10, <2>11, <2>12, ScorerMoves
<1>5. QED
  BY <1>3, <1>4

LEMMA BeginRecordStep ==
  ASSUME ScoreInv, NEW g \in Scorers, NEW v \in verdicts, BeginRecord(g, v)
  PROVE  ScoreInv'
<1>1. PICK r : r = [pc |-> "record", verdict |-> v, old |-> evaluations]
  OBVIOUS
<1>2. scorer' = [scorer EXCEPT ![g] = r] /\ scores' \in 0 .. MaxScores
      /\ UNCHANGED <<inputs, trees, planned, verdicts, evaluations, armRuns, inputChanges>>
  BY <1>1 DEF BeginRecord, ScoreInv, ExperimentTypeOK
<1>3. Scoring(r, inputs, planned, verdicts)
  BY <1>1 DEF Scoring, ScoreInv, ExperimentTypeOK
<1>4. QED
  BY <1>2, <1>3, ScorerTurns

LEMMA RecordStep ==
  ASSUME ScoreInv, NEW g \in Scorers, Record(g)
  PROVE  ScoreInv' /\ (scorer[g].old = evaluations => IsPrefix(evaluations, evaluations'))
<1>1. PICK old, v : old = scorer[g].old /\ v = scorer[g].verdict
  OBVIOUS
<1>2. /\ evaluations' = Append(old, v) /\ scorer' = [scorer EXCEPT ![g] = NotScoring]
      /\ UNCHANGED <<inputs, trees, planned, verdicts, armRuns, inputChanges>> /\ scores' \in 0 .. MaxScores
  BY <1>1 DEF Record, Done, ScoreInv, ExperimentTypeOK
<1>3. v \in verdicts /\ Lined(old) /\ Range(old) \subseteq verdicts
  BY <1>1 DEF Record, Has, ScoreInv, Scoring
<1>4. Lined(evaluations') /\ Range(evaluations') \subseteq verdicts'
  BY <1>2, <1>3, OneMore, InLine
<1>5. IsPrefix(old, evaluations')
  BY <1>2, <1>3, InLine
<1>6. ScoreInv'
  BY <1>2, <1>4, NoScore, ScorerMoves
<1>7. QED
  BY <1>1, <1>5, <1>6

(* An edit of an input is marked in every score that is on its way.        *)
LEMMA InputsChangeStep ==
  ASSUME ScoreInv, InputsChange
  PROVE  ScoreInv'
<1>1. /\ inputs' \in Inputs /\ trees' \in Trees /\ inputChanges' \in 0 .. MaxInputChanges
      /\ UNCHANGED <<planned, outputs, verdicts, evaluations, armRuns, scores>>
      /\ scorer' = [g \in Scorers |-> IF "shifted" \in DOMAIN scorer[g] /\ inputs' # inputs
                                      THEN [scorer[g] EXCEPT !.shifted = TRUE] ELSE scorer[g]]
  BY ExperimentConstants DEF InputsChange, ScoreInv, ExperimentTypeOK
<1>2. ASSUME NEW g \in Scorers PROVE Scoring(scorer'[g], inputs', planned', verdicts')
  <2>1. Scoring(scorer[g], inputs, planned, verdicts)
    BY DEF ScoreInv
  <2>2. CASE ~("shifted" \in DOMAIN scorer[g] /\ inputs' # inputs)
    <3>1. scorer'[g] = scorer[g]
      BY <1>1, <2>2
    <3>2. QED
      BY <1>1, <2>1, <2>2, <3>1 DEF Scoring
  <2>3. CASE "shifted" \in DOMAIN scorer[g] /\ inputs' # inputs
    <3>1. PICK r : r = [scorer[g] EXCEPT !.shifted = TRUE]
      OBVIOUS
    <3>2. scorer'[g] = r
      BY <1>1, <2>3, <3>1
    <3>3. /\ scorer[g].pc \in {"collect", "unblind", "judge"}
          /\ {"pc", "plan", "read", "shifted"} \subseteq DOMAIN scorer[g]
      BY <2>1, <2>3 DEF Scoring
    <3>4. /\ DOMAIN r = DOMAIN scorer[g] /\ r.pc = scorer[g].pc /\ r.plan = scorer[g].plan
          /\ r.read = scorer[g].read /\ r.shifted = TRUE
      BY <3>1, <3>3
    <3>5. r.pc = "judge" => r.labelOf = scorer[g].labelOf
      BY <3>1, <3>3
    <3>6. Scoring(r, inputs', planned, verdicts)
      BY <2>1, <3>3, <3>4, <3>5 DEF Scoring
    <3>7. QED
      BY <1>1, <3>2, <3>6
  <2>4. QED
    BY <2>2, <2>3
<1>3. scorer' = [g \in Scorers |-> scorer'[g]]
  BY <1>1
<1>4. ExperimentTypeOK'
  BY <1>1 DEF ScoreInv, ExperimentTypeOK
<1>5. QED
  BY <1>1, <1>2, <1>3, <1>4 DEF ScoreInv

LEMMA PlanRunStep ==
  ASSUME ScoreInv,
         \/ \E key \in BlindingKeys : PlanExperiment(key)
         \/ \E p \in planned, run \in ArmRuns : RunArm(p, run)
  PROVE  ScoreInv' /\ evaluations' = evaluations
<1>a. armRuns \in 0 .. MaxArmRuns /\ inputs \in Inputs /\ trees \in Trees /\ MaxArmRuns \in Nat
  BY ExperimentConstants DEF ScoreInv, ExperimentTypeOK
<1>b. ASSUME \E key \in BlindingKeys : PlanExperiment(key)
      PROVE  /\ UNCHANGED <<inputs, trees, scorer, verdicts, evaluations, armRuns, scores, inputChanges>>
             /\ planned \subseteq planned'
             /\ \A p \in planned' \ planned : p.key \in BlindingKeys /\ p.frozen \in Inputs /\ p.trees \in Trees
  <2>1. PICK key \in BlindingKeys : PlanExperiment(key)
    BY <1>b
  <2>2. PICK q : q = [key |-> key, frozen |-> inputs, trees |-> trees]
    OBVIOUS
  <2>3. planned' = planned \cup {q} /\ UNCHANGED <<inputs, trees, scorer, verdicts, evaluations, armRuns, scores, inputChanges>>
    BY <2>1, <2>2 DEF PlanExperiment
  <2>4. q.key \in BlindingKeys /\ q.frozen \in Inputs /\ q.trees \in Trees
    BY <2>2, <1>a
  <2>5. QED
    BY <2>3, <2>4, <1>a
<1>c. ASSUME \E p \in planned, run \in ArmRuns : RunArm(p, run)
      PROVE  /\ UNCHANGED <<inputs, trees, planned, scorer, verdicts, evaluations, scores, inputChanges>>
             /\ armRuns' \in 0 .. MaxArmRuns
  BY <1>a, <1>c DEF RunArm
<1>1. /\ UNCHANGED <<inputs, trees, scorer, verdicts, evaluations, scores, inputChanges>>
      /\ planned \subseteq planned' /\ armRuns' \in 0 .. MaxArmRuns
      /\ \A p \in planned' \ planned : p.key \in BlindingKeys /\ p.frozen \in Inputs /\ p.trees \in Trees
  BY <1>a, <1>b, <1>c
<1>2. \A g \in Scorers : Scoring(scorer[g], inputs, planned', verdicts)
  BY <1>1 DEF ScoreInv, Scoring
<1>3. ExperimentTypeOK'
  BY <1>1 DEF ScoreInv, ExperimentTypeOK
<1>4. QED
  BY <1>1, <1>2, <1>3 DEF ScoreInv

LEMMA ScoreInvInit == ExperimentInit => ScoreInv
<1> SUFFICES ASSUME ExperimentInit PROVE ScoreInv
  OBVIOUS
<1>1. /\ scorer = [g \in Scorers |-> NotScoring] /\ planned = {} /\ verdicts = {} /\ evaluations = <<>>
      /\ armRuns = 0 /\ scores = 0 /\ inputChanges = 0 /\ inputs \in Inputs /\ trees \in Trees
  BY DEF ExperimentInit
<1>2. Lined(evaluations) /\ Range(evaluations) = {}
  BY <1>1, NoneYet DEF Range
<1>3. QED
  BY <1>1, <1>2, NoScore, ExperimentConstants DEF ScoreInv, ExperimentTypeOK

LEMMA ScoreInvStep ==
  ASSUME ScoreInv, [ExperimentNext]_xpVars
  PROVE  /\ ScoreInv'
         /\ [\/ IsPrefix(evaluations, evaluations')
             \/ \E g \in Scorers : Has(g, "record") /\ scorer[g].old # evaluations]_xpVars
<1>1. CASE UNCHANGED xpVars
  BY <1>1 DEF xpVars, ScoreInv, ExperimentTypeOK
<1>2. evaluations' = evaluations => IsPrefix(evaluations, evaluations')
  BY InLine DEF ScoreInv
<1>3. CASE \/ \E key \in BlindingKeys : PlanExperiment(key)
           \/ \E p \in planned, run \in ArmRuns : RunArm(p, run)
  BY <1>2, <1>3, PlanRunStep
<1>4. CASE InputsChange
  BY <1>2, <1>4, InputsChangeStep DEF InputsChange
<1>5. ASSUME NEW g \in Scorers, NEW p \in planned, NEW s \in Submissions, BeginScore(g, p, s)
      PROVE  ScoreInv' /\ evaluations' = evaluations
  BY <1>5, BeginScoreStep DEF BeginScore
<1>6. ASSUME NEW g \in Scorers, CollectArm(g) \/ Seal(g) \/ Unblind(g) \/ Judge(g)
      PROVE  ScoreInv' /\ evaluations' = evaluations
  BY <1>6, CollectStep, SealStep, UnblindStep, JudgeStep DEF CollectArm, Seal, Unblind, Judge
<1>7. ASSUME NEW g \in Scorers, NEW v \in verdicts, BeginRecord(g, v)
      PROVE  ScoreInv' /\ evaluations' = evaluations
  BY <1>7, BeginRecordStep DEF BeginRecord
<1>8. ASSUME NEW g \in Scorers, Record(g)
      PROVE  ScoreInv' /\ (IsPrefix(evaluations, evaluations') \/ (Has(g, "record") /\ scorer[g].old # evaluations))
  BY <1>8, RecordStep DEF Record
<1>9. CASE ExperimentNext
  BY <1>2, <1>3, <1>4, <1>5, <1>6, <1>7, <1>8, <1>9 DEF ExperimentNext
<1>10. QED
  BY <1>1, <1>9

(* Whatever files, plans, outputs and maps there are, and whoever edits or *)
(* scores meanwhile: a verdict is what the frozen tasks and gates say of   *)
(* the arms by their true conditions unless an input was edited while it   *)
(* was made, and only a process that read the log before another one       *)
(* replaced it loses a record.                                             *)
THEOREM ExperimentIsKept == ExperimentSpec => ExperimentKept
BY ScoreInvInit, ScoreInvStep, EarnedVerdicts, PTL DEF ExperimentSpec, ExperimentKept, RecordsStay, ScoreInv

-----------------------------------------------------------------------------
(* Acceptance                                                              *)

LEMMA LeastIsIn ==
  ASSUME NEW S \in SUBSET Nat, S # {}
  PROVE  Min(S) \in S /\ \A m \in S : Min(S) <= m
<1>1. \E x \in S : \A y \in S : x =< y
  BY Least
<1>2. QED
  BY <1>1 DEF Min

Rules == Policies \cup {NoPolicy}

(* The tier that applies is one of the policy's.                           *)
LEMMA OneTier ==
  ASSUME NEW p \in Rules, NEW facts, NEW type
  PROVE  TierFor(p, facts, type) = <<>> \/ \E i \in DOMAIN p.tiers : TierFor(p, facts, type) = <<p.tiers[i]>>
<1>1. CASE p = NoPolicy
  BY <1>1 DEF NoPolicy, TierFor
<1>2. CASE p \in Policies
  <2> DEFINE fitting == {i \in DOMAIN p.tiers :
                           /\ type \in p.tiers[i].claimTypes
                           /\ \E m \in p.tiers[i].matchers : Matches(m, facts)}
  <2>1. p.tiers \in Seq(Range(p.tiers))
    BY <1>2, AcceptanceConstants DEF PolicyValid
  <2>2. fitting \in SUBSET Nat
    BY <2>1
  <2>3. fitting # {} => Min(fitting) \in DOMAIN p.tiers
    BY <2>2, LeastIsIn
  <2>4. TierFor(p, facts, type) = IF ~p.permitted \/ fitting = {} THEN <<>> ELSE <<p.tiers[Min(fitting)]>>
    BY Zenon DEF TierFor
  <2> HIDE DEF fitting
  <2>5. QED
    BY <2>3, <2>4
<1>3. QED
  BY <1>1, <1>2 DEF Rules

LEMMA AdmittedIsAQuality ==
  ASSUME NEW p \in Rules, NEW facts, NEW type, NEW class, TierFor(p, facts, type) # <<>>
  PROVE  AdmittedQuality(p, TierFor(p, facts, type)[1], class) \in Qualities
<1>1. PICK i \in DOMAIN p.tiers : TierFor(p, facts, type) = <<p.tiers[i]>>
  BY OneTier
<1>2. TierFor(p, facts, type)[1] = p.tiers[i]
  BY <1>1
<1>3. p \in Policies
  BY <1>1 DEF Rules, NoPolicy
<1>4. PolicyValid(p)
  BY <1>3, AcceptanceConstants
<1>5. p.tiers[i].quality \in Qualities /\ p.video.quality \in Qualities
  BY <1>4 DEF PolicyValid
<1>6. QED
  BY <1>2, <1>5 DEF AdmittedQuality, ClampQuality

(* An artifact is accepted if it passes every gate.                        *)
LEMMA GatesPass ==
  ASSUME NEW e \in Artifacts, NEW p, NEW type, NEW spans
  PROVE  AcceptedFor(e, p, type, spans) <=>
           /\ Facts[e].dated /\ Facts[e].updates /\ Facts[e].attributed
           /\ PublisherVerdict(e, p) = "pass" /\ Posture(e) = "clean"
           /\ QuotationVerdict(spans, p.ceiling) = "pass"
           /\ TierOf(e, p, type) # <<>> /\ AdmitsClaimType(p, Facts[e].class, type)
           /\ Facts[e].class = "video" => Facts[e].lineage = "pass"
<1>1. PICK G : G = Gates(e, p, type, spans)
  OBVIOUS
<1>2. DOMAIN G = {"dated", "updates", "author", "publisher", "corrections", "quotation", "policy", "video"}
  BY <1>1 DEF Gates
<1>3. AcceptedFor(e, p, type, spans) <=> \A g \in DOMAIN G : G[g] \notin {"fail", "unknown"}
  <2>1. PICK V : V = {G[g] : g \in DOMAIN G}
    OBVIOUS
  <2>2. AcceptedFor(e, p, type, spans) <=> "fail" \notin V /\ "unknown" \notin V
    BY <1>1, <2>1 DEF AcceptedFor, Decide
  <2>3. QED
    BY <2>1, <2>2
<1>4. /\ G.dated = PassIf(Facts[e].dated, "unknown") /\ G.updates = PassIf(Facts[e].updates, "unknown")
      /\ G.author = PassIf(Facts[e].attributed, "fail") /\ G.publisher = PublisherVerdict(e, p)
      /\ G.corrections = PassIf(Posture(e) = "clean", "fail") /\ G.quotation = QuotationVerdict(spans, p.ceiling)
      /\ G.policy = PassIf(TierOf(e, p, type) # <<>> /\ AdmitsClaimType(p, Facts[e].class, type), "unknown")
      /\ G.video = IF Facts[e].class = "video" THEN Facts[e].lineage ELSE "pass"
  BY <1>1 DEF Gates
<1>5. G.publisher \in {"pass", "fail", "unknown"} /\ G.quotation \in {"pass", "fail", "unknown"}
      /\ Facts[e].lineage \in {"pass", "fail", "unknown"}
  BY <1>4, AcceptanceConstants DEF PublisherVerdict, QuotationVerdict, FactsValid
<1>6. QED
  BY <1>2, <1>3, <1>4, <1>5 DEF PassIf

Decisions == {"accepted", "rejected", "deferred"}

AccInv ==
  /\ AcceptanceTypeOK
  /\ acceptance = [e \in Artifacts |-> acceptance[e]] /\ notices = [e \in Artifacts |-> notices[e]]
  /\ \A e \in Artifacts : acceptance[e] = Unrecorded \/ acceptance[e].decision \in Decisions
  /\ \A s \in quoted : Recorded(SpanOf[s].artifact)
  /\ \A c \in Claims : lifecycle[c] # "none" => ClaimOf[c].supports \subseteq quoted

LEMMA RecordArtifactStep ==
  ASSUME AccInv, NEW p \in {policy, NoPolicy}, NEW e \in Artifacts, RecordArtifact(e, p, "fact")
  PROVE  AccInv'
<1>1. PICK a : a = [decision |-> Decide(Gates(e, p, "fact", {s \in quoted : SpanOf[s].artifact = e})),
                    quality  |-> IF TierOf(e, p, "fact") = <<>> THEN "prior"
                                 ELSE AdmittedQuality(p, TierOf(e, p, "fact")[1], Facts[e].class)]
  OBVIOUS
<1>2. acceptance' = [acceptance EXCEPT ![e] = a] /\ UNCHANGED <<policy, quoted, notices, lifecycle, disputes, policies>>
  BY <1>1 DEF RecordArtifact
<1>3. p \in Rules
  BY DEF Rules, AccInv, AcceptanceTypeOK
<1>4. a.quality \in Qualities
  <2>1. CASE TierOf(e, p, "fact") = <<>>
    BY <1>1, <2>1 DEF Qualities
  <2>2. CASE TierOf(e, p, "fact") # <<>>
    <3>1. AdmittedQuality(p, TierOf(e, p, "fact")[1], Facts[e].class) \in Qualities
      BY <1>3, <2>2, AdmittedIsAQuality DEF TierOf
    <3>2. QED
      BY <1>1, <2>2, <3>1
  <2>3. QED
    BY <2>1, <2>2
<1>5. a.decision \in Decisions
  BY <1>1 DEF Decide, Decisions
<1>6. acceptance'[e] = a /\ \A f \in Artifacts \ {e} : acceptance'[f] = acceptance[f]
  BY <1>2 DEF AccInv
<1>7. acceptance' = [f \in Artifacts |-> acceptance'[f]]
  BY <1>2 DEF AccInv
<1>8. a # Unrecorded
  BY <1>5 DEF Unrecorded, Decisions
<1>9. \A f \in Artifacts : acceptance'[f].quality \in Qualities
                           /\ acceptance'[f].decision \in {"none", "accepted", "rejected", "deferred"}
  BY <1>4, <1>5, <1>6 DEF AccInv, AcceptanceTypeOK, Decisions
<1>10. \A f \in Artifacts : acceptance'[f] = Unrecorded \/ acceptance'[f].decision \in Decisions
  BY <1>5, <1>6 DEF AccInv
<1>11. \A s \in quoted' : Recorded(SpanOf[s].artifact)'
  <2>1. \A s \in quoted : s \in Spans
    BY DEF AccInv, AcceptanceTypeOK
  <2>2. QED
    BY <1>2, <1>6, <1>8, <2>1, AcceptanceConstants DEF AccInv, Recorded
<1>12. QED
  BY <1>2, <1>7, <1>9, <1>10, <1>11 DEF AccInv, AcceptanceTypeOK

LEMMA OtherStep ==
  ASSUME AccInv,
         \/ \E p \in {policy, NoPolicy} :
              \/ \E s \in Spans : RecordQuotation(s, p)
              \/ \E c \in Claims, life \in Lifecycles : RecordClaim(c, life, p)
         \/ \E e \in Artifacts, status \in Postures : RecordCorrection(e, status)
         \/ \E S \in SUBSET Claims : RecordContradiction(S) \/ ResolveContradiction(S)
         \/ WikiPolicyChanges
  PROVE  AccInv' /\ acceptance' = acceptance
<1>1. ASSUME NEW p, NEW s \in Spans, RecordQuotation(s, p) PROVE AccInv' /\ acceptance' = acceptance
  BY <1>1 DEF RecordQuotation, AccInv, AcceptanceTypeOK, Recorded
<1>2. ASSUME NEW p, NEW c \in Claims, NEW life \in Lifecycles, RecordClaim(c, life, p)
      PROVE  AccInv' /\ acceptance' = acceptance
  BY <1>2 DEF RecordClaim, ClaimValid, AccInv, AcceptanceTypeOK, Recorded
<1>3. ASSUME NEW e \in Artifacts, NEW status \in Postures, RecordCorrection(e, status)
      PROVE  AccInv' /\ acceptance' = acceptance
  BY <1>3 DEF RecordCorrection, AccInv, AcceptanceTypeOK, Recorded
<1>4. ASSUME NEW S \in SUBSET Claims, RecordContradiction(S) \/ ResolveContradiction(S)
      PROVE  AccInv' /\ acceptance' = acceptance
  BY <1>4 DEF RecordContradiction, ResolveContradiction, AccInv, AcceptanceTypeOK, Recorded
<1>5. CASE WikiPolicyChanges
  BY <1>5 DEF WikiPolicyChanges, AccInv, AcceptanceTypeOK, Recorded
<1>6. QED
  BY <1>1, <1>2, <1>3, <1>4, <1>5

LEMMA AccInvInit == AcceptanceInit => AccInv
BY DEF AcceptanceInit, AccInv, AcceptanceTypeOK, Unrecorded, Recorded, Qualities

LEMMA AccInvStep == AccInv /\ [AcceptanceNext]_acVars => AccInv'
<1>1. AccInv /\ UNCHANGED acVars => AccInv'
  BY DEF acVars, AccInv, AcceptanceTypeOK, Recorded
<1>2. AccInv /\ AcceptanceNext => AccInv'
  BY RecordArtifactStep, OtherStep DEF AcceptanceNext
<1>3. QED
  BY <1>1, <1>2

LEMMA ImageIsFinite ==
  ASSUME NEW S, IsFiniteSet(S), NEW f
  PROVE  IsFiniteSet({f[x] : x \in S})
<1> DEFINE T == {f[x] : x \in S}
           g == [x \in S |-> f[x]]
<1>1. g \in Surjection(S, T)
  BY DEF Surjection
<1> HIDE DEF g, T
<1>2. IsFiniteSet(T)
  BY <1>1, FS_Surjection
<1>3. QED
  BY <1>2 DEF T

LEMMA AtLeastTwo ==
  ASSUME NEW S, IsFiniteSet(S)
  PROVE  /\ Cardinality(S) \in Nat /\ (S # {} => Cardinality(S) >= 1)
         /\ Cardinality(S) >= 2 <=> \E x, y \in S : x # y
<1>1. Cardinality(S) \in Nat /\ (Cardinality(S) = 0 <=> S = {}) /\ (Cardinality(S) = 1 <=> \E x : S = {x})
  BY FS_CardinalityType, FS_EmptySet, FS_Singleton
<1>2. (\E x : S = {x}) <=> S # {} /\ ~(\E x, y \in S : x # y)
  OBVIOUS
<1>3. S = {} => ~(\E x, y \in S : x # y)
  OBVIOUS
<1>4. QED
  BY <1>1, <1>2, <1>3

GoodOf(c) == {e \in Supporting(c) : Good(e)}
OfQuality(c, q) == {e \in GoodOf(c) : acceptance[e].quality = q}
Corroborated(c) == \E e, f \in OfQuality(c, "synthesis") : Facts[e].origin # Facts[f].origin

LEMMA SupportingIs ==
  ASSUME NEW c \in Claims
  PROVE  Supporting(c) \subseteq Artifacts /\ IsFiniteSet(Supporting(c))
<1>1. ClaimOf[c].supports \subseteq Spans /\ IsFiniteSet(Spans)
  BY AcceptanceConstants
<1>2. IsFiniteSet(ClaimOf[c].supports)
  BY <1>1, FS_Subset
<1>3. PICK f : f = [s \in Spans |-> SpanOf[s].artifact]
  OBVIOUS
<1>4. Supporting(c) = {f[s] : s \in ClaimOf[c].supports}
  BY <1>1, <1>3 DEF Supporting
<1>5. IsFiniteSet(Supporting(c))
  BY <1>2, <1>4, ImageIsFinite
<1>6. QED
  BY <1>1, <1>5, AcceptanceConstants DEF Supporting

(* What the best source is worth.                                          *)
LEMMA BaseIs ==
  ASSUME AccInv, NEW c \in Claims, GoodOf(c) # {}
  PROVE  LET base == Max({QualityBase(acceptance[e].quality) : e \in GoodOf(c)}) IN
         /\ base \in {20, 50, 70, 90}
         /\ base = 90 <=> OfQuality(c, "primary") # {}
         /\ base \in {70, 90} <=> OfQuality(c, "primary") # {} \/ OfQuality(c, "synthesis") # {}
<1> DEFINE B == {QualityBase(acceptance[e].quality) : e \in GoodOf(c)}
           base == Max(B)
<1>1. \A e \in GoodOf(c) : acceptance[e].quality \in Qualities
  BY SupportingIs DEF GoodOf, AccInv, AcceptanceTypeOK
<1>2. \A q \in Qualities : /\ QualityBase(q) \in {20, 50, 70, 90} /\ (QualityBase(q) = 90 <=> q = "primary")
                           /\ (QualityBase(q) = 70 <=> q = "synthesis")
  BY DEF Qualities, QualityBase
<1>3. B \in SUBSET (1 .. 90) /\ B # {}
  BY <1>1, <1>2
<1>4. base \in B /\ \A b \in B : b <= base
  <2> HIDE DEF B
  <2>1. QED
    BY <1>3, MaxIsIn
<1>5. PICK e \in GoodOf(c) : base = QualityBase(acceptance[e].quality)
  BY <1>4
<1>6. base \in {20, 50, 70, 90}
  BY <1>1, <1>2, <1>5
<1>7. \A f \in GoodOf(c) : QualityBase(acceptance[f].quality) <= base
  BY <1>4
<1> HIDE DEF base, B
<1>8. base = 90 <=> OfQuality(c, "primary") # {}
  BY <1>1, <1>2, <1>5, <1>6, <1>7 DEF OfQuality
<1>9. base \in {70, 90} <=> OfQuality(c, "primary") # {} \/ OfQuality(c, "synthesis") # {}
  BY <1>1, <1>2, <1>5, <1>6, <1>7 DEF OfQuality
<1>10. QED
  BY <1>6, <1>8, <1>9 DEF base, B

OriginsOf(c) == {Facts[e].origin : e \in {x \in GoodOf(c) : acceptance[x].quality \in {"primary", "synthesis"}}}
Bonus(c) == IF OriginsOf(c) = {} THEN -5 ELSE Min({5 * (Cardinality(OriginsOf(c)) - 1), 10})

(* Five hundredths more for each other origin, and at most ten.            *)
LEMMA BonusIs ==
  ASSUME NEW c \in Claims
  PROVE  LET b == IF Bonus(c) > 0 THEN Bonus(c) ELSE 0 IN
         b \in 0 .. 10 /\ (b >= 5 <=> \E x, y \in OriginsOf(c) : x # y)
<1>1. IsFiniteSet(OriginsOf(c))
  <2>1. PICK S : S = {x \in GoodOf(c) : acceptance[x].quality \in {"primary", "synthesis"}}
    OBVIOUS
  <2>2. S \subseteq Artifacts /\ IsFiniteSet(S)
    BY <2>1, SupportingIs, FS_Subset DEF GoodOf
  <2>3. PICK f : f = [e \in Artifacts |-> Facts[e].origin]
    OBVIOUS
  <2>4. OriginsOf(c) = {f[e] : e \in S}
    BY <2>1, <2>2, <2>3 DEF OriginsOf
  <2>5. QED
    BY <2>2, <2>4, ImageIsFinite
<1>2. PICK n \in Nat : n = Cardinality(OriginsOf(c))
  BY <1>1, AtLeastTwo
<1>3. (OriginsOf(c) # {} => n >= 1) /\ (n >= 2 <=> \E x, y \in OriginsOf(c) : x # y)
  BY <1>1, <1>2, AtLeastTwo
<1>4. CASE OriginsOf(c) = {}
  BY <1>4 DEF Bonus
<1>5. CASE OriginsOf(c) # {}
  <2>1. PICK k \in Nat : k = 5 * (n - 1)
    BY <1>3, <1>5
  <2>2. Min({k, 10}) \in {k, 10} /\ Min({k, 10}) <= k /\ Min({k, 10}) <= 10
    BY LeastIsIn, {k, 10} \in SUBSET Nat
  <2>3. Bonus(c) = Min({k, 10})
    BY <1>2, <1>5, <2>1 DEF Bonus
  <2>4. k >= 5 <=> n >= 2
    BY <2>1
  <2>5. QED
    BY <1>3, <2>2, <2>3, <2>4
<1>6. QED
  BY <1>4, <1>5

CapsOf(c, p) ==
  {Cap(lifecycle[c]), 100}
  \cup (CASE Freshness(c, p) = "fresh" -> {} [] Freshness(c, p) = "stale" -> {60} [] OTHER -> {70})
  \cup (IF Conflicted(c) THEN {50} ELSE {})

LEMMA ScoreIs ==
  ASSUME NEW c \in Claims, NEW p
  PROVE  Score(c, p) =
           IF GoodOf(c) = {} THEN 0
           ELSE Min(CapsOf(c, p) \cup {Max({QualityBase(acceptance[e].quality) : e \in GoodOf(c)})
                                       + (IF Bonus(c) > 0 THEN Bonus(c) ELSE 0)})
BY Zenon DEF Score, GoodOf, CapsOf, Bonus, OriginsOf

LEMMA RelianceIs ==
  ASSUME AccInv, NEW c \in Claims, lifecycle[c] # "none", NEW p
  PROVE  MeetsFloor(c, p) <=>
           /\ lifecycle[c] \in {"confirmed", "active"} /\ ~Conflicted(c) /\ Freshness(c, p) = "fresh"
           /\ OfQuality(c, "primary") # {} \/ Corroborated(c)
<1>1. CASE GoodOf(c) = {}
  <2>1. Score(c, p) = 0
    BY <1>1, ScoreIs
  <2>2. QED
    BY <1>1, <2>1 DEF MeetsFloor, RelianceFloor, OfQuality, Corroborated
<1>2. CASE GoodOf(c) # {}
  <2>1. PICK base, bonus : /\ base = Max({QualityBase(acceptance[e].quality) : e \in GoodOf(c)})
                           /\ bonus = IF Bonus(c) > 0 THEN Bonus(c) ELSE 0
    OBVIOUS
  <2>2. /\ base \in {20, 50, 70, 90} /\ (base = 90 <=> OfQuality(c, "primary") # {})
        /\ base \in {70, 90} <=> OfQuality(c, "primary") # {} \/ OfQuality(c, "synthesis") # {}
    BY <1>2, <2>1, BaseIs
  <2>3. bonus \in 0 .. 10 /\ (bonus >= 5 <=> \E x, y \in OriginsOf(c) : x # y)
    BY <2>1, BonusIs
  <2>4. base + bonus >= 75 <=> OfQuality(c, "primary") # {} \/ Corroborated(c)
    <3>1. base + bonus >= 75 <=> base = 90 \/ (base = 70 /\ bonus >= 5)
      BY <2>2, <2>3
    <3>2. OfQuality(c, "primary") = {} => OriginsOf(c) = {Facts[e].origin : e \in OfQuality(c, "synthesis")}
      BY DEF OfQuality, OriginsOf
    <3>3. OfQuality(c, "primary") = {} => ((\E x, y \in OriginsOf(c) : x # y) <=> Corroborated(c))
      BY <3>2 DEF Corroborated
    <3>4. Corroborated(c) => OfQuality(c, "synthesis") # {}
      BY DEF Corroborated
    <3>5. QED
      BY <2>2, <2>3, <3>1, <3>3, <3>4
  <2>5. PICK total \in Nat : total = base + bonus
    BY <2>2, <2>3
  <2>6. Cap(lifecycle[c]) \in {10, 50, 60, 100} /\ (Cap(lifecycle[c]) >= 75 <=> lifecycle[c] \in {"confirmed", "active"})
    <3>1. lifecycle[c] \in {"proposed", "shaky", "rejected", "superseded", "confirmed", "active"}
      BY AcceptanceConstants DEF AccInv, AcceptanceTypeOK
    <3>2. QED
      BY <3>1 DEF Cap
  <2>7. PICK M : M = CapsOf(c, p) \cup {total}
    OBVIOUS
  <2>8. M \in SUBSET Nat /\ M # {}
    BY <2>5, <2>6, <2>7 DEF CapsOf
  <2>9. (\A m \in M : m >= 75) <=> /\ lifecycle[c] \in {"confirmed", "active"} /\ ~Conflicted(c)
                                   /\ Freshness(c, p) = "fresh" /\ total >= 75
    <3>1. PICK F : F = CASE Freshness(c, p) = "fresh" -> {} [] Freshness(c, p) = "stale" -> {60} [] OTHER -> {70}
      OBVIOUS
    <3>2. PICK D : D = IF Conflicted(c) THEN {50} ELSE {}
      OBVIOUS
    <3>3. (\A m \in F : m >= 75) <=> Freshness(c, p) = "fresh"
      BY <3>1
    <3>4. (\A m \in D : m >= 75) <=> ~Conflicted(c)
      BY <3>2
    <3>5. M = {Cap(lifecycle[c]), 100} \cup F \cup D \cup {total}
      BY <2>7, <3>1, <3>2 DEF CapsOf
    <3>6. (\A m \in M : m >= 75) <=> /\ Cap(lifecycle[c]) >= 75 /\ total >= 75
                                     /\ \A m \in F : m >= 75
                                     /\ \A m \in D : m >= 75
      BY <3>5
    <3>7. QED
      BY <2>6, <3>3, <3>4, <3>6
  <2>10. Min(M) \in Nat /\ Min(M) \in M /\ \A m \in M : Min(M) <= m
    BY <2>8, LeastIsIn
  <2>11. Min(M) >= 75 <=> \A m \in M : m >= 75
    BY <2>8, <2>10
  <2>12. Score(c, p) = Min(M)
    BY <1>2, <2>1, <2>5, <2>7, ScoreIs
  <2>13. QED
    BY <2>4, <2>5, <2>9, <2>11, <2>12 DEF MeetsFloor, RelianceFloor
<1>3. QED
  BY <1>1, <1>2

LEMMA EarnedReliance == AccInv => RelianceIsEarned
<1> SUFFICES ASSUME AccInv, NEW c \in Claims, lifecycle[c] # "none"
             PROVE  LET good == {e \in Supporting(c) : acceptance[e].decision = "accepted" /\ Posture(e) = "clean"}
                        of(q) == {e \in good : acceptance[e].quality = q}
                    IN MeetsFloor(c, policy) <=>
                       /\ lifecycle[c] \in {"confirmed", "active"}
                       /\ ~Conflicted(c)
                       /\ Freshness(c, policy) = "fresh"
                       /\ \/ of("primary") # {}
                          \/ \E e, f \in of("synthesis") : Facts[e].origin # Facts[f].origin
  BY Zenon DEF RelianceIsEarned
<1>1. QED
  BY RelianceIs DEF OfQuality, GoodOf, Good, Corroborated

Reliance ==
  \A c \in Claims : lifecycle[c] # "none" =>
    (MeetsFloor(c, policy) <=>
       /\ lifecycle[c] \in {"confirmed", "active"} /\ ~Conflicted(c) /\ Freshness(c, policy) = "fresh"
       /\ OfQuality(c, "primary") # {} \/ Corroborated(c))

LEMMA RelianceNow == AccInv => Reliance
BY RelianceIs DEF Reliance

LEMMA RelianceNext == AccInv' => Reliance'
BY RelianceNow, PTL

(* An active claim is checked against the policy that is named: none gives *)
(* nothing.                                                                *)
LEMMA ActiveStep ==
  ASSUME AccInv, AcceptanceNext, NEW c \in Claims, lifecycle[c] # lifecycle'[c], lifecycle'[c] = "active",
         NEW e \in Supporting(c)
  PROVE  AcceptedFor(e, policy, ClaimOf[c].type, {s \in quoted : SpanOf[s].artifact = e})
<1>1. PICK p \in {policy, NoPolicy}, life \in Lifecycles : RecordClaim(c, life, p)
  <2>1. PICK p \in {policy, NoPolicy}, d \in Claims, life \in Lifecycles : RecordClaim(d, life, p)
    BY DEF AcceptanceNext, RecordArtifact, RecordQuotation, RecordCorrection, RecordContradiction,
           ResolveContradiction, WikiPolicyChanges
  <2>2. d = c
    BY <2>1 DEF RecordClaim, AccInv, AcceptanceTypeOK
  <2>3. QED
    BY <2>1, <2>2
<1>2. life = "active"
  BY <1>1 DEF RecordClaim, AccInv, AcceptanceTypeOK
<1>3. PICK s \in ClaimOf[c].supports : e = SpanOf[s].artifact
  BY DEF Supporting
<1>4. s \in quoted /\ s \in Spans /\ e \in Artifacts /\ AcceptedFor(e, p, ClaimOf[c].type, {s})
  BY <1>1, <1>2, <1>3, AcceptanceConstants DEF RecordClaim, ClaimValid
<1>5. PublisherVerdict(e, p) = "pass" /\ QuotationVerdict({s}, p.ceiling) = "pass"
  BY <1>4, GatesPass
<1>6. p = policy
  BY <1>5 DEF PublisherVerdict
<1>7. SpanOf[s].length <= p.ceiling /\ SpanOf[s].resolves
  BY <1>5 DEF QuotationVerdict
<1>8. QuotationVerdict({t \in quoted : SpanOf[t].artifact = e}, p.ceiling) = "pass"
  BY <1>3, <1>4, <1>7 DEF QuotationVerdict
<1>9. QED
  BY <1>4, <1>6, <1>8, GatesPass

(* What is cited stays recorded, so its dates stay known.                  *)
LEMMA AllRecorded ==
  ASSUME AccInv, NEW c \in Claims, lifecycle[c] # "none", NEW e \in Supporting(c)
  PROVE  Recorded(e) /\ e \in Artifacts
BY SupportingIs DEF Supporting, AccInv

LEMMA LossStep ==
  ASSUME AccInv, AccInv', NEW c \in Claims, lifecycle[c] # "none", lifecycle'[c] = lifecycle[c], policy' = policy,
         \A e \in Supporting(c) : acceptance'[e].quality = acceptance[e].quality,
         MeetsFloor(c, policy), ~MeetsFloor(c, policy)'
  PROVE  (Supporting(c) \cap PendingEvidence # {} \/ Conflicted(c))'
<1> SUFFICES ASSUME ~Conflicted(c)' PROVE \E e \in Supporting(c) : e \in PendingEvidence'
  BY DEF Supporting
<1>1. Freshness(c, policy)' = Freshness(c, policy)
  <2>1. {x \in Supporting(c) : Recorded(x)} = Supporting(c)
    BY AllRecorded
  <2>2. {x \in Supporting(c) : Recorded(x)'} = Supporting(c)
    <3>1. \A x \in Supporting(c) : Recorded(x)'
      BY SupportingIs DEF AccInv, Supporting
    <3>2. QED
      BY <3>1
  <2>3. QED
    BY <2>1, <2>2 DEF Freshness, Supporting
<1>2. ASSUME \A e \in GoodOf(c) : Good(e)' PROVE FALSE
  <2>1. OfQuality(c, "primary") # {} => OfQuality(c, "primary")' # {}
    BY <1>2 DEF OfQuality, GoodOf, Supporting
  <2>2. Corroborated(c) => Corroborated(c)'
    BY <1>2 DEF Corroborated, OfQuality, GoodOf, Supporting
  <2>3. MeetsFloor(c, policy)'
    BY <1>1, <2>1, <2>2, RelianceNow, RelianceNext DEF Reliance
  <2>4. QED
    BY <2>3
<1>3. PICK e \in GoodOf(c) : ~Good(e)'
  BY <1>2
<1>4. e \in Supporting(c) /\ e \in Artifacts /\ Recorded(e)'
  BY <1>3, AllRecorded, SupportingIs DEF GoodOf, AccInv, Supporting
<1>5. acceptance'[e].decision \in Decisions
  BY <1>4 DEF AccInv, Recorded
<1>6. e \in PendingEvidence'
  BY <1>3, <1>4, <1>5 DEF PendingEvidence, Good, Decisions
<1>7. QED
  BY <1>4, <1>6

(* For any sources, quotations, claims and policies: a claim is relied on  *)
(* exactly if what holds now earns it, it becomes active only on what would*)
(* be accepted now, and whatever costs it the reliance is listed.          *)
THEOREM AcceptanceIsKept == AcceptanceSpec => AcceptanceKept
<1>1. AccInv /\ [AcceptanceNext]_acVars =>
        [\A c \in Claims : lifecycle[c] # lifecycle'[c] /\ lifecycle'[c] = "active" =>
           \A e \in Supporting(c) :
             AcceptedFor(e, policy, ClaimOf[c].type, {s \in quoted : SpanOf[s].artifact = e})]_acVars
  BY ActiveStep
<1>2. AccInv /\ AccInv' /\ [AcceptanceNext]_acVars =>
        [\A c \in Claims :
           (/\ lifecycle[c] # "none" /\ lifecycle'[c] = lifecycle[c] /\ policy' = policy
            /\ \A e \in Supporting(c) : acceptance'[e].quality = acceptance[e].quality
            /\ MeetsFloor(c, policy) /\ ~MeetsFloor(c, policy)')
           => (Supporting(c) \cap PendingEvidence # {} \/ Conflicted(c))']_acVars
  BY LossStep
<1>3. QED
  BY <1>1, <1>2, AccInvInit, AccInvStep, EarnedReliance, PTL
     DEF AcceptanceSpec, AcceptanceKept, ActiveRestsOnThePresent, LossIsListed

-----------------------------------------------------------------------------
(* Capture                                                                 *)

Places == {d.at : d \in Destinations}

(* A process that is about to write knows of no proposal, or is outrun,    *)
(* and the last one that wrote a proposal audits what it wrote.            *)
Capturing(k) ==
  /\ capturer[k] \in [pc : {"idle"}, text : {{}}, destination : {"uncategorized"}]
                     \cup [pc : {"write", "audit"}, text : Texts, destination : Places]
  /\ capturer[k].pc = "write" /\ proposals[capturer[k].text] # NoProposal => k \in outrun

Told(t) ==
  \/ [text |-> t, destination |-> proposals[t].destination] \in captureAudit
  \/ \E k \in Capturers : /\ capturer[k].pc = "audit" /\ capturer[k].text = t
                          /\ capturer[k].destination = proposals[t].destination
  \/ t \in abandoned

CaptureInv ==
  /\ CaptureTypeOK
  /\ proposals \in [Texts -> {NoProposal} \cup [status : {"proposed", "applied", "rejected"}, destination : Places]]
  /\ capturer = [k \in Capturers |-> capturer[k]]
  /\ \A k \in Capturers : Capturing(k)
  /\ \A t \in Texts : proposals[t] # NoProposal => Told(t)

LEMMA NotNone ==
  ASSUME NEW x \in [status : {"proposed", "applied", "rejected"}, destination : Places]
  PROVE  x # NoProposal
BY CaptureConstants DEF Places

LEMMA DestinationIs ==
  ASSUME CaptureInv, NEW text \in Texts
  PROVE  Destination(text) \in Places
<1>1. PICK d : d = [text |-> text, vault |-> vault, at |-> Suggested(Route(text, vault).packet)]
  OBVIOUS
<1>2. d \in Destinations /\ d.text = text /\ d.vault = vault
  BY <1>1 DEF Destinations, CaptureInv, CaptureTypeOK
<1>3. (CHOOSE x \in Destinations : x.text = text /\ x.vault = vault) \in Destinations
  BY <1>2
<1>4. QED
  BY <1>3 DEF Destination, Places

LEMMA FindExistingStep ==
  ASSUME CaptureInv, NEW k \in Capturers, NEW text \in Texts, FindExisting(k, text)
  PROVE  CaptureInv'
<1>1. PICK c : c = [pc |-> "write", text |-> text, destination |-> Destination(text)]
  OBVIOUS
<1>2. /\ capturer' = [capturer EXCEPT ![k] = c] /\ outrun' = outrun \ {k} /\ proposals[text] = NoProposal
      /\ UNCHANGED <<vault, proposals, captureAudit, abandoned, vaultEdits, captureDeaths>> /\ capturer[k].pc = "idle"
  BY <1>1 DEF FindExisting, Move
<1>3. /\ c \in [pc : {"write", "audit"}, text : Texts, destination : Places]
      /\ c.pc = "write" /\ c.text = text
  BY <1>1, DestinationIs
<1>4. capturer' = [j \in Capturers |-> capturer'[j]] /\ capturer'[k] = c
      /\ \A j \in Capturers \ {k} : capturer'[j] = capturer[j]
  BY <1>2 DEF CaptureInv
<1>5. \A j \in Capturers : Capturing(j)'
  BY <1>2, <1>3, <1>4 DEF CaptureInv, Capturing
<1>6. \A t \in Texts : proposals'[t] # NoProposal => Told(t)'
  <2>1. ASSUME NEW t \in Texts, Told(t) PROVE Told(t)'
    BY <1>2, <1>4, <2>1 DEF Told
  <2>2. QED
    BY <1>2, <2>1 DEF CaptureInv
<1>7. CaptureTypeOK'
  BY <1>2, <1>3, <1>4 DEF CaptureInv, CaptureTypeOK
<1>8. QED
  BY <1>2, <1>4, <1>5, <1>6, <1>7 DEF CaptureInv

LEMMA WriteProposalStep ==
  ASSUME CaptureInv, NEW k \in Capturers, WriteProposal(k)
  PROVE  /\ CaptureInv'
         /\ \A t \in Texts : proposals[t] # NoProposal /\ proposals'[t] # proposals[t] =>
              k \in outrun /\ capturer[k].pc = "write" /\ capturer[k].text = t
<1>1. PICK u, d : u = capturer[k].text /\ d = capturer[k].destination
  OBVIOUS
<1>2. /\ capturer[k].pc = "write" /\ u \in Texts /\ d \in Places
      /\ proposals[u] # NoProposal => k \in outrun
  BY <1>1 DEF CaptureInv, Capturing, WriteProposal
<1>3. PICK p, c : p = [status |-> "proposed", destination |-> d] /\ c = [pc |-> "audit", text |-> u, destination |-> d]
  OBVIOUS
<1>4. /\ proposals' = [proposals EXCEPT ![u] = p] /\ capturer' = [capturer EXCEPT ![k] = c]
      /\ outrun' = outrun \cup {o \in Capturers \ {k} : capturer[o].pc = "write" /\ capturer[o].text = u}
      /\ UNCHANGED <<vault, captureAudit, abandoned, vaultEdits, captureDeaths>>
  BY <1>1, <1>3 DEF WriteProposal, Move
<1>5. /\ p \in [status : {"proposed", "applied", "rejected"}, destination : Places] /\ p.destination = d
      /\ p.status = "proposed"
      /\ c \in [pc : {"write", "audit"}, text : Texts, destination : Places]
      /\ c.pc = "audit" /\ c.text = u /\ c.destination = d
  BY <1>2, <1>3
<1>6. /\ capturer' = [j \in Capturers |-> capturer'[j]] /\ capturer'[k] = c
      /\ \A j \in Capturers \ {k} : capturer'[j] = capturer[j]
      /\ proposals'[u] = p /\ \A t \in Texts \ {u} : proposals'[t] = proposals[t]
  BY <1>2, <1>4 DEF CaptureInv
<1>7. proposals' \in [Texts -> {NoProposal} \cup [status : {"proposed", "applied", "rejected"}, destination : Places]]
  BY <1>2, <1>4, <1>5 DEF CaptureInv
<1>8. ASSUME NEW j \in Capturers PROVE Capturing(j)'
  <2>1. CASE j = k
    BY <1>5, <1>6, <2>1 DEF Capturing
  <2>2. CASE j # k
    <3>1. Capturing(j) /\ capturer'[j] = capturer[j]
      BY <1>6, <2>2 DEF CaptureInv
    <3>2. CASE capturer[j].pc = "write" /\ capturer[j].text = u
      BY <3>1, <3>2, <1>4, <2>2 DEF Capturing
    <3>3. CASE ~(capturer[j].pc = "write" /\ capturer[j].text = u)
      BY <3>1, <3>3, <1>4, <1>6 DEF Capturing
    <3>4. QED
      BY <3>2, <3>3
  <2>3. QED
    BY <2>1, <2>2
<1>9. ASSUME NEW t \in Texts, proposals'[t] # NoProposal PROVE Told(t)'
  <2>1. CASE t = u
    BY <1>5, <1>6, <2>1 DEF Told
  <2>2. CASE t # u
    <3>1. Told(t) /\ proposals'[t] = proposals[t]
      BY <1>6, <1>9, <2>2 DEF CaptureInv
    <3>2. QED
      BY <1>2, <1>4, <1>6, <2>2, <3>1 DEF Told
  <2>3. QED
    BY <2>1, <2>2
<1>10. CaptureTypeOK'
  BY <1>4, <1>5, <1>6 DEF CaptureInv, CaptureTypeOK
<1>11. CaptureInv'
  BY <1>6, <1>7, <1>8, <1>9, <1>10 DEF CaptureInv
<1>12. QED
  BY <1>1, <1>2, <1>6, <1>11

(* A process that ends: it has audited what it wrote, or died.             *)
LEMMA CaptureEnds ==
  ASSUME CaptureInv, NEW k \in Capturers, capturer' = [capturer EXCEPT ![k] = NoCapture],
         UNCHANGED <<vault, proposals, outrun, vaultEdits>>,
         captureAudit \subseteq captureAudit', abandoned \subseteq abandoned', abandoned' \subseteq Texts,
         captureDeaths' \in 0 .. MaxCaptureDeaths,
         capturer[k].pc = "audit" =>
           \/ [text |-> capturer[k].text, destination |-> capturer[k].destination] \in captureAudit'
           \/ capturer[k].text \in abandoned'
  PROVE  CaptureInv'
<1>1. /\ capturer' = [j \in Capturers |-> capturer'[j]] /\ capturer'[k] = NoCapture
      /\ \A j \in Capturers \ {k} : capturer'[j] = capturer[j]
  BY DEF CaptureInv
<1>2. NoCapture \in [pc : {"idle"}, text : {{}}, destination : {"uncategorized"}] /\ NoCapture.pc = "idle"
  BY DEF NoCapture
<1>3. \A j \in Capturers : Capturing(j)'
  BY <1>1, <1>2 DEF CaptureInv, Capturing
<1>4. ASSUME NEW t \in Texts, proposals[t] # NoProposal PROVE Told(t)'
  <2>1. Told(t)
    BY <1>4 DEF CaptureInv
  <2>2. CASE [text |-> t, destination |-> proposals[t].destination] \in captureAudit \/ t \in abandoned
    BY <2>2 DEF Told
  <2>3. ASSUME NEW j \in Capturers, capturer[j].pc = "audit", capturer[j].text = t,
               capturer[j].destination = proposals[t].destination
        PROVE  Told(t)'
    BY <1>1, <2>3 DEF Told
  <2>4. QED
    BY <2>1, <2>2, <2>3 DEF Told
<1>5. CaptureTypeOK'
  BY <1>1, <1>2 DEF CaptureInv, CaptureTypeOK
<1>6. QED
  BY <1>1, <1>3, <1>4, <1>5 DEF CaptureInv

LEMMA SettleStep ==
  ASSUME CaptureInv, NEW u \in Texts, NEW status \in {"applied", "rejected"}, SettleProposal(u, status)
  PROVE  CaptureInv' /\ \A t \in Texts : proposals'[t] # proposals[t] => proposals'[t].status # "proposed"
<1>1. PICK p : p = [proposals[u] EXCEPT !.status = status]
  OBVIOUS
<1>2. /\ proposals[u] # NoProposal /\ proposals' = [proposals EXCEPT ![u] = p]
      /\ UNCHANGED <<vault, captureAudit, capturer, outrun, abandoned, vaultEdits, captureDeaths>>
  BY <1>1 DEF SettleProposal
<1>3. proposals[u] \in [status : {"proposed", "applied", "rejected"}, destination : Places]
  BY <1>2 DEF CaptureInv
<1>4. /\ p \in [status : {"proposed", "applied", "rejected"}, destination : Places]
      /\ p.status = status /\ p.destination = proposals[u].destination
  BY <1>1, <1>3
<1>5. proposals'[u] = p /\ \A t \in Texts \ {u} : proposals'[t] = proposals[t]
  BY <1>2 DEF CaptureInv
<1>6. p # NoProposal
  BY <1>4, NotNone
<1>7. \A k \in Capturers : Capturing(k)'
  <2>1. \A t \in Texts : proposals'[t] # NoProposal => proposals[t] # NoProposal
    BY <1>2, <1>5
  <2>2. QED
    BY <1>2, <2>1 DEF CaptureInv, Capturing
<1>8. \A t \in Texts : proposals'[t] # NoProposal => Told(t)'
  <2>1. ASSUME NEW t \in Texts, proposals'[t] # NoProposal PROVE Told(t)'
    <3>1. Told(t) /\ proposals'[t].destination = proposals[t].destination
      BY <1>2, <1>4, <1>5, <2>1 DEF CaptureInv
    <3>2. QED
      BY <1>2, <3>1 DEF Told
  <2>2. QED
    BY <2>1
<1>9. CaptureTypeOK'
  BY <1>2, <1>4, <1>5 DEF CaptureInv, CaptureTypeOK
<1>10. proposals' \in [Texts -> {NoProposal} \cup [status : {"proposed", "applied", "rejected"}, destination : Places]]
  BY <1>2, <1>4 DEF CaptureInv
<1>11. CaptureInv'
  BY <1>2, <1>7, <1>8, <1>9, <1>10 DEF CaptureInv
<1>12. QED
  BY <1>4, <1>5, <1>11

LEMMA CaptureInvInit == CaptureInit => CaptureInv
<1> SUFFICES ASSUME CaptureInit PROVE CaptureInv
  OBVIOUS
<1>1. NoCapture \in [pc : {"idle"}, text : {{}}, destination : {"uncategorized"}] /\ NoCapture.pc = "idle"
  BY DEF NoCapture
<1>2. \A k \in Capturers : Capturing(k)
  BY <1>1 DEF CaptureInit, Capturing
<1>3. QED
  BY <1>1, <1>2, CaptureConstants DEF CaptureInit, CaptureInv, CaptureTypeOK

Reopening(t) ==
  proposals[t] # NoProposal /\ proposals[t].status # "proposed" /\ proposals'[t].status = "proposed" =>
    \E k \in outrun : capturer[k].pc = "write" /\ capturer[k].text = t

LEMMA CaptureInvStep ==
  ASSUME CaptureInv, [CaptureNext]_cpVars
  PROVE  CaptureInv' /\ \A t \in Texts : Reopening(t)
<1>1. CASE UNCHANGED cpVars
  <2>1. \A t \in Texts : Told(t) => Told(t)'
    BY <1>1 DEF cpVars, Told
  <2>2. QED
    BY <1>1, <2>1 DEF cpVars, CaptureInv, CaptureTypeOK, Capturing, Reopening
<1>2. ASSUME NEW k \in Capturers, WriteProposal(k) PROVE CaptureInv' /\ \A t \in Texts : Reopening(t)
  BY <1>2, WriteProposalStep DEF Reopening
<1>3. ASSUME NEW k \in Capturers, AuditCapture(k) PROVE CaptureInv' /\ \A t \in Texts : Reopening(t)
  <2>1. /\ capturer' = [capturer EXCEPT ![k] = NoCapture] /\ UNCHANGED <<vault, proposals, outrun, abandoned, vaultEdits>>
        /\ captureAudit' = captureAudit \cup {[text |-> capturer[k].text, destination |-> capturer[k].destination]}
        /\ captureDeaths' \in 0 .. MaxCaptureDeaths /\ abandoned' \subseteq Texts
    BY <1>3 DEF AuditCapture, CaptureInv, CaptureTypeOK
  <2>2. CaptureInv'
    BY <2>1, CaptureEnds
  <2>3. QED
    BY <2>1, <2>2 DEF Reopening
<1>4. ASSUME NEW k \in Capturers, CapturerDies(k) PROVE CaptureInv' /\ \A t \in Texts : Reopening(t)
  <2>1. /\ capturer' = [capturer EXCEPT ![k] = NoCapture] /\ UNCHANGED <<vault, proposals, captureAudit, outrun, vaultEdits>>
        /\ captureDeaths' \in 0 .. MaxCaptureDeaths
        /\ abandoned' = IF capturer[k].pc = "audit" THEN abandoned \cup {capturer[k].text} ELSE abandoned
    BY <1>4, CaptureConstants DEF CapturerDies, CaptureInv, CaptureTypeOK
  <2>2. capturer[k].pc = "audit" => capturer[k].text \in Texts
    BY DEF CaptureInv, Capturing
  <2>3. abandoned \subseteq abandoned' /\ abandoned' \subseteq Texts /\ (capturer[k].pc = "audit" => capturer[k].text \in abandoned')
    BY <2>1, <2>2 DEF CaptureInv, CaptureTypeOK
  <2>4. CaptureInv'
    BY <2>1, <2>3, CaptureEnds
  <2>5. QED
    BY <2>1, <2>4 DEF Reopening
<1>5. ASSUME NEW k \in Capturers, NEW u \in Texts, FindExisting(k, u) PROVE CaptureInv' /\ \A t \in Texts : Reopening(t)
  BY <1>5, FindExistingStep DEF FindExisting, Reopening
<1>6. ASSUME NEW u \in Texts, NEW status \in {"applied", "rejected"}, SettleProposal(u, status)
      PROVE  CaptureInv' /\ \A t \in Texts : Reopening(t)
  BY <1>6, SettleStep DEF Reopening
<1>7. CASE VaultChanges
  <2>1. /\ UNCHANGED <<proposals, captureAudit, capturer, outrun, abandoned, captureDeaths>>
        /\ vault' \in Vaults /\ vaultEdits' \in 0 .. MaxVaultEdits
    BY <1>7, CaptureConstants DEF VaultChanges, CaptureInv, CaptureTypeOK
  <2>2. \A t \in Texts : Told(t) => Told(t)'
    BY <2>1 DEF Told
  <2>3. QED
    BY <2>1, <2>2 DEF CaptureInv, CaptureTypeOK, Capturing, Reopening
<1>8. QED
  BY <1>1, <1>2, <1>3, <1>4, <1>5, <1>6, <1>7 DEF CaptureNext

(* Whoever captures, settles and dies when, whatever the texts and the     *)
(* vault: what was settled becomes a proposal again only through a process *)
(* that lost a race, and every proposal is on the audit trail, about to be,*)
(* or one whose capture died in between.                                   *)
THEOREM CaptureIsKept == CaptureSpec => CaptureKept
<1>1. CaptureInv => CapturedIsTold
  BY DEF CaptureInv, CapturedIsTold, Told
<1>2. CaptureInv /\ [CaptureNext]_cpVars =>
        [\A t \in Texts :
           proposals[t] # NoProposal /\ proposals[t].status # "proposed" /\ proposals'[t].status = "proposed" =>
             \E k \in outrun : capturer[k].pc = "write" /\ capturer[k].text = t]_cpVars
  BY CaptureInvStep DEF Reopening
<1>3. CaptureInv /\ [CaptureNext]_cpVars => CaptureInv'
  BY CaptureInvStep
<1>4. QED
  BY <1>1, <1>2, <1>3, CaptureInvInit, PTL DEF CaptureSpec, CaptureKept, OnlyRacesReopen

-----------------------------------------------------------------------------
(* The estate                                                              *)

(* What a migrated card states.                                            *)
LEMMA MigratedStates ==
  ASSUME NEW card, NEW registered, EntryValid(card, registered), "paths" \in DOMAIN card
  PROVE  LET m == Migrated(card)
             p == card.privacy
         IN /\ m.version = 2 /\ m.privacy = p /\ m.visibility = card.visibility
            /\ m.provisional = card.provisional /\ m.halfLife = card.halfLife /\ m.paths = card.paths
            /\ m.sensitivity = IF p \in Classed THEN p ELSE "unset"
            /\ m.local = IF p = "company-private" THEN card.local ELSE DefaultLocal(p)
            /\ m.cloud = IF p = "company-private" THEN card.cloud ELSE DefaultCloud(p)
            /\ m.mode = IF p = "pointer-only" THEN "pointer" ELSE card.mode
<1>1. {"version", "privacy", "sensitivity", "local", "cloud", "mode", "visibility", "provisional", "halfLife", "paths"}
        \subseteq DOMAIN card
  BY DEF EntryValid
<1>2. PICK c : c = [card EXCEPT !.version = 2,
                      !.sensitivity = IF card.privacy \in Classed THEN card.privacy ELSE "unset"]
  OBVIOUS
<1>3. /\ DOMAIN c = DOMAIN card /\ c.version = 2 /\ c.privacy = card.privacy /\ c.visibility = card.visibility
      /\ c.provisional = card.provisional /\ c.halfLife = card.halfLife /\ c.paths = card.paths
      /\ c.local = card.local /\ c.cloud = card.cloud /\ c.mode = card.mode
      /\ c.sensitivity = IF card.privacy \in Classed THEN card.privacy ELSE "unset"
  BY <1>1, <1>2
<1>4. Migrated(card) = IF card.privacy = "company-private" THEN c
                       ELSE [c EXCEPT !.local = DefaultLocal(card.privacy), !.cloud = DefaultCloud(card.privacy),
                                      !.mode = IF card.privacy = "pointer-only" THEN "pointer" ELSE @]
  BY <1>2 DEF Migrated
<1>5. CASE card.privacy = "company-private"
  BY <1>3, <1>4, <1>5
<1>6. CASE card.privacy # "company-private"
  <2>1. PICK m : m = Migrated(card)
    OBVIOUS
  <2>2. m = [c EXCEPT !.local = DefaultLocal(card.privacy), !.cloud = DefaultCloud(card.privacy),
                      !.mode = IF card.privacy = "pointer-only" THEN "pointer" ELSE @]
    BY <1>4, <1>6, <2>1
  <2>3. /\ m.version = c.version /\ m.privacy = c.privacy /\ m.visibility = c.visibility
        /\ m.provisional = c.provisional /\ m.halfLife = c.halfLife /\ m.paths = c.paths
        /\ m.sensitivity = c.sensitivity
    BY <1>1, <1>3, <2>2
  <2>4. /\ m.local = DefaultLocal(card.privacy) /\ m.cloud = DefaultCloud(card.privacy)
        /\ m.mode = IF card.privacy = "pointer-only" THEN "pointer" ELSE c.mode
    BY <1>1, <1>3, <2>2
  <2> HIDE <1>4
  <2>5. QED
    BY <1>3, <1>6, <2>1, <2>3, <2>4
<1>7. QED
  BY <1>5, <1>6

(* Migration writes out what schema 1 implied, and nothing else: whatever  *)
(* the card, the effective policy is the same and no finding of doctor's   *)
(* about it is new (registry.py:553, access.py:166).                       *)
THEOREM MigrationKeepsPolicy ==
  ASSUME NEW card, NEW registered, EntryValid(card, registered), "paths" \in DOMAIN card, card.version = 1
  PROVE  /\ EffectivePolicy(Migrated(card)) = EffectivePolicy(card)
         /\ PolicyErrors(Migrated(card)) = PolicyErrors(card)
<1>1. PICK m : m = Migrated(card)
  OBVIOUS
<1>2. PICK p : p = card.privacy
  OBVIOUS
<1>3. /\ p \in {"public-reference", "company-private", "personal-local", "digest-only", "pointer-only"}
      /\ card.sensitivity = "unset" /\ card.local = "unset" /\ card.cloud = "unset"
      /\ card.mode = "unset" /\ card.visibility = "unset"
  BY <1>2 DEF EntryValid, FitsVersion, Classed
<1>4. /\ m.privacy = p /\ m.visibility = "unset"
      /\ m.sensitivity = IF p \in Classed THEN p ELSE "unset"
      /\ m.local = IF p = "company-private" THEN "unset" ELSE DefaultLocal(p)
      /\ m.cloud = IF p = "company-private" THEN "unset" ELSE DefaultCloud(p)
      /\ m.mode = IF p = "pointer-only" THEN "pointer" ELSE "unset"
  BY <1>1, <1>2, <1>3, MigratedStates
<1>5. EffectiveSensitivity(m) = EffectiveSensitivity(card)
      /\ EffectiveSensitivity(card) = IF p \in Classed THEN p ELSE "unclassified"
  BY <1>2, <1>3, <1>4 DEF EffectiveSensitivity, Classed, SensitivityRank
<1>6. EffectiveMode(m) = EffectiveMode(card) /\ EffectiveMode(card) = IF p = "pointer-only" THEN "pointer" ELSE "full"
  BY <1>2, <1>3, <1>4 DEF EffectiveMode, Stated
<1>7. EffectiveVisibility(m) = EffectiveVisibility(card)
  BY <1>2, <1>3, <1>4, <1>5 DEF EffectiveVisibility
<1>8. EffectiveLocal(m) = EffectiveLocal(card) /\ (p # "company-private" => EffectiveLocal(m) = DefaultLocal(p))
  BY <1>2, <1>3, <1>4 DEF EffectiveLocal, Stated, Narrower, Rank, DefaultLocal, PrivacyLocal
<1>9. EffectiveCloud(m) = EffectiveCloud(card) /\ (p # "company-private" => EffectiveCloud(m) = DefaultCloud(p))
  BY <1>2, <1>3, <1>4, <1>5
     DEF EffectiveCloud, Stated, Narrower, Rank, DefaultCloud, PrivacyCloud, SensitivityCloud, Classed
<1>10. EffectivePolicy(m) = EffectivePolicy(card)
  BY <1>5, <1>6, <1>7, <1>8, <1>9 DEF EffectivePolicy
<1>11. PolicyErrors(card) = {}
  BY <1>3 DEF PolicyErrors
<1>12. PolicyErrors(m) = {}
  <2>1. /\ m.sensitivity # "unset" => EffectivePolicy(m).sensitivity = m.sensitivity
        /\ m.local # "unset" => EffectivePolicy(m).local = m.local
        /\ m.cloud # "unset" => EffectivePolicy(m).cloud = m.cloud
        /\ m.mode # "unset" => EffectivePolicy(m).mode = m.mode
    BY <1>3, <1>4, <1>5, <1>6, <1>8, <1>9 DEF EffectivePolicy
  <2>2. QED
    BY <2>1 DEF PolicyErrors
<1>13. QED
  BY <1>1, <1>10, <1>11, <1>12

(* The results of a preflight, by what they depend on.                     *)
MatchesOf(rows, decision, authorized) ==
  IF decision = "load" THEN {r \in authorized : ~rows[r].card.provisional} ELSE {}
OffersOf(conf, decision, authorized, matches) ==
  IF decision = "load" THEN DOMAIN conf \ matches ELSE IF Best(conf) >= LoadFloor THEN authorized ELSE DOMAIN conf

Summary(ok, hidden, declined, listed, ask, scored, eligible, conf, matches, offers) ==
  LET status == CASE ok = {} -> "unavailable"
                  [] ok # {} /\ DOMAIN conf # {} -> IF matches # {} THEN "matched" ELSE "ambiguous"
                  [] ok # {} /\ DOMAIN conf = {} /\ scored = {} ->
                       IF ask.tokens # {} /\ hidden # {} THEN "privacy-filtered" ELSE "no-match"
                  [] OTHER -> IF eligible = {} THEN "privacy-filtered" ELSE "no-match"
  IN [status |-> status, matches |-> matches, offers |-> offers, filtered |-> scored \ eligible,
      declined |-> IF ask.tokens = {} THEN {} ELSE declined,
      redacted |-> Cardinality(hidden), issues |-> listed \ ok, confidence |-> Best(conf)]

ConfOf(S, ask) == [r \in S |-> Lexical[r, ask].confidence]

LEMMA PreflightIs ==
  ASSUME NEW rows, NEW ask, NEW model,
         NEW scored, NEW eligible, NEW strong, NEW conf, NEW decision, NEW authorized, NEW matches,
         scored = Scored(rows, ask), eligible = Eligible(rows, ask, model), strong = Strong(rows, ask, model),
         conf = ConfOf(strong, ask), decision = Decision(conf, SoloOf(rows, ask, strong)),
         authorized = Authorized(conf, SoloOf(rows, ask, strong)), matches = MatchesOf(rows, decision, authorized)
  PROVE  Preflight(rows, ask, model) =
           Summary(Ok(rows), Hidden(rows), Declined(rows, ask), DOMAIN rows, ask, scored, eligible, conf, matches,
                   OffersOf(conf, decision, authorized, matches))
<1>1. Preflight(rows, ask, model) = Weighed(rows, ask, scored, eligible, conf, SoloOf(rows, ask, strong))
  BY Zenon DEF Preflight, ConfOf
<1>2. @ = Results(rows, ask, scored, eligible, conf, decision, authorized)
  BY Zenon DEF Weighed
<1>3. @ = Summary(Ok(rows), Hidden(rows), Declined(rows, ask), DOMAIN rows, ask, scored, eligible, conf,
                  MatchesOf(rows, decision, authorized),
                  OffersOf(conf, decision, authorized, MatchesOf(rows, decision, authorized)))
  BY Zenon DEF Results, Summary, MatchesOf, OffersOf
<1>4. QED
  BY <1>1, <1>2, <1>3, Zenon

LEMMA Covers ==
  ASSUME NEW conf, NEW solo
  PROVE  Authorized(conf, solo) \subseteq DOMAIN conf
BY DEF Authorized, Decision, InBand

LEMMA StrongAre ==
  ASSUME NEW rows, NEW ask, NEW model
  PROVE  /\ Strong(rows, ask, model) \subseteq Eligible(rows, ask, model)
         /\ Eligible(rows, ask, model) \subseteq Scored(rows, ask) /\ Scored(rows, ask) \subseteq Ok(rows)
         /\ Ok(rows) \subseteq DOMAIN rows
BY DEF Strong, Eligible, Scored, Ok

(* Catalogs that say the same of every wiki, its card's version apart.     *)
Alike(rows, after) ==
  /\ DOMAIN rows = Roots /\ DOMAIN after = Roots
  /\ \A r \in Roots :
       /\ rows[r] = Broken <=> after[r] = Broken
       /\ rows[r] # Broken => /\ after[r].policy = rows[r].policy /\ after[r].stale = rows[r].stale
                              /\ after[r].card.paths = rows[r].card.paths
                              /\ after[r].card.provisional = rows[r].card.provisional

LEMMA AlikeSets ==
  ASSUME NEW rows, NEW after, Alike(rows, after), NEW ask, NEW model
  PROVE  /\ Ok(after) = Ok(rows) /\ Hidden(after) = Hidden(rows) /\ Declined(after, ask) = Declined(rows, ask)
         /\ Scored(after, ask) = Scored(rows, ask) /\ Eligible(after, ask, model) = Eligible(rows, ask, model)
         /\ Strong(after, ask, model) = Strong(rows, ask, model)
         /\ \A r \in Ok(rows) : AccessLevel(after[r], model) = AccessLevel(rows[r], model)
<1>1. Ok(after) = Ok(rows) /\ Ok(rows) \subseteq Roots
  BY DEF Alike, Ok
<1>2. \A r \in Ok(rows) : after[r].policy = rows[r].policy
  BY DEF Alike, Ok
<1>3. Hidden(after) = Hidden(rows)
  BY <1>1, <1>2 DEF Hidden
<1>4. Declined(after, ask) = Declined(rows, ask) /\ Scored(after, ask) = Scored(rows, ask)
  BY <1>1, <1>3, Zenon DEF Declined, Scored
<1>5. \A r \in Ok(rows) : AccessLevel(after[r], model) = AccessLevel(rows[r], model)
  BY <1>2 DEF AccessLevel
<1>6. Eligible(after, ask, model) = Eligible(rows, ask, model)
  <2>1. Scored(rows, ask) \subseteq Ok(rows)
    BY StrongAre
  <2>2. QED
    BY <1>2, <1>4, <1>5, <2>1 DEF Eligible
<1>7. QED
  BY <1>1, <1>3, <1>4, <1>5, <1>6, Zenon DEF Strong

LEMMA AlikePreflight ==
  ASSUME NEW rows, NEW after, Alike(rows, after), NEW ask, NEW model
  PROVE  Preflight(after, ask, model) = Preflight(rows, ask, model)
<1>1. PICK scored, eligible, strong : /\ scored = Scored(rows, ask) /\ eligible = Eligible(rows, ask, model)
                                      /\ strong = Strong(rows, ask, model)
  OBVIOUS
<1>2. PICK conf : conf = ConfOf(strong, ask)
  OBVIOUS
<1>3. DOMAIN conf = strong /\ strong \subseteq Ok(rows)
  BY <1>1, <1>2, StrongAre DEF ConfOf
<1>4. \A r \in Ok(rows) : after[r].card.provisional = rows[r].card.provisional
  BY DEF Alike, Ok
<1>5. SoloOf(after, ask, strong) = SoloOf(rows, ask, strong)
  BY <1>3, <1>4 DEF SoloOf
<1>6. PICK solo : solo = SoloOf(rows, ask, strong)
  OBVIOUS
<1>7. PICK decision, authorized : decision = Decision(conf, solo) /\ authorized = Authorized(conf, solo)
  OBVIOUS
<1>8. authorized \subseteq Ok(rows)
  BY <1>3, <1>7, Covers
<1>9. MatchesOf(after, decision, authorized) = MatchesOf(rows, decision, authorized)
  BY <1>4, <1>8 DEF MatchesOf
<1>10. PICK matches : matches = MatchesOf(rows, decision, authorized)
  OBVIOUS
<1>11. /\ Preflight(rows, ask, model) =
            Summary(Ok(rows), Hidden(rows), Declined(rows, ask), DOMAIN rows, ask, scored, eligible, conf, matches,
                    OffersOf(conf, decision, authorized, matches))
       /\ Preflight(after, ask, model) =
            Summary(Ok(after), Hidden(after), Declined(after, ask), DOMAIN after, ask, scored, eligible, conf, matches,
                    OffersOf(conf, decision, authorized, matches))
  BY <1>1, <1>2, <1>5, <1>6, <1>7, <1>9, <1>10, PreflightIs, AlikeSets
<1>12. DOMAIN after = DOMAIN rows
  BY DEF Alike
<1>13. QED
  BY <1>11, <1>12, AlikeSets, Zenon

LEMMA AlikeRow ==
  ASSUME NEW rows, NEW after, Alike(rows, after), NEW model, NEW r \in Ok(rows)
  PROVE  /\ after[r].policy = rows[r].policy /\ after[r].card.provisional = rows[r].card.provisional
         /\ after[r].stale = rows[r].stale /\ AccessLevel(after[r], model) = AccessLevel(rows[r], model)
         /\ \A a : AllowedPaths(after[r], a) = AllowedPaths(rows[r], a)
         /\ \A a : Loadable(after[r], a) <=> Loadable(rows[r], a)
<1>1. /\ after[r].policy = rows[r].policy /\ after[r].card.provisional = rows[r].card.provisional
      /\ after[r].stale = rows[r].stale /\ after[r].card.paths = rows[r].card.paths
  BY DEF Alike, Ok
<1>2. AccessLevel(after[r], model) = AccessLevel(rows[r], model)
  BY AlikeSets
<1>3. ASSUME NEW a PROVE AllowedPaths(after[r], a) = AllowedPaths(rows[r], a)
  BY <1>1, Zenon DEF AllowedPaths
<1>4. ASSUME NEW a PROVE Loadable(after[r], a) <=> Loadable(rows[r], a)
  <2>1. (after[r].policy.mode # "pointer") <=> (rows[r].policy.mode # "pointer")
    BY <1>1
  <2>2. ("digest" \in after[r].card.paths) <=> ("digest" \in rows[r].card.paths)
    BY <1>1
  <2>3. QED
    BY <2>1, <2>2, Zenon DEF Loadable, FollowUpLoads
<1>5. QED
  BY <1>1, <1>2, <1>3, <1>4

LEMMA AlikeExisting ==
  ASSUME NEW rows, NEW after, Alike(rows, after), NEW model
  PROVE  ExistingCandidates(after, model) = ExistingCandidates(rows, model)
<1>1. ASSUME NEW r \in Roots
      PROVE  Selectable(after, r, model) <=> Selectable(rows, r, model)
  <2>1. Ok(after) = Ok(rows)
    BY AlikeSets
  <2>2. {q \in DOMAIN after : after[q] # Broken /\ NameOf[q] = NameOf[r]}
          = {q \in DOMAIN rows : rows[q] # Broken /\ NameOf[q] = NameOf[r]}
    BY DEF Alike
  <2>3. ASSUME r \in Ok(rows)
        PROVE  /\ after[r].policy = rows[r].policy /\ after[r].card.provisional = rows[r].card.provisional
               /\ AccessLevel(after[r], model) = AccessLevel(rows[r], model)
               /\ Loadable(after[r], AccessLevel(after[r], model)) <=> Loadable(rows[r], AccessLevel(rows[r], model))
    <3>1. PICK x : x = AccessLevel(rows[r], model)
      OBVIOUS
    <3>2. AccessLevel(after[r], model) = x /\ (Loadable(after[r], x) <=> Loadable(rows[r], x))
          /\ after[r].policy = rows[r].policy /\ after[r].card.provisional = rows[r].card.provisional
      BY <2>3, <3>1, AlikeRow
    <3>3. QED
      BY <3>1, <3>2
  <2>4. QED
    BY <2>1, <2>2, <2>3 DEF Selectable
<1>2. ASSUME NEW r \in Roots, Selectable(rows, r, model)
      PROVE  /\ after[r].stale = rows[r].stale
             /\ AllowedPaths(after[r], AccessLevel(after[r], model)) = AllowedPaths(rows[r], AccessLevel(rows[r], model))
  <2>1. r \in Ok(rows)
    BY <1>2 DEF Selectable
  <2>2. QED
    <3>1. PICK x : x = AccessLevel(rows[r], model)
      OBVIOUS
    <3>2. AccessLevel(after[r], model) = x /\ AllowedPaths(after[r], x) = AllowedPaths(rows[r], x)
          /\ after[r].stale = rows[r].stale
      BY <2>1, <3>1, AlikeRow
    <3>3. QED
      BY <3>1, <3>2
<1>3. QED
  BY <1>1, <1>2 DEF ExistingCandidates, Resolves

LEMMA Silence ==
  ASSUME NEW rows, DOMAIN rows = Roots, NEW ask, NEW model, NEW whole, whole = Preflight(rows, ask, model),
         NEW without, without = [r \in Roots \ (Hidden(rows) \cup whole.declined \cup whole.filtered) |-> rows[r]]
  PROVE  /\ whole.matches = Preflight(without, ask, model).matches
         /\ whole.offers = Preflight(without, ask, model).offers
<1>1. PICK scored, eligible, strong : /\ scored = Scored(rows, ask) /\ eligible = Eligible(rows, ask, model)
                                      /\ strong = Strong(rows, ask, model)
  OBVIOUS
<1>2. PICK conf : conf = ConfOf(strong, ask)
  OBVIOUS
<1>3. DOMAIN conf = strong /\ strong \subseteq eligible /\ eligible \subseteq scored /\ scored \subseteq Ok(rows)
  <2>1. DOMAIN conf = strong
    BY <1>2 DEF ConfOf
  <2>2. QED
    BY <1>1, <2>1, StrongAre
<1>4. PICK solo : solo = SoloOf(rows, ask, strong)
  OBVIOUS
<1>5. PICK decision, authorized : decision = Decision(conf, solo) /\ authorized = Authorized(conf, solo)
  OBVIOUS
<1>6. PICK matches : matches = MatchesOf(rows, decision, authorized)
  OBVIOUS
<1>7. whole = Summary(Ok(rows), Hidden(rows), Declined(rows, ask), DOMAIN rows, ask, scored, eligible, conf, matches,
                      OffersOf(conf, decision, authorized, matches))
  BY <1>1, <1>2, <1>4, <1>5, <1>6, PreflightIs
<1>8. /\ whole.matches = matches /\ whole.offers = OffersOf(conf, decision, authorized, matches)
      /\ whole.filtered = scored \ eligible /\ whole.declined \subseteq Declined(rows, ask)
  BY <1>7 DEF Summary
<1>9. PICK W : W = Hidden(rows) \cup whole.declined \cup whole.filtered
  OBVIOUS
<1>10. /\ DOMAIN without = Roots \ W /\ \A r \in Roots \ W : without[r] = rows[r]
       /\ Ok(rows) \subseteq Roots
  BY <1>9 DEF Ok
<1>11. Ok(without) = Ok(rows) \ W
  BY <1>10 DEF Ok
<1>12. Hidden(without) = {}
  BY <1>9, <1>10, <1>11 DEF Hidden
<1>13. eligible \cap W = {}
  BY <1>1, <1>3, <1>8, <1>9 DEF Scored, Declined
<1>14. Scored(without, ask) = eligible
  <2>1. Scored(without, ask) = {r \in (Ok(rows) \ W) \ ask.vetoes : Lexical[r, ask].matched > 0}
    BY <1>11, <1>12 DEF Scored
  <2>2. \A r \in (Ok(rows) \ W) \ ask.vetoes : (Lexical[r, ask].matched > 0) => r \in scored
    BY <1>1, <1>9, Zenon DEF Scored
  <2>3. \A r \in scored : r \in Ok(rows) /\ r \notin ask.vetoes /\ Lexical[r, ask].matched > 0
    BY <1>1, Zenon DEF Scored
  <2>4. \A r \in scored : r \in W <=> r \notin eligible
    BY <1>1, <1>3, <1>8, <1>9, <1>13 DEF Scored
  <2>5. QED
    BY <2>1, <2>2, <2>3, <2>4, <1>3, Zenon
<1>15. Eligible(without, ask, model) = eligible
  <2>1. \A r \in eligible : without[r] = rows[r]
    BY <1>3, <1>10, <1>13
  <2>2. \A r \in eligible : rows[r].policy.mode = "pointer" \/ AccessLevel(rows[r], model) # "none"
    BY <1>1 DEF Eligible
  <2>3. QED
    BY <1>14, <2>1, <2>2 DEF Eligible
<1>16. Strong(without, ask, model) = strong
  BY <1>1, <1>15, Zenon DEF Strong
<1>17. \A r \in strong : without[r] = rows[r]
  BY <1>3, <1>10, <1>13
<1>18. SoloOf(without, ask, strong) = solo
  BY <1>4, <1>17 DEF SoloOf
<1>19. authorized \subseteq strong
  BY <1>3, <1>5, Covers
<1>20. MatchesOf(without, decision, authorized) = matches
  BY <1>6, <1>17, <1>19 DEF MatchesOf
<1>21. Preflight(without, ask, model) =
         Summary(Ok(without), Hidden(without), Declined(without, ask), DOMAIN without, ask, Scored(without, ask),
                 Eligible(without, ask, model), conf, matches, OffersOf(conf, decision, authorized, matches))
  BY <1>2, <1>5, <1>16, <1>18, <1>20, PreflightIs
<1>22. QED
  BY <1>8, <1>21 DEF Summary

EstateInv ==
  /\ EstateTypeOK
  /\ cards = [r \in Roots |-> cards[r]]

(* A card that is not broken comes from its owner, or from its migration.  *)
LEMMA CardComesFrom ==
  ASSUME EstateInv, NEW r \in Roots, cards[r] # Broken
  PROVE  \E c \in CardsOf[r] \ {Broken} :
           /\ cards[r] \in {c, Migrated(c)} /\ EntryValid(c, r \in Registered) /\ "paths" \in DOMAIN c
           /\ cards[r].version = 1 => cards[r] = c
<1>1. PICK c \in CardsOf[r] \ {Broken} : cards[r] \in {c, Migrated(c)}
  BY DEF EstateInv, EstateTypeOK
<1>2. EntryValid(c, r \in Registered) /\ "paths" \in DOMAIN c
  BY EstateConstants
<1>3. Migrated(c).version = 2
  BY <1>2, MigratedStates
<1>4. QED
  BY <1>1, <1>2, <1>3

LEMMA CatalogSays ==
  ASSUME EstateInv, NEW r \in Roots
  PROVE  /\ DOMAIN Catalog = Roots
         /\ Catalog[r] = Broken <=> cards[r] = Broken
         /\ cards[r] # Broken => /\ Catalog[r].card = cards[r] /\ Catalog[r].policy = EffectivePolicy(cards[r])
                                 /\ Catalog[r].stale = (aged /\ cards[r].halfLife)
<1>1. DOMAIN Catalog = Roots /\ Catalog[r] = CatalogRow(r)
  BY DEF Catalog
<1>2. CASE cards[r] = Broken
  BY <1>1, <1>2 DEF CatalogRow, Usable
<1>3. CASE cards[r] # Broken
  <2>1. PICK s \in BOOLEAN, g \in BOOLEAN : s = (aged /\ cards[r].halfLife) /\ g = (r \in grown)
    <3>1. ((aged /\ cards[r].halfLife) = TRUE) \/ ((aged /\ cards[r].halfLife) = FALSE)
      BY Zenon
    <3>2. ((r \in grown) = TRUE) \/ ((r \in grown) = FALSE)
      OBVIOUS
    <3>3. QED
      BY <3>1, <3>2, Zenon
  <2>2. PICK row : row = [card |-> cards[r], policy |-> EffectivePolicy(cards[r]), stale |-> s, grown |-> g]
    OBVIOUS
  <2>3. Catalog[r] = row
    BY <1>1, <1>3, <2>1, <2>2 DEF CatalogRow, Usable
  <2>4. row # Broken
    BY <1>3, <2>2, CardComesFrom, BrokenIsNone
  <2>5. row.card = cards[r] /\ row.policy = EffectivePolicy(cards[r]) /\ row.stale = s
    BY <2>2
  <2>6. QED
    BY <1>1, <1>3, <2>1, <2>3, <2>4, <2>5
<1>4. QED
  BY <1>2, <1>3

(* The catalog is that of the cards, before a step and after it.           *)
CatalogFacts ==
  /\ DOMAIN Catalog = Roots
  /\ \A r \in Roots :
       /\ Catalog[r] = Broken <=> cards[r] = Broken
       /\ cards[r] # Broken => /\ Catalog[r].card = cards[r] /\ Catalog[r].policy = EffectivePolicy(cards[r])
                               /\ Catalog[r].stale = (aged /\ cards[r].halfLife)

LEMMA CatalogNow == EstateInv => CatalogFacts
<1>1. SUFFICES ASSUME EstateInv PROVE CatalogFacts
  OBVIOUS
<1>2. DOMAIN Catalog = Roots
  BY DEF Catalog
<1>3. QED
  BY <1>1, <1>2, CatalogSays DEF CatalogFacts

LEMMA CatalogNext == EstateInv' => CatalogFacts'
BY CatalogNow, PTL

LEMMA EstateInvInit == EstateInit => EstateInv
<1>1. SUFFICES ASSUME EstateInit PROVE EstateInv
  OBVIOUS
<1>2. cards \in [Roots -> UNION {CardsOf[r] : r \in Roots}] /\ \A r \in Roots : cards[r] \in CardsOf[r]
  BY <1>1 DEF EstateInit
<1>3. edits \in 0..MaxEdits
  BY <1>1, EstateConstants DEF EstateInit
<1>4. artifacts \subseteq Roots /\ grown \subseteq Roots /\ aged \in BOOLEAN
  BY <1>1 DEF EstateInit
<1>5. EstateTypeOK
  BY <1>2, <1>3, <1>4 DEF EstateTypeOK
<1>6. QED
  BY <1>2, <1>5 DEF EstateInv

(* A card that is written, or migrated, is one its owner may have.         *)
LEMMA CardWritten ==
  ASSUME EstateInv, NEW r \in Roots, NEW card,
         card \in CardsOf[r] \cup {Migrated(c) : c \in CardsOf[r] \ {Broken}},
         cards' = [cards EXCEPT ![r] = card]
  PROVE  /\ cards' = [q \in Roots |-> cards'[q]] /\ cards'[r] = card /\ \A q \in Roots \ {r} : cards'[q] = cards[q]
         /\ \A q \in Roots : cards'[q] \in CardsOf[q] \cup {Migrated(c) : c \in CardsOf[q] \ {Broken}}
<1>1. PICK f : f = cards
  OBVIOUS
<1>2. f = [q \in Roots |-> f[q]] /\ cards' = [f EXCEPT ![r] = card]
  BY <1>1 DEF EstateInv
<1>3. /\ cards' = [q \in Roots |-> cards'[q]] /\ cards'[r] = card
      /\ \A q \in Roots \ {r} : cards'[q] = f[q]
  BY <1>2
<1>4. \A q \in Roots : f[q] \in CardsOf[q] \cup {Migrated(c) : c \in CardsOf[q] \ {Broken}}
  BY <1>1 DEF EstateInv, EstateTypeOK
<1>5. QED
  BY <1>1, <1>3, <1>4

LEMMA MigratesOwn ==
  ASSUME EstateInv, NEW r \in Roots, cards[r] # Broken, cards[r].version = 1
  PROVE  /\ cards[r] \in CardsOf[r] \ {Broken} /\ EntryValid(cards[r], r \in Registered)
         /\ "paths" \in DOMAIN cards[r]
BY CardComesFrom

LEMMA EstateInvStep == EstateInv /\ [EstateNext]_esVars => EstateInv'
<1>1. SUFFICES ASSUME EstateInv, [EstateNext]_esVars PROVE EstateInv'
  OBVIOUS
<1>2. CASE UNCHANGED esVars
  BY <1>1, <1>2 DEF esVars, EstateInv, EstateTypeOK
<1>3. ASSUME NEW ask, NEW model, RecordPreflight(ask, model) PROVE EstateInv'
  BY <1>1, <1>3 DEF RecordPreflight, EstateInv, EstateTypeOK
<1>4. ASSUME NEW ask, NEW model, NEW name, SelectOffer(ask, model, name) PROVE EstateInv'
  BY <1>1, <1>4 DEF SelectOffer, EstateInv, EstateTypeOK
<1>5. ASSUME NEW r \in Roots, Migrate(r) PROVE EstateInv'
  <2>1. PICK c : c = cards[r]
    OBVIOUS
  <2>2. cards[r] # Broken /\ cards[r].version = 1 /\ cards' = [cards EXCEPT ![r] = Migrated(c)]
    BY <1>5, <2>1 DEF Migrate, Usable
  <2>3. c \in CardsOf[r] \ {Broken}
    BY <1>1, <2>1, <2>2, MigratesOwn
  <2>4. /\ cards' = [q \in Roots |-> cards'[q]]
        /\ \A q \in Roots : cards'[q] \in CardsOf[q] \cup {Migrated(d) : d \in CardsOf[q] \ {Broken}}
    BY <1>1, <2>2, <2>3, CardWritten
  <2>5. QED
    BY <1>1, <1>5, <2>4 DEF Migrate, EstateInv, EstateTypeOK
<1>6. ASSUME NEW r \in Roots, NEW card \in CardsOf[r], EditCard(r, card) PROVE EstateInv'
  <2>1. /\ cards' = [q \in Roots |-> cards'[q]]
        /\ \A q \in Roots : cards'[q] \in CardsOf[q] \cup {Migrated(d) : d \in CardsOf[q] \ {Broken}}
    BY <1>1, <1>6, CardWritten DEF EditCard
  <2>2. edits' \in 0..MaxEdits
    BY <1>1, <1>6, EstateConstants DEF EditCard, Edited, EstateInv, EstateTypeOK
  <2>3. QED
    BY <1>1, <1>6, <2>1, <2>2 DEF EditCard, Edited, EstateInv, EstateTypeOK
<1>7. ASSUME NEW r \in Roots, FilesMove(r) \/ Grow(r) \/ DayPasses PROVE EstateInv'
  <2>1. edits' \in 0..MaxEdits
    BY <1>1, <1>7, EstateConstants DEF FilesMove, Grow, DayPasses, Edited, EstateInv, EstateTypeOK
  <2>2. cards' = cards /\ artifacts' \subseteq Roots /\ grown' \subseteq Roots /\ aged' \in BOOLEAN
    BY <1>1, <1>7 DEF FilesMove, Grow, DayPasses, EstateInv, EstateTypeOK
  <2>3. QED
    BY <1>1, <2>1, <2>2 DEF EstateInv, EstateTypeOK
<1>8. ASSUME DayPasses PROVE EstateInv'
  BY <1>1, <1>8, EstateConstants DEF DayPasses, Edited, EstateInv, EstateTypeOK
<1>9. QED
  BY <1>1, <1>2, <1>3, <1>4, <1>5, <1>6, <1>7, <1>8, Zenon DEF EstateNext

(* What a selection hands out is what a preflight run now would offer.     *)
LEMMA OfferStep ==
  ASSUME EstateInv, [EstateNext]_esVars, NEW c \in chosen', c \notin chosen
  PROVE  /\ packet.rows = Catalog
         /\ c.root \in Preflight(packet.rows, c.ask, c.model).offers
         /\ cards[c.root] # Broken /\ ~cards[c.root].provisional
         /\ LET p == EffectivePolicy(cards[c.root]) IN
            /\ p.visibility # "hidden" /\ p.mode # "pointer" /\ p[c.model] # "none"
            /\ p[c.model] = "digest-only" => c.allows = {"digest"}
         /\ c.allows # {} => c.root \in artifacts
<1>1. PICK ask \in Asks, model \in ModelClasses, q \in Roots : SelectOffer(ask, model, NameOf[q])
  <2>1. ~UNCHANGED esVars
    BY DEF esVars
  <2>2. \A a, m : ~RecordPreflight(a, m)
    BY DEF RecordPreflight
  <2>3. \A r, card : ~Migrate(r) /\ ~FilesMove(r) /\ ~Grow(r) /\ ~EditCard(r, card) /\ ~DayPasses
    BY DEF Migrate, FilesMove, Grow, EditCard, DayPasses, Edited, Work
  <2>4. QED
    BY <2>1, <2>2, <2>3, Zenon DEF EstateNext
<1>2. PICK rows : rows = packet.rows
  OBVIOUS
<1>3. rows = Catalog /\ packet.result = Preflight(rows, ask, model)
  BY <1>1, <1>2, Zenon DEF SelectOffer, Validated
<1>4. PICK r \in packet.result.offers :
        /\ Selectable(rows, r, model) /\ Resolves(rows, r, model)
        /\ c = [root |-> r, ask |-> ask, model |-> model, allows |-> AllowedPaths(rows[r], AccessLevel(rows[r], model))]
  BY <1>1, <1>2 DEF SelectOffer
<1>5. PICK a : a = AccessLevel(rows[r], model)
  OBVIOUS
<1>6. c.root = r /\ c.ask = ask /\ c.model = model /\ c.allows = AllowedPaths(rows[r], a)
  BY <1>4, <1>5
<1>7. /\ r \in Ok(rows) /\ rows[r].policy.visibility \in {"full", "redacted"} /\ ~rows[r].card.provisional
      /\ rows[r].policy.mode # "pointer" /\ a \in {"full", "digest-only"}
      /\ a = "digest-only" => "digest" \in rows[r].card.paths
  BY <1>4, <1>5 DEF Selectable, Loadable, FollowUpLoads
<1>8. r \in Roots /\ cards[r] # Broken /\ rows[r].card = cards[r] /\ rows[r].policy = EffectivePolicy(cards[r])
  BY <1>3, <1>7, CatalogNow DEF CatalogFacts, Ok
<1>9. rows[r].policy[model] = a
  <2>1. CASE model = "cloud"
    BY <1>5, <2>1 DEF AccessLevel
  <2>2. CASE model = "local"
    BY <1>5, <2>2 DEF AccessLevel
  <2>3. QED
    BY <1>1, <2>1, <2>2 DEF ModelClasses
<1>10. a = "digest-only" => c.allows = {"digest"}
  BY <1>6, <1>7 DEF AllowedPaths
<1>11. c.allows # {} => r \in artifacts
  BY <1>4, <1>5, <1>6 DEF Resolves
<1>12. c.root \in Preflight(rows, c.ask, c.model).offers
  BY <1>3, <1>4, <1>6
<1>13. QED
  BY <1>2, <1>3, <1>6, <1>7, <1>8, <1>9, <1>10, <1>11, <1>12

(* A step that leaves a card migrated is one that writes that card alone.  *)
LEMMA MigrationWrites ==
  ASSUME EstateInv, [EstateNext]_esVars, NEW r \in Roots,
         cards[r] # Broken, cards[r].version = 1, cards'[r] = Migrated(cards[r])
  PROVE  /\ \A q \in Roots \ {r} : cards'[q] = cards[q]
         /\ UNCHANGED <<artifacts, aged>>
<1>1. cards'[r] # cards[r]
  <2>1. PICK c : c = cards[r]
    OBVIOUS
  <2>2. Migrated(c).version = 2
    BY <2>1, MigratesOwn, MigratedStates
  <2>3. QED
    BY <2>1, <2>2
<1>2. ASSUME NEW q \in Roots, Migrate(q)
      PROVE  (\A p \in Roots \ {q} : cards'[p] = cards[p]) /\ UNCHANGED <<artifacts, aged>>
  <2>1. PICK c : c = cards[q]
    OBVIOUS
  <2>2. cards[q] # Broken /\ cards[q].version = 1 /\ cards' = [cards EXCEPT ![q] = Migrated(c)]
    BY <1>2, <2>1 DEF Migrate, Usable
  <2>3. c \in CardsOf[q] \ {Broken}
    BY <2>1, <2>2, MigratesOwn
  <2>4. QED
    BY <1>2, <2>2, <2>3, CardWritten DEF Migrate
<1>3. ASSUME NEW q \in Roots, NEW card \in CardsOf[q], EditCard(q, card)
      PROVE  (\A p \in Roots \ {q} : cards'[p] = cards[p]) /\ UNCHANGED <<artifacts, aged>>
  BY <1>3, CardWritten DEF EditCard
<1>4. PICK q \in Roots : Migrate(q) \/ \E card \in CardsOf[q] : EditCard(q, card)
  BY <1>1 DEF EstateNext, esVars, RecordPreflight, SelectOffer, FilesMove, Grow, DayPasses
<1>5. (\A p \in Roots \ {q} : cards'[p] = cards[p]) /\ UNCHANGED <<artifacts, aged>>
  BY <1>2, <1>3, <1>4
<1>6. QED
  BY <1>1, <1>5

(* A request cannot tell the catalogs before and after a migration apart.  *)
LEMMA MigratedAlike ==
  ASSUME EstateInv, EstateInv', [EstateNext]_esVars, NEW r \in Roots,
         cards[r] # Broken, cards[r].version = 1, cards'[r] = Migrated(cards[r])
  PROVE  Alike(Catalog, Catalog')
<1>1. PICK c, m : c = cards[r] /\ m = Migrated(c)
  OBVIOUS
<1>2. EntryValid(c, r \in Registered) /\ "paths" \in DOMAIN c /\ c.version = 1 /\ c \in CardsOf[r] \ {Broken}
  BY <1>1, MigratesOwn
<1>3. /\ m # Broken /\ m.paths = c.paths /\ m.provisional = c.provisional /\ m.halfLife = c.halfLife
      /\ EffectivePolicy(m) = EffectivePolicy(c)
  BY <1>1, <1>2, MigratedStates, MigrationKeepsPolicy, BrokenIsNone
<1>4. cards'[r] = m /\ (\A q \in Roots \ {r} : cards'[q] = cards[q]) /\ UNCHANGED <<artifacts, aged>>
  BY <1>1, MigrationWrites
<1>5. PICK rows, after : rows = Catalog /\ after = Catalog'
  OBVIOUS
<1>6. /\ DOMAIN rows = Roots
      /\ \A q \in Roots :
           /\ rows[q] = Broken <=> cards[q] = Broken
           /\ cards[q] # Broken => /\ rows[q].card = cards[q] /\ rows[q].policy = EffectivePolicy(cards[q])
                                   /\ rows[q].stale = (aged /\ cards[q].halfLife)
  BY <1>5, CatalogNow DEF CatalogFacts
<1>7. /\ DOMAIN after = Roots
      /\ \A q \in Roots :
           /\ after[q] = Broken <=> cards'[q] = Broken
           /\ cards'[q] # Broken => /\ after[q].card = cards'[q] /\ after[q].policy = EffectivePolicy(cards'[q])
                                    /\ after[q].stale = (aged' /\ cards'[q].halfLife)
  BY <1>5, CatalogNext DEF CatalogFacts
<1>8. ASSUME NEW q \in Roots
      PROVE  /\ rows[q] = Broken <=> after[q] = Broken
             /\ rows[q] # Broken => /\ after[q].policy = rows[q].policy /\ after[q].stale = rows[q].stale
                                    /\ after[q].card.paths = rows[q].card.paths
                                    /\ after[q].card.provisional = rows[q].card.provisional
  <2>1. CASE q = r
    BY <1>1, <1>3, <1>4, <1>6, <1>7, <2>1
  <2>2. CASE q # r
    BY <1>4, <1>6, <1>7, <2>2
  <2>3. QED
    BY <2>1, <2>2
<1>9. Alike(rows, after)
  BY <1>6, <1>7, <1>8 DEF Alike
<1>10. QED
  BY <1>5, <1>9

LEMMA MigrationStep ==
  ASSUME EstateInv, EstateInv', [EstateNext]_esVars, NEW r \in Roots,
         cards[r] # Broken, cards[r].version = 1, cards'[r] = Migrated(cards[r])
  PROVE  /\ PolicyErrors(cards'[r]) = PolicyErrors(cards[r])
         /\ \A rows \in {Catalog}, after \in {Catalog'}, model \in ModelClasses :
              /\ ExistingCandidates(after, model) = ExistingCandidates(rows, model)
              /\ \A ask \in Asks : Preflight(after, ask, model) = Preflight(rows, ask, model)
<1>1. PICK c : c = cards[r]
  OBVIOUS
<1>2. EntryValid(c, r \in Registered) /\ "paths" \in DOMAIN c /\ c.version = 1
  BY <1>1, MigratesOwn
<1>3. PolicyErrors(Migrated(c)) = PolicyErrors(c)
  BY <1>2, MigrationKeepsPolicy
<1>4. PICK rows, after : rows = Catalog /\ after = Catalog'
  OBVIOUS
<1>5. Alike(rows, after)
  BY <1>4, MigratedAlike
<1>6. \A model \in ModelClasses :
        /\ ExistingCandidates(after, model) = ExistingCandidates(rows, model)
        /\ \A ask \in Asks : Preflight(after, ask, model) = Preflight(rows, ask, model)
  BY <1>5, AlikeExisting, AlikePreflight
<1>7. QED
  BY <1>1, <1>3, <1>4, <1>6

LEMMA SilenceNow == EstateInv => WithheldIsSilent
<1>1. SUFFICES ASSUME EstateInv PROVE WithheldIsSilent
  OBVIOUS
<1>2. PICK rows : rows = Catalog
  OBVIOUS
<1>3. DOMAIN rows = Roots
  BY <1>1, <1>2, CatalogNow DEF CatalogFacts
<1>4. ASSUME NEW ask \in Asks, NEW model \in ModelClasses
      PROVE  LET whole    == Preflight(rows, ask, model)
                 withheld == Hidden(rows) \cup whole.declined \cup whole.filtered
                 without  == Preflight([r \in Roots \ withheld |-> rows[r]], ask, model)
             IN whole.matches = without.matches /\ whole.offers = without.offers
  <2>1. PICK whole : whole = Preflight(rows, ask, model)
    OBVIOUS
  <2>2. PICK without : without = [r \in Roots \ (Hidden(rows) \cup whole.declined \cup whole.filtered) |-> rows[r]]
    OBVIOUS
  <2>3. /\ whole.matches = Preflight(without, ask, model).matches
        /\ whole.offers = Preflight(without, ask, model).offers
    BY <1>3, <2>1, <2>2, Silence
  <2>4. QED
    BY <2>1, <2>2, <2>3, Zenon
<1>5. QED
  BY <1>2, <1>4, Zenon DEF WithheldIsSilent

(* An estate offers what is current, migrates unseen, and is silent on what*)
(* it withholds, whatever its wikis, cards and requests are (selection.py: *)
(* 802, registry.py:553, preflight.py:559).                                *)
THEOREM EstateIsKept == EstateSpec => EstateKept
<1>1. EstateInv /\ [EstateNext]_esVars =>
        [\A c \in chosen' \ chosen :
           /\ packet.rows = Catalog
           /\ c.root \in Preflight(packet.rows, c.ask, c.model).offers
           /\ cards[c.root] # Broken /\ ~cards[c.root].provisional
           /\ LET p == EffectivePolicy(cards[c.root]) IN
              /\ p.visibility # "hidden" /\ p.mode # "pointer" /\ p[c.model] # "none"
              /\ p[c.model] = "digest-only" => c.allows = {"digest"}
           /\ c.allows # {} => c.root \in artifacts]_esVars
  BY OfferStep
<1>2. EstateInv /\ EstateInv' /\ [EstateNext]_esVars =>
        [\A r \in Roots :
           cards[r] # Broken /\ cards[r].version = 1 /\ cards'[r] = Migrated(cards[r]) =>
             /\ PolicyErrors(cards'[r]) = PolicyErrors(cards[r])
             /\ \A rows \in {Catalog}, after \in {Catalog'}, model \in ModelClasses :
                  /\ ExistingCandidates(after, model) = ExistingCandidates(rows, model)
                  /\ \A ask \in Asks : Preflight(after, ask, model) = Preflight(rows, ask, model)]_esVars
  BY MigrationStep
<1>3. EstateInv => (subject = "estate" => WithheldIsSilent)
  BY SilenceNow
<1>4. QED
  BY <1>1, <1>2, <1>3, EstateInvInit, EstateInvStep, PTL
     DEF EstateSpec, EstateKept, OffersAreCurrent, MigrationIsInvisible

-----------------------------------------------------------------------------
(* Type correctness                                                        *)

LEMMA GapTypes == GapInv => GapTypeOK
<1>1. SUFFICES ASSUME GapInv PROVE GapTypeOK
  OBVIOUS
<1>2. ASSUME NEW i \in DOMAIN journal
      PROVE  /\ journal[i].gap \in Gaps /\ journal[i].status \in Statuses
             /\ journal[i].serial \in 1 .. serials /\ journal[i].base < journal[i].serial
  <2>1. journal[i] \in Snapshots
    BY <1>1, InLine DEF GapInv, Snapshots
  <2>2. Snapshot(journal[i]) /\ journal[i].serial <= serials
    BY <1>1, <2>1, Zenon DEF GapInv, Lineage
  <2>3. serials \in Nat
    BY <1>1, GapConstants DEF GapInv
  <2>4. QED
    BY <2>2, <2>3 DEF Snapshot
<1>3. QED
  BY <1>1, <1>2 DEF GapInv, GapTypeOK

LEMMA AdoptTypes == AdoptInv => AdoptTypeOK
BY DEF AdoptInv, AdoptShape, Directory, Truthful, MissingIn, AdoptTypeOK

(* Nothing any of these components does leaves a store, a journal or a     *)
(* process in a state the code has no name for (gardening.py:464,          *)
(* research.py:711, adopt.py:203, evidence.py:1200).                       *)
THEOREM TypesAreKept ==
  /\ SelectSpec /\ GapSpec /\ EvidenceSpec /\ ResearchSpec /\ AdoptSpec
  /\ AcceptanceSpec /\ EstateSpec /\ CaptureSpec /\ ExperimentSpec
  => []StoresTypeOK
<1>1. GapSpec => []GapTypeOK
  BY GapInvInit, GapInvStep, GapTypes, PTL DEF GapSpec
<1>2. ResearchSpec => []ResearchTypeOK
  <2>1. JobsInv /\ [ResearchNext]_rsVars => JobsInv'
    BY JobsStep
  <2>2. JobsInv => ResearchTypeOK
    BY DEF JobsInv
  <2>3. QED
    BY <2>1, <2>2, JobsInit, PTL DEF ResearchSpec
<1>3. AdoptSpec => []AdoptTypeOK
  <2>1. AdoptInv /\ [AdoptNext]_adVars => AdoptInv'
    BY AdoptInvStep
  <2>2. QED
    BY <2>1, AdoptInvInit, AdoptTypes, PTL DEF AdoptSpec
<1>4. AcceptanceSpec => []AcceptanceTypeOK
  <2>1. AccInv => AcceptanceTypeOK
    BY DEF AccInv
  <2>2. QED
    BY <2>1, AccInvInit, AccInvStep, PTL DEF AcceptanceSpec
<1>5. EstateSpec => []EstateTypeOK
  <2>1. EstateInv => EstateTypeOK
    BY DEF EstateInv
  <2>2. QED
    BY <2>1, EstateInvInit, EstateInvStep, PTL DEF EstateSpec
<1>6. CaptureSpec => []CaptureTypeOK
  <2>1. CaptureInv /\ [CaptureNext]_cpVars => CaptureInv'
    BY CaptureInvStep
  <2>2. CaptureInv => CaptureTypeOK
    BY DEF CaptureInv
  <2>3. QED
    BY <2>1, <2>2, CaptureInvInit, PTL DEF CaptureSpec
<1>7. ExperimentSpec => []ExperimentTypeOK
  <2>1. ScoreInv /\ [ExperimentNext]_xpVars => ScoreInv'
    BY ScoreInvStep
  <2>2. ScoreInv => ExperimentTypeOK
    BY DEF ScoreInv
  <2>3. QED
    BY <2>1, <2>2, ScoreInvInit, PTL DEF ExperimentSpec
<1>8. QED
  BY <1>1, <1>2, <1>3, <1>4, <1>5, <1>6, <1>7, SelectTypeCorrect, EvidenceTypeCorrect, PTL DEF StoresTypeOK


-----------------------------------------------------------------------------
(* Routes                                                                  *)

Preceding(S, R, x) == {y \in S : <<y, x>> \in R}

(* In a strict total order of n elements every place from 0 to n - 1 is    *)
(* that of one of them: as many are before it.                             *)
LEMMA PlacesInOrder ==
  ASSUME NEW S, IsFiniteSet(S), NEW R,
         \A x \in S : <<x, x>> \notin R,
         \A x, y, z \in S : <<x, y>> \in R /\ <<y, z>> \in R => <<x, z>> \in R,
         \A x, y \in S : x = y \/ <<x, y>> \in R \/ <<y, x>> \in R
  PROVE  /\ Cardinality(S) \in Nat
         /\ \A x \in S : Cardinality(Preceding(S, R, x)) \in 0 .. Cardinality(S) - 1
         /\ \A i \in 0 .. Cardinality(S) - 1 : \E x \in S : Cardinality(Preceding(S, R, x)) = i
<1> DEFINE n == Cardinality(S)
           f == [x \in S |-> Cardinality(Preceding(S, R, x))]
<1>1. n \in Nat
  BY FS_CardinalityType
<1>2. ASSUME NEW x \in S
      PROVE  IsFiniteSet(Preceding(S, R, x)) /\ Cardinality(Preceding(S, R, x)) \in 0 .. n - 1
  <2>1. Preceding(S, R, x) \in SUBSET S /\ Preceding(S, R, x) # S
    BY DEF Preceding
  <2>2. IsFiniteSet(Preceding(S, R, x)) /\ Cardinality(Preceding(S, R, x)) <= n /\ Cardinality(Preceding(S, R, x)) # n
    BY <2>1, FS_Subset
  <2>3. Cardinality(Preceding(S, R, x)) \in Nat
    BY <2>2, FS_CardinalityType
  <2>4. QED
    BY <1>1, <2>2, <2>3
<1>3. ASSUME NEW x \in S, NEW y \in S, <<x, y>> \in R
      PROVE  f[x] < f[y]
  <2>1. Preceding(S, R, x) \in SUBSET Preceding(S, R, y) /\ Preceding(S, R, x) # Preceding(S, R, y)
    BY <1>3 DEF Preceding
  <2>2. Cardinality(Preceding(S, R, x)) <= Cardinality(Preceding(S, R, y)) /\ Cardinality(Preceding(S, R, x)) # Cardinality(Preceding(S, R, y))
    BY <1>2, <2>1, FS_Subset
  <2>3. f[x] = Cardinality(Preceding(S, R, x)) /\ f[y] = Cardinality(Preceding(S, R, y))
    OBVIOUS
  <2>4. Cardinality(Preceding(S, R, x)) \in Int /\ Cardinality(Preceding(S, R, y)) \in Int
    <3>1. 0 .. n - 1 \subseteq Int
      OBVIOUS
    <3>2. QED
      BY <1>2, <3>1
  <2> HIDE DEF f
  <2>5. QED
    BY <2>2, <2>3, <2>4
<1>4. f \in [S -> 0 .. n - 1]
  BY <1>2
<1>5. f \in Injection(S, 0 .. n - 1)
  <2>1. \A x, y \in S : x # y => f[x] # f[y]
    <3>1. \A x \in S : f[x] \in Int
      BY <1>1, <1>4
    <3>2. \A x, y \in S : <<x, y>> \in R => f[x] < f[y]
      BY <1>3
    <3> HIDE DEF f
    <3>3. ASSUME NEW x \in S, NEW y \in S, x # y
          PROVE  f[x] # f[y]
      <4>1. <<x, y>> \in R \/ <<y, x>> \in R
        BY <3>3
      <4>2. f[x] < f[y] \/ f[y] < f[x]
        BY <3>2, <4>1
      <4>3. f[x] \in Int /\ f[y] \in Int
        BY <3>1
      <4>4. QED
        BY <4>2, <4>3
    <3>4. QED
      BY <3>3
  <2>2. QED
    BY <1>4, <2>1 DEF Injection, IsInjective
<1>6. IsFiniteSet(0 .. n - 1) /\ Cardinality(0 .. n - 1) = n
  <2>1. 0 \in Int /\ n - 1 \in Int /\ (IF 0 > n - 1 THEN 0 ELSE n - 1 - 0 + 1) = n
    BY <1>1
  <2> HIDE DEF n
  <2>2. QED
    BY <2>1, FS_Interval
<1>7. f \in Surjection(S, 0 .. n - 1)
  BY <1>5, <1>6, FS_Injection
<1>8. \A i \in 0 .. n - 1 : \E x \in S : f[x] = i
  BY <1>7 DEF Surjection
<1>9. QED
  BY <1>1, <1>2, <1>8

LEMMA MaxOfInts ==
  ASSUME NEW S \in SUBSET Int, IsFiniteSet(S), S # {}
  PROVE  Max(S) \in S /\ \A x \in S : x <= Max(S)
<1> DEFINE R == {p \in S \X S : p[1] > p[2]}
<1>1. \A x, y \in S : <<x, y>> \in R <=> x > y
  OBVIOUS
<1> HIDE DEF R
<1>2. /\ \A x \in S : <<x, x>> \notin R
      /\ \A x, y, z \in S : <<x, y>> \in R /\ <<y, z>> \in R => <<x, z>> \in R
      /\ \A x, y \in S : x = y \/ <<x, y>> \in R \/ <<y, x>> \in R
  BY <1>1
<1>3. Cardinality(S) \in Nat /\ Cardinality(S) # 0
  BY FS_CardinalityType, FS_EmptySet
<1>4. PICK x \in S : Cardinality(Preceding(S, R, x)) = 0
  <2>1. 0 \in 0 .. Cardinality(S) - 1
    BY <1>3
  <2>2. QED
    BY <1>2, <2>1, PlacesInOrder
<1>5. Preceding(S, R, x) = {}
  <2>1. IsFiniteSet(Preceding(S, R, x))
    BY FS_Subset DEF Preceding
  <2>2. QED
    BY <1>4, <2>1, FS_EmptySet
<1>6. ASSUME NEW y \in S
      PROVE  x >= y
  <2>1. <<y, x>> \notin R
    BY <1>5 DEF Preceding
  <2>2. ~(y > x) /\ x \in Int /\ y \in Int
    BY <1>1, <2>1
  <2>3. QED
    BY <2>2
<1>7. Max(S) \in S /\ \A y \in S : Max(S) >= y
  BY <1>6 DEF Max
<1>8. QED
  BY <1>7

Histories(n, St, a, T) ==
  {f \in [0 .. n -> St] : f[0] = a /\ \A k \in 1 .. n : f[k] = T[<<f[k - 1], k>>]}

(* Whatever is done at each of n steps, there is a function of what there  *)
(* is after each.                                                          *)
LEMMA StepByStep ==
  ASSUME NEW n \in Nat, NEW St, NEW a \in St, NEW T \in [St \X (1 .. n) -> St]
  PROVE  Histories(n, St, a, T) # {}
<1> DEFINE Steps(m) == \E f \in [0 .. m -> St] : f[0] = a /\ \A k \in 1 .. m : f[k] = T[<<f[k - 1], k>>]
           Never == {m \in 0 .. n : ~Steps(m)}
<1>1. Steps(0)
  <2>1. [k \in 0 .. 0 |-> a] \in [0 .. 0 -> St] /\ [k \in 0 .. 0 |-> a][0] = a /\ 1 .. 0 = {}
    OBVIOUS
  <2>2. QED
    BY <2>1
<1>2. ASSUME NEW m \in 1 .. n, Steps(m - 1)
      PROVE  Steps(m)
  <2>1. PICK f \in [0 .. m - 1 -> St] : f[0] = a /\ \A k \in 1 .. m - 1 : f[k] = T[<<f[k - 1], k>>]
    BY <1>2
  <2>2. PICK g : g = [k \in 0 .. m |-> IF k = m THEN T[<<f[m - 1], m>>] ELSE f[k]]
    OBVIOUS
  <2>3. T[<<f[m - 1], m>>] \in St
    BY <2>1
  <2>4. g \in [0 .. m -> St] /\ g[0] = a /\ g[m] = T[<<f[m - 1], m>>] /\ \A k \in 0 .. m - 1 : g[k] = f[k]
    BY <2>1, <2>2, <2>3
  <2>5. ASSUME NEW k \in 1 .. m
        PROVE  g[k] = T[<<g[k - 1], k>>]
    <3>1. k - 1 \in 0 .. m - 1 /\ g[k - 1] = f[k - 1]
      BY <2>4
    <3>2. CASE k = m
      BY <2>4, <3>1, <3>2
    <3>3. CASE k # m
      <4>1. k \in 1 .. m - 1 /\ k \in 0 .. m - 1
        BY <3>3
      <4>2. QED
        BY <2>1, <2>4, <3>1, <4>1
    <3>4. QED
      BY <3>2, <3>3
  <2>6. QED
    BY <2>4, <2>5
<1> HIDE DEF Steps
<1>3. Never = {}
  <2>1. SUFFICES ASSUME Never # {} PROVE FALSE
    OBVIOUS
  <2>2. Never \in SUBSET Nat
    OBVIOUS
  <2>3. PICK m \in Never : \A k \in Never : m <= k
    BY <2>1, <2>2, Least
  <2>4. m \in 1 .. n /\ m - 1 \in 0 .. n /\ ~Steps(m)
    BY <1>1, <2>3
  <2>5. Steps(m - 1)
    BY <2>3, <2>4
  <2>6. QED
    BY <1>2, <2>4, <2>5
<1>4. Steps(n)
  BY <1>3
<1>5. QED
  BY <1>4 DEF Steps, Histories

(* The order of the candidates is one of numbers, place by place.          *)
Numbered(c) == \A i \in 1 .. 5 : SortKeys(c)[i] \in Int

LEMMA AheadIs ==
  ASSUME NEW a, NEW b, Numbered(a), Numbered(b)
  PROVE  Ahead(a, b) <=>
           \/ SortKeys(a)[1] < SortKeys(b)[1]
           \/ SortKeys(a)[1] = SortKeys(b)[1] /\ SortKeys(a)[2] < SortKeys(b)[2]
           \/ /\ SortKeys(a)[1] = SortKeys(b)[1] /\ SortKeys(a)[2] = SortKeys(b)[2]
              /\ SortKeys(a)[3] < SortKeys(b)[3]
           \/ /\ SortKeys(a)[1] = SortKeys(b)[1] /\ SortKeys(a)[2] = SortKeys(b)[2]
              /\ SortKeys(a)[3] = SortKeys(b)[3] /\ SortKeys(a)[4] < SortKeys(b)[4]
           \/ /\ SortKeys(a)[1] = SortKeys(b)[1] /\ SortKeys(a)[2] = SortKeys(b)[2]
              /\ SortKeys(a)[3] = SortKeys(b)[3] /\ SortKeys(a)[4] = SortKeys(b)[4]
              /\ SortKeys(a)[5] < SortKeys(b)[5]
<1> DEFINE Tie(k) == \A j \in 1 .. k : SortKeys(a)[j] = SortKeys(b)[j]
<1>1. 1 .. 5 = {1, 2, 3, 4, 5} /\ 1 .. (1 - 1) = {} /\ 1 .. (2 - 1) = {1} /\ 1 .. (3 - 1) = {1, 2}
      /\ 1 .. (4 - 1) = {1, 2, 3} /\ 1 .. (5 - 1) = {1, 2, 3, 4}
  OBVIOUS
<1>2. Ahead(a, b) <=> \E i \in {1, 2, 3, 4, 5} : SortKeys(a)[i] < SortKeys(b)[i] /\ Tie(i - 1)
  BY <1>1 DEF Ahead
<1>3. /\ Tie(1 - 1)
      /\ Tie(2 - 1) <=> SortKeys(a)[1] = SortKeys(b)[1]
      /\ Tie(3 - 1) <=> SortKeys(a)[1] = SortKeys(b)[1] /\ SortKeys(a)[2] = SortKeys(b)[2]
      /\ Tie(4 - 1) <=> /\ SortKeys(a)[1] = SortKeys(b)[1] /\ SortKeys(a)[2] = SortKeys(b)[2]
                        /\ SortKeys(a)[3] = SortKeys(b)[3]
      /\ Tie(5 - 1) <=> /\ SortKeys(a)[1] = SortKeys(b)[1] /\ SortKeys(a)[2] = SortKeys(b)[2]
                        /\ SortKeys(a)[3] = SortKeys(b)[3] /\ SortKeys(a)[4] = SortKeys(b)[4]
  BY <1>1
<1> HIDE DEF Tie
<1>4. QED
  BY <1>2, <1>3

LEMMA RankedIs ==
  ASSUME NEW S, IsFiniteSet(S), \A c \in S : Numbered(c),
         \A a, b \in S : SortKeys(a) = SortKeys(b) => a = b
  PROVE  Cardinality(S) \in Nat /\ Ranked(S) \in [1 .. Cardinality(S) -> S]
<1> DEFINE R == {p \in S \X S : Ahead(p[1], p[2])}
           n == Cardinality(S)
<1>1. \A x, y \in S : <<x, y>> \in R <=> Ahead(x, y)
  OBVIOUS
<1> HIDE DEF R
<1>2. \A x \in S : <<x, x>> \notin R
  <2>1. TAKE x \in S
  <2>2. \A i \in 1 .. 5 : ~(SortKeys(x)[i] < SortKeys(x)[i])
    BY DEF Numbered
  <2>3. ~Ahead(x, x)
    BY <2>2 DEF Ahead
  <2>4. QED
    BY <1>1, <2>3
<1>3. ASSUME NEW x \in S, NEW y \in S, NEW z \in S, <<x, y>> \in R, <<y, z>> \in R
      PROVE  <<x, z>> \in R
  <2>1. Ahead(x, y) /\ Ahead(y, z)
    BY <1>1, <1>3
  <2>2. \A i \in {1, 2, 3, 4, 5} : SortKeys(x)[i] \in Int /\ SortKeys(y)[i] \in Int /\ SortKeys(z)[i] \in Int
    BY DEF Numbered
  <2>3. Ahead(x, z)
    BY <2>1, <2>2, AheadIs
  <2>4. QED
    BY <1>1, <2>3
<1>4. ASSUME NEW x \in S, NEW y \in S, x # y
      PROVE  <<x, y>> \in R \/ <<y, x>> \in R
  <2>1. SortKeys(x) # SortKeys(y)
    BY <1>4
  <2>2. \E i \in {1, 2, 3, 4, 5} : SortKeys(x)[i] # SortKeys(y)[i]
    BY <2>1 DEF SortKeys
  <2>3. \A i \in {1, 2, 3, 4, 5} : SortKeys(x)[i] \in Int /\ SortKeys(y)[i] \in Int
    BY DEF Numbered
  <2>4. Ahead(x, y) \/ Ahead(y, x)
    BY <2>2, <2>3, AheadIs
  <2>5. QED
    BY <1>1, <2>4
<1>5. /\ n \in Nat
      /\ \A i \in 0 .. n - 1 : \E x \in S : Cardinality(Preceding(S, R, x)) = i
  <2>1. \A x, y, z \in S : <<x, y>> \in R /\ <<y, z>> \in R => <<x, z>> \in R
    BY <1>3
  <2>2. \A x, y \in S : x = y \/ <<x, y>> \in R \/ <<y, x>> \in R
    BY <1>4
  <2>3. QED
    BY <1>2, <2>1, <2>2, PlacesInOrder
<1>6. ASSUME NEW c \in S
      PROVE  Preceding(S, R, c) = {d \in S : Ahead(d, c)}
  BY <1>1 DEF Preceding
<1>7. ASSUME NEW i \in 1 .. n
      PROVE  (CHOOSE c \in S : Cardinality({d \in S : Ahead(d, c)}) = i - 1) \in S
  <2>1. i - 1 \in 0 .. n - 1
    BY <1>5
  <2>2. PICK x \in S : Cardinality(Preceding(S, R, x)) = i - 1
    BY <1>5, <2>1
  <2>3. Cardinality({d \in S : Ahead(d, x)}) = i - 1
    BY <1>6, <2>2
  <2>4. QED
    BY <2>3
<1>8. QED
  BY <1>5, <1>7 DEF Ranked

(* The characters of a context are those of each of its candidates.        *)
LEMMA UsedIs ==
  ASSUME NEW S, \A c \in S : Size(c) \in Nat, NEW s \in Seq(S)
  PROVE  \E g \in [0 .. Len(s) -> Nat] :
           /\ Used(s) = g[Len(s)] /\ g[0] = 0
           /\ \A k \in 1 .. Len(s) : g[k] = g[k - 1] + Size(s[k])
<1> DEFINE n == Len(s)
           T == [q \in Nat \X (1 .. n) |-> q[1] + Size(s[q[2]])]
<1>1. n \in Nat /\ \A k \in 1 .. n : s[k] \in S
  OBVIOUS
<1>2. T \in [Nat \X (1 .. n) -> Nat]
  BY <1>1
<1>3. PICK f \in [0 .. n -> Nat] : f[0] = 0 /\ \A k \in 1 .. n : f[k] = T[<<f[k - 1], k>>]
  <2>1. 0 \in Nat
    OBVIOUS
  <2> HIDE DEF n, T
  <2>2. Histories(n, Nat, 0, T) # {}
    BY <1>1, <1>2, <2>1, StepByStep, Zenon
  <2>3. QED
    BY <2>2 DEF Histories
<1>4. \A k \in 1 .. n : f[k] = f[k - 1] + Size(s[k])
  <2>1. TAKE k \in 1 .. n
  <2>2. k - 1 \in 0 .. n
    BY <1>1
  <2>3. f[k - 1] \in Nat
    BY <2>2
  <2>4. T[<<f[k - 1], k>>] = f[k - 1] + Size(s[k])
    BY <2>3
  <2>5. QED
    BY <1>3, <2>4
<1>5. f = [k \in 0 .. n |-> IF k = 0 THEN 0 ELSE f[k - 1] + Size(s[k])]
  <2>1. \A k \in 0 .. n : f[k] = IF k = 0 THEN 0 ELSE f[k - 1] + Size(s[k])
    BY <1>1, <1>3, <1>4
  <2>2. QED
    BY <2>1
<1>6. PICK g : g = CHOOSE h : h = [k \in 0 .. n |-> IF k = 0 THEN 0 ELSE h[k - 1] + Size(s[k])]
  OBVIOUS
<1>7. g = [k \in 0 .. n |-> IF k = 0 THEN 0 ELSE g[k - 1] + Size(s[k])]
  BY <1>5, <1>6
<1>8. Used(s) = g[n]
  BY <1>6 DEF Used
<1>9. DOMAIN g = 0 .. n /\ g[0] = 0 /\ \A k \in 1 .. n : g[k] = g[k - 1] + Size(s[k])
  BY <1>1, <1>7
<1>10. \A k \in 0 .. n : g[k] \in Nat
  <2> DEFINE Odd == {k \in 0 .. n : g[k] \notin Nat}
  <2>1. SUFFICES ASSUME Odd # {} PROVE FALSE
    OBVIOUS
  <2>2. PICK k \in Odd : \A j \in Odd : k <= j
    <3>1. Odd \in SUBSET Nat
      OBVIOUS
    <3>2. QED
      BY <2>1, <3>1, Least
  <2>3. k \in 1 .. n /\ k - 1 \in 0 .. n /\ k - 1 \notin Odd
    BY <1>9, <2>2
  <2>4. g[k - 1] \in Nat /\ Size(s[k]) \in Nat
    BY <1>1, <2>3
  <2>5. g[k] = g[k - 1] + Size(s[k])
    BY <1>9, <2>3
  <2>6. QED
    BY <2>2, <2>4, <2>5
<1>11. g \in [0 .. n -> Nat]
  BY <1>7, <1>10
<1>12. QED
  BY <1>8, <1>9, <1>11

LEMMA UsedOfMore ==
  ASSUME NEW S, \A c \in S : Size(c) \in Nat, NEW s \in Seq(S), NEW c \in S
  PROVE  /\ Used(s) \in Nat /\ Used(<<>>) = 0
         /\ Used(Append(s, c)) = Used(s) + Size(c)
<1> DEFINE n == Len(s)
           m == Append(s, c)
<1>1. /\ n \in Nat /\ m \in Seq(S) /\ Len(m) = n + 1 /\ m[n + 1] = c
      /\ \A k \in 1 .. n : m[k] = s[k]
  OBVIOUS
<1>2. PICK f \in [0 .. n -> Nat] :
         Used(s) = f[n] /\ f[0] = 0 /\ \A k \in 1 .. n : f[k] = f[k - 1] + Size(s[k])
  BY UsedIs
<1> HIDE DEF m
<1>3. PICK g \in [0 .. n + 1 -> Nat] :
         Used(m) = g[n + 1] /\ g[0] = 0 /\ \A k \in 1 .. n + 1 : g[k] = g[k - 1] + Size(m[k])
  <2>1. PICK h \in [0 .. Len(m) -> Nat] :
           Used(m) = h[Len(m)] /\ h[0] = 0 /\ \A k \in 1 .. Len(m) : h[k] = h[k - 1] + Size(m[k])
    BY <1>1, UsedIs
  <2>2. QED
    BY <1>1, <2>1
<1>4. \A k \in 0 .. n : f[k] = g[k]
  <2> DEFINE Odd == {k \in 0 .. n : f[k] # g[k]}
  <2>1. SUFFICES ASSUME Odd # {} PROVE FALSE
    OBVIOUS
  <2>2. PICK k \in Odd : \A j \in Odd : k <= j
    <3>1. Odd \in SUBSET Nat
      BY <1>1
    <3>2. QED
      BY <2>1, <3>1, Least
  <2>3. k \in 1 .. n /\ k \in 1 .. n + 1 /\ k - 1 \in 0 .. n /\ k - 1 \notin Odd
    <3>1. k \in 0 .. n /\ k # 0
      BY <1>2, <1>3, <2>2
    <3>2. ~(k <= k - 1)
      BY <1>1, <3>1
    <3> HIDE DEF Odd
    <3>3. QED
      BY <1>1, <2>2, <3>1, <3>2
  <2>4. f[k - 1] = g[k - 1] /\ f[k] = f[k - 1] + Size(s[k]) /\ g[k] = g[k - 1] + Size(m[k]) /\ m[k] = s[k]
    BY <1>1, <1>2, <1>3, <2>3
  <2>5. f[k] = g[k]
    BY <2>4
  <2>6. QED
    BY <2>2, <2>5
<1>5. g[n + 1] = g[n] + Size(m[n + 1])
  <2>1. n + 1 \in 1 .. n + 1 /\ (n + 1) - 1 = n
    BY <1>1
  <2>2. QED
    BY <1>3, <2>1
<1>6. Used(m) = Used(s) + Size(c)
  <2>1. n \in 0 .. n
    BY <1>1
  <2>2. QED
    BY <1>1, <1>2, <1>3, <1>4, <1>5, <2>1
<1>7. Used(s) \in Nat
  <2>1. n \in 0 .. n
    BY <1>1
  <2>2. QED
    BY <1>2, <2>1
<1>8. Used(<<>>) = 0
  <2>1. <<>> \in Seq(S) /\ Len(<<>>) = 0
    OBVIOUS
  <2>2. PICK h \in [0 .. Len(<<>>) -> Nat] : Used(<<>>) = h[Len(<<>>)] /\ h[0] = 0
    BY <2>1, UsedIs
  <2>3. QED
    BY <2>1, <2>2
<1>9. QED
  BY <1>6, <1>7, <1>8 DEF m

(* What is taken is within the budgets, or the first alone is too large.   *)
WithinBudgets(S, taken) ==
  /\ taken.selected \in Seq(S) /\ Len(taken.selected) <= MaxCandidates
  /\ taken.chars = Used(taken.selected) /\ taken.chars \in Nat
  /\ taken.chars > MaxChars =>
       /\ Len(taken.selected) >= 1 /\ Counted(taken.selected[1])
       /\ \A i \in 2 .. Len(taken.selected) : ~Counted(taken.selected[i])

LEMMA TakeFits ==
  ASSUME NEW S, \A c \in S : c.chars \in Nat, NEW taken, WithinBudgets(S, taken), NEW c \in S
  PROVE  WithinBudgets(S, Take(taken, c)) /\ Len(Take(taken, c).selected) >= 1
<1> DEFINE t == Take(taken, c)
           s == taken.selected
<1>1. \A d \in S : Size(d) \in Nat
  BY DEF Size
<1>2. /\ MaxCandidates \in Nat \ {0} /\ MaxChars \in Nat
      /\ s \in Seq(S) /\ Len(s) \in Nat /\ taken.chars \in Nat /\ c.chars \in Nat
  BY LadderConstants DEF WithinBudgets
<1>3. CASE Len(s) >= MaxCandidates \/ (Counted(c) /\ s # <<>> /\ taken.chars + c.chars > MaxChars)
  <2>1. t = taken
    BY <1>3 DEF Take
  <2>2. Len(s) >= 1
    BY <1>2, <1>3
  <2>3. QED
    BY <2>1, <2>2
<1>4. CASE ~(Len(s) >= MaxCandidates) /\ ~(Counted(c) /\ s # <<>> /\ taken.chars + c.chars > MaxChars)
  <2>1. t = Keep(taken, c)
    BY <1>4 DEF Take
  <2>2. t.selected = Append(s, c) /\ t.chars = taken.chars + Size(c)
    BY <2>1 DEF Keep
  <2>3. /\ Append(s, c) \in Seq(S) /\ Len(Append(s, c)) = Len(s) + 1 /\ Append(s, c)[Len(s) + 1] = c
        /\ \A i \in 1 .. Len(s) : Append(s, c)[i] = s[i]
    BY <1>2
  <2>4. Len(t.selected) <= MaxCandidates /\ Len(t.selected) >= 1
    BY <1>2, <1>4, <2>2, <2>3
  <2>5. t.chars = Used(t.selected) /\ t.chars \in Nat
    <3>1. Used(Append(s, c)) = Used(s) + Size(c)
      BY <1>1, <1>2, UsedOfMore
    <3>2. taken.chars = Used(s) /\ Size(c) \in Nat
      BY <1>1 DEF WithinBudgets
    <3>3. QED
      BY <1>2, <2>2, <3>1, <3>2
  <2>6. ASSUME t.chars > MaxChars
        PROVE  Counted(t.selected[1]) /\ \A i \in 2 .. Len(t.selected) : ~Counted(t.selected[i])
    <3>1. CASE Counted(c)
      <4>1. Size(c) = c.chars
        BY <3>1 DEF Size
      <4>2. s = <<>>
        BY <1>2, <1>4, <2>2, <2>6, <3>1, <4>1
      <4>3. Len(s) = 0
        BY <4>2
      <4>4. QED
        BY <2>2, <2>3, <3>1, <4>3
    <3>2. CASE ~Counted(c)
      <4>1. Size(c) = 0
        BY <3>2 DEF Size
      <4>2. taken.chars > MaxChars
        BY <1>2, <2>2, <2>6, <4>1
      <4>3. Len(s) >= 1 /\ Counted(s[1]) /\ \A i \in 2 .. Len(s) : ~Counted(s[i])
        BY <4>2 DEF WithinBudgets
      <4>4. Append(s, c)[1] = s[1]
        BY <1>2, <2>3, <4>3
      <4>5. ASSUME NEW i \in 2 .. Len(s) + 1
            PROVE  ~Counted(Append(s, c)[i])
        <5>1. CASE i = Len(s) + 1
          BY <2>3, <3>2, <5>1
        <5>2. CASE i # Len(s) + 1
          <6>1. i \in 2 .. Len(s) /\ i \in 1 .. Len(s)
            BY <1>2, <5>2
          <6>2. QED
            BY <2>3, <4>3, <6>1
        <5>3. QED
          BY <5>1, <5>2
      <4>6. QED
        BY <2>2, <2>3, <4>3, <4>4, <4>5
    <3>3. QED
      BY <3>1, <3>2
  <2>7. QED
    BY <2>2, <2>3, <2>4, <2>5, <2>6 DEF WithinBudgets
<1>5. QED
  BY <1>3, <1>4

(* What is selected of candidates is within the budgets, and something is  *)
(* selected if there are any.                                              *)
LEMMA ContextIs ==
  ASSUME NEW S, \A c \in S : c.chars \in Nat, NEW s \in Seq(S)
  PROVE  /\ \E chars \in Nat : WithinBudgets(S, [selected |-> Context(s), chars |-> chars])
         /\ Len(Context(s)) = 0 <=> Len(s) = 0
<1> DEFINE n == Len(s)
           St == {t \in [selected : Seq(S), chars : Nat] : WithinBudgets(S, t)}
           T == [q \in St \X (1 .. n) |-> Take(q[1], s[q[2]])]
<1>1. n \in Nat /\ (\A k \in 1 .. n : s[k] \in S) /\ MaxCandidates \in Nat /\ MaxChars \in Nat
  BY LadderConstants
<1>2. NoContext \in St
  <2>1. NoContext \in [selected : Seq(S), chars : Nat] /\ NoContext.selected = <<>> /\ NoContext.chars = 0
    BY DEF NoContext
  <2>2. Len(<<>>) = 0 /\ <<>> \in Seq(S)
    OBVIOUS
  <2>3. Used(<<>>) = 0
    <3>1. \A c \in S : Size(c) \in Nat
      BY DEF Size
    <3>2. PICK h \in [0 .. Len(<<>>) -> Nat] : Used(<<>>) = h[Len(<<>>)] /\ h[0] = 0
      BY <2>2, <3>1, UsedIs
    <3>3. QED
      BY <2>2, <3>2
  <2>4. QED
    BY <1>1, <2>1, <2>2, <2>3 DEF WithinBudgets
<1>3. ASSUME NEW t \in St, NEW k \in 1 .. n
      PROVE  Take(t, s[k]) \in St /\ Len(Take(t, s[k]).selected) >= 1
  <2>1. s[k] \in S
    BY <1>1
  <2>2. WithinBudgets(S, Take(t, s[k])) /\ Len(Take(t, s[k]).selected) >= 1
    BY <2>1, TakeFits
  <2>3. Take(t, s[k]) \in [selected : Seq(S), chars : Nat]
    <3>1. Take(t, s[k]) = t \/ Take(t, s[k]) = Keep(t, s[k])
      BY DEF Take
    <3>2. t \in [selected : Seq(S), chars : Nat]
      OBVIOUS
    <3>3. CASE Take(t, s[k]) = Keep(t, s[k])
      <4>1. Take(t, s[k]).selected \in Seq(S) /\ Take(t, s[k]).chars \in Nat
        BY <2>2 DEF WithinBudgets
      <4>2. Take(t, s[k]) = [selected |-> Take(t, s[k]).selected, chars |-> Take(t, s[k]).chars]
        BY <3>3 DEF Keep
      <4>3. QED
        BY <4>1, <4>2
    <3>4. QED
      BY <3>1, <3>2, <3>3
  <2>4. QED
    BY <2>2, <2>3
<1>4. T \in [St \X (1 .. n) -> St]
  <2>1. \A q \in St \X (1 .. n) : Take(q[1], s[q[2]]) \in St
    <3>1. TAKE q \in St \X (1 .. n)
    <3>2. q[1] \in St /\ q[2] \in 1 .. n
      OBVIOUS
    <3> HIDE DEF St
    <3>3. QED
      BY <1>3, <3>2
  <2> HIDE DEF St
  <2>2. QED
    BY <2>1
<1>5. PICK f \in Histories(n, St, NoContext, T) : TRUE
  <2> HIDE DEF n, St, T
  <2>1. QED
    BY <1>1, <1>2, <1>4, StepByStep, Zenon
<1> HIDE DEF St
<1>6. f \in [0 .. n -> St] /\ f[0] = NoContext /\ \A k \in 1 .. n : f[k] = T[<<f[k - 1], k>>]
  BY <1>5 DEF Histories
<1>7. ASSUME NEW k \in 1 .. n
      PROVE  f[k - 1] \in St /\ f[k] = Take(f[k - 1], s[k])
  <2>1. k - 1 \in 0 .. n
    BY <1>1
  <2>2. f[k - 1] \in St
    BY <1>6, <2>1
  <2>3. T[<<f[k - 1], k>>] = Take(f[k - 1], s[k])
    BY <2>2
  <2>4. QED
    BY <1>6, <2>2, <2>3
<1> HIDE DEF T
<1>8. f = [k \in 0 .. n |-> IF k = 0 THEN NoContext ELSE Take(f[k - 1], s[k])]
  <2>1. \A k \in 0 .. n : f[k] = IF k = 0 THEN NoContext ELSE Take(f[k - 1], s[k])
    BY <1>1, <1>6, <1>7
  <2>2. QED
    BY <1>6, <2>1
<1>9. PICK g : g = CHOOSE h : h = [k \in 0 .. n |-> IF k = 0 THEN NoContext ELSE Take(h[k - 1], s[k])]
  OBVIOUS
<1>10. g = [k \in 0 .. n |-> IF k = 0 THEN NoContext ELSE Take(g[k - 1], s[k])]
  BY <1>8, <1>9
<1>11. Context(s) = g[n].selected
  BY <1>9 DEF Context
<1>12. g[0] = NoContext /\ \A k \in 1 .. n : g[k] = Take(g[k - 1], s[k])
  BY <1>1, <1>10
<1>13. \A k \in 0 .. n : g[k] \in St
  <2> DEFINE Odd == {k \in 0 .. n : g[k] \notin St}
  <2>1. SUFFICES ASSUME Odd # {} PROVE FALSE
    OBVIOUS
  <2>2. PICK k \in Odd : \A j \in Odd : k <= j
    <3>1. Odd \in SUBSET Nat
      BY <1>1
    <3>2. QED
      BY <2>1, <3>1, Least
  <2>3. k \in 1 .. n /\ k - 1 \in 0 .. n /\ k - 1 \notin Odd
    <3>1. k \in 0 .. n /\ k # 0
      BY <1>2, <1>12, <2>2
    <3>2. ~(k <= k - 1)
      BY <1>1, <3>1
    <3> HIDE DEF Odd
    <3>3. QED
      BY <1>1, <2>2, <3>1, <3>2
  <2>4. g[k - 1] \in St /\ g[k] = Take(g[k - 1], s[k])
    BY <1>12, <2>3
  <2>5. g[k] \in St
    BY <1>3, <2>3, <2>4
  <2>6. QED
    BY <2>2, <2>5
<1>14. g[n] \in St /\ n \in 0 .. n
  BY <1>1, <1>13
<1>15. WithinBudgets(S, [selected |-> Context(s), chars |-> g[n].chars]) /\ g[n].chars \in Nat
  BY <1>11, <1>14 DEF St, WithinBudgets
<1>16. CASE n = 0
  <2>1. Context(s) = <<>>
    BY <1>11, <1>12, <1>16 DEF NoContext
  <2>2. Len(<<>>) = 0
    OBVIOUS
  <2>3. QED
    BY <1>15, <1>16, <2>1, <2>2
<1>17. CASE n # 0
  <2>1. n \in 1 .. n /\ n - 1 \in 0 .. n
    BY <1>1, <1>17
  <2>2. Len(g[n].selected) >= 1
    BY <1>3, <1>12, <1>13, <2>1
  <2>3. Len(Context(s)) # 0
    BY <1>11, <2>2
  <2>4. QED
    BY <1>15, <1>17, <2>3
<1>18. QED
  BY <1>16, <1>17

Strengths == {100, 70, 50, 30}

LEMMA Percentages ==
  /\ IsFiniteSet(0 .. 100) /\ 0 .. 100 \subseteq Int
  /\ IsFiniteSet(Strengths) /\ Strengths \subseteq Int
<1>1. 0 \in Int /\ 100 \in Int /\ 0 .. 100 \subseteq Int
  OBVIOUS
<1>2. IsFiniteSet(0 .. 100)
  BY <1>1, FS_Interval
<1>3. Strengths \in SUBSET (0 .. 100)
  BY DEF Strengths
<1>4. IsFiniteSet(Strengths)
  BY <1>2, <1>3, FS_Subset
<1>5. QED
  BY <1>1, <1>2, <1>3, <1>4

LEMMA Shared ==
  ASSUME NEW query, IsFiniteSet(query), NEW words
  PROVE  IsFiniteSet(query \cap words) /\ Cardinality(query \cap words) \in Nat
BY FS_Subset, FS_CardinalityType

LEMMA ScoresAreNumbers ==
  ASSUME NEW w, NEW query, IsFiniteSet(query)
  PROVE  WikiScore(w, query) \in Nat /\ Cardinality(DigestWords(w, query)) \in Nat
<1>1. Cardinality(DigestWords(w, query)) \in Nat
  <2>1. DigestWords(w, query) = query \cap Lexicon[w].digest \/ DigestWords(w, query) = query \cap {}
    BY DEF DigestWords
  <2>2. QED
    BY <2>1, Shared
<1>2. /\ Cardinality(query \cap Lexicon[w].keyword) \in Nat /\ Cardinality(query \cap Lexicon[w].name) \in Nat
      /\ Cardinality(query \cap Lexicon[w].description) \in Nat
      /\ Cardinality(query \cap (Lexicon[w].card \ Lexicon[w].keyword)) \in Nat
  BY Shared
<1>3. WikiScore(w, query) \in Nat
  BY <1>2 DEF WikiScore
<1>4. QED
  BY <1>1, <1>3

LEMMA SignalsAre ==
  ASSUME NEW query, NEW words,
         NEW kind \in {"trigger", "label", "name", "digest", "target", "text"}
  PROVE  Signal(query \cap words, kind) \in SUBSET (query \X Strengths)
<1>1. Strength(kind) \in Strengths
  BY DEF Strength, Strengths
<1>2. QED
  BY <1>1 DEF Signal

LEMMA WikiSignalsAre ==
  ASSUME NEW w, NEW query
  PROVE  /\ WikiSignals(w, query) \in SUBSET (query \X Strengths)
         /\ Signal(DigestWords(w, query), "digest") \in SUBSET (query \X Strengths)
<1>1. DigestWords(w, query) = query \cap Lexicon[w].digest \/ DigestWords(w, query) = query \cap {}
  BY DEF DigestWords
<1>2. Signal(DigestWords(w, query), "digest") \in SUBSET (query \X Strengths)
  BY <1>1, SignalsAre
<1>3. /\ Signal(query \cap Lexicon[w].keyword, "trigger") \in SUBSET (query \X Strengths)
      /\ Signal(query \cap Lexicon[w].name, "name") \in SUBSET (query \X Strengths)
      /\ Signal(query \cap (Lexicon[w].description \cup Lexicon[w].card), "text") \in SUBSET (query \X Strengths)
  BY SignalsAre
<1>4. QED
  BY <1>2, <1>3 DEF WikiSignals

LEMMA Quotient ==
  ASSUME NEW a \in Int, NEW b \in Nat, b > 0
  PROVE  a \div b \in Int
OBVIOUS

(* A confidence is a number, whatever the signals.                         *)
LEMMA ConfidenceIs ==
  ASSUME NEW query, IsFiniteSet(query), NEW pairs \in SUBSET (query \X Strengths)
  PROVE  RouteConfidence(Merged(pairs), query) \in Int
<1> DEFINE M == Merged(pairs)
           D == {p[1] : p \in pairs}
           n == Cardinality(query)
<1>1. n \in Nat
  BY FS_CardinalityType
<1>2. DOMAIN M = D
  BY DEF Merged
<1>3. D \in SUBSET query
  OBVIOUS
<1>4. Cardinality(D) \in Nat
  BY <1>3, FS_Subset, FS_CardinalityType
<1>5. ASSUME NEW t \in D
      PROVE  M[t] \in Strengths
  <2> DEFINE V == {p[2] : p \in {q \in pairs : q[1] = t}}
  <2>1. M[t] = Max(V)
    BY DEF Merged
  <2>2. V \in SUBSET Strengths /\ V # {}
    OBVIOUS
  <2>3. IsFiniteSet(Strengths) /\ Strengths \subseteq Int
    BY Percentages
  <2>4. IsFiniteSet(V) /\ V \in SUBSET Int
    BY <2>2, <2>3, FS_Subset
  <2> HIDE DEF V
  <2>5. Max(V) \in V
    BY <2>2, <2>4, MaxOfInts
  <2>6. QED
    BY <2>1, <2>2, <2>5
<1>6. Strongest(M) \in Int
  <2> DEFINE V == {0} \cup {M[t] : t \in DOMAIN M}
  <2>1. V \in SUBSET (0 .. 100) /\ V # {}
    <3>1. \A t \in DOMAIN M : M[t] \in 0 .. 100
      <4>1. Strengths \subseteq 0 .. 100
        BY DEF Strengths
      <4> HIDE DEF M, D
      <4>2. QED
        BY <1>2, <1>5, <4>1
    <3> HIDE DEF M
    <3>2. QED
      BY <3>1
  <2>2. IsFiniteSet(0 .. 100) /\ 0 .. 100 \subseteq Int
    BY Percentages
  <2>3. IsFiniteSet(V) /\ V \in SUBSET Int
    BY <2>1, <2>2, FS_Subset
  <2>4. Strongest(M) = Max(V)
    BY DEF Strongest
  <2> HIDE DEF V
  <2>5. QED
    BY <2>1, <2>3, <2>4, MaxOfInts
<1> HIDE DEF M, D
<1>7. CASE n = 0
  BY <1>7 DEF RouteConfidence
<1>8. CASE n # 0
  <2>1. RouteConfidence(M, query) = 60 * Strongest(M) + (8000 * Cardinality(D) + n) \div (2 * n)
    BY <1>2, <1>8 DEF RouteConfidence
  <2>2. 2 * n \in Nat /\ 2 * n > 0 /\ 8000 * Cardinality(D) + n \in Int
    BY <1>1, <1>4, <1>8
  <2>3. (8000 * Cardinality(D) + n) \div (2 * n) \in Int
    BY <2>2, Quotient
  <2>4. 60 * Strongest(M) \in Int
    BY <1>6
  <2>5. QED
    BY <2>1, <2>3, <2>4 DEF M
<1>9. QED
  BY <1>7, <1>8 DEF M

(* What every candidate of a wiki is.                                      *)
Sane(c, w) ==
  /\ Numbered(c) /\ c.chars \in Nat /\ c.confidence \in Int /\ c.wiki = w

LEMMA PositionIs ==
  /\ \A w \in VaultWikis : Position(w) \in Int /\ Shelf[Position(w)] = w
  /\ \A p \in VaultPaths : PathPosition(p) \in Int
<1>1. DOMAIN Shelf \subseteq Int /\ DOMAIN Paths \subseteq Int
  BY LadderConstants
<1>2. ASSUME NEW w \in VaultWikis
      PROVE  Position(w) \in Int /\ Shelf[Position(w)] = w
  <2>1. \E i \in DOMAIN Shelf : Shelf[i] = w
    BY DEF VaultWikis
  <2>2. QED
    BY <1>1, <2>1 DEF Position
<1>3. ASSUME NEW p \in VaultPaths
      PROVE  PathPosition(p) \in Int
  <2>1. \E i \in DOMAIN Paths : Paths[i] = p
    BY DEF VaultPaths
  <2>2. QED
    BY <1>1, <2>1 DEF PathPosition
<1>4. QED
  BY <1>2, <1>3

LEMMA CandidateIs ==
  ASSUME NEW query, IsFiniteSet(query), NEW place, place.chars \in [VaultPaths -> Nat],
         NEW w \in VaultWikis, NEW at \in VaultPaths, NEW kind, NEW score \in Int,
         NEW signals \in SUBSET (query \X Strengths), NEW nth \in Int
  PROVE  /\ Sane(Candidate(w, at, kind, score, signals, query, place, nth), w)
         /\ Candidate(w, at, kind, score, signals, query, place, nth).nth = nth
<1> DEFINE c == Candidate(w, at, kind, score, signals, query, place, nth)
<1>1. /\ c.wiki = w /\ c.at = at /\ c.score = score /\ c.nth = nth
      /\ c.matched = WikiScore(w, query) /\ c.chars = place.chars[at]
      /\ c.confidence = RouteConfidence(Merged(signals), query)
  BY DEF Candidate
<1> HIDE DEF c
<1>2. c.chars \in Nat /\ c.confidence \in Int
  BY <1>1, ConfidenceIs
<1>3. /\ -c.score \in Int /\ PathPosition(c.at) \in Int /\ -c.matched \in Int
      /\ Position(c.wiki) \in Int /\ c.nth \in Int
  BY <1>1, ScoresAreNumbers, PositionIs
<1>4. Numbered(c)
  <2>1. 1 .. 5 = {1, 2, 3, 4, 5}
    OBVIOUS
  <2>2. QED
    BY <1>3, <2>1 DEF Numbered, SortKeys
<1>5. QED
  BY <1>1, <1>2, <1>4 DEF Sane, c

(* The candidates of a set: finitely many, each sane, and of one wiki no   *)
(* two with one number.                                                    *)
Candidates(C, w) ==
  /\ IsFiniteSet(C)
  /\ \A c \in C : Sane(c, w)
  /\ \A c, d \in C : c.nth = d.nth => c = d

LEMMA PagesAre ==
  ASSUME NEW query, IsFiniteSet(query), NEW place, place.chars \in [VaultPaths -> Nat], NEW w \in VaultWikis
  PROVE  Candidates(PageCandidates(w, query, place), w)
<1> DEFINE links == IF "index" \in Lexicon[w].has THEN Lexicon[w].links ELSE <<>>
           labelled(l) == query \cap l.label
           targeted(l) == query \cap (l.target \ l.label)
           signals(l) == WikiSignals(w, query) \cup Signal(DigestWords(w, query), "digest")
                           \cup Signal(labelled(l), "label") \cup Signal(targeted(l), "target")
           score(l) == WikiScore(w, query) + Cardinality(DigestWords(w, query))
                         + 2 * Cardinality(labelled(l)) + Cardinality(targeted(l))
           P(i) == Candidate(w, links[i].page, "page", score(links[i]), signals(links[i]), query, place, i)
           I == {j \in DOMAIN links : query \cap (links[j].label \cup links[j].target) # {}}
           f == [i \in I |-> P(i)]
<1>1. PageCandidates(w, query, place) = {P(i) : i \in I}
  BY DEF PageCandidates
<1>2. \A l : score(l) \in Int
  <2>1. TAKE l
  <2>2. Cardinality(labelled(l)) \in Nat /\ Cardinality(targeted(l)) \in Nat
    BY Shared
  <2>3. WikiScore(w, query) \in Nat /\ Cardinality(DigestWords(w, query)) \in Nat
    BY ScoresAreNumbers
  <2>4. QED
    BY <2>2, <2>3
<1>3. \A l : signals(l) \in SUBSET (query \X Strengths)
  <2>1. TAKE l
  <2>2. Signal(labelled(l), "label") \in SUBSET (query \X Strengths)
    BY SignalsAre
  <2>3. Signal(targeted(l), "target") \in SUBSET (query \X Strengths)
    BY SignalsAre
  <2>4. QED
    BY <2>2, <2>3, WikiSignalsAre
<1>4. links = <<>> \/ links = Lexicon[w].links
  OBVIOUS
<1> HIDE DEF links, score, signals
<1>5. /\ DOMAIN links \in SUBSET Int /\ IsFiniteSet(DOMAIN links)
      /\ \A i \in DOMAIN links : links[i].page \in VaultPaths
  <2>1. CASE links = <<>>
    BY <2>1, FS_EmptySet
  <2>2. CASE links = Lexicon[w].links
    <3>1. /\ Lexicon[w].links \in Seq(Range(Lexicon[w].links))
          /\ \A l \in Range(Lexicon[w].links) : l.page \in VaultPaths
      BY LadderConstants
    <3>2. Len(links) \in Nat /\ DOMAIN links = 1 .. Len(links)
      BY <2>2, <3>1
    <3>3. \A i \in DOMAIN links : links[i] \in Range(Lexicon[w].links)
      BY <2>2 DEF Range
    <3>4. IsFiniteSet(1 .. Len(links))
      <4>1. 1 \in Int /\ Len(links) \in Int
        BY <3>2
      <4>2. QED
        BY <4>1, FS_Interval
    <3>5. QED
      BY <3>1, <3>2, <3>3, <3>4
  <2>3. QED
    BY <1>4, <2>1, <2>2
<1>6. ASSUME NEW i \in I
      PROVE  Sane(P(i), w) /\ P(i).nth = i
  <2>1. i \in Int /\ links[i].page \in VaultPaths
    BY <1>5
  <2>2. QED
    BY <1>2, <1>3, <2>1, CandidateIs
<1>7. IsFiniteSet({P(i) : i \in I})
  <2>1. IsFiniteSet(I)
    BY <1>5, FS_Subset
  <2> HIDE DEF I, P
  <2>2. IsFiniteSet({f[i] : i \in I})
    <3> HIDE DEF f
    <3>1. QED
      BY <2>1, ImageIsFinite
  <2>3. {f[i] : i \in I} = {P(i) : i \in I}
    OBVIOUS
  <2>4. QED
    BY <2>2, <2>3
<1> HIDE DEF I, P
<1>8. \A c \in {P(i) : i \in I} : Sane(c, w)
  BY <1>6
<1>9. \A c, d \in {P(i) : i \in I} : c.nth = d.nth => c = d
  BY <1>6
<1>10. QED
  BY <1>1, <1>7, <1>8, <1>9 DEF Candidates

LEMMA OneCandidate ==
  ASSUME NEW query, IsFiniteSet(query), NEW place, place.chars \in [VaultPaths -> Nat],
         NEW w \in VaultWikis, NEW at \in VaultPaths, NEW kind, NEW score \in Int,
         NEW signals \in SUBSET (query \X Strengths)
  PROVE  Candidates({Candidate(w, at, kind, score, signals, query, place, 0)}, w)
<1> DEFINE c == Candidate(w, at, kind, score, signals, query, place, 0)
<1>1. Sane(c, w)
  <2>1. 0 \in Int
    OBVIOUS
  <2>2. QED
    BY <2>1, CandidateIs
<1> HIDE DEF c
<1>2. IsFiniteSet({c})
  BY FS_Singleton
<1>3. Candidates({c}, w)
  BY <1>1, <1>2 DEF Candidates
<1>4. QED
  BY <1>3 DEF c

LEMMA RungsAre ==
  ASSUME NEW query, IsFiniteSet(query), NEW place, place.chars \in [VaultPaths -> Nat], NEW w \in VaultWikis
  PROVE  /\ Candidates(Rungs(w, query, place), w)
         /\ Rungs(w, query, place) # {}
<1> DEFINE score == WikiScore(w, query)
           bonus == DigestWords(w, query)
           plain == WikiSignals(w, query)
           digest == IF "digest" \in Lexicon[w].has THEN "digest" ELSE "pointer"
           pages == PageCandidates(w, query, place)
           A == {Candidate(w, <<w, "pointer">>, "pointer", score, plain, query, place, 0)}
           B == {Candidate(w, <<w, digest>>, "digest", score, plain, query, place, 0)}
           C == {Candidate(w, <<w, Fallback(w)>>, Fallback(w), score + Cardinality(bonus),
                           plain \cup Signal(bonus, "digest"), query, place, 0)}
<1>1. Rungs(w, query, place) = CASE place.privacy[w] = "pointer-only" -> A
                                 [] place.privacy[w] = "digest-only" -> B
                                 [] OTHER -> IF pages # {} THEN pages ELSE C
  BY DEF Rungs
<1>2. /\ Lexicon[w].has \subseteq {"digest", "index", "card"}
      /\ \A a \in Lexicon[w].has \cup {"pointer"} : <<w, a>> \in VaultPaths
  BY LadderConstants
<1>3. <<w, "pointer">> \in VaultPaths /\ <<w, digest>> \in VaultPaths
  BY <1>2
<1>4. <<w, Fallback(w)>> \in VaultPaths
  <2>1. Fallback(w) \in Lexicon[w].has \cup {"pointer"}
    <3>1. CASE "digest" \in Lexicon[w].has
      BY <3>1 DEF Fallback
    <3>2. CASE "digest" \notin Lexicon[w].has /\ "index" \in Lexicon[w].has
      BY <3>2 DEF Fallback
    <3>3. CASE Lexicon[w].has \cap {"digest", "index"} = {} /\ "card" \in Lexicon[w].has
      BY <3>3 DEF Fallback
    <3>4. CASE Lexicon[w].has = {}
      BY <3>4 DEF Fallback
    <3>5. QED
      BY <1>2, <3>1, <3>2, <3>3, <3>4
  <2>2. QED
    BY <1>2, <2>1
<1>5. score \in Int /\ score + Cardinality(bonus) \in Int
  BY ScoresAreNumbers
<1>6. plain \in SUBSET (query \X Strengths) /\ plain \cup Signal(bonus, "digest") \in SUBSET (query \X Strengths)
  BY WikiSignalsAre
<1>7. Candidates(A, w)
  BY <1>3, <1>5, <1>6, OneCandidate
<1>8. Candidates(B, w)
  BY <1>3, <1>5, <1>6, OneCandidate
<1>9. Candidates(C, w)
  BY <1>4, <1>5, <1>6, OneCandidate
<1>10. Candidates(pages, w)
  BY PagesAre
<1>11. A # {} /\ B # {} /\ C # {}
  OBVIOUS
<1> HIDE DEF A, B, C, pages
<1>12. QED
  BY <1>1, <1>7, <1>8, <1>9, <1>10, <1>11

LEMMA FoundIs ==
  ASSUME NEW query, IsFiniteSet(query), NEW place, place.chars \in [VaultPaths -> Nat]
  PROVE  /\ IsFiniteSet(Found(query, place))
         /\ \A c \in Found(query, place) :
              Numbered(c) /\ c.chars \in Nat /\ c.confidence \in Int /\ c.confidence >= OfferFloor
         /\ \A a, b \in Found(query, place) : SortKeys(a) = SortKeys(b) => a = b
<1> DEFINE W == Descended(query)
           f == [w \in W |-> Rungs(w, query, place)]
           U == UNION {f[w] : w \in W}
<1>1. W \in SUBSET VaultWikis
  BY DEF Descended
<1>2. IsFiniteSet(W)
  <2>1. Len(Shelf) \in Nat /\ DOMAIN Shelf = 1 .. Len(Shelf)
    BY LadderConstants
  <2>2. IsFiniteSet(1 .. Len(Shelf))
    <3>1. 1 \in Int /\ Len(Shelf) \in Int
      BY <2>1
    <3>2. QED
      BY <3>1, FS_Interval
  <2>3. IsFiniteSet(VaultWikis)
    BY <2>1, <2>2, ImageIsFinite DEF VaultWikis
  <2>4. QED
    BY <1>1, <2>3, FS_Subset
<1>3. \A w \in W : f[w] = Rungs(w, query, place) /\ Candidates(f[w], w)
  BY <1>1, RungsAre
<1>4. Found(query, place) = {c \in U : c.confidence >= OfferFloor}
  BY DEF Found
<1> HIDE DEF W, f
<1>5. IsFiniteSet(U)
  <2>1. IsFiniteSet({f[w] : w \in W})
    BY <1>2, ImageIsFinite
  <2>2. \A T \in {f[w] : w \in W} : IsFiniteSet(T)
    BY <1>3 DEF Candidates
  <2>3. QED
    BY <2>1, <2>2, FS_UNION
<1>6. IsFiniteSet(Found(query, place))
  <2>1. Found(query, place) \in SUBSET U
    BY <1>4
  <2> HIDE DEF U
  <2>2. QED
    BY <1>5, <2>1, FS_Subset
<1>7. \A c \in U : \E w \in W : c \in f[w] /\ Sane(c, w)
  BY <1>3 DEF Candidates
<1>8. ASSUME NEW c \in Found(query, place)
      PROVE  Numbered(c) /\ c.chars \in Nat /\ c.confidence \in Int /\ c.confidence >= OfferFloor
  BY <1>4, <1>7 DEF Sane
<1>9. ASSUME NEW a \in Found(query, place), NEW b \in Found(query, place), SortKeys(a) = SortKeys(b)
      PROVE  a = b
  <2>1. PICK v \in W : a \in f[v] /\ Sane(a, v)
    BY <1>4, <1>7
  <2>2. PICK w \in W : b \in f[w] /\ Sane(b, w)
    BY <1>4, <1>7
  <2>3. Position(a.wiki) = Position(b.wiki) /\ a.nth = b.nth
    <3>1. SortKeys(a)[4] = Position(a.wiki) /\ SortKeys(a)[5] = a.nth
      BY DEF SortKeys
    <3>2. SortKeys(b)[4] = Position(b.wiki) /\ SortKeys(b)[5] = b.nth
      BY DEF SortKeys
    <3>3. QED
      BY <1>9, <3>1, <3>2
  <2>4. v = w
    <3>1. a.wiki = v /\ b.wiki = w
      BY <2>1, <2>2 DEF Sane
    <3>2. Shelf[Position(v)] = v /\ Shelf[Position(w)] = w
      BY <1>1, PositionIs
    <3>3. QED
      BY <2>3, <3>1, <3>2
  <2>5. QED
    BY <1>3, <2>1, <2>2, <2>3, <2>4 DEF Candidates
<1>10. QED
  BY <1>6, <1>8, <1>9

(* A load is authorized for those that reach the floor, of which there are *)
(* some: the best one does.                                                *)
LEMMA LoadsReach ==
  ASSUME NEW F, IsFiniteSet(F), NEW conf \in [F -> Int], Decision(conf, NoSolo) = "load"
  PROVE  \A c \in Authorized(conf, NoSolo) : c \in F /\ conf[c] >= LoadFloor
<1> DEFINE V == {0} \cup {conf[c] : c \in DOMAIN conf}
           reached == {c \in DOMAIN conf : conf[c] >= LoadFloor}
<1>1. IsFiniteSet(V) /\ V \in SUBSET Int /\ V # {}
  <2>1. IsFiniteSet({conf[c] : c \in F})
    BY ImageIsFinite
  <2>2. IsFiniteSet({0} \cup {conf[c] : c \in F})
    BY <2>1, FS_Singleton, FS_Union
  <2>3. DOMAIN conf = F
    OBVIOUS
  <2>4. QED
    BY <2>2, <2>3
<1>2. Best(conf) = Max(V)
  BY DEF Best
<1> HIDE DEF V
<1>3. Best(conf) \in V
  BY <1>1, <1>2, MaxOfInts
<1>4. Best(conf) >= LoadFloor
  <2>1. Best(conf) \in Int
    BY <1>1, <1>3
  <2>2. Best(conf) >= LoadFloor \/ Best(conf) >= NoSolo
    BY DEF Decision
  <2>3. QED
    BY <2>1, <2>2 DEF LoadFloor, NoSolo
<1>5. reached # {}
  <2>1. PICK c \in DOMAIN conf : Best(conf) = conf[c]
    BY <1>3, <1>4 DEF V, LoadFloor
  <2>2. QED
    BY <1>4, <2>1
<1>6. Authorized(conf, NoSolo) = reached
  BY <1>5 DEF Authorized
<1>7. QED
  BY <1>6

(* A vault's routes are sound, whatever is asked.                          *)
LEMMA RoutesAreSound ==
  ASSUME NEW text, IsFiniteSet(text), NEW v, v.chars \in [VaultPaths -> Nat]
  PROVE  SoundRoute(text, v, Route(text, v))
<1> DEFINE F == Found(text, v)
           conf == [c \in F |-> c.confidence]
           r == Route(text, v)
           covered == Authorized(conf, NoSolo)
           trusted == {c \in covered : ~c.provisional}
           loads == Decision(conf, NoSolo) = "load" /\ trusted # {}
           S == IF loads THEN trusted ELSE DOMAIN conf
           p == Context(Ranked(S))
<1>1. /\ IsFiniteSet(F)
      /\ \A c \in F : Numbered(c) /\ c.chars \in Nat /\ c.confidence \in Int
      /\ \A a, b \in F : SortKeys(a) = SortKeys(b) => a = b
  BY FoundIs
<1>2. /\ r.decision = (IF p = <<>> THEN "no-match" ELSE IF loads THEN "load" ELSE "offer")
      /\ r.packet = p
      /\ r.offered = (IF loads THEN covered \ trusted ELSE {})
  BY DEF Route, Routed, Packed
<1> HIDE DEF F, r
<1>3. conf \in [F -> Int] /\ DOMAIN conf = F
  BY <1>1
<1>4. loads => \A c \in covered : c \in F /\ c.confidence >= LoadFloor
  <2>1. SUFFICES ASSUME loads PROVE \A c \in covered : c \in F /\ c.confidence >= LoadFloor
    OBVIOUS
  <2>2. \A c \in covered : c \in F /\ conf[c] >= LoadFloor
    <3>1. Decision(conf, NoSolo) = "load"
      BY <2>1
    <3> HIDE DEF conf
    <3>2. QED
      BY <1>1, <1>3, <3>1, LoadsReach
  <2>3. QED
    BY <2>2
<1> HIDE DEF conf, covered
<1>5. S \in SUBSET F /\ IsFiniteSet(S) /\ (S = {} <=> F = {})
  <2>1. S \in SUBSET F
    BY <1>3, <1>4
  <2>2. S = {} <=> F = {}
    BY <1>3, <1>4
  <2> HIDE DEF S
  <2>3. QED
    BY <1>1, <2>1, <2>2, FS_Subset
<1>6. loads => \A c \in S : ~c.provisional /\ c.confidence >= LoadFloor
  BY <1>4
<1> HIDE DEF S, loads, trusted
<1>7. Cardinality(S) \in Nat /\ Ranked(S) \in [1 .. Cardinality(S) -> S]
  BY <1>1, <1>5, RankedIs
<1>8. /\ Ranked(S) \in Seq(S) /\ (Len(Ranked(S)) = 0 <=> F = {})
  <2>1. Ranked(S) \in Seq(S) /\ Len(Ranked(S)) = Cardinality(S)
    BY <1>7
  <2>2. Cardinality(S) = 0 <=> S = {}
    BY <1>5, FS_EmptySet
  <2>3. QED
    BY <1>5, <2>1, <2>2
<1>9. \A c \in S : c.chars \in Nat
  BY <1>1, <1>5
<1>10. PICK chars \in Nat : WithinBudgets(S, [selected |-> p, chars |-> chars])
  <2> HIDE DEF p
  <2>1. \E chars \in Nat : WithinBudgets(S, [selected |-> Context(Ranked(S)), chars |-> chars])
    BY <1>8, <1>9, ContextIs
  <2>2. QED
    BY <2>1 DEF p
<1>11. Len(p) = 0 <=> F = {}
  BY <1>8, <1>9, ContextIs
<1> HIDE DEF p
<1>12. /\ p \in Seq(S) /\ Len(p) <= MaxCandidates
       /\ Used(p) > MaxChars => Len(p) >= 1 /\ Counted(p[1]) /\ \A i \in 2 .. Len(p) : ~Counted(p[i])
  BY <1>10 DEF WithinBudgets
<1>13. Len(p) \in Nat /\ DOMAIN p = 1 .. Len(p) /\ Range(p) \in SUBSET S
  BY <1>12 DEF Range
<1>14. p = <<>> <=> F = {}
  BY <1>11, <1>12
<1>15. Range(p) = {} <=> F = {}
  <2>1. p # <<>> => p[1] \in Range(p)
    BY <1>12 DEF Range
  <2>2. p = <<>> => Range(p) = {}
    BY DEF Range
  <2>3. QED
    BY <1>14, <2>1, <2>2
<1>16. r.decision = "load" => \A c \in Range(p) : ~c.provisional /\ c.confidence >= LoadFloor
  <2>1. r.decision = "load" => loads
    BY <1>2
  <2>2. QED
    BY <1>6, <1>13, <2>1
<1>17. ASSUME Used(p) > MaxChars
       PROVE  {c \in Range(p) : Counted(c)} = {p[1]}
  <2>1. 1 \in DOMAIN p /\ Counted(p[1]) /\ p[1] \in Range(p)
    BY <1>12, <1>13, <1>17 DEF Range
  <2>2. ASSUME NEW c \in Range(p), Counted(c)
        PROVE  c = p[1]
    <3>1. PICK i \in 1 .. Len(p) : c = p[i]
      BY <1>13 DEF Range
    <3>2. i \notin 2 .. Len(p)
      BY <1>12, <1>17, <2>2, <3>1
    <3>3. i = 1
      BY <1>13, <3>1, <3>2
    <3>4. QED
      BY <3>1, <3>3
  <2>3. QED
    BY <2>1, <2>2
<1>18. r.offered # {} => r.decision = "load"
  <2>1. r.offered # {} => loads
    BY <1>2
  <2>2. loads => F # {}
    <3>1. loads => trusted # {} /\ trusted \in SUBSET covered
      BY DEF loads, trusted
    <3>2. QED
      BY <1>4, <3>1
  <2>3. QED
    BY <1>2, <1>14, <2>1, <2>2
<1>19. QED
  BY <1>2, <1>12, <1>15, <1>16, <1>17, <1>18 DEF SoundRoute, F, r

(* Whatever is captured, whatever the vault, its wikis, their words, links *)
(* and sizes, and however small the budgets: what is loaded is trusted and *)
(* reaches the floor by itself, the context is within its budgets unless   *)
(* the best candidate alone is too large, and no match is lost.            *)
THEOREM RoutesStaySound == CaptureSpec => []RouteIsSound
<1>1. CaptureInv => RouteIsSound
  <2>1. SUFFICES ASSUME CaptureInv PROVE RouteIsSound
    OBVIOUS
  <2>2. vault \in Vaults
    BY <2>1 DEF CaptureInv, CaptureTypeOK
  <2>3. ASSUME NEW text \in Texts
        PROVE  <<text, vault, TRUE>> \in Judged
    <3>1. IsFiniteSet(text) /\ vault.chars \in [VaultPaths -> Nat]
      BY <2>2, CaptureConstants
    <3>2. SoundRoute(text, vault, Route(text, vault))
      BY <3>1, RoutesAreSound
    <3>3. SoundRoute(text, vault, Route(text, vault)) = TRUE
      <4>1. SoundRoute(text, vault, Route(text, vault)) \in BOOLEAN
        BY DEF SoundRoute
      <4>2. QED
        BY <3>2, <4>1
    <3>4. <<text, vault, SoundRoute(text, vault, Route(text, vault))>> \in Judged
      BY <2>2 DEF Judged
    <3>5. QED
      BY <3>3, <3>4
  <2>4. QED
    BY <2>3 DEF RouteIsSound
<1>2. CaptureInv /\ [CaptureNext]_cpVars => CaptureInv'
  BY CaptureInvStep
<1>3. QED
  BY <1>1, <1>2, CaptureInvInit, PTL DEF CaptureSpec
=============================================================================
