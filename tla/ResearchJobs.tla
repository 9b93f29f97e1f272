---------------------------- MODULE ResearchJobs ----------------------------
(***************************************************************************)
(* The research commands (cli.py) over their store (research.py): plans,   *)
(* jobs, candidates, packets and outcomes of one wiki.  A command reads,   *)
(* decides, and then stores one record after the other; each store admits  *)
(* the record against the wiki's policy of that moment.  Nothing is locked.*)
(* A job's identifier is a hash over its plan, so a job is named by its    *)
(* plan.  The audit line after each store is left out: nothing reads it.   *)
(***************************************************************************)
EXTENDS Naturals, Sequences

CONSTANTS Hosts,        \* processes that run research commands
          Plans, NoJob,
          Origins,      \* the candidates a discovery may hold
          MaxCommands, MaxPolicyChanges

ASSUME ResearchConstants == MaxCommands \in Nat /\ MaxPolicyChanges \in Nat

VARIABLES permitted,   \* whether the wiki's policy permits research
          records,     \* the plans, packets, outcomes and candidates stored
          jobs,        \* [state, events] of each job
          host,        \* what each process is doing
          commands, policyChanges

rsVars == <<permitted, records, jobs, host, commands, policyChanges>>

Free == [left |-> <<>>]

ResearchInit ==
  /\ permitted = TRUE
  /\ records = {}
  /\ jobs = [p \in Plans |-> NoJob]
  /\ host = [h \in Hosts |-> Free]
  /\ commands = 0 /\ policyChanges = 0

(* A command that will store `left`, one after the other; `seen` is the job*)
(* as it was read.                                                         *)
Command(h, p, why, left) ==
  /\ host[h] = Free
  /\ commands < MaxCommands /\ commands' = commands + 1
  /\ host' = [host EXCEPT ![h] = [why |-> why, plan |-> p, seen |-> jobs[p], left |-> left]]
  /\ UNCHANGED <<permitted, records, jobs, policyChanges>>

JobRecord(state, events) == [kind |-> "jobs", body |-> [state |-> state, events |-> events]]
Receipt(kind, what)      == [kind |-> kind, what |-> what]

(* permission-check and plan: the plan and a job that begins are stored    *)
(* whatever the job was.  Without the policy or the host's authority       *)
(* nothing is.                                                             *)
PermissionCheck(h, p) ==
  permitted /\ Command(h, p, "plan", <<Receipt("plans", p), JobRecord("planned", <<>>)>>)
Plan(h, p) ==
  permitted /\ Command(h, p, "plan", <<Receipt("plans", p), JobRecord("planned", <<>>)>>)

(* Faulty: a discovery is recorded whatever the job's state.               *)
DiscoverAnytime(h, p, o) ==
  /\ permitted /\ jobs[p] # NoJob
  /\ Command(h, p, "discovery",
       <<Receipt("candidates", o), JobRecord("discovering", <<"legacy-discovery">>)>>)

(* record-discovery with a legacy receipt.                                 *)
Discover(h, p, o) ==
  /\ permitted /\ jobs[p] # NoJob /\ jobs[p].state = "planned"
  /\ Command(h, p, "discovery",
       <<Receipt("candidates", o), JobRecord("discovering", <<"legacy-discovery">>)>>)

(* record-discovery with candidates: no job.                               *)
DiscoverCandidates(h, p, o) ==
  permitted /\ Command(h, p, "candidates", <<Receipt("candidates", o)>>)

Cancel(h, p) ==
  /\ permitted /\ jobs[p] # NoJob
  /\ Command(h, p, "cancel", <<JobRecord("cancelled", Append(jobs[p].events, "cancelled"))>>)

(* Both need the stored plan, not the job.                                 *)
Conclude(h, p, kind) ==
  permitted /\ Receipt("plans", p) \in records /\ Command(h, p, kind, <<Receipt(kind, p)>>)
Packet(h, p)  == Conclude(h, p, "packets")
Outcome(h, p) == Conclude(h, p, "outcomes")

-----------------------------------------------------------------------------
(* put: the policy is read again, and for all but plans and candidates the *)
(* stored plan too.  A job may change in its state and events.             *)
Put(h) ==
  /\ host[h] # Free
  /\ LET r == Head(host[h].left)
         rest == Tail(host[h].left)
         p == host[h].plan
         admitted == permitted /\ (r.kind \in {"plans", "candidates"} \/ Receipt("plans", p) \in records)
     IN
     IF ~admitted THEN host' = [host EXCEPT ![h] = Free] /\ UNCHANGED <<records, jobs>>
     ELSE /\ IF r.kind = "jobs"
             THEN jobs' = [jobs EXCEPT ![p] = r.body] /\ UNCHANGED records
             ELSE records' = records \cup {r} /\ UNCHANGED jobs
          /\ host' = [host EXCEPT ![h] = IF rest = <<>> THEN Free ELSE [@ EXCEPT !.left = rest]]
  /\ UNCHANGED <<permitted, commands, policyChanges>>

PolicyChanges ==
  /\ policyChanges < MaxPolicyChanges /\ policyChanges' = policyChanges + 1
  /\ permitted' = ~permitted
  /\ UNCHANGED <<records, jobs, host, commands>>

HostDies(h) ==
  /\ host[h] # Free
  /\ host' = [host EXCEPT ![h] = Free]
  /\ UNCHANGED <<permitted, records, jobs, commands, policyChanges>>

ResearchNext ==
  \/ \E h \in Hosts, p \in Plans :
       \/ PermissionCheck(h, p) \/ Plan(h, p) \/ Cancel(h, p)
       \/ \E o \in Origins : Discover(h, p, o) \/ DiscoverCandidates(h, p, o)
       \/ Packet(h, p) \/ Outcome(h, p)
  \/ \E h \in Hosts : Put(h) \/ HostDies(h)
  \/ PolicyChanges

ResearchSpec == ResearchInit /\ [][ResearchNext]_rsVars

-----------------------------------------------------------------------------

ResearchTypeOK ==
  /\ permitted \in BOOLEAN
  /\ \A p \in Plans : jobs[p] # NoJob => jobs[p].state \in {"planned", "discovering", "cancelled"}
  /\ commands \in 0 .. MaxCommands /\ policyChanges \in 0 .. MaxPolicyChanges

(* What doctor reports: jobs whose plan is not stored.                     *)
OrphanJobs == {p \in Plans : jobs[p] # NoJob /\ Receipt("plans", p) \notin records}

(* No job, packet or outcome is ever stored without its plan, wherever a   *)
(* command is overtaken by another or by a change of the policy, or dies   *)
(* between its two records (cli.py:1609, research.py:667).                 *)
NoOrphans ==
  /\ OrphanJobs = {}
  /\ \A r \in records : r.kind \in {"packets", "outcomes"} => Receipt("plans", r.what) \in records

(* A job that resume would take up again.                                  *)
Resumable(p) == jobs[p] # NoJob /\ jobs[p].state \notin {"cancelled", "answered", "rolled-back"}

(* A cancelled job becomes resumable only when it is planned anew, or      *)
(* through a discovery that read it before it was cancelled                *)
(* (cli.py:1594, 1640, 1963).                                              *)
CancelledStays ==
  [][\A p \in Plans :
       (jobs[p] # NoJob /\ ~Resumable(p) /\ Resumable(p)') =>
         \E h \in Hosts :
           /\ host[h] # Free /\ host[h].plan = p
           /\ host[h].why = "plan" \/ (host[h].why = "discovery" /\ host[h].seen # jobs[p])]_rsVars

(* What the decision record says of these records: exact replay is a no-op,*)
(* and terminal mutation is refused (docs/adr/0012:26-27).  The code plans *)
(* over the cancelled job (cli.py:1609).                                   *)
CancelledIsTerminal ==
  [][\A p \in Plans :
       (jobs[p] # NoJob /\ jobs[p].state = "cancelled") => jobs'[p].state = "cancelled"]_rsVars
=============================================================================
