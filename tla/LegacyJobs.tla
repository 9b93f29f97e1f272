----------------------------- MODULE LegacyJobs -----------------------------
(***************************************************************************)
(* The legacy job journal (research.py): one file for all jobs.  Whoever   *)
(* appends checks its own event against the job's last one; whoever reads  *)
(* checks every event against the one before it and refuses the whole      *)
(* journal otherwise.  These are two pieces of code, and nothing is locked.*)
(***************************************************************************)
EXTENDS Naturals, Sequences, FiniteSetsExt

CONSTANTS Clerks,       \* processes that append
          LegacyJobIds,
          Attempts,     \* attempt ids
          Digests,      \* what policy, card and access digests may be
          NoDigest,     \* the empty digest: the job's own is kept
          ArtifactSets,    \* sets of artifact and contradiction ids
          Unsaid,       \* no such set is given
          AskedStates,  \* the states that are asked for
          PriorEvents,  \* the journals to begin with
          MaxCalls

ASSUME LegacyConstants == NoDigest \in Digests /\ Unsaid \notin ArtifactSets /\ MaxCalls \in Nat

VARIABLES legacy,     \* jobs.jsonl
          clerk,      \* the event each process is about to append
          overlapped, \* history: a process appended on top of what it had not read
          careless,   \* history: an event that no reader accepts was asked for
          calls

lgVars == <<legacy, clerk, overlapped, careless, calls>>

(* LEGACY_TRANSITIONS; a state that is not listed is terminal.             *)
Successors(state) ==
  CASE state = "gap-open"         -> {"permission-check", "cancelled"}
    [] state = "permission-check" -> {"planned", "cancelled", "policy-denied", "approval-required"}
    [] state = "planned"          -> {"discovering", "cancelled"}
    [] state = "discovering"      -> {"retrieving", "cancelled", "budget-exhausted"}
    [] state = "retrieving"       -> {"accepting", "cancelled", "budget-exhausted"}
    [] state = "accepting"        -> {"extracting", "packet-ready", "cancelled"}
    [] state = "extracting"       -> {"reconciling", "cancelled"}
    [] state = "reconciling"      -> {"packet-ready", "cancelled", "unresolved-contradiction"}
    [] OTHER                      -> {}

NoClerk == [phase |-> "none"]

(* Replay: where the events of a job are before i; the last of them counts.*)
Before(j, s, i) == {k \in 1 .. i - 1 : s[k].job = j}
Begun(j, s)     == Before(j, s, Len(s) + 1) # {}
LastEvent(j, s) == s[Max(Before(j, s, Len(s) + 1))]

(* _legacy_events: whether a reader accepts `e` after `prior`.             *)
Resumes(prior, e) ==
  prior.state = "cancelled" /\ e.state = "gap-open" /\ e.attempt # prior.attempt

ReaderAccepts(prior, e) ==
  IF Resumes(prior, e) THEN e.artifacts = {}
  ELSE /\ e.attempt = prior.attempt /\ e.digest = prior.digest
       /\ e.state \in Successors(prior.state)
       /\ prior.state = "accepting" => e.artifacts = prior.artifacts

EventReadable(s, i) ==
  LET before == Before(s[i].job, s, i) IN
  IF before = {} THEN s[i].state = "gap-open" ELSE ReaderAccepts(s[Max(before)], s[i])

Readable(s) == \A i \in DOMAIN s : EventReadable(s, i)

(* What may have been written before.                                      *)
ASSUME LegacyHistory == \A s \in PriorEvents : s = [i \in 1 .. Len(s) |-> s[i]] /\ Len(s) \in Nat /\ Readable(s)

LegacyInit ==
  /\ legacy \in PriorEvents
  /\ clerk = [k \in Clerks |-> NoClerk]
  /\ overlapped = FALSE /\ careless = FALSE /\ calls = 0

(* transition: the event that is going to be appended.                     *)
Appending(k, e, odd) ==
  /\ clerk' = [clerk EXCEPT ![k] = [phase |-> "append", event |-> e, seen |-> legacy]]
  /\ careless' = (careless \/ odd)
  /\ calls' = calls + 1
  /\ UNCHANGED <<legacy, overlapped>>

(* The first event of a job is taken as it is: start() makes it gap-open.  *)
FirstEvent(k, j, state, attempt, digest, given) ==
  /\ clerk[k] = NoClerk /\ calls < MaxCalls
  /\ Readable(legacy) /\ ~Begun(j, legacy)
  /\ LET e == [job |-> j, state |-> state, attempt |-> attempt, digest |-> digest,
               artifacts |-> IF given = Unsaid THEN {} ELSE given]
     IN Appending(k, e, state # "gap-open")

(* Faulty: accepted artifacts may be changed by the event that follows.    *)
NextEventReopens(k, j, state, attempt, digest, given) ==
  /\ clerk[k] = NoClerk /\ calls < MaxCalls
  /\ Readable(legacy) /\ Begun(j, legacy)
  /\ LET now     == LastEvent(j, legacy)
         resumed == Resumes(now, [state |-> state, attempt |-> attempt])
         kept    == IF resumed THEN {} ELSE now.artifacts
         e == [job |-> j, state |-> state, attempt |-> attempt,
               digest |-> IF digest = NoDigest THEN now.digest ELSE digest,
               artifacts |-> IF given = Unsaid THEN kept ELSE given]
     IN /\ attempt = now.attempt \/ resumed
        /\ resumed \/ state \in Successors(now.state)
        /\ Appending(k, e, IF resumed THEN e.artifacts # {} ELSE e.digest # now.digest)

(* An exact replay changes nothing; a repeat of the state that differs, and*)
(* a step the table does not have, are refused.  The digests may change and*)
(* a resumption may bring artifacts, which no reader accepts.              *)
NextEvent(k, j, state, attempt, digest, given) ==
  /\ clerk[k] = NoClerk /\ calls < MaxCalls
  /\ Readable(legacy) /\ Begun(j, legacy)
  /\ LET now     == LastEvent(j, legacy)
         resumed == Resumes(now, [state |-> state, attempt |-> attempt])
         kept    == IF resumed THEN {} ELSE now.artifacts
         e == [job |-> j, state |-> state, attempt |-> attempt,
               digest |-> IF digest = NoDigest THEN now.digest ELSE digest,
               artifacts |-> IF given = Unsaid THEN kept ELSE given]
     IN /\ attempt = now.attempt \/ resumed
        /\ resumed \/ state \in Successors(now.state)
        /\ now.state = "accepting" => e.artifacts = now.artifacts
        /\ Appending(k, e, IF resumed THEN e.artifacts # {} ELSE e.digest # now.digest)

(* The journal is read, and checked, once more and replaced.               *)
AppendEvent(k) ==
  /\ clerk[k] # NoClerk
  /\ IF clerk[k].phase = "append"
     THEN /\ clerk' = [clerk EXCEPT ![k] = IF Readable(legacy)
                         THEN [phase |-> "replace", event |-> @.event, seen |-> legacy,
                               checked |-> @.seen] ELSE NoClerk]
          /\ UNCHANGED <<legacy, overlapped>>
     ELSE /\ legacy' = Append(clerk[k].seen, clerk[k].event)
          /\ overlapped' = (overlapped \/ clerk[k].seen # legacy \/ clerk[k].checked # clerk[k].seen)
          /\ clerk' = [clerk EXCEPT ![k] = NoClerk]
  /\ UNCHANGED <<careless, calls>>

LegacyNext ==
  \E k \in Clerks :
    \/ \E j \in LegacyJobIds, s \in AskedStates, a \in Attempts, d \in Digests, g \in ArtifactSets \cup {Unsaid} :
         FirstEvent(k, j, s, a, d, g) \/ NextEvent(k, j, s, a, d, g)
    \/ AppendEvent(k)

LegacySpec == LegacyInit /\ [][LegacyNext]_lgVars

-----------------------------------------------------------------------------

(* The two sets of rules agree: no appended event makes the journal        *)
(* unreadable, which would take every job's history with it, unless two    *)
(* processes appended at once or the caller was careless: a first event    *)
(* that is not gap-open, new digests, a resumption that brings artifacts   *)
(* (research.py:873, 711).                                                 *)
StaysReadable == overlapped \/ careless \/ Readable(legacy)
=============================================================================
