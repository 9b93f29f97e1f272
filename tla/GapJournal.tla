----------------------------- MODULE GapJournal -----------------------------
(***************************************************************************)
(* The gap journal, the audit log and the wiki log (gardening.py), and the *)
(* ingestion of research results.  Every append reads the file and replaces*)
(* it, nothing is locked, and the three records of one event are three     *)
(* writes.  `serial` and `base` are history: they name each snapshot and   *)
(* the one it was computed from.  All events happen on one day and in a    *)
(* vault that has a wiki/log.md, where two events can share an id.         *)
(***************************************************************************)
EXTENDS Naturals, Sequences, SequencesExt, FiniteSets

CONSTANTS Gardeners,      \* processes that run gap and research-result commands
          Gaps,           \* semantic identities
          Correlations,   \* research nominations
          Sources,        \* what a result may hold
          NoSources,      \* no proposal file
          Asked,          \* the statuses that are asked for
          MaxSnapshots, MaxGardenDeaths

ASSUME GapConstants ==
  /\ NoSources \notin Sources
  /\ MaxSnapshots \in Nat /\ MaxGardenDeaths \in Nat

VARIABLES journal,      \* gaps.jsonl: a sequence of snapshots
          proposal,     \* the proposal file of each correlation
          gapAudit,     \* the snapshots and correlations in the audit log
          wikiLog,      \* the ids of the events in wiki/log.md
          gardener,     \* what each process is doing
          serials,      \* history: how many snapshots and proposals were ever computed
          excused,      \* history: the events a death or a race kept from the records
          gardenDeaths

gapVars == <<journal, proposal, gapAudit, wikiLog, gardener, serials, excused, gardenDeaths>>
gapHistory == <<excused, gardenDeaths>>

Statuses == {"open", "nominated", "planned", "in_progress", "paused",
             "resolved", "rejected", "superseded"}

(* _ALLOWED_TRANSITIONS                                                    *)
Allowed(from, to) ==
  to \in CASE from = "open"        -> {"nominated", "planned", "rejected", "resolved"}
           [] from = "nominated"   -> {"planned", "open", "rejected", "paused"}
           [] from = "planned"     -> {"in_progress", "paused", "open"}
           [] from = "in_progress" -> {"resolved", "paused", "rejected", "open", "superseded"}
           [] from = "paused"      -> {"planned", "open", "rejected"}
           [] from = "rejected"    -> {"open", "superseded"}
           [] from = "resolved"    -> {"open", "superseded"}
           [] from = "superseded"  -> {}

Rest == [phase |-> "rest"]
Doing(w, phase) == gardener[w].phase = phase
Turn(w, phase)  == gardener' = [gardener EXCEPT ![w].phase = phase]
Resting(w)      == gardener' = [gardener EXCEPT ![w] = Rest]

(* Replay: the latest snapshot of each gap wins.                           *)
Of(g)     == {i \in DOMAIN journal : journal[i].gap = g}
Known(g)  == Of(g) # {}
Latest(g) == journal[Max(Of(g))]

(* The content hash of a log event: the day, the kind, the status and the  *)
(* gap.                                                                    *)
EventId(s) == <<s.gap, s.event, s.status>>

GapInit ==
  /\ journal = <<>>
  /\ proposal = [c \in Correlations |-> NoSources]
  /\ gapAudit = {} /\ wikiLog = {}
  /\ gardener = [w \in Gardeners |-> Rest]
  /\ serials = 0
  /\ excused = {} /\ gardenDeaths = 0

-----------------------------------------------------------------------------
(* gap create, transition and attempt: the record is read and changed.     *)

Start(w, s) ==
  /\ Doing(w, "rest")
  /\ serials < MaxSnapshots
  /\ serials' = serials + 1
  /\ gardener' = [gardener EXCEPT ![w] =
       [phase |-> "reread", snapshot |-> [s EXCEPT !.serial = serials + 1]]]
  /\ UNCHANGED <<journal, proposal, gapAudit, wikiLog, gapHistory>>

(* A gap with the same identity is returned as it is.                      *)
Create(w, g) ==
  /\ ~Known(g)
  /\ Start(w, [gap |-> g, status |-> "open", event |-> "created", attempts |-> 0,
               rejected |-> FALSE, serial |-> 0, base |-> 0])

(* Faulty: the table is looked up for the status that is asked for.        *)
TransitionAnywhere(w, g, to) ==
  /\ Known(g)
  /\ to # Latest(g).status
  /\ Start(w, [Latest(g) EXCEPT !.status = to, !.event = "transition", !.base = Latest(g).serial,
                 !.rejected = to = "rejected" \/ (@ /\ to # "open")])

(* A repeat of the status changes nothing, another illegal one is refused. *)
Transition(w, g, to) ==
  /\ Known(g)
  /\ to # Latest(g).status /\ Allowed(Latest(g).status, to)
  /\ Start(w, [Latest(g) EXCEPT !.status = to, !.event = "transition", !.base = Latest(g).serial,
                 !.rejected = to = "rejected" \/ (@ /\ to # "open")])

Attempt(w, g) ==
  /\ Known(g)
  /\ Start(w, [Latest(g) EXCEPT !.attempts = @ + 1, !.event = "attempt", !.base = Latest(g).serial])

-----------------------------------------------------------------------------
(* GapStore._append                                                        *)

(* The journal is read once more, to be extended ...                       *)
Reread(w) ==
  /\ Doing(w, "reread")
  /\ gardener' = [gardener EXCEPT ![w] =
       [phase |-> "append", snapshot |-> @.snapshot, old |-> journal]]
  /\ UNCHANGED <<journal, proposal, gapAudit, wikiLog, serials, gapHistory>>

(* Faulty: the journal is compacted to the snapshots that count.           *)
Compacted(s) == SelectSeq(s, LAMBDA x : \A y \in Range(s) : x.gap = y.gap => x.serial >= y.serial)
AppendCompacted(w) ==
  /\ Doing(w, "append")
  /\ journal' = Compacted(Append(gardener[w].old, gardener[w].snapshot))
  /\ Turn(w, "audit")
  /\ UNCHANGED <<proposal, gapAudit, wikiLog, serials, gapHistory>>

(* ... and replaced by what was read and one line more.                    *)
AppendSnapshot(w) ==
  /\ Doing(w, "append")
  /\ journal' = Append(gardener[w].old, gardener[w].snapshot)
  /\ Turn(w, "audit")
  /\ UNCHANGED <<proposal, gapAudit, wikiLog, serials, gapHistory>>

AuditSnapshot(w) ==
  /\ Doing(w, "audit")
  /\ gapAudit' = gapAudit \cup {gardener[w].snapshot.serial}
  /\ Turn(w, "log")
  /\ UNCHANGED <<journal, proposal, wikiLog, serials, gapHistory>>

-----------------------------------------------------------------------------
(* append_log_event: an event whose id is in the log is not written again. *)

IdOf(w) == IF "snapshot" \in DOMAIN gardener[w]
           THEN EventId(gardener[w].snapshot) ELSE gardener[w].correlation

ReadLog(w) ==
  /\ Doing(w, "log")
  /\ IF IdOf(w) \in wikiLog
     THEN Resting(w)
     ELSE gardener' = [gardener EXCEPT ![w] = [phase |-> "write", id |-> IdOf(w), old |-> wikiLog]]
  /\ UNCHANGED <<journal, proposal, gapAudit, wikiLog, serials, gapHistory>>

(* Faulty: the log is rewritten with the event alone.                      *)
WriteLogAlone(w) ==
  /\ Doing(w, "write")
  /\ wikiLog' = {gardener[w].id}
  /\ excused' = excused \cup (wikiLog \ gardener[w].old)
  /\ Resting(w)
  /\ UNCHANGED <<journal, proposal, gapAudit, serials, gardenDeaths>>

(* The events that another process has logged since are lost with it.     *)
WriteLog(w) ==
  /\ Doing(w, "write")
  /\ wikiLog' = gardener[w].old \cup {gardener[w].id}
  /\ excused' = excused \cup (wikiLog \ gardener[w].old)
  /\ Resting(w)
  /\ UNCHANGED <<journal, proposal, gapAudit, serials, gardenDeaths>>

-----------------------------------------------------------------------------
(* ingest_research_result: a proposal that exists is either the same, and  *)
(* nothing more happens, or the result is refused.                         *)

Ingest(w, c, s) ==
  /\ Doing(w, "rest")
  /\ proposal[c] = NoSources
  /\ serials < MaxSnapshots
  /\ serials' = serials + 1
  /\ gardener' = [gardener EXCEPT ![w] = [phase |-> "propose", correlation |-> c, sources |-> s]]
  /\ UNCHANGED <<journal, proposal, gapAudit, wikiLog, gapHistory>>

WriteResult(w) ==
  /\ Doing(w, "propose")
  /\ proposal' = [proposal EXCEPT ![gardener[w].correlation] = gardener[w].sources]
  /\ Turn(w, "auditProposal")
  /\ UNCHANGED <<journal, gapAudit, wikiLog, serials, gapHistory>>

AuditProposal(w) ==
  /\ Doing(w, "auditProposal")
  /\ gapAudit' = gapAudit \cup {gardener[w].correlation}
  /\ Turn(w, "log")
  /\ UNCHANGED <<journal, proposal, wikiLog, serials, gapHistory>>

-----------------------------------------------------------------------------

(* What a process has made durable and not accounted for yet.              *)
Unaccounted(w) ==
  IF gardener[w].phase \in {"audit", "auditProposal", "log"} THEN {IdOf(w)}
  ELSE IF gardener[w].phase = "write" THEN {gardener[w].id} ELSE {}

GardenerDies(w) ==
  /\ ~Doing(w, "rest")
  /\ gardenDeaths < MaxGardenDeaths
  /\ gardenDeaths' = gardenDeaths + 1
  /\ excused' = excused \cup Unaccounted(w)
  /\ Resting(w)
  /\ UNCHANGED <<journal, proposal, gapAudit, wikiLog, serials>>

GapProgress(w) ==
  \/ Reread(w) \/ AppendSnapshot(w) \/ AuditSnapshot(w) \/ ReadLog(w) \/ WriteLog(w)
  \/ WriteResult(w) \/ AuditProposal(w)

GapNext ==
  \E w \in Gardeners :
    \/ \E g \in Gaps : Create(w, g) \/ Attempt(w, g)
    \/ \E g \in Gaps, to \in Asked : Transition(w, g, to)
    \/ \E c \in Correlations, s \in Sources : Ingest(w, c, s)
    \/ GapProgress(w)
    \/ GardenerDies(w)

GapFairness == \A w \in Gardeners : WF_gapVars(GapProgress(w))
GapSpec == GapInit /\ [][GapNext]_gapVars /\ GapFairness

-----------------------------------------------------------------------------

GapTypeOK ==
  /\ \A i \in DOMAIN journal :
       /\ journal[i].gap \in Gaps /\ journal[i].status \in Statuses
       /\ journal[i].serial \in 1 .. serials /\ journal[i].base < journal[i].serial
  /\ proposal \in [Correlations -> Sources \cup {NoSources}]
  /\ gapAudit \subseteq (1 .. serials) \cup Correlations
  /\ serials \in 0 .. MaxSnapshots /\ gardenDeaths \in 0 .. MaxGardenDeaths

(* No line of the journal is ever changed or lost, except by a process that*)
(* read it before another one replaced it (gardening.py:476, 506).         *)
OnlyRacesLose ==
  [][\/ IsPrefix(journal, journal')
     \/ \E w \in Gardeners : Doing(w, "append") /\ gardener[w].old # journal]_gapVars

(* What a snapshot may say of the one it was computed from.                *)
Follows(s, t) ==
  IF t.event = "attempt" THEN t.status = s.status /\ t.attempts = s.attempts + 1
  ELSE Allowed(s.status, t.status) /\ t.attempts = s.attempts

(* However processes interleave, each line of the journal is a legal step  *)
(* from the snapshot it was computed from, and a rejection is kept exactly *)
(* until the gap is opened again: also through attempts and supersession   *)
(* (gardening.py:464, 586).                                                *)
LegalLineage ==
  \A i \in DOMAIN journal :
    LET t == journal[i] IN
    /\ \A s \in Range(journal) : s.gap = t.gap /\ s.serial = t.base => Follows(s, t)
    /\ t.status = "rejected" => t.rejected
    /\ t.rejected => t.status \in {"rejected", "superseded"}

(* A snapshot or a proposal that is durable is in the end also in the      *)
(* audit log and in the wiki log, unless the process died in between or    *)
(* another one was writing the log (gardening.py:509, 896).                *)
EventuallyTold ==
  []<>(/\ \A s \in Range(journal) :
            EventId(s) \in excused \/ (s.serial \in gapAudit /\ EventId(s) \in wikiLog)
       /\ \A c \in Correlations :
            proposal[c] # NoSources => c \in excused \/ (c \in gapAudit /\ c \in wikiLog))
=============================================================================
