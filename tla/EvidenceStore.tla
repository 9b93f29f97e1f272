---------------------------- MODULE EvidenceStore ----------------------------
(***************************************************************************)
(* The evidence store (evidence.py): content-addressed records that cite   *)
(* each other.  A related set is written under a journal; while a journal  *)
(* is there, only a replay of the very same set may write, and it must     *)
(* find every target as the journal left it.  Nothing is locked, so two    *)
(* writers may pass the check for journals at once: `raced` says they did. *)
(*                                                                         *)
(* The body of a record stands for its mutable fields: records with the    *)
(* same key agree in all the others.                                       *)
(***************************************************************************)
EXTENDS Naturals, Sequences, SequencesExt, FiniteSets

CONSTANTS Recorders,     \* processes that record
          Keys,          \* identifiers of records
          Bodies, NoBody,
          Cites,         \* the records that each record refers to
          Notices,       \* the keys that are correction notices
          Supersedes,    \* the notice each of them replaces, or NoNotice
          NoNotice,
          Singles,       \* the items recorded alone: artifacts and notices
          Batches,       \* the related sets: sequences of items [key, body]
          MaxRecordings, MaxEvidenceDeaths

Item      == [key : Keys, body : Bodies]
KeysOf(b) == {i.key : i \in Range(b)}

(* What every caller of put_all gives it: no target twice, a record after  *)
(* the ones it refers to, and no correction notice.                        *)
Related(b) ==
  /\ \A m, n \in 1 .. Len(b) : b[m].key = b[n].key => m = n
  /\ \A n \in 1 .. Len(b) : Cites[b[n].key] \cap KeysOf(b) \subseteq {b[m].key : m \in 1 .. n}
  /\ KeysOf(b) \cap Notices = {}

ASSUME EvidenceConstants ==
  /\ NoBody \notin Bodies /\ Notices \subseteq Keys /\ NoNotice \notin Notices
  /\ Cites \in [Keys -> SUBSET Keys]
  /\ Supersedes \in [Notices -> Notices \cup {NoNotice}]
  /\ Singles \subseteq Item
  /\ Batches \subseteq Seq(Item) /\ \A b \in Batches : Related(b)
  /\ MaxRecordings \in Nat /\ MaxEvidenceDeaths \in Nat

VARIABLES store,       \* the body of each record
          journals,    \* the transactions under way: [items, previous]
          evAudit,     \* the items with an audit line
          recorder,    \* what each process is doing
          landed,      \* history: the store as completed recordings left it
          raced,       \* history: somebody wrote between a check and its write
          unaudited,   \* history: the items a death kept from the audit log
          recordings, evDeaths

evVars == <<store, journals, evAudit, recorder, landed, raced, unaudited, recordings, evDeaths>>
evCounts == <<unaudited, recordings, evDeaths>>

Waiting == [phase |-> "wait"]
In(r, phase)  == recorder[r].phase = phase
Step(r, phase) == recorder' = [recorder EXCEPT ![r].phase = phase]
Quit(r)       == recorder' = [recorder EXCEPT ![r] = Waiting]
Items(r)      == recorder[r].items
Stored        == {k \in Keys : store[k] # NoBody}

(* Between what a recorder looked at and its last write.                   *)
Critical(r) == recorder[r].phase \in {"check", "journal", "write", "admit", "single"}
Disturb(r)  == raced' = (raced \/ \E q \in Recorders \ {r} : Critical(q))

EvidenceInit ==
  /\ store = [k \in Keys |-> NoBody]
  /\ journals = {} /\ evAudit = {}
  /\ recorder = [r \in Recorders |-> Waiting]
  /\ landed = store
  /\ raced = FALSE
  /\ unaudited = {} /\ recordings = 0 /\ evDeaths = 0

-----------------------------------------------------------------------------
(* validate_correction_chain: one first notice, each other one replaces one*)
(* that is there, no two the same one.  The id of a notice is a hash over  *)
(* what it replaces, which leaves no cycles.                               *)
ChainValid(S) ==
  /\ Cardinality({n \in S : Supersedes[n] = NoNotice}) = 1
  /\ \A n \in S : Supersedes[n] \in S \cup {NoNotice}
  /\ \A m, n \in S : m # n => Supersedes[m] # Supersedes[n]

(* correction_head: the notice that none replaces.                         *)
Heads(S) == {n \in S : \A m \in S : Supersedes[m] # n}

(* Every record that is referred to is stored or in the set itself.        *)
Admitted(b) == \A k \in KeysOf(b) : Cites[k] \subseteq Stored \cup KeysOf(b)

-----------------------------------------------------------------------------
(* put_all: the set is validated, and the targets are read and backed up,  *)
(* before the look for journals.                                           *)

Begin(r, b) ==
  /\ In(r, "wait")
  /\ \/ recordings < MaxRecordings /\ recordings' = recordings + 1
     \/ recordings' = recordings /\ \E j \in journals : j.items = b
  /\ Admitted(b)
  /\ recorder' = [recorder EXCEPT ![r] =
       [phase |-> "check", items |-> b, left |-> b,
        journal |-> [items |-> b, previous |-> [k \in KeysOf(b) |-> store[k]]]]]
  /\ UNCHANGED <<store, journals, evAudit, landed, raced, unaudited, evDeaths>>

(* A journal may be replayed by the same set over what it left.            *)
MatchesJournal(j, b) ==
  /\ Range(j.items) = Range(b)
  /\ \A i \in Range(j.items) : store[i.key] \in {i.body, j.previous[i.key]}

(* Faulty: a journal stops everybody, as it stops put and get.             *)
CheckPendingAlways(r) ==
  /\ In(r, "check")
  /\ IF journals = {} THEN Step(r, "journal") ELSE Quit(r)
  /\ UNCHANGED <<store, journals, evAudit, landed, raced, evCounts>>

CheckPending(r) ==
  /\ In(r, "check")
  /\ \/ journals = {} /\ Step(r, "journal")
     \/ \E j \in journals :
          /\ \A other \in journals : MatchesJournal(other, Items(r))
          /\ recorder' = [recorder EXCEPT ![r].phase = "write", ![r].journal = j]
     \/ (\E j \in journals : ~MatchesJournal(j, Items(r))) /\ Quit(r)
  /\ UNCHANGED <<store, journals, evAudit, landed, raced, evCounts>>

WriteJournal(r) ==
  /\ In(r, "journal")
  /\ journals' = journals \cup {recorder[r].journal}
  /\ Disturb(r)
  /\ Step(r, "write")
  /\ UNCHANGED <<store, evAudit, landed, evCounts>>

(* Faulty: the journal goes before the records it covers.                  *)
WriteItemUncovered(r) ==
  /\ In(r, "write") /\ recorder[r].left # <<>>
  /\ LET i == Head(recorder[r].left) IN store' = [store EXCEPT ![i.key] = i.body]
  /\ recorder' = [recorder EXCEPT ![r].left = Tail(@)]
  /\ journals' = journals \ {recorder[r].journal}
  /\ Disturb(r)
  /\ UNCHANGED <<evAudit, landed, evCounts>>

(* Faulty: the records are written from the last one to the first.         *)
WriteItemBackwards(r) ==
  /\ In(r, "write") /\ recorder[r].left # <<>>
  /\ LET i == Last(recorder[r].left) IN store' = [store EXCEPT ![i.key] = i.body]
  /\ recorder' = [recorder EXCEPT ![r].left = Front(@)]
  /\ Disturb(r)
  /\ UNCHANGED <<journals, evAudit, landed, evCounts>>

WriteItem(r) ==
  /\ In(r, "write") /\ recorder[r].left # <<>>
  /\ LET i == Head(recorder[r].left) IN store' = [store EXCEPT ![i.key] = i.body]
  /\ recorder' = [recorder EXCEPT ![r].left = Tail(@)]
  /\ Disturb(r)
  /\ UNCHANGED <<journals, evAudit, landed, evCounts>>

Landing(b) == [k \in Keys |-> IF k \in KeysOf(b)
                              THEN (CHOOSE i \in Range(b) : i.key = k).body ELSE landed[k]]

RemoveJournal(r) ==
  /\ In(r, "write") /\ recorder[r].left = <<>>
  /\ journals' = journals \ {recorder[r].journal}
  /\ landed' = Landing(Items(r))
  /\ Disturb(r)
  /\ Step(r, "audit")
  /\ UNCHANGED <<store, evAudit, evCounts>>

(* The lines of the transaction and of its records.                        *)
AuditItems(r) ==
  /\ In(r, "audit")
  /\ evAudit' = evAudit \cup Range(Items(r))
  /\ Quit(r)
  /\ UNCHANGED <<store, journals, landed, raced, evCounts>>

-----------------------------------------------------------------------------
(* put, for an artifact or a correction notice: refused while a journal is *)
(* there.  A notice that is stored already replaces itself, and is refused.*)

BeginSingle(r, i) ==
  /\ In(r, "wait")
  /\ recordings < MaxRecordings /\ recordings' = recordings + 1
  /\ journals = {}
  /\ i.key \notin Notices \cap Stored
  /\ recorder' = [recorder EXCEPT ![r] = [phase |-> "admit", items |-> <<i>>]]
  /\ UNCHANGED <<store, journals, evAudit, landed, raced, unaudited, evDeaths>>

(* Faulty: the chain a notice belongs to is not validated again.           *)
AdmitUnchained(r) ==
  /\ In(r, "admit")
  /\ IF Admitted(Items(r)) THEN Step(r, "single") ELSE Quit(r)
  /\ UNCHANGED <<store, journals, evAudit, landed, raced, evCounts>>

Admit(r) ==
  /\ In(r, "admit")
  /\ LET k == Items(r)[1].key IN
     IF Admitted(Items(r)) /\ (k \in Notices => ChainValid((Stored \cap Notices) \cup {k}))
     THEN Step(r, "single") ELSE Quit(r)
  /\ UNCHANGED <<store, journals, evAudit, landed, raced, evCounts>>

WriteSingle(r) ==
  /\ In(r, "single")
  /\ LET i == Items(r)[1] IN
     /\ store' = [store EXCEPT ![i.key] = i.body]
     /\ landed' = [landed EXCEPT ![i.key] = i.body]
  /\ Disturb(r)
  /\ Step(r, "audit")
  /\ UNCHANGED <<journals, evAudit, evCounts>>

-----------------------------------------------------------------------------

RecorderDies(r) ==
  /\ ~In(r, "wait")
  /\ evDeaths < MaxEvidenceDeaths /\ evDeaths' = evDeaths + 1
  /\ unaudited' = IF In(r, "audit") THEN unaudited \cup Range(Items(r)) ELSE unaudited
  /\ Quit(r)
  /\ UNCHANGED <<store, journals, evAudit, landed, raced, recordings>>

EvidenceProgress(r) ==
  \/ CheckPending(r) \/ WriteJournal(r) \/ WriteItem(r) \/ RemoveJournal(r) \/ AuditItems(r)
  \/ Admit(r) \/ WriteSingle(r)

EvidenceNext ==
  \E r \in Recorders :
    \/ \E b \in Batches : Begin(r, b)
    \/ \E i \in Singles : BeginSingle(r, i)
    \/ EvidenceProgress(r)
    \/ RecorderDies(r)

(* The host replays a set whose recording it has not seen the end of.      *)
Replay == \E r \in Recorders : \E j \in journals : Begin(r, j.items)

EvidenceFairness ==
  /\ \A r \in Recorders : WF_evVars(EvidenceProgress(r))
  /\ SF_evVars(Replay)

EvidenceSpec == EvidenceInit /\ [][EvidenceNext]_evVars /\ EvidenceFairness

-----------------------------------------------------------------------------

Body     == Bodies \cup {NoBody}
Journals == UNION {[items : {b}, previous : [KeysOf(b) -> Body]] : b \in Batches}
SetUnderWay == [phase : {"check", "journal", "write", "audit"}, items : Batches,
                left : Seq(Item), journal : Journals]
OneUnderWay == [phase : {"admit", "single", "audit"}, items : {<<i>> : i \in Singles}]

(* Type correctness.                                                       *)
EvidenceTypeOK ==
  /\ store \in [Keys -> Body] /\ landed \in [Keys -> Body]
  /\ journals \subseteq Journals
  /\ evAudit \subseteq Item /\ unaudited \subseteq Item
  /\ recorder \in [Recorders -> {Waiting} \cup SetUnderWay \cup OneUnderWay]
  /\ raced \in BOOLEAN
  /\ recordings \in 0 .. MaxRecordings /\ evDeaths \in 0 .. MaxEvidenceDeaths

(* With no journal left and nobody writing, the store is what the completed*)
(* recordings made it: a set that was interrupted is there as a whole or   *)
(* not at all, unless two writers passed the check at once                 *)
(* (evidence.py:1217, 1459).                                               *)
AllOrNothing == ~raced /\ journals = {} => store = landed

(* What doctor reports: records that refer to what is not there, and       *)
(* notices that are not one chain.                                         *)
DanglingRecords == {k \in Stored : \E c \in Cites[k] : c \notin Stored}
BrokenChain     == Stored \cap Notices # {} /\ ~ChainValid(Stored \cap Notices)

(* What a stored record refers to is stored, at every instant, whoever     *)
(* races and wherever a process dies (cli.py:1899, doctor.py:295).         *)
NothingDangles == DanglingRecords = {}

(* The notices of an artifact are a chain with one head, so that its       *)
(* posture is decided, unless two were recorded at once                    *)
(* (evidence.py:552, cli.py:1756).                                         *)
OnePosture ==
  ~raced => ~BrokenChain /\ Cardinality(Heads(Stored \cap Notices)) <= 1

(* The store of evidence is whole, has no dangling reference and decides   *)
(* each artifact's posture (evidence.py:552, 1217).                        *)
EvidenceIntact == AllOrNothing /\ NothingDangles /\ OnePosture

(* A transaction that was interrupted is finished by its replay, and what  *)
(* landed is audited, unless two writers raced or the process died between *)
(* the two (evidence.py:1217, 1475).                                       *)
EventuallyWhole ==
  []<>(raced \/ /\ journals = {}
                /\ \A k \in Keys : landed[k] # NoBody =>
                     [key |-> k, body |-> landed[k]] \in evAudit \cup unaudited)
=============================================================================
