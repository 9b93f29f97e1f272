------------------------------ MODULE Capture ------------------------------
(***************************************************************************)
(* Several processes that capture texts into one vault (capture.py).  A    *)
(* text is identified by its content, routed to where it may belong, kept  *)
(* as a proposal and audited; evolve later applies it, in one step here    *)
(* (EvolveTxn has the transaction).  There is no lock.                     *)
(***************************************************************************)
EXTENDS RouteLadder

CONSTANTS Capturers,
          Texts,        \* what is captured, each the set of its tokens
          Vaults,       \* what the vault may look like
          NoProposal, MaxVaultEdits, MaxCaptureDeaths

VARIABLES vault,
          proposals,      \* of each text: NoProposal or [status, destination]
          captureAudit,   \* the captures on the audit trail
          capturer,       \* [pc, text, destination] of each process
          outrun,     \* those that lost a race since they looked
          abandoned,      \* texts whose capture died before it was audited
          vaultEdits, captureDeaths

cpVars == <<vault, proposals, captureAudit, capturer, outrun, abandoned, vaultEdits, captureDeaths>>

NoCapture == [pc |-> "idle", text |-> {}, destination |-> "uncategorized"]

CaptureInit ==
  /\ vault \in Vaults
  /\ proposals = [t \in Texts |-> NoProposal]
  /\ captureAudit = {}
  /\ capturer = [k \in Capturers |-> NoCapture]
  /\ outrun = {} /\ abandoned = {} /\ vaultEdits = 0 /\ captureDeaths = 0

(* suggested_destination                                                   *)
Suggested(context) ==
  IF context = <<>> THEN "uncategorized"
  ELSE IF context[1].kind = "page" THEN context[1].at ELSE context[1].wiki

(* Found once, for all states.                                             *)
Destinations ==
  {[text |-> text, vault |-> v, at |-> Suggested(Route(text, v).packet)] : text \in Texts, v \in Vaults}

ASSUME CaptureConstants ==
  /\ MaxVaultEdits \in Nat /\ MaxCaptureDeaths \in Nat
  /\ \A text \in Texts : IsFiniteSet(text)
  /\ \A v \in Vaults : v.chars \in [VaultPaths -> Nat]
  /\ NoProposal \notin [status : {"proposed", "applied", "rejected"}, destination : {d.at : d \in Destinations}]

(* Where the text may belong: the best candidate, whatever the decision.   *)
Destination(text) == (CHOOSE d \in Destinations : d.text = text /\ d.vault = vault).at

Move(k, pc, text, destination) == [capturer EXCEPT ![k] = [pc |-> pc, text |-> text, destination |-> destination]]

(* Faulty: a text that was captured before is captured again.              *)
FindExistingNever(k, text) ==
  /\ capturer[k].pc = "idle"
  /\ capturer' = Move(k, "write", text, Destination(text))
  /\ outrun' = outrun \ {k}
  /\ UNCHANGED <<vault, proposals, captureAudit, abandoned, vaultEdits, captureDeaths>>

(* find_existing, then route.  A text that is known is only reported.      *)
FindExisting(k, text) ==
  /\ capturer[k].pc = "idle"
  /\ proposals[text] = NoProposal
  /\ capturer' = Move(k, "write", text, Destination(text))
  /\ outrun' = outrun \ {k}
  /\ UNCHANGED <<vault, proposals, captureAudit, abandoned, vaultEdits, captureDeaths>>

WriteProposal(k) ==
  LET me == capturer[k] IN
  /\ me.pc = "write"
  /\ proposals' = [proposals EXCEPT ![me.text] = [status |-> "proposed", destination |-> me.destination]]
  /\ capturer' = Move(k, "audit", me.text, me.destination)
  /\ outrun' = outrun \cup {o \in Capturers \ {k} : capturer[o].pc = "write" /\ capturer[o].text = me.text}
  /\ UNCHANGED <<vault, captureAudit, abandoned, vaultEdits, captureDeaths>>

AuditCapture(k) ==
  /\ capturer[k].pc = "audit"
  /\ captureAudit' = captureAudit \cup {[text |-> capturer[k].text, destination |-> capturer[k].destination]}
  /\ capturer' = [capturer EXCEPT ![k] = NoCapture]
  /\ UNCHANGED <<vault, proposals, outrun, abandoned, vaultEdits, captureDeaths>>

CapturerDies(k) ==
  /\ capturer[k].pc # "idle" /\ captureDeaths < MaxCaptureDeaths
  /\ capturer' = [capturer EXCEPT ![k] = NoCapture]
  /\ captureDeaths' = captureDeaths + 1
  /\ abandoned' = IF capturer[k].pc = "audit" THEN abandoned \cup {capturer[k].text} ELSE abandoned
  /\ UNCHANGED <<vault, proposals, captureAudit, outrun, vaultEdits>>

(* evolve applies it or a person rejects it.                               *)
SettleProposal(text, status) ==
  /\ proposals[text] # NoProposal /\ proposals[text].status = "proposed"
  /\ proposals' = [proposals EXCEPT ![text].status = status]
  /\ UNCHANGED <<vault, captureAudit, capturer, outrun, abandoned, vaultEdits, captureDeaths>>

VaultChanges ==
  /\ vaultEdits < MaxVaultEdits /\ vaultEdits' = vaultEdits + 1
  /\ vault' \in Vaults \ {vault}
  /\ UNCHANGED <<proposals, captureAudit, capturer, outrun, abandoned, captureDeaths>>

CaptureNext ==
  \/ \E k \in Capturers : WriteProposal(k) \/ AuditCapture(k) \/ CapturerDies(k)
                          \/ \E text \in Texts : FindExisting(k, text)
  \/ \E text \in Texts, status \in {"applied", "rejected"} : SettleProposal(text, status)
  \/ VaultChanges

CaptureSpec == CaptureInit /\ [][CaptureNext]_cpVars

-----------------------------------------------------------------------------

CaptureTypeOK ==
  /\ vault \in Vaults
  /\ \A t \in Texts : proposals[t] = NoProposal \/ proposals[t].status \in {"proposed", "applied", "rejected"}
  /\ \A k \in Capturers : capturer[k].pc \in {"idle", "write", "audit"}
  /\ outrun \subseteq Capturers /\ abandoned \subseteq Texts
  /\ vaultEdits \in 0..MaxVaultEdits /\ captureDeaths \in 0..MaxCaptureDeaths

(* What was applied or rejected becomes a proposal again only through a    *)
(* process that looked before the first capture and wrote after it         *)
(* (capture.py:74, :116: the check and the write are not one step).        *)
OnlyRacesReopen ==
  [][\A t \in Texts :
       proposals[t] # NoProposal /\ proposals[t].status # "proposed" /\ proposals'[t].status = "proposed" =>
         \E k \in outrun : capturer[k].pc = "write" /\ capturer[k].text = t]_cpVars

(* Every proposal is on the audit trail with its destination, or is about  *)
(* to be, but for one whose capture died in between: capturing the text    *)
(* again reports it and audits nothing (capture.py:117).                   *)
CapturedIsTold ==
  \A t \in Texts : proposals[t] # NoProposal =>
    \/ [text |-> t, destination |-> proposals[t].destination] \in captureAudit
    \/ \E k \in Capturers : capturer[k].pc = "audit" /\ capturer[k].text = t
    \/ t \in abandoned

(* The characters of a context that count against the budget.              *)
Used(context) ==
  LET sum[k \in 0..Len(context)] == IF k = 0 THEN 0 ELSE sum[k - 1] + Size(context[k])
  IN sum[Len(context)]

SoundRoute(text, v, r) ==
  LET items == Range(r.packet)
  IN /\ r.decision = "load" => \A c \in items : ~c.provisional /\ c.confidence >= LoadFloor
     /\ Used(r.packet) > MaxChars => {c \in items : Counted(c)} = {r.packet[1]}
     /\ Len(r.packet) <= MaxCandidates
     /\ items = {} <=> Found(text, v) = {}
     /\ r.offered # {} => r.decision = "load"

(* Found once, for all states.                                             *)
Judged == {<<text, v, SoundRoute(text, v, Route(text, v))>> : text \in Texts, v \in Vaults}

(* Whatever is captured: what is loaded is trusted and reaches the floor by*)
(* itself; the context is within the budget unless the best candidate      *)
(* alone is larger; and a match is never lost to the budgets or to the     *)
(* governance of provisional wikis (routing.py:661, 721).                  *)
RouteIsSound == \A text \in Texts : <<text, vault, TRUE>> \in Judged
=============================================================================
