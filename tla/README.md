# Verification of megamind

megamind is a command-line tool that keeps Markdown knowledge vaults: an agent
captures proposals, evolves them into wiki pages, provisions new wikis, does
governed research and arms a host with a wiki it may read. It has no daemon, no
database and, in almost every place, no lock. What keeps a vault consistent is a
set of small transaction protocols made of durable file replacements, which a
later process finishes or undoes from the files alone. This directory models those
protocols in TLA+, checks them with TLC on small instances and proves the most
important results with TLAPS for every instance.

1. The system
2. The plan
3. The modules and how they correspond to the code
4. The runs: questions, bounds, results
5. Fairness
6. What is proved
7. Findings
8. Abstractions and limits

## 1. The system

Paths are relative to `src/src/megamind/`. "State" is what a component keeps on
disk; nothing survives a command except files.

| Component | State | Operations | What makes it correct |
|---|---|---|---|
| evolve planner (`evolve.py:400-534`) | none (reads the vault) | `plan`: merge or create a page, supersede another, link it in the index, register its wiki | the plan starts from the bytes on disk; its id binds the bytes it will write |
| evolve transaction (`evolve.py:586-848`, `cli.py:790-870`) | `.megamind/audit/evolve-*.json`, `audit/log.jsonl`, the pages | dry run, apply, resume, rollback | all of a plan or none of it, resumable and undoable after a death at any point, no bytes of others lost, audited before applied |
| provision-wiki (`gardening.py:1000-1710`) | `.megamind/audit/provision-*.json`, registry, router, the new wiki | plan, apply with in-process undo, resume, verify, rollback | an applied wiki is whole; an unapplied one leaves no trace; authored pages survive |
| host rollout (`rollout.py`) | `transactions/`, `proofs/`, `active/`, `receipts/`, `outcomes/` outside the vault | promote, rollback, status, health | what a host may load is backed by a proof and can be disarmed; a disarmed promotion is never re-armed by a replay |
| file operations (`fsops.py`) | temporary files, backups | contained atomic write, exclusive creation, removal, audit append | after an atomic write a reader sees the old or the new bytes, never a part; a file that is created exclusively is there *before* it is whole (`create_private_file`), and its readers must cope |
| gap journal and wiki log (`gardening.py:406-620, 928-975`) | `.megamind/gaps.jsonl`, `wiki/log.md` | create, transition, record attempt, append event | legal transitions only, none lost, one audit record for each |
| research waves and ingestion (`gardening.py:640-926`) | proposals, log | plan a wave, ingest a result | capacity limits; one proposal for a correlation |
| existing-wiki selection (`selection.py:320-800`) | selection state and claim files | list, select (claim, consume), recover | at most one consumer is authorised |
| offer selection (`selection.py:802-891`) | none (the host keeps the packet) | check the proof, authorise | what is authorised would be offered now |
| research jobs (`research.py`, `cli.py:1500-1990`) | plans, jobs, candidates, packets, outcomes; the legacy `jobs.jsonl` | plan, discover, cancel, resume, packet, outcome, append an event | no record without its plan; finished jobs stay finished; the legacy journal stays readable |
| evidence store (`evidence.py`) | records and a transaction journal | put, put all, recover, corrections | a reader never sees half of a set; nothing dangles; corrections form chains |
| acceptance and reliance (`evidence.py`, `confidence.py`, `policy.py`, `review.py`) | the same records | gates, acceptance, claims, contradictions, scores | what is relied on is earned by what holds now |
| adopt (`adopt.py`) | created files and a rollback record | plan, apply, rollback | never touches what it did not create |
| capture (`capture.py`) | a proposal file | capture | idempotent for equal content |
| catalog, preflight, access (`catalog.py`, `preflight.py`, `access.py`, `confidence.py`) | none | build rows, score, filter, decide, derive the effective policy | withheld wikis have no influence; access is never widened |
| routing inside a vault (`routing.py`) | none | score wikis and pages, decide, pack a context | trust, thresholds and budgets hold together |
| registry and cards (`registry.py`, `card.py`) | `registry.json`, `CARD.md` | load, save, migrate, set a card | migration changes nothing that can be observed |
| blind experiment (`evaluation.py:600-1497`) | outputs of arms, `evaluations.jsonl` | plan, output, score, record | judged as it was frozen; scores stay on record |
| scaffold, skillpack | generated files | create what is not there | existing files untouched |
| links, semantic reranking, doctor, review, benchmarks | none | read, score, report | pure functions of the files |
| models, TOON, command line | none | parse and render | - |

Components meet in files. `capture` and ingestion write the proposals `evolve`
plans from; `evolve` and `provision-wiki` both replace the registry and the router;
`provision-wiki`, the gap journal and the research commands append to one wiki log;
all of them append to one audit log; rollout reads the card and the catalog that
the others change.

The hard behaviours are the same everywhere: a process that dies between two
durable writes; a check of several files followed by writes to them with no lock in
between; two transactions that share a file; retries of what may have been done
already; and recovery that must identify its own work by content. `PROJECT.json`
lists each of them at the line where it bites ("hazards").

## 2. The plan

Done:

1. `EvolvePlan`, `EvolveTxn`: the planner and its transaction, the most intricate
   protocol, with `AtomicEvolve` (what it promises) and `EvolveRefinement`.
2. `EvolvePlan_proofs`, `EvolveTxn_proofs`: the safety theorems of that transaction under
   any interleaving; `EvolveSolo_proofs`: those that need one process at a time, and the
   refinement of `AtomicEvolve`.
3. `ProvisionTxn`: the transaction that undoes itself, and `ProvisionTxn_proofs`, all of its
   safety properties.
4. `RolloutTxn`, `RolloutTxn_proofs`: the state machine outside the vault, with racing
   promotes, its safety theorems and the refinement of `Arming` (what it promises).
5. `SelectExisting` with its abstract specification `OneShot`, and
   `SelectExisting_proofs`: single use, and the refinement, for every instance.
6. `GapJournal`, `EvidenceStore`, `ResearchJobs`, `LegacyJobs`, `AdoptTxn`: the other
   components that write files, with racing processes and deaths.
7. `ResearchPolicy` and `Acceptance`: from a frozen artifact to a claim that is relied on.
8. `Access`, `Thresholds`, `Estate`: what a catalog of wikis offers, over cards that change
   and registries that are migrated. `RouteLadder`, `Capture`: the same inside one vault.
9. `Experiment`: the blind comparison of three versions of a wiki.
10. `Stores`: the ten components of 5 to 9 that share no state, and what each keeps;
    `EvidenceStore_proofs`, `Stores_proofs`: that they do.

Next, in this order:

11. Composition: `evolve` and `provision-wiki` over one registry and one router.

Modules that are proved about use no recursive operator.

## 3. The modules and how they correspond to the code

### EvolvePlan

A file is the set of marks it carries, or `Absent`. A mark is what the planner can
tell apart: a section merged from a proposal, a link, a superseded pointer, a
registered wiki, a skeleton. `PlanChanges` is `plan()`: the change of the page,
then of the superseded page, then either of the index or, for a wiki that is not
registered, the four changes of the registration. Each has the bytes it starts from
(`old`) and ends in (`new`). `PlanId` hashes the new bytes only, as the code does:
that the plan id does not bind `old` is what makes several properties worth asking.
`Entries` adds the proposal file, whose status becomes applied.

### EvolveTxn

`tree` is the disk, `manifest` the records under `.megamind/audit`, `run[p]` what
process p holds in memory. One action is one durable write or one read of all
targets, with the code around it:

| Code | Actions |
|---|---|
| `evolve` (dry run) | `DryRun` |
| `apply_plan`, no record | `BeginApply`, `WriteManifest` |
| `apply_plan` / `rollback_evolution` with a record | `BeginRecovery` |
| the check of every target | `Check` |
| the loop that writes / restores | `WriteEntry`, `EndWrites` / `RestoreEntry` |
| audit lines and the applied mark | `AuditApply`, `MarkApplied` |
| rolled-back mark, then its audit line | `MarkRolledBack`, `AuditRollback` |
| the environment | `Crash`, `Edit` |

`cur` is the content the process read in its check: a write is skipped if the
target held the new bytes *then*, as in the code. `foreign`, `unsettled`, `edited`
and `raced` are history and no guard of the program reads them. They say who is to
blame: `foreign[id]` are the targets others changed since transaction id last knew
them; `raced` the targets that changed after this process's check.

### AtomicEvolve and EvolveRefinement

`AtomicEvolve` is the promise: a reviewed plan takes effect at one instant or not at
all, and its undo too. `EvolveRefinement` maps the detailed state to it: while a
transaction is unfinished its targets are read as its record says they were
(pending) or became (applied, being rolled back). A plan takes effect when it is
marked applied.

### ProvisionTxn

The same shape with three differences the code has: a failed apply undoes itself
(`Raise`, `UndoTarget`, `EndUndo`) and removes its record only after a complete undo;
targets are classified one by one as done, incomplete or foreign (`Done`,
`Incomplete`, `Foreign`), the append-only wiki log counting as done when it has
grown; and directories are removed only when empty (`Pruned`). `AppendEvent` changes
the log *and* the recorded text of the log, which the commit then writes into the
record. `Author` and `AppendLater` are legal work on the wiki while it exists.

### Arming and RolloutTxn

`tx` are the records under `transactions/`, `active` the projection of each binding
of a host and a wiki. `BeginPromote`/`ReplayPromote`, `WritePending`, `CheckOwner`,
`WriteProof`, `CheckActive`, `Arm`, `MarkApplied` are `apply_plan` in its order, which
puts the pending record *before* the search for another owner. `BeginRollback`,
`ReplayRollback`, `RecordRollback`, `Disarm`, `WriteReceipt` are `apply_rollback`;
`RecordBlocked`, `WriteOutcome` the plan whose checks failed. `Drift` makes a plan
build to another id, or to the same one again: then it can be neither begun nor
replayed. `retired` is history: the rollbacks that have overwritten a projection.

`Arming` is the promise: a promotion arms a free binding, once; one rollback disarms it,
for good; and a ledger says of something that it is done when it is. The mapping shows a
binding as armed with the promotion that its projection names, and as done the records that say
applied. So writing the projection is `Arming`'s `Arm`, overwriting it its `Disarm`,
`MarkApplied` and `RecordBlocked` its `Settle`, and every record, check, proof, receipt,
drift and death is a stutter.

### OneShot and SelectExisting

`OneShot` is the promise: a list is a token that is spent at one instant, and only who
spent it is granted the choice or can give it back. In `SelectExisting` the state file of a
nonce is `listing`, the claim file `claim`, the audit lines `audited`, and `caller[c]` is
what a process holds. A nonce is a hash of the binding, so it is modelled as the record it
is a hash of.

| Code | Actions |
|---|---|
| `list_existing`: hands a nonce out while it is listed, else tries the next issuance | `BeginList`, `Look`, `AuditListed` |
| its state file | `CreateListing`, `WriteListing`, `ListingFails` |
| `select_existing`, up to the claim | `Present` |
| the claim file | `Claim`, `WriteClaim`, `ClaimFails` |
| whoever finds somebody's claim closes the selection in its place and is refused | `ReadClaim` |
| the audit line of the claim, the consumed state, its audit line | `AuditClaim`, `WriteConsumed`, `Authorize` |
| the environment | `Drift`, `CallerDies` |

State file and claim file are created by `create_private_file`, which opens the final name
exclusively, writes and then syncs. So each is `torn` at first, for others to see, and stays
so when its caller dies there; the consumed state is an atomic write and never torn. A torn
state is refused by `list` and by `select` alike; a torn claim is refused by every later
caller before anything is audited or closed (`TornStays`, finding 6). A write or a sync that
fails unlinks the file, whatever is under the name by then: a claim that somebody else has
read already (`withdrawn`), a state that was consumed. A failure after the sync leaves the
file whole, which is what a death there does too. `offered` are the nonces whose state was
ever whole.

The token is issued when the state file is first whole, spent when the claim file is whole,
and given back when its sync fails. A torn claim is a token not spent that nobody can spend.

### GapJournal

Three files, each read and replaced as a whole and never locked: the journal, the audit
log (appended to) and the wiki log, whose events are identified by their content and the
day. `Reread`/`AppendSnapshot` and `ReadLog`/`WriteLog` are the two halves of a
replacement, where a second process can come in between. `serial` and `base` name each
snapshot and the one it was computed from; no guard reads them. `Ingest`, `WriteResult`,
`AuditProposal` are `ingest_research_result`, which ends in the same log.

### EvidenceStore

`store` has a body for each record, `journals` the transactions under way, `evAudit` the
audit lines. `Begin` to `AuditItems` are `put_all` in its order: the set is validated and
the targets are read *before* the look for journals, and a journal may be replayed only
by the very same set over what it left. `BeginSingle`, `Admit`, `WriteSingle` are `put`.
`landed` (the store as completed recordings left it) and `raced` (somebody wrote between
another's check and its write) are history.

### ResearchJobs and LegacyJobs

A research command is a decision from what it reads (`PermissionCheck`, `Plan`,
`Discover`, `DiscoverCandidates`, `Cancel`, `Packet`, `Outcome`) and a list of records
that it then stores one at a time (`Put`), each of which the store admits against the
policy of that moment. `resume` only reads: it is `Resumable`. A job is named by its plan, as its identifier is a hash
over it. `LegacyJobs` is the older journal: the rules of who appends (`FirstEvent`,
`NextEvent`) and of who reads (`Readable`) are two pieces of code, and the question is
whether they agree.

### AdoptTxn

Directories, files, the audit line and, last, the record: `MakeDirs`, `WriteScaffold`,
`WriteRecord`; `CheckFile`, `UnlinkFile`, `RemoveDirs`, `EndRollback` take back what still
has the generated content, and what is empty. `UserStep` is somebody at work in the
directory all the while; `origin` is the directory as each adoption found it.

### ResearchPolicy and Acceptance

`ResearchPolicy` is `policy.py` as operators: matchers, the first tier that fits, the
ceiling for videos, freshness. In `Acceptance` an artifact's decision is derived by the
gates when it is recorded and then *stays in the store*, while quotations, correction
notices, contradictions and the policy move on; `Score` and `MeetsFloor` are computed
from what holds now. Each command is given the policy of the wiki it names, or none.

### Access, Thresholds and Estate

`Access` is `access.py` and the migration of a card; `Thresholds` is the arithmetic of
`confidence.py` over integers of a ten-thousandth. `Estate` builds the rows of the catalog
from the cards, runs `Preflight` over them (matching, vetoes, filters, confidence, the
decision, governance of provisional wikis), lets a host record that packet and later ask
for one of its offers (`SelectOffer`, which checks the packet against a preflight that is
run again), and lets cards, files, pages and the date change in between (`EditCard`,
`Migrate`, `FilesMove`, `Grow`, `DayPasses`). `chosen` is what the last step authorised.

### RouteLadder and Capture

`RouteLadder` is the ladder of `routing.py`, from the score of a wiki down to the pages its
index links, with the packing of the context. A page that an index links twice is two
candidates, as in the code, and `SortKeys` is the order of its stable sort: by score and path,
then as the wikis and their links were read. `Capture` uses it to suggest a destination,
and is otherwise a check followed by two writes (`FindExisting`, `WriteProposal`,
`AuditCapture`) which two processes may interleave.

### Experiment

`PlanExperiment` freezes the inputs and assigns conditions to labels, `RunArm` leaves an
output, `BeginScore`, `CollectArm`, `Seal`, `Unblind`, `Judge` are the scoring in the order
of the code, which reads the task set again for each arm and the gates after the map is
opened; `BeginRecord`, `Record` append to the log. `InputsChange` edits the inputs at any
time.

### Model-checking modules

`MCEvolveTxn`, `MCProvisionTxn`, `MCRolloutTxn` define the vaults, requests and
bindings of the instances. `Stores` extends the ten components that share no state and
conjoins what each of them keeps (`GapKept`, `JobsKept`, ...); every conjunct is stated and
explained in its own module. `MCStores` is the instance: the variable `subject` says which
of the ten a behaviour is about and the others rest in one initial state, so the states of
the run are the sum of their states and not the product. The theorems about `Stores` speak
of each component's own specification and know nothing of `subject`, except that
`EstateKept` asks for `WithheldIsSilent` only while the subject is the estate: evaluating
it in every state of the others would show nothing and take long.

Definitions whose comment begins with "Faulty" are not used by any specification: each is
the body of one definition with a plausible bug, and putting it in the place of the
correct one makes a named property fail ("mutants" in `PROJECT.json`). That shows every
property can fail. Where a property of `MCStores` is a conjunction there is one such body
for each conjunct, beyond those listed: `AdmitUnchained` and `WriteItemBackwards`
(`EvidenceIntact`), `TransitionAnywhere` (`GapKept`), `NextEventReopens` (`JobsKept`),
`WriteRecordShort` and `RemoveDirsNever` (`AdoptionKept`), `ReadClaimRemoving` and
`AuditClaimSilent` (`SelectionKept`), `GoodAsAccepted` and
`PendingEvidenceOnce` (`AcceptanceKept`), `StrongScored` and `MigratedUnclassified`
(`EstateKept`), `OpensAnyhow` (`ExperimentKept`).

## 4. The runs: questions, bounds, results

| Run | Instance | Distinct states | Result |
|---|---|---|---|
| `EvolveTxn` | one process, a merge, a second destination for the same proposal and a new page that supersedes another, sharing an index; 2 plans, 2 faults (deaths, edits of the index) | 738 k | `TypeOK`, `Recoverable`, `SettledExactly`, `NoOrphan`, `AuditedBeforeApplied` hold |
| `EvolveConcurrent` | two processes, two merges into one page, no faults | 2.0 M (with symmetry) | `NoForeignOverwrite` holds; it is proved for any number of processes and with edits and deaths, like those of the run above but for `NoOrphan`, proved of one process (section 6) |
| `EvolveFinish` | one process, a merge, a new page that supersedes another and a second destination, in a wiki that is not registered; three plans, two deaths, disciplined user | 275 k | `AppliedSurvives`, `AppliedOnce`, `NeverWedged`, the refinement of `AtomicEvolve` and `EventuallySettled` hold |
| `EvolveSamePath` | the destination is the new wiki's own index | - | `AlwaysRecoverable` violated (finding 1) |
| `EvolveSameBytes` | two proposals with one title for one new page | - | `AppliedSurvives` violated (finding 2) |
| `ProvisionTxn` | two wikis, two records, two faults, edits of the registry and of one generated file, disciplined user | 922 k | all seven properties hold |
| `ProvisionUndo` | the same without edits | - | `RecordOutlivesTraces` violated (finding 3) |
| `RolloutTxn` | two plans and a blocked one for one binding, two commands at a time, two rollbacks of each, three faults, both kinds of user | 123 k | all seven properties hold |
| `RolloutReplay` | one command at a time, one death, careless user | - | `ReplayResumes` violated (finding 4) |
| `Stores` | ten components, see below | 407 k | all fifteen properties hold |
| `SelectTorn` | the selection of `Stores` by itself, one issuance | - | `EveryClaimCloses` violated (finding 6) |
| `ResearchCancelled` | one host, one plan | - | `CancelledIsTerminal` violated (finding 5) |

`Stores`, by subject:

| Subject | Instance | Properties |
|---|---|---|
| selection | two callers, two wikis, two issuances, one death, failed write or change of the catalog | `SelectionKept`, `ImplementsOneShot`, `EventuallyClosed` |
| gaps | two processes, one gap and one research result, three snapshots, one death | `GapKept`, `EventuallyTold` |
| evidence | two recorders, two related sets that share a record, an artifact, two first notices, three recordings, one death | `EvidenceIntact`, `EventuallyWhole` |
| jobs | two hosts, one plan, five commands, two policy changes, deaths anywhere | `JobsKept` |
| legacy | two clerks, one job, three calls from an empty journal or one about to leave `accepting` | `JobsKept` |
| adopt | three files in two directories, some of them there before, two steps of a user, two adoptions, one death | `AdoptionKept` |
| acceptance | a study, a review and a video, three quotations, two claims, two policies, a notice for each artifact | `AcceptanceKept` |
| estate | three roots, two of them with one name, ten cards of both schemas, two requests, one edit and any migrations | `EstateKept` |
| capture | three wikis, three pages, four vaults, two texts, two processes, one edit and one death | `CaptureKept`, `RouteIsSound` |
| experiment | three versions of the inputs, five runs of arms, two scorers, two scores, two records at a time in the log, one change of the inputs | `ExperimentKept` |

Why the bounds are enough for the questions. Two transactions are what it takes to
share a file, and the third plan of `EvolveFinish` lets a plan be
applied, undone and planned again. Two faults allow a death in an apply and a second
one in its recovery, or a death and an edit; a third one in rollout allows a death in
the promote, in its replay and in the rollback. In `Stores` two processes are what a race
takes (a third one only repeats a part), one death lets the other process or the same one
find what was left, and each subject has one more operation than its shortest bad
sequence needs: a snapshot after a race, a set that shares a record with an interrupted
one, a plan after a cancellation, an adoption after a rollback, a notice after an
acceptance. Cards and policies are chosen so that each branch of the
derivations is taken by some state. A merge, a creation, a supersession
and a registration are all the shapes a plan has. Every action fires in the passing
runs. The theorems of section 6 have no such bound.

`FinishFirst = TRUE` (evolve, provisioning) and `careful` (rollout) describe a user
who settles an interrupted transaction before starting another one that touches the
same vault or binding. The tool does not ask this of anybody, so the
properties that need it are stated as such: without it, two transactions that share
a file can wedge one another or undo one another's changes. In evolve, transactions
that are both pending and share the index make each other's check refuse; in
provisioning, the registry holds neither the old nor the new bytes of the first; in
rollout it is finding 4.

`CHECK_DEADLOCK FALSE` everywhere: once the bounds are used up and everything is
settled there is nothing left to do.

## 5. Fairness

- `WF_vars(Progress(p))`: a process that does not die runs to its end. The code is
  straight-line and waits for nobody.
- `WF_vars(Retry)` / `WF_vars(Replay)`: the user, or the agent driving the tool, runs
  the apply of an unfinished transaction again (for provisioning this includes the
  replay that only verifies; for rollout one obligation for each plan id). This is the documented
  way to recover and the tool cannot do it by itself. It is not assumed that the
  user ever runs a rollback, nor that deaths stop other than by their bound.
- `SelectFairness`, `GapFairness`, `EvidenceFairness`: weak fairness of each process that
  is running, and, for the two stores that finish interrupted work only when they are
  asked again, strong fairness of the host that comes back: it presents a list whose
  selection it has not seen the end of (`ComeBack`) and replays a set whose recording it
  has not seen the end of (`Replay`). Strong, because another caller at work in between
  can make the coming back impossible for a while. Lists with a whole claim and lists with
  a torn one are two obligations, so that coming back to a torn one again and again, which
  leads nowhere, does not stand for coming back to the others. `EventuallyTold` needs
  no retry and does not get one: a gap transition that died halfway is never repaired.
- Nothing is assumed about edits, dry runs or new plans. For the
  transactions weak fairness is enough because a retry that is accepted stays accepted while nobody else starts.

## 6. What is proved

`tlapm` checks every proof; no step is left unproved, and the theorems hold for every
instance that satisfies the named assumptions on the constants: any vault, index layout,
requests, plans, wikis, processes and bounds. Where a theorem needs more than that, the
hypothesis is named in its statement and explained here. A proof has one lemma per action
and combines them under `[Next]_vars`.

### evolve, any number of processes (`EvolvePlan_proofs`, `EvolveTxn_proofs`)

The assumptions are `PlanConstants`, `PathKinds` (pages, proposals, registry and router are
different files) and `TxnConstants`.

- `PlanStartsFromDisk`, `EntriesStartFromDisk`: every change of a plan has as `old` the
  bytes on disk when it was computed. This is why a transaction that has not begun
  passes its own check.
- `EntriesKinds`, `EntriesDistinct`: what a plan can contain at all, and that it changes no
  file twice if `SeparatePages`: the destination and the superseded page are not the card or
  the index of the wiki. The code does not see to it; finding 1 is what happens otherwise.
- `TypeCorrect`: `Spec => []TypeOK`.
- `AlwaysRecovers`: `Spec => []Recoverable`. In no interleaving of processes, deaths and
  edits does a target of a recorded transaction hold bytes that are neither the old nor
  the new ones unless somebody else changed it. `Recoverable` is not inductive: a
  process writes its manifest from what it computed earlier, so the invariant `IInv`
  adds `ReadsExplain` (what each process holds in memory explains the disk but for
  `raced`) and `OnRecord` (past its manifest, a process works on a recorded plan).
- `KeepsForeignBytes`: `Spec => NoForeignOverwrite`, from `IInv`: a write replaces
  others' bytes only in a file that changed after the check.
- `SettledTruth`: `Spec => []SettledExactly`. `SInv` adds `AllKnow`: an entry a process
  has passed is as it aims it to be, and one it skips was so when it was read.
- `AuditPrecedes`: `Spec => []AuditedBeforeApplied`. `AInv` adds `Logged`: the lines a
  process has passed in its audit loop are in the log.

### evolve, one process at a time (`EvolveSolo_proofs`)

`OneProcess` says that no two `evolve` processes overlap; they still die anywhere, begin
another transaction before the last one is finished, and people still edit. All of these start from `SoloInv`: records, and what the process holds,
come from plans (`FromPlan`, `Holds`); only edited files can race with it; and each target
is as its last passed entry left it (`Tracks`).

| Theorem | Further hypotheses | Inductive invariant |
|---|---|---|
| `NothingIsOrphaned` (`NoOrphan`) | `FreshVault`: no earlier `evolve` whose records are gone | `OrphanInv`, with `Owned`: a transaction accounts for every section and status |
| `NeverIsWedged` (`NeverWedged`) | `FinishFirst` | `OneInv`, with `Alone` (one unfinished transaction) and `Clean` (only edits are foreign to it) |
| `AppliedIsKept` (`AppliedSurvives`; a pointer counts unless a request gives the page another successor), `AppliedOnlyOnce` (`AppliedOnce`) | `FinishFirst`, `SeparatePages`, nobody edits the registry | `KeepInv`, with what applied plans claim of a file: it is there (`AllStand`), of two plans for one file one started from what the other claims (`AllOrdered`), a plan about to begin starts from all of it (`AllUnder`) and no write takes it away (`AllSpared`) |
| `TransactionIsAtomic` (`ImplementsAtomicEvolve`) | `Serial` | `RefInv`, with `Planning`: a pending transaction is a plan of the vault as `View` shows it |

Why the hypotheses are there. Two unfinished transactions that share a file break the
properties that need `FinishFirst` (section 4), and two processes that overlap are two such
transactions. A router is computed from the registry, so an edit of the registry can take
a wiki out of every router that is written later. `Serial` is all of the above with no edits (the
abstract specification has nobody who edits), a router that lists only registered wikis to
begin with, as one that is generated from a registry does, no file with two superseded
pointers, which is one frontmatter key, and `OneSuccessor`: no page is to be superseded by two
different ones. Without the last one TLC finds a step that is not one of `AtomicEvolve`: stale
is superseded by a page, then by another and then by the first again. Now the file is what the
second plan found there, and the code undoes that plan though the third one stands. Pages that
supersede each other in turn, or in a chain, and a successor that is given twice are all covered.
`AbsentIsNoText`, a hypothesis of all but `NeverIsWedged`, says that a missing file is not a
file with some marks; it and the like (`NoProposal` in `CaptureConstants`, `BrokenIsNone` in
`Estate`) are about the values that stand for "nothing" and not about the code. The
instance of `EvolveFinish` satisfies the hypotheses.

The refinement is step by step: `WriteManifest`, each write, each restored file and each
line of audit is a stutter of `AtomicEvolve`, `MarkApplied` is its apply, the rolled-back
mark its undo or, for a transaction that was never applied, its abandonment.

### provisioning (`ProvisionTxn_proofs`)

The assumption is `ProvisionConstants`. All safety properties of the run are theorems.

- `TypeCorrect`, `AuthoredIsKept` (`KeepsAuthored`) and `ForeignIsNotOverwritten`
  (`NoForeignOverwrite`) need no discipline of the user. `BaseInv`: the records and the
  process hold the changes the planner makes for a wiki, each wiki's files are its own, and
  what was read in the check still explains the disk but for what was edited
  (`ReadsExplain`).
- `NeverIsWedged` needs `FinishFirst`. `OpenInv`: one transaction is open, it is the one in
  hand if there is a process, and every target of it is done, incomplete or edited, in the
  middle of an undo or a rollback as well.
- `AppliedStaysWhole` (`AppliedIsWhole`) and `NothingIsLeft` (`NoTrace`) need `FinishFirst`.
  `WholeInv` has three parts: how far a run has come (`RunInv`), what each wiki's own files
  say of its one transaction (`OwnInv`), and who is in the registry and the router
  (`SharedInv`). The last one is the argument: the transactions that stand are ordered by
  whose registry each of them started from, so to restore what one of them found takes out
  nobody who was there before it.

### rollout (`RolloutTxn_proofs`)

The assumptions are `RolloutConstants` and `RolloutNames` (digests of different artifacts
differ), and that of `MayStart` (section 8): any promotes of different plans may race, but
a rollback is the only command for its binding.

- `RolloutTypeCorrect`, `AlwaysBacked` (`Backed`), `StaysDisarmed` (`NeverRearmed`),
  `LedgersTrue` (`SettledTruth`) and `ReplacesNothingArmed` (`NeverReplaced`), all from
  one inductive invariant, `RInv`. `Working` says what each command knows in each of its
  phases. `Alone` is the heart of the write-ahead search for an owner: since a promote
  writes its record before it looks for others', no two promotes of a binding are ever
  both past the search. `Chain` is why nothing is re-armed: every disarmed projection
  names the rollback that disarmed it, and the projection that a retired promotion replaced
  never comes back, so no replay of it finds its precondition again.
- `RolloutRefinesArming`: `Spec => ImplementsArming`, step by step under `RInv`: before the
  projection is written its binding is free or shows this very promotion, a rollback that
  writes it again is a stutter, and what is marked as applied is so. `UndoneOnlyOnce`
  (`UndoneOnce`, which no run checks) is read off the abstract specification, which disarms a
  promotion once, and a lemma that every receipt belongs to a rollback that took effect.
- `CarefulIsNeverWedged` (`NeverWedged`), from `CareInv`: `Careful` adds that a binding of
  a careful user has at most one unfinished transaction, none other than that of the
  command at work, and shows what that transaction found or what it leaves. Finding 4 is
  the state a careless user reaches.

### the stores (`SelectExisting_proofs`, `EvidenceStore_proofs`, `Stores_proofs`)

- Selection: `SelectTypeCorrect` and `SelectsOnce` (`SelectionKept`), from `SelectInv`.
  `Knows` says what each caller knows of the list in its hands, `OneMaker` that no two
  callers have both created its claim file and are still at work, and `Earned` that what was
  granted was claimed and what was claimed was listed. `SingleUse` is not inductive without
  them: a second grant needs a second maker, and that the claim is created exclusively is
  what excludes it, also after a failed maker has removed its claim. `TornStays` follows:
  only its maker touches a torn claim. `SelectRefinesToken`: `SelectSpec =>
  ImplementsOneShot`. `WriteListing` maps to `Issue` (a stutter when the nonce was offered
  before), `WriteClaim` to `Spend`, `ClaimFails` of a whole claim to `GiveBack`, an
  authorisation to `Grant`, a death or a refusal at the end to `Die`, everything else, the
  creation of either file included, to a stutter.
- Evidence: `EvidenceTypeCorrect`, `EvidenceStaysIntact`. In `EvidenceInv` each recorder's
  hand agrees with the store (`Sound`), nothing dangles at any moment, also in the middle of
  a set, and unless two recorders raced the store differs from the completed recordings in
  nothing but records of a journal (`Covered`), the notices form chains (`Chained`) and no
  recorder's reads are out of date (`Undisturbed`). That chains have one head is a fact about
  finite sets, `OneHead`.
- Gaps: `GapsAreKept`, from `Lineage`, which speaks of all snapshots that are in the journal
  or in the hands of a process: each is a legal step from the one it was computed from.
- Jobs: `JobsAreKept`, from `JobsInv` (what a command is yet to store is admissible, since
  what it depends on is stored first) and `LegacyInv` (what is about to be appended is an
  event every reader accepts, unless a caller was careless or two clerks overlapped).
- Adoption: `AdoptionIsKept`, from `AdoptShape` (what an adoption has created and is yet to
  create), `RollbackReaches` and `Restorable` (how the directory differs from the one that
  was found).
- Acceptance: `AcceptanceIsKept`, from `AccInv` (a claim's spans are quoted and their
  artifacts recorded) and the arithmetic of a score: which caps, bases and bonuses together
  reach the floor, and that two origins are what a synthesis needs to.
- Experiments: `ExperimentIsKept`, from `ScoreInv`: a verdict in memory, in the log or on
  its way there is `WellGraded`.
- Captures: `CaptureIsKept`, from `CaptureInv`: each proposal is on the audit trail, in the
  hands of a process that will tell, or of one that died (`Told`), and a process that
  writes over a proposal was outrun.
- Estate: `EstateIsKept`. `MigrationKeepsPolicy` is about every schema-1 card that is valid:
  migration leaves its effective policy and the findings of doctor as they are. That a
  withheld wiki has no influence on what is offered is a congruence of `Preflight`: two
  catalogs that are alike but for withheld rows (`Alike`) give the same packet (`Silence`).
- `TypesAreKept`: the nine specifications that make up `Stores` and have a type invariant
  imply `StoresTypeOK`.

- Routes: `RoutesStaySound` (`RouteIsSound`), for every vault, question and budget the
  constants allow (`LadderConstants`, `CaptureConstants`: finite vaults and questions, sizes
  that are naturals). The order of the candidates is a strict total one, so the nth of them
  is the one that n - 1 others are ahead of (`RankedIs`). What the packing has taken is a
  function on the naturals, each value from the one before it; such a function satisfies its
  equation because otherwise there would be a least number where it fails (`StepByStep`).
  `ContextIs` shows that what is taken stays within the budgets, from one candidate to the
  next (`TakeFits`), and `LoadsReach` that what is loaded reaches the floor by itself.

Maxima, minima and "the first" are defined by `CHOOSE`; that there is something to choose
comes from the least-number principle, which is proved from well-foundedness of the
naturals as the library states it.

### Only model-checked

- Every liveness property (`EventuallySettled`, `EventuallyTold`, `EventuallyWhole`,
  `EventuallyClosed` and those of provisioning and rollout): arguments from weak and strong
  fairness and `ENABLED` are outside what the prover does.
- The runs that find a violation.
- `NoOrphan`, `AppliedSurvives`, `AppliedOnce` and `NeverWedged` of evolve are not claimed
  for more than one process, in no run and no theorem.

## 7. Findings

1. `EvolveSamePath` (`evolve.py:369`). If the destination page is the `INDEX.md` or
   `CARD.md` of the wiki its registration creates, the plan has two changes for one
   path, both starting from no file. The skeleton overwrites the page, and afterwards
   resume and rollback both refuse. The other properties are stated of transactions
   whose paths are distinct (`Distinct`). There is one other way they are not, superseding
  the `INDEX.md` of a registered wiki, which the plan also links in; the theorems that need
  it exclude both by name (`SeparatePages`).
2. `EvolveSameBytes` (`evolve.py:736`). Recovery identifies what it wrote by content.
   Two pending plans with the same new bytes for an index: the rollback of the one that
   never wrote it removes the link of the other, applied one.
3. `ProvisionUndo` (`gardening.py:1629`). A target counts as written after the write
   returns; a write that raises after the replacement (the sync of the directory) is
   neither undone nor noticed, and the record is removed. The registry keeps a wiki
   that no transaction can find.
4. `RolloutReplay` (`rollout.py:593`). A refused promote leaves its pending record,
   which then makes the replay of the interrupted one refuse too. No command resolves
   this; the binding can never be promoted again. Executing the code with the
   interruption of `tests/test_rollout.py:624` and one more replay shows the same.
5. `ResearchCancelled` (`cli.py:1612`). The decision record on research state says that
   terminal mutation is refused, and `resume` refuses a cancelled job. Planning the same
   plan once more stores a job in state `planned` over the cancelled one, and it is
   resumable again. `CancelledStays` states what does hold: a cancelled job is revived
   only so, or by a discovery that had read it before.
6. `SelectTorn` (`selection.py:549`). The claim file exists before it is written. A caller
   that dies in between leaves a claim that is malformed to everyone: no later presenter
   audits it or closes the selection, `list` goes on handing out the same identity, and
   nothing can be selected for that binding until its date changes. It fails safe, since a
   torn claim grants nothing, but the documentation says that the transitions are recovered
   on retry. A state file left torn in the same way makes `list` refuse for as long
   (`selection.py:653`), where repeating a list should be idempotent.

Smaller observations without a run.

Gaps and captures: two processes that append to the gap journal at once lose a snapshot,
and its audit line remains (`OnlyRacesLose` says that nothing else loses one); equal
transitions of one day share one log event.
A capture that loses its race turns an applied proposal into a proposed one; a capture
that dies before its audit line is never audited.

Research and evidence: a claim recorded as `confirmed` needs no resolving span and no
accepted evidence, as `active` does, yet has the same cap of 1.0 (`cli.py`,
`evidence.py:1003`): `RelianceIsEarned` holds all the same, since the score counts only
what is accepted and clean. Matchers on `registry`, `host` and `max_tier` never match at
acceptance, where the facts have no such fields. Two first correction notices recorded at
once leave an artifact whose posture is an error for every reader. A first event of a
legacy job that is not `gap-open`, or a resumption that brings artifacts, is accepted by
the append and makes the whole journal unreadable (`careless` in `LegacyJobs`).

Estate: routing inside a vault uses only the privacy class of a card, while the docstring of
`access.py` says that every consumer honours the effective policy. A card whose sensitivity
is edited from company-private to personal-local has its default access for cloud models
raised from none to digest-only. The catalog rows count pages and proposals, so that any capture
in any wiki invalidates the packets that hosts hold.

Adoption: rollback takes the lexicographically last record, which its docstring calls the
latest; an adoption that died after the card was written can be neither repeated nor
rolled back.

Experiments: the trees of the arms are digested when the plan is made and not again.

Two more, of evolve: the rollback of an evolve plan is recorded
before its audit line (`evolve.py:751-763`), so a death in between leaves it
unaudited for good; and an evolve plan that was rolled back can never be applied
again while the vault is unchanged, for its id is the same, whereas provisioning
allows exactly that.

## 8. Abstractions and limits

All modules: dates, wording, frontmatter layout, backups (recovery never reads them)
and the refusals of malformed input are left out. An atomic write (a temporary file that
is renamed) is one step; a reader never sees part of such a file. The exclusive creation
of the two files of a selection is not one and is modelled as the open, the write and
the sync it is. An audit line is appended whole. A manifest is read and written whole and
nobody edits it.

Some hazards that `PROJECT.json` lists are in the models and in no passing property, because the
code is exposed to them and the property nearest to them excuses them in its statement:

| Hazard | Excused by |
|---|---|
| another wiki is provisioned while a transaction is pending | `FinishFirst`, in `NeverWedged` and `EventuallySettled` of provisioning |
| a gap snapshot lost to a race | `OnlyRacesLose`, in `GapKept`: only a race loses one |
| a gap transition or an ingested result whose process died before it was audited and logged; a second equal event of one day | `EventuallyTold` is about processes that live, and counts the equal event as told |
| a promotion that drifted while pending | `EventuallySettled` of rollout |
| a cancelled job planned again, or a transition lost to a race of hosts | `CancelledStays`, in `JobsKept`; the first is finding 5 |
| an adoption that died before its record | `RollbackReaches`, in `AdoptionKept` |
| a capture that died before its audit line, or was outrun | `CaptureKept` |
| inputs of an experiment that change during the scoring command | `WellGraded` excuses `shifted`, in `ExperimentKept` |

The components of `Stores`: fields that no property tells apart are one opaque value, and
what a hash binds is a record; malformed input is refused before any state changes and is
left out. Texts are sets of tokens; tokenizing, stemming, link resolution and the n-gram
similarity of semantic reranking, which changes only an order, are not modelled.
gaps: all events happen on one day. evidence: the audit log is appended to without loss.
jobs: the audit line after each record is left out. estate: what is offered is modelled,
the order in which it is listed is not. routing: the budget of the offers that
accompany a load is not applied (`offered` is what it is applied to).
experiment: the grading of an answer is a table.

evolve: pages lie in wiki directories (`PathKinds`), although the code does not refuse a
`--dest` inside `.megamind`; order of sections in a page is abstracted; the flag that approves a new wiki is taken as given;
name collisions with a registered wiki, cards that cannot be parsed and the provenance
checks of research proposals are refusals that are not modelled. A failed write in a
running apply is modelled as a death, since the code does nothing on that path.

provisioning: `Card(w)` stands for the five generated files other than the log, which
the code treats alike; subdirectories are folded into the wiki directory; the router is
the last target, as it is for a wiki path that sorts before `ROUTER.md`; the
qualification criteria and the audit lines are not modelled; one provisioning process
runs at a time.

rollout: the checks of a plan are one constant (`Ready`) and the evidence they bind one
bit (`fresh`), which also stands for the prior-proof chain. The reads at the beginning
of a command are one step, a record and a proof are never edited, and `status` and
`health` only read. Promotes of different plans race in the model. A rollback is
assumed to be the only command for its binding while it runs: the code reads the
active projection once and writes the disarmed one after its record, so two
rollbacks, or a rollback and a replay, that overlap can write a projection the other
has already left. Two limits of the design, not counted as findings: a plan whose card
or evidence drifted cannot be replayed, while its pending record still owns the
binding; and the prior-proof check reads `loadable` from the immutable proof, so the
proof of a promotion that was rolled back still counts.

Not modelled, and why:

- `answer_confidence` (`assess-answer`): a calculator over numbers its caller types in. It
  keeps no state and reads none.
- `plan_research_wave`: arithmetic over the capacities and priorities its host gives, with
  nothing written. Two remarks from reading it: it does not look at the status of the gaps
  that are related to a nominated one, and a wave planned again with other capacities has
  other correlation ids.
- The retrieval benchmark (`evaluation.py`, `run` and `check`) and the corpus generators
  under `evals/`: comparisons of numbers with thresholds, and fixtures. The private key
  file of an experiment: one exclusive creation, which a death can leave torn; such a key
  is refused by its form, and a new one is generated under another name.
- `doctor`'s checks of links, dates, budgets and the router, and the rest of `review`:
  read-only reports. The operators they share with the commands (dangling references,
  broken chains, orphans, access findings, pending evidence) are in the models.
- `scaffold` and `skillpack`: they create files that are not there and skip the others,
  with no record, no recovery and nothing that depends on an order.
- Parsing and rendering (`models.py`, `toon.py`, `card.py`, `registry.py`, the arguments of
  `cli.py`): functions on text. Whether they lose anything is a question for
  property-based tests, not for a state machine.
- Temporary files, containment, permissions and backups of `fsops.py`: below the atomic
  write that the models take as one step.
- The older acceptance interface at the end of `evidence.py`: no command uses it.
