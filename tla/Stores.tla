------------------------------- MODULE Stores -------------------------------
(***************************************************************************)
(* The components that share no state, and what each of them keeps: the    *)
(* properties of a component, taken together.                              *)
(***************************************************************************)
EXTENDS SelectExisting, GapJournal, EvidenceStore, ResearchJobs, LegacyJobs,
        AdoptTxn, Acceptance, Estate, Capture, Experiment

VARIABLE subject   \* the component that a behaviour is of

(* The variables of every component hold what the component keeps in them. *)
StoresTypeOK ==
  /\ SelectTypeOK /\ GapTypeOK /\ EvidenceTypeOK /\ ResearchTypeOK /\ AdoptTypeOK
  /\ AcceptanceTypeOK /\ EstateTypeOK /\ CaptureTypeOK /\ ExperimentTypeOK

(* Gap snapshots follow the table, and only races lose one                 *)
(* (gardening.py:464, 506).                                                *)
GapKept == OnlyRacesLose /\ []LegalLineage

(* Research jobs: a cancelled one is revived only by planning it anew or   *)
(* by a discovery that read it before, none is without its plan, and the   *)
(* legacy journal stays readable (research.py:667, 711, cli.py:1963).      *)
JobsKept == CancelledStays /\ []NoOrphans /\ []StaysReadable

(* Adoption overwrites and removes nothing of the owner's, and rollback    *)
(* knows and undoes everything (adopt.py:178, 203, 268).                   *)
AdoptionKept == OwnFilesKept /\ RollbackRestores /\ []RollbackReaches

(* What is relied on is earned by what holds now, activation included, and *)
(* what is lost is listed for review (evidence.py:1003, review.py:180).    *)
AcceptanceKept == ActiveRestsOnThePresent /\ LossIsListed /\ []RelianceIsEarned

(* Offers are current, withheld wikis are silent and migration is not seen *)
(* (selection.py:802, preflight.py:559, registry.py:553).                  *)
EstateKept ==
  OffersAreCurrent /\ MigrationIsInvisible /\ [](subject = "estate" => WithheldIsSilent)

(* Captures are kept once and audited (capture.py:74, 117).                *)
CaptureKept == OnlyRacesReopen /\ []CapturedIsTold

(* Experiments are judged as they were frozen, and scores stay on record   *)
(* (evaluation.py:1353, 1475).                                             *)
ExperimentKept == RecordsStay /\ []VerdictsEarned
=============================================================================
