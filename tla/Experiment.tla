----------------------------- MODULE Experiment -----------------------------
(***************************************************************************)
(* The blind experiment over three arms (evaluation.py): a plan freezes the*)
(* inputs and assigns conditions to labels under a private key, runners    *)
(* leave one output per arm, score grades them by label, and only then     *)
(* opens the map and judges the arms by condition; record keeps the score. *)
(* The digests of the inputs are checked once, when the plan is loaded; the*)
(* task set is read again for each output and for the grades, the gates    *)
(* after the map is opened.                                                *)
(*                                                                         *)
(* A keyed digest is the record of what it is a digest of.                 *)
(***************************************************************************)
EXTENDS Integers, FiniteSets, Sequences, SequencesExt

CONSTANTS Scorers,       \* processes that score and record
          Inputs,        \* what the input files may be: [tasks, rubric, gates]
          Trees,         \* what the three wikis may be
          BlindingKeys,
          AssignmentOf,  \* [key, frozen] |-> the condition of each label
          Grade,         \* [answers, tasks] |-> accuracies in hundredths
          Gate,          \* [gates] |-> the task set they bind and the promotion gates
          Fits,          \* [answers] |-> the task sets they answer
          NoOutput,
          ArmRuns,       \* what runners do: [label, of, answers]
          Submissions,   \* the sets of arms that are submitted
          MaxArmRuns, MaxScores, MaxRecords, MaxInputChanges

Labels == 0 .. 2
Conditions == {"no-wiki", "current-wiki", "updated-wiki"}

ASSUME ExperimentConstants ==
  /\ DOMAIN AssignmentOf = BlindingKeys \X Inputs
  /\ \A q \in DOMAIN AssignmentOf : {AssignmentOf[q][l] : l \in Labels} = Conditions
  /\ \A s \in Submissions : s # {} /\ s \subseteq Labels
  /\ {MaxArmRuns, MaxScores, MaxRecords, MaxInputChanges} \subseteq Nat

VARIABLES inputs,        \* the files, now
          trees,         \* the wikis, now
          planned,       \* the plans that were made
          outputs,       \* the file in the output root of each arm
          scorer,        \* what each process is doing
          verdicts,      \* the scores that were written
          evaluations,   \* evaluations.jsonl
          armRuns, scores, inputChanges

xpVars == <<inputs, trees, planned, outputs, scorer, verdicts, evaluations, armRuns, scores, inputChanges>>

NotScoring == [pc |-> "none"]
Has(g, pc) == scorer[g].pc = pc
Done(g)    == scorer' = [scorer EXCEPT ![g] = NotScoring]

ExperimentInit ==
  /\ inputs \in Inputs /\ trees \in Trees
  /\ planned = {}
  /\ outputs = [l \in Labels |-> NoOutput]
  /\ scorer = [g \in Scorers |-> NotScoring]
  /\ verdicts = {} /\ evaluations = <<>>
  /\ armRuns = 0 /\ scores = 0 /\ inputChanges = 0

-----------------------------------------------------------------------------
(* plan_experiment: the assignment is drawn from the key and the inputs,   *)
(* whose gates must be bound to the task set.                              *)

Assigned(p)      == AssignmentOf[p.key, p.frozen]
Commitment(p, l) == [plan |-> p, label |-> l, condition |-> Assigned(p)[l], tree |-> p.trees]

PlanExperiment(key) ==
  /\ Gate[inputs.gates].binding = inputs.tasks
  /\ planned' = planned \cup {[key |-> key, frozen |-> inputs, trees |-> trees]}
  /\ UNCHANGED <<inputs, trees, outputs, scorer, verdicts, evaluations, armRuns, scores, inputChanges>>

(* A runner leaves the output of an arm; it may have run on another tree,  *)
(* or for another plan.                                                    *)
RunArm(p, run) ==
  /\ armRuns < MaxArmRuns /\ armRuns' = armRuns + 1
  /\ outputs' = [outputs EXCEPT ![run.label] =
       [plan |-> p, snapshot |-> Commitment(p, run.of), answers |-> run.answers]]
  /\ UNCHANGED <<inputs, trees, planned, scorer, verdicts, evaluations, scores, inputChanges>>

-----------------------------------------------------------------------------
(* seal_experiment                                                         *)

(* load_plan: the frozen inputs are those of the plan, at this moment.     *)
BeginScore(g, p, submitted) ==
  /\ Has(g, "none") /\ scores < MaxScores /\ scores' = scores + 1
  /\ inputs = p.frozen
  /\ scorer' = [scorer EXCEPT ![g] =
       [pc |-> "collect", plan |-> p, left |-> submitted, read |-> <<>>, shifted |-> FALSE]]
  /\ UNCHANGED <<inputs, trees, planned, outputs, verdicts, evaluations, armRuns, inputChanges>>

(* _validate_output                                                        *)
ValidOutput(p, l) ==
  /\ outputs[l] # NoOutput
  /\ outputs[l].plan = p
  /\ \E k \in Labels : outputs[l].snapshot = Commitment(p, k)
  /\ inputs.tasks \in Fits[outputs[l].answers]

CollectArm(g) ==
  /\ Has(g, "collect") /\ scorer[g].left # {}
  /\ \E l \in {k \in scorer[g].left : \A m \in scorer[g].left : k <= m} :
       IF ValidOutput(scorer[g].plan, l)
       THEN scorer' = [scorer EXCEPT ![g].left = @ \ {l},
              ![g].read = [k \in DOMAIN @ \cup {l} |-> IF k = l THEN outputs[l] ELSE @[k]]]
       ELSE Done(g)
  /\ UNCHANGED <<inputs, trees, planned, outputs, verdicts, evaluations, armRuns, scores, inputChanges>>

(* Every planned snapshot once, or the experiment is unsettled.            *)
Seal(g) ==
  LET me == scorer[g] IN
  /\ Has(g, "collect") /\ me.left = {}
  /\ IF DOMAIN me.read # Labels
     THEN /\ verdicts' = verdicts \cup {[plan |-> me.plan, status |-> "unsettled", read |-> me.read,
                                         shifted |-> me.shifted]}
          /\ Done(g)
     ELSE /\ UNCHANGED verdicts
          /\ IF {me.read[l].snapshot : l \in Labels} = {Commitment(me.plan, l) : l \in Labels}
             THEN scorer' = [scorer EXCEPT ![g] =
                    [pc |-> "unblind", plan |-> me.plan, read |-> me.read, shifted |-> me.shifted,
                     sealed |-> [l \in Labels |-> Grade[me.read[l].answers, inputs.tasks]]]]
             ELSE Done(g)
  /\ UNCHANGED <<inputs, trees, planned, outputs, evaluations, armRuns, scores, inputChanges>>

-----------------------------------------------------------------------------
(* load_unblinding_map: whatever map is given, it must be the one that the *)
(* key and the plan derive, and open every commitment of the plan.         *)

Maps(p) ==
  [key : BlindingKeys, plan : planned,
   assignments : {Assigned(p)} \cup {AssignmentOf[q] : q \in DOMAIN AssignmentOf}]

(* Faulty: the assignment is taken from the map.                           *)
OpensAnyhow(m, p) == m.plan = p /\ m.key = p.key

Opens(m, p) == m.plan = p /\ m.key = p.key /\ m.assignments = AssignmentOf[m.key, p.frozen]

Unblind(g) ==
  /\ Has(g, "unblind")
  /\ \/ \E m \in Maps(scorer[g].plan) :
          /\ Opens(m, scorer[g].plan)
          /\ scorer' = [scorer EXCEPT ![g] =
               [pc |-> "judge", plan |-> @.plan, read |-> @.read, shifted |-> @.shifted,
                sealed |-> @.sealed, labelOf |-> [c \in Conditions |->
                                        CHOOSE l \in Labels : m.assignments[l] = c]]]
     \/ Done(g)
  /\ UNCHANGED <<inputs, trees, planned, outputs, verdicts, evaluations, armRuns, scores, inputChanges>>

Passes(updated, current, gate) ==
  /\ updated.target - current.target >= gate.improvement
  /\ updated.adjacent - current.adjacent >= -gate.adjacent
  /\ updated.provenance - current.provenance >= -gate.provenance

(* score_sealed: each output must be of its own snapshot.                  *)
Judge(g) ==
  LET me == scorer[g]
      passed == Passes(me.sealed[me.labelOf["updated-wiki"]], me.sealed[me.labelOf["current-wiki"]],
                       Gate[inputs.gates])
  IN
  /\ Has(g, "judge")
  /\ IF \A l \in Labels : me.read[l].snapshot = Commitment(me.plan, l)
     THEN verdicts' = verdicts \cup {[plan |-> me.plan, read |-> me.read, shifted |-> me.shifted,
                                      status |-> IF passed THEN "promoted" ELSE "rollback-required"]}
     ELSE UNCHANGED verdicts
  /\ Done(g)
  /\ UNCHANGED <<inputs, trees, planned, outputs, evaluations, armRuns, scores, inputChanges>>

-----------------------------------------------------------------------------
(* record_evaluation: the log is read and replaced.                        *)

BeginRecord(g, v) ==
  /\ Has(g, "none") /\ Len(evaluations) < MaxRecords
  /\ scorer' = [scorer EXCEPT ![g] = [pc |-> "record", verdict |-> v, old |-> evaluations]]
  /\ UNCHANGED <<inputs, trees, planned, outputs, verdicts, evaluations, armRuns, scores, inputChanges>>

(* Faulty: the log holds the last record only.                             *)
RecordAlone(g) ==
  /\ Has(g, "record")
  /\ evaluations' = <<scorer[g].verdict>>
  /\ Done(g)
  /\ UNCHANGED <<inputs, trees, planned, outputs, verdicts, armRuns, scores, inputChanges>>

Record(g) ==
  /\ Has(g, "record")
  /\ evaluations' = Append(scorer[g].old, scorer[g].verdict)
  /\ Done(g)
  /\ UNCHANGED <<inputs, trees, planned, outputs, verdicts, armRuns, scores, inputChanges>>

(* Somebody edits an input or a wiki.                                      *)
InputsChange ==
  /\ inputChanges < MaxInputChanges /\ inputChanges' = inputChanges + 1
  /\ inputs' \in Inputs /\ trees' \in Trees /\ <<inputs, trees>>' # <<inputs, trees>>
  /\ scorer' = [g \in Scorers |-> IF "shifted" \in DOMAIN scorer[g] /\ inputs' # inputs
                                  THEN [scorer[g] EXCEPT !.shifted = TRUE] ELSE scorer[g]]
  /\ UNCHANGED <<planned, outputs, verdicts, evaluations, armRuns, scores>>

ExperimentNext ==
  \/ \E key \in BlindingKeys : PlanExperiment(key)
  \/ \E p \in planned, run \in ArmRuns : RunArm(p, run)
  \/ \E g \in Scorers :
       \/ \E p \in planned, submitted \in Submissions : BeginScore(g, p, submitted)
       \/ CollectArm(g) \/ Seal(g) \/ Unblind(g) \/ Judge(g)
       \/ \E v \in verdicts : BeginRecord(g, v)
       \/ Record(g)
  \/ InputsChange

ExperimentSpec == ExperimentInit /\ [][ExperimentNext]_xpVars

-----------------------------------------------------------------------------

ExperimentTypeOK ==
  /\ inputs \in Inputs /\ trees \in Trees
  /\ \A p \in planned : p.key \in BlindingKeys /\ p.frozen \in Inputs /\ p.trees \in Trees
  /\ \A v \in verdicts : v.plan \in planned /\ v.status \in {"unsettled", "promoted", "rollback-required"}
  /\ Range(evaluations) \subseteq verdicts
  /\ armRuns \in 0 .. MaxArmRuns /\ scores \in 0 .. MaxScores /\ inputChanges \in 0 .. MaxInputChanges

(* A verdict is what the frozen gates and the frozen tasks say of the arms *)
(* by their true conditions, each run on its own tree for this very plan - *)
(* whatever map is given and whatever is rewritten in between - unless an  *)
(* input was edited while the command ran (evaluation.py:941, 1353, 1408). *)
VerdictsEarned ==
  \A v \in verdicts :
    LET grade(c) == LET l == CHOOSE k \in Labels : Assigned(v.plan)[k] = c IN
                    Grade[v.read[l].answers, v.plan.frozen.tasks]
    IN v.status # "unsettled" =>
       /\ \A l \in Labels : v.read[l].plan = v.plan /\ v.read[l].snapshot = Commitment(v.plan, l)
       /\ ~v.shifted =>
            (v.status = "promoted" <=>
               Passes(grade("updated-wiki"), grade("current-wiki"), Gate[v.plan.frozen.gates]))

(* No recorded score is lost, but by a process that read the log before    *)
(* another one replaced it (evaluation.py:1475).                           *)
RecordsStay ==
  [][\/ IsPrefix(evaluations, evaluations')
     \/ \E g \in Scorers : Has(g, "record") /\ scorer[g].old # evaluations]_xpVars
=============================================================================
