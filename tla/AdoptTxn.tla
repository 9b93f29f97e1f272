------------------------------ MODULE AdoptTxn ------------------------------
(***************************************************************************)
(* Adoption of an existing wiki directory (adopt.py): the plan adds the    *)
(* scaffold files that are missing; apply writes directories, files, the   *)
(* audit line and, last, the record that rollback works from.  Meanwhile   *)
(* people work in the directory, and the process may die anywhere.  The    *)
(* audit log and its directory always stay, and are left out.              *)
(***************************************************************************)
EXTENDS Naturals, Sequences, SequencesExt, FiniteSets

CONSTANTS Scaffold,      \* the files an adoption adds, in order
          Card,          \* the one that is the wiki card
          Directories,   \* the directories an adoption adds, in order
          DirOf,         \* the directory each file is in
          MaxUserSteps, MaxAdoptDeaths, MaxAdoptions

ASSUME AdoptConstants ==
  /\ Scaffold \in Seq(Range(Scaffold)) /\ Directories \in Seq(Range(Directories))
  /\ Card \in Range(Scaffold)
  /\ DOMAIN DirOf = Range(Scaffold)
  /\ MaxUserSteps \in Nat /\ MaxAdoptDeaths \in Nat /\ MaxAdoptions \in Nat

VARIABLES tree,        \* each file: absent, as generated, or somebody's own
          folders,     \* the directories that are there
          adoptions,   \* the records: [files, dirs, of]
          adopter,     \* what the process is doing
          userSteps, adoptDeaths, adopted,
          origin       \* history: the directory as each adoption found it

adVars == <<tree, folders, adoptions, adopter, userSteps, adoptDeaths, adopted, origin>>
adCounts == <<userSteps, adoptDeaths, adopted, origin>>

AdFiles == Range(Scaffold)
Off == [phase |-> "off"]
Now(phase) == adopter.phase = phase
Within(f)  == {DirOf[f]} \cap Range(Directories)
Holds(d)   == \E f \in AdFiles : DirOf[f] = d /\ tree[f] # "absent"

(* What is left of a list is worked off in the order of the list.          *)
First(S, list) == list[CHOOSE i \in DOMAIN list : list[i] \in S /\ \A k \in 1 .. i - 1 : list[k] \notin S]

AdoptInit ==
  /\ tree \in [AdFiles -> {"absent", "own"}]
  /\ tree[Card] = "absent"
  /\ folders = {d \in Range(Directories) : Holds(d)}
  /\ adoptions = {}
  /\ adopter = Off
  /\ userSteps = 0 /\ adoptDeaths = 0 /\ adopted = 0
  /\ origin = <<>>

-----------------------------------------------------------------------------
(* plan_adoption, computed anew by apply and compared with the plan that   *)
(* was approved; it adds what is missing, and a card ends it.              *)
Missing == {f \in AdFiles : tree[f] = "absent"}

BeginApply ==
  /\ Now("off") /\ adopted < MaxAdoptions /\ adopted' = adopted + 1
  /\ tree[Card] = "absent"
  /\ adopter' = [phase |-> "dirs", files |-> Missing, left |-> Missing,
                 dirs |-> Range(Directories) \ folders, number |-> adopted + 1]
  /\ origin' = Append(origin, [tree |-> tree, folders |-> folders])
  /\ UNCHANGED <<tree, folders, adoptions, userSteps, adoptDeaths>>

MakeDirs ==
  /\ Now("dirs")
  /\ folders' = folders \cup adopter.dirs
  /\ adopter' = [adopter EXCEPT !.phase = "files"]
  /\ UNCHANGED <<tree, adoptions, adCounts>>

(* A file is written whether or not it has appeared since.                 *)
WriteScaffold ==
  /\ Now("files")
  /\ IF adopter.left = {}
     THEN adopter' = [adopter EXCEPT !.phase = "record"] /\ UNCHANGED <<tree, folders>>
     ELSE LET f == First(adopter.left, Scaffold) IN
          /\ tree' = [tree EXCEPT ![f] = "generated"]
          /\ folders' = folders \cup Within(f)
          /\ adopter' = [adopter EXCEPT !.left = @ \ {f}]
  /\ UNCHANGED <<adoptions, adCounts>>

(* Faulty: the record leaves out the first file.                           *)
WriteRecordShort ==
  /\ Now("record")
  /\ adoptions' = adoptions \cup {[files |-> adopter.files \ {First(adopter.files, Scaffold)},
                                   dirs |-> adopter.dirs, of |-> adopter.number]}
  /\ adopter' = Off
  /\ UNCHANGED <<tree, folders, adCounts>>

WriteRecord ==
  /\ Now("record")
  /\ adoptions' = adoptions \cup {[files |-> adopter.files, dirs |-> adopter.dirs, of |-> adopter.number]}
  /\ adopter' = Off
  /\ UNCHANGED <<tree, folders, adCounts>>

-----------------------------------------------------------------------------
(* rollback_adoption.  The record is the last one by name, and a name is a *)
(* hash: with two of them it may be either.                                *)

BeginRollback ==
  /\ Now("off")
  /\ \E r \in adoptions :
       adopter' = [phase |-> "check", record |-> r, left |-> r.files, dirs |-> r.dirs]
  /\ UNCHANGED <<tree, folders, adoptions, adCounts>>

(* Faulty: a file is removed although it was edited.                       *)
CheckFileAny ==
  /\ Now("check") /\ adopter.left # {}
  /\ LET f == First(adopter.left, Scaffold) IN
     adopter' = IF tree[f] = "absent" THEN [adopter EXCEPT !.left = @ \ {f}]
                ELSE [phase |-> "unlink", record |-> adopter.record, left |-> adopter.left,
                      dirs |-> adopter.dirs, saw |-> tree[f]]
  /\ UNCHANGED <<tree, folders, adoptions, adCounts>>

(* The hash is compared with the recorded one ...                         *)
CheckFile ==
  /\ Now("check") /\ adopter.left # {}
  /\ LET f == First(adopter.left, Scaffold) IN
     adopter' = IF tree[f] # "generated" THEN [adopter EXCEPT !.left = @ \ {f}]
                ELSE [phase |-> "unlink", record |-> adopter.record, left |-> adopter.left,
                      dirs |-> adopter.dirs, saw |-> tree[f]]
  /\ UNCHANGED <<tree, folders, adoptions, adCounts>>

(* ... and then the file is removed.                                      *)
UnlinkFile ==
  /\ Now("unlink")
  /\ LET f == First(adopter.left, Scaffold) IN
     /\ tree' = [tree EXCEPT ![f] = "absent"]
     /\ adopter' = [phase |-> "check", record |-> adopter.record, left |-> adopter.left \ {f},
                    dirs |-> adopter.dirs]
  /\ UNCHANGED <<folders, adoptions, adCounts>>

(* Faulty: the directories of the record are left.                         *)
RemoveDirsNever ==
  /\ Now("check") /\ adopter.left = {} /\ adopter.dirs # {}
  /\ adopter' = [adopter EXCEPT !.dirs = @ \ {First(@, Directories)}]
  /\ UNCHANGED <<tree, folders, adoptions, adCounts>>

(* A directory is removed when it is empty.                                *)
RemoveDirs ==
  /\ Now("check") /\ adopter.left = {} /\ adopter.dirs # {}
  /\ LET d == First(adopter.dirs, Directories) IN
     /\ folders' = IF Holds(d) THEN folders ELSE folders \ {d}
     /\ adopter' = [adopter EXCEPT !.dirs = @ \ {d}]
  /\ UNCHANGED <<tree, adoptions, adCounts>>

EndRollback ==
  /\ Now("check") /\ adopter.left = {} /\ adopter.dirs = {}
  /\ adoptions' = adoptions \ {adopter.record}
  /\ adopter' = Off
  /\ UNCHANGED <<tree, folders, adCounts>>

-----------------------------------------------------------------------------

(* Somebody writes a file, or removes it.                                  *)
UserStep ==
  /\ userSteps < MaxUserSteps /\ userSteps' = userSteps + 1
  /\ \E f \in AdFiles, to \in {"own", "absent"} :
       /\ tree[f] # to
       /\ tree' = [tree EXCEPT ![f] = to]
       /\ folders' = IF to = "own" THEN folders \cup Within(f) ELSE folders
  /\ UNCHANGED <<adoptions, adopter, adoptDeaths, adopted, origin>>

AdopterDies ==
  /\ adopter # Off
  /\ adoptDeaths < MaxAdoptDeaths /\ adoptDeaths' = adoptDeaths + 1
  /\ adopter' = Off
  /\ UNCHANGED <<tree, folders, adoptions, userSteps, adopted, origin>>

AdoptProgress ==
  \/ MakeDirs \/ WriteScaffold \/ WriteRecord
  \/ CheckFile \/ UnlinkFile \/ RemoveDirs \/ EndRollback

AdoptNext == BeginApply \/ BeginRollback \/ AdoptProgress \/ UserStep \/ AdopterDies

AdoptSpec == AdoptInit /\ [][AdoptNext]_adVars

-----------------------------------------------------------------------------

AdoptTypeOK ==
  /\ tree \in [AdFiles -> {"absent", "own", "generated"}]
  /\ folders \subseteq Range(Directories)
  /\ \A r \in adoptions : r.files \subseteq AdFiles /\ r.of \in 1 .. adopted
  /\ Len(origin) = adopted

(* What somebody wrote is overwritten by no adoption and removed by no     *)
(* rollback, unless it was written between the look and the write          *)
(* (adopt.py:104, 178, 292).                                               *)
OwnFilesKept ==
  [][\A f \in AdFiles :
       tree[f] = "own" /\ tree'[f] # "own" /\ adopter # adopter' =>
         \/ Now("files")  /\ origin[adopter.number].tree[f] = "absent"
         \/ Now("unlink") /\ adopter.saw = "generated"]_adVars

(* Every generated file is in the record of an adoption that rollback will *)
(* find, or about to be, unless an apply died before it wrote its record   *)
(* (adopt.py:203).                                                         *)
RollbackReaches ==
  adoptDeaths = 0 =>
    \A f \in AdFiles : tree[f] = "generated" =>
      \/ \E r \in adoptions : f \in r.files
      \/ adopter.phase \in {"files", "record"} /\ f \in adopter.files

(* When the one adoption there was is rolled back and nobody touched the   *)
(* directory, it is as it was found, also after deaths in the rollback     *)
(* (adopt.py:268).                                                         *)
RollbackRestores ==
  [][Now("check") /\ adopter' = Off /\ adoptions' # adoptions /\ userSteps = 0 /\ adopted = 1 =>
       tree' = origin[1].tree /\ folders' = origin[1].folders]_adVars
=============================================================================
