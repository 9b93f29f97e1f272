---------------------------- MODULE AtomicEvolve ----------------------------
(***************************************************************************)
(* What `evolve` promises to somebody who never looks inside it            *)
(* (docs/architecture.md, the README's safety section): a reviewed plan    *)
(* changes every one of its files at one instant or changes nothing, and   *)
(* undoing it restores what the files held, at one instant too.            *)
(***************************************************************************)
EXTENDS EvolvePlan

CONSTANT InitialTree

VARIABLES
  tree,      \* the vault as its users see it
  ledger     \* plan id -> what became of it, and the entries it has

Init == tree = InitialTree /\ ledger = [id \in {} |-> {}]

Outcome(id, state, entries) ==
  ledger' = [k \in DOMAIN ledger \cup {id} |->
               IF k = id THEN [state |-> state, entries |-> entries] ELSE ledger[k]]

(* The tree with the key ("old" or "new") content of every entry.          *)
Overlay(entries, key) ==
  [f \in DOMAIN tree |->
     IF \E i \in DOMAIN entries : entries[i].path = f
     THEN entries[CHOOSE i \in DOMAIN entries : entries[i].path = f][key]
     ELSE tree[f]]

(* The plan of the vault as it is at this very instant takes effect.       *)
Apply(r) ==
  LET entries == Entries(tree, r) IN
  /\ Plannable(tree, r)
  /\ PlanId(tree, r) \notin DOMAIN ledger
  /\ tree' = Overlay(entries, "new")
  /\ Outcome(PlanId(tree, r), "applied", entries)

(* An apply that was interrupted and undone: nobody saw any of it.         *)
Abandon(r) ==
  /\ Plannable(tree, r)
  /\ PlanId(tree, r) \notin DOMAIN ledger
  /\ Outcome(PlanId(tree, r), "rolled_back", Entries(tree, r))
  /\ UNCHANGED tree

(* A plan can be undone while its files are as it left them.               *)
Undo(id) ==
  LET entries == ledger[id].entries IN
  /\ ledger[id].state = "applied"
  /\ \A i \in DOMAIN entries : tree[entries[i].path] = entries[i].new
  /\ tree' = Overlay(entries, "old")
  /\ Outcome(id, "rolled_back", entries)

Next ==
  \/ \E r \in Requests : Apply(r) \/ Abandon(r)
  \/ \E id \in DOMAIN ledger : Undo(id)

Spec == Init /\ [][Next]_<<tree, ledger>>
=============================================================================
