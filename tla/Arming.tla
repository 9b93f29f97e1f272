------------------------------- MODULE Arming -------------------------------
(***************************************************************************)
(* What `rollout` promises to somebody who sees only which promotion is    *)
(* armed for a binding of a host and a wiki, and what the two ledgers say  *)
(* is done: a promotion arms a free binding, once; one rollback disarms    *)
(* it, for good; and a ledger says that something is done when it is.      *)
(***************************************************************************)

CONSTANTS Promotions,     \* that may be armed
          Blocked,        \* that may not
          Rollbacks,      \* [promotion, reason]
          Bindings, Binding,
          NoPromotion

VARIABLES armed,          \* the promotion that each binding is armed with
          undone,         \* the rollbacks that have disarmed their promotion
          settled         \* what the ledgers say is done

armingVars == <<armed, undone, settled>>

ArmingInit ==
  /\ armed = [b \in Bindings |-> NoPromotion]
  /\ undone = {}
  /\ settled = {}

Arm(p) ==
  /\ armed[Binding[p]] = NoPromotion
  /\ \A r \in undone : r.promotion # p
  /\ armed' = [armed EXCEPT ![Binding[p]] = p]
  /\ UNCHANGED <<undone, settled>>

Disarm(r) ==
  /\ armed[Binding[r.promotion]] = r.promotion
  /\ armed' = [armed EXCEPT ![Binding[r.promotion]] = NoPromotion]
  /\ undone' = undone \cup {r}
  /\ UNCHANGED settled

(* A blocked promotion is done when its outcome is recorded.               *)
Settle(id) ==
  /\ id \in Promotions => armed[Binding[id]] = id
  /\ id \in Rollbacks => id \in undone
  /\ settled' = settled \cup {id}
  /\ UNCHANGED <<armed, undone>>

ArmingNext ==
  \/ \E p \in Promotions : Arm(p)
  \/ \E r \in Rollbacks : Disarm(r)
  \/ \E id \in Promotions \cup Blocked \cup Rollbacks : Settle(id)

ArmingSpec == ArmingInit /\ [][ArmingNext]_armingVars
=============================================================================
