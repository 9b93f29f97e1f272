------------------------------- MODULE OneShot -------------------------------
(***************************************************************************)
(* What existing-wiki selection promises: a list is a token that is good   *)
(* for one choice.  Spending it is one instant; only the caller who spent  *)
(* it may be granted the choice, once, or may give it back instead, and if *)
(* that caller dies the token is gone.                                     *)
(***************************************************************************)
EXTENDS Sequences

CONSTANTS Tokens, Callers, Choices, NoChoice

VARIABLES issued,   \* the tokens handed out
          choice,   \* what each token was spent on
          holder,   \* the tokens each caller has spent and not cashed in yet
          grants    \* the choices granted for each token, in order

tokenVars == <<issued, choice, holder, grants>>

TokenInit ==
  /\ issued = {}
  /\ choice = [t \in Tokens |-> NoChoice]
  /\ holder = [c \in Callers |-> {}]
  /\ grants = [t \in Tokens |-> <<>>]

Issue(t) ==
  /\ t \notin issued
  /\ issued' = issued \cup {t}
  /\ UNCHANGED <<choice, holder, grants>>

Spend(t, c, w) ==
  /\ t \in issued
  /\ choice[t] = NoChoice
  /\ choice' = [choice EXCEPT ![t] = w]
  /\ holder' = [holder EXCEPT ![c] = {t}]
  /\ UNCHANGED <<issued, grants>>

Grant(t, c) ==
  /\ t \in holder[c]
  /\ grants' = [grants EXCEPT ![t] = Append(@, choice[t])]
  /\ holder' = [holder EXCEPT ![c] = {}]
  /\ UNCHANGED <<issued, choice>>

(* What was spent could not be made to last.                               *)
GiveBack(t, c) ==
  /\ t \in holder[c]
  /\ choice' = [choice EXCEPT ![t] = NoChoice]
  /\ holder' = [holder EXCEPT ![c] = {}]
  /\ UNCHANGED <<issued, grants>>

Die(c) ==
  /\ holder' = [holder EXCEPT ![c] = {}]
  /\ UNCHANGED <<issued, choice, grants>>

TokenNext ==
  \/ \E t \in Tokens : Issue(t)
  \/ \E t \in Tokens, c \in Callers, w \in Choices : Spend(t, c, w)
  \/ \E t \in Tokens, c \in Callers : Grant(t, c) \/ GiveBack(t, c)
  \/ \E c \in Callers : Die(c)

TokenSpec == TokenInit /\ [][TokenNext]_tokenVars
=============================================================================
