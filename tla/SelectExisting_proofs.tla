------------------------ MODULE SelectExisting_proofs ------------------------
(***************************************************************************)
(* Theorems about SelectExisting for any callers, sessions and wikis, any  *)
(* number of issuances and any bound on deaths and changes of the catalog. *)
(***************************************************************************)
EXTENDS SelectExisting, TLAPS

-----------------------------------------------------------------------------
(* The inductive invariant                                                 *)

ListPhases   == {"look", "create", "writeListing", "auditListed"}
ChoosePhases == {"claim", "readClaim", "writeClaim", "auditClaim", "consume", "auditConsumed"}

(* A caller that is past its claim has spent the list if the claim is its, *)
(* and has created the claim file already while that is torn.              *)
Past(c)    == caller[c].phase \in {"auditClaim", "consume", "auditConsumed"}
Spender(c) == Past(c) /\ caller[c].mine
Maker(c)   == At(c, "writeClaim") \/ Spender(c)

(* The claim is there or was removed by the caller that created it.        *)
Claimed(n) == claim[n] \in Wikis \/ n \in withdrawn

(* What a caller that chooses knows of the list in its hands.              *)
Knows(c) ==
  LET n == caller[c].nonce IN
  /\ caller[c].phase \in ChoosePhases => n \in offered
  /\ At(c, "claim") \/ At(c, "readClaim") => ~caller[c].mine
  /\ At(c, "claim") \/ At(c, "writeClaim") => caller[c].wiki \in n.eligible
  /\ At(c, "writeClaim") => caller[c].mine /\ claim[n] = Torn
  /\ Spender(c) => claim[n] = caller[c].wiki
  /\ Maker(c) => granted[n] = <<>>
  /\ Past(c) => Claimed(n)
  /\ caller[c].phase \in {"consume", "auditConsumed"} => "claimed" \in audited[n]

(* The claim file is created exclusively: a list has one spender.          *)
OneMaker ==
  \A c, d \in Callers :
    Maker(c) /\ Maker(d) /\ caller[c].nonce = caller[d].nonce => c = d

(* What was claimed was listed, and what was granted was claimed.          *)
Earned ==
  \A n \in Nonces :
    /\ claim[n] \in Wikis => claim[n] \in n.eligible
    /\ granted[n] = <<>> \/ (claim[n] \in Wikis /\ granted[n] = <<claim[n]>>)

(* A state file that can be read was written.                              *)
ReadableIsOffered == \A n \in Nonces : listing[n] \in {"listed", "consumed"} => n \in offered

SelectInv ==
  /\ SelectTypeOK
  /\ \A c \in Callers : Knows(c)
  /\ OneMaker
  /\ Earned
  /\ ReadableIsOffered
  /\ ConsumedIsAccountedFor

-----------------------------------------------------------------------------
(* Type correctness                                                        *)

(* The phase of a caller says what it holds.                               *)
LEMMA Kinds ==
  ASSUME caller \in [Callers -> CallerStates], NEW c \in Callers
  PROVE  /\ At(c, "idle") <=> caller[c] = Idle
         /\ caller[c].phase \in ListPhases <=> caller[c] \in Listing
         /\ caller[c].phase \in ChoosePhases <=> caller[c] \in Choosing
<1>1. caller[c] \in CallerStates
  OBVIOUS
<1>2. QED
  BY <1>1 DEF At, CallerStates, Idle, Listing, Choosing, ListPhases, ChoosePhases

LEMMA Replaced ==
  ASSUME caller \in [Callers -> CallerStates], NEW c \in Callers, NEW state \in CallerStates
  PROVE  [caller EXCEPT ![c] = state] \in [Callers -> CallerStates]
  OBVIOUS

(* A caller that ends or moves on is one the type allows.                  *)
LEMMA Ending ==
  ASSUME caller \in [Callers -> CallerStates], NEW c \in Callers, Finish(c)
  PROVE  caller' \in [Callers -> CallerStates]
  BY Replaced DEF Finish, CallerStates

LEMMA Moving ==
  ASSUME caller \in [Callers -> CallerStates], NEW c \in Callers, NEW phase, Goto(c, phase),
         \/ caller[c] \in Listing /\ phase \in ListPhases
         \/ caller[c] \in Choosing /\ phase \in ChoosePhases
  PROVE  caller' \in [Callers -> CallerStates]
<1> DEFINE state == [caller[c] EXCEPT !.phase = phase]
<1>1. state \in Listing \cup Choosing
  BY DEF Listing, Choosing, ListPhases, ChoosePhases
<1>2. caller' = [caller EXCEPT ![c] = state]
  BY DEF Goto
<1> HIDE DEF state
<1>3. QED
  BY <1>1, <1>2, Replaced DEF CallerStates

LEMMA Claiming ==
  ASSUME caller \in [Callers -> CallerStates], NEW c \in Callers, caller[c] \in Choosing,
         caller' = [caller EXCEPT ![c].phase = "writeClaim", ![c].mine = TRUE]
  PROVE  caller' \in [Callers -> CallerStates]
<1> DEFINE state == [caller[c] EXCEPT !.phase = "writeClaim", !.mine = TRUE]
<1>1. state \in Choosing
  BY DEF Choosing
<1>2. caller' = [caller EXCEPT ![c] = state]
  OBVIOUS
<1> HIDE DEF state
<1>3. QED
  BY <1>1, <1>2, Replaced DEF CallerStates

LEMMA Reissuing ==
  ASSUME caller \in [Callers -> CallerStates], NEW c \in Callers, caller[c] \in Listing,
         NextIssuance(c)
  PROVE  caller' \in [Callers -> CallerStates]
<1> DEFINE n     == caller[c].nonce
           next  == [n EXCEPT !.issuance = @ + 1]
           state == [phase |-> "look", nonce |-> next]
<1>1. CASE n.issuance + 1 < MaxIssuance
  <2>1. next \in Nonces
    BY <1>1, SelectConstants DEF Listing, Nonces
  <2>2. state \in CallerStates
    BY <2>1 DEF Listing, CallerStates
  <2>3. caller' = [caller EXCEPT ![c] = state]
    BY <1>1 DEF NextIssuance, NonceOf, Listing
  <2> HIDE DEF state
  <2>4. QED
    BY <2>2, <2>3, Replaced
<1>2. CASE ~(n.issuance + 1 < MaxIssuance)
  BY <1>2, Ending DEF NextIssuance, NonceOf
<1>3. QED
  BY <1>1, <1>2

LEMMA Auditing ==
  ASSUME audited \in [Nonces -> SUBSET Events], NEW n \in Nonces, NEW event \in Events, Ensure(n, event)
  PROVE  audited' \in [Nonces -> SUBSET Events]
  BY DEF Ensure

LEMMA NoncesHeld ==
  ASSUME NEW c \in Callers, caller[c] \in Listing \cup Choosing
  PROVE  NonceOf(c) \in Nonces
  BY DEF NonceOf, Listing, Choosing

LEMMA TypeInit == SelectInit => SelectTypeOK
  BY SelectConstants DEF SelectInit, SelectTypeOK, CallerStates

LEMMA TypeStep == SelectTypeOK /\ [SelectNext]_selectVars => SelectTypeOK'
<1> SUFFICES ASSUME SelectTypeOK, [SelectNext]_selectVars PROVE SelectTypeOK'
  OBVIOUS
<1> USE SelectConstants DEF SelectTypeOK
<1>1. ASSUME NEW c \in Callers, NEW s \in Sessions, BeginList(c, s) PROVE SelectTypeOK'
  <2> DEFINE state == [phase |-> "look",
                       nonce |-> [session |-> s, eligible |-> candidates, issuance |-> 0]]
  <2>1. state \in CallerStates
    BY DEF Nonces, Listing, CallerStates
  <2>2. caller' = [caller EXCEPT ![c] = state]
    BY <1>1 DEF BeginList
  <2> HIDE DEF state
  <2>3. QED
    BY <1>1, <2>1, <2>2, Replaced DEF BeginList, files, history
<1>2. ASSUME NEW c \in Callers, NEW s \in Sessions, NEW n \in Nonces, NEW w \in Wikis,
             Present(c, s, n, w)
      PROVE SelectTypeOK'
  <2> DEFINE state == [phase |-> "claim", nonce |-> n, wiki |-> w, mine |-> FALSE]
  <2>1. audited' \in [Nonces -> SUBSET Events]
    BY <1>2, Auditing DEF Present, Events
  <2>2. state \in CallerStates
    BY DEF Choosing, CallerStates
  <2>3. caller' = [caller EXCEPT ![c] = state] \/ UNCHANGED caller
    BY <1>2 DEF Present
  <2> HIDE DEF state
  <2>4. QED
    BY <1>2, <2>1, <2>2, <2>3, Replaced DEF Present, history
<1>3. ASSUME NEW c \in Callers, Look(c) PROVE SelectTypeOK'
  <2>1. caller[c] \in Listing /\ NonceOf(c) \in Nonces
    BY <1>3, Kinds, NoncesHeld DEF Look, At, ListPhases
  <2>2. audited' \in [Nonces -> SUBSET Events]
    BY <1>3, <2>1, Auditing DEF Look, Events
  <2>3. caller' \in [Callers -> CallerStates]
    BY <1>3, <2>1, Ending, Moving, Reissuing DEF Look, ListPhases
  <2>4. QED
    BY <1>3, <2>2, <2>3 DEF Look, history
<1>4. ASSUME NEW c \in Callers, CreateListing(c) PROVE SelectTypeOK'
  <2>1. caller[c] \in Listing
    BY <1>4, Kinds DEF CreateListing, At, ListPhases
  <2>2. caller' \in [Callers -> CallerStates]
    BY <1>4, <2>1, Moving, Reissuing DEF CreateListing, ListPhases
  <2>3. QED
    BY <1>4, <2>2 DEF CreateListing, history
<1>5. ASSUME NEW c \in Callers, WriteListing(c) PROVE SelectTypeOK'
  <2>1. caller[c] \in Listing /\ NonceOf(c) \in Nonces
    BY <1>5, Kinds, NoncesHeld DEF WriteListing, At, ListPhases
  <2>2. caller' \in [Callers -> CallerStates]
    BY <1>5, <2>1, Moving DEF WriteListing, ListPhases
  <2>3. QED
    BY <1>5, <2>1, <2>2 DEF WriteListing
<1>6. ASSUME NEW c \in Callers, AuditListed(c) PROVE SelectTypeOK'
  <2>1. NonceOf(c) \in Nonces
    BY <1>6, Kinds, NoncesHeld DEF AuditListed, At, ListPhases
  <2>2. audited' \in [Nonces -> SUBSET Events]
    BY <1>6, <2>1, Auditing DEF AuditListed, Events
  <2>3. QED
    BY <1>6, <2>2, Ending DEF AuditListed, history
<1>7. ASSUME NEW c \in Callers, ListingFails(c) PROVE SelectTypeOK'
  <2>1. listing' \in [Nonces -> {"absent", "torn", "listed", "consumed"}]
    BY <1>7 DEF ListingFails
  <2>2. caller' \in [Callers -> CallerStates]
    BY <1>7, Ending DEF ListingFails
  <2>3. mishaps' \in 0 .. MaxMishaps
    BY <1>7 DEF ListingFails
  <2>4. QED
    BY <1>7, <2>1, <2>2, <2>3 DEF ListingFails, history
<1>8. ASSUME NEW c \in Callers, Claim(c) PROVE SelectTypeOK'
  <2>1. caller[c] \in Choosing
    BY <1>8, Kinds DEF Claim, At, ChoosePhases
  <2>2. caller' \in [Callers -> CallerStates]
    BY <1>8, <2>1, Moving, Claiming DEF Claim, ChoosePhases
  <2>3. QED
    BY <1>8, <2>2 DEF Claim, history
<1>9. ASSUME NEW c \in Callers, WriteClaim(c) PROVE SelectTypeOK'
  <2>1. caller[c] \in Choosing
    BY <1>9, Kinds DEF WriteClaim, At, ChoosePhases
  <2>2. claim' \in [Nonces -> Wikis \cup {NoWiki, Torn}]
    BY <1>9, <2>1 DEF WriteClaim, Choosing
  <2>3. caller' \in [Callers -> CallerStates]
    BY <1>9, <2>1, Moving DEF WriteClaim, ChoosePhases
  <2>4. QED
    BY <1>9, <2>2, <2>3 DEF WriteClaim, history
<1>10. ASSUME NEW c \in Callers, ReadClaim(c) PROVE SelectTypeOK'
  <2>1. caller[c] \in Choosing
    BY <1>10, Kinds DEF ReadClaim, At, ChoosePhases
  <2>2. caller' \in [Callers -> CallerStates]
    BY <1>10, <2>1, Moving, Ending DEF ReadClaim, ChoosePhases
  <2>3. QED
    BY <1>10, <2>2 DEF ReadClaim, files, history
<1>11. ASSUME NEW c \in Callers, ClaimFails(c) PROVE SelectTypeOK'
  <2>1. NonceOf(c) \in Nonces
    BY <1>11, Kinds, NoncesHeld DEF ClaimFails, At, ChoosePhases
  <2>2. QED
    BY <1>11, <2>1, Ending DEF ClaimFails
<1>12. ASSUME NEW c \in Callers, AuditClaim(c) PROVE SelectTypeOK'
  <2>1. caller[c] \in Choosing /\ NonceOf(c) \in Nonces
    BY <1>12, Kinds, NoncesHeld DEF AuditClaim, At, ChoosePhases
  <2>2. audited' \in [Nonces -> SUBSET Events]
    BY <1>12, <2>1, Auditing DEF AuditClaim, Events
  <2>3. caller' \in [Callers -> CallerStates]
    BY <1>12, <2>1, Moving DEF AuditClaim, ChoosePhases
  <2>4. QED
    BY <1>12, <2>2, <2>3 DEF AuditClaim, history
<1>13. ASSUME NEW c \in Callers, WriteConsumed(c) PROVE SelectTypeOK'
  <2>1. caller[c] \in Choosing
    BY <1>13, Kinds DEF WriteConsumed, At, ChoosePhases
  <2>2. caller' \in [Callers -> CallerStates]
    BY <1>13, <2>1, Moving DEF WriteConsumed, ChoosePhases
  <2>3. QED
    BY <1>13, <2>2 DEF WriteConsumed, history
<1>14. ASSUME NEW c \in Callers, Authorize(c) PROVE SelectTypeOK'
  <2>1. caller[c] \in Choosing /\ NonceOf(c) \in Nonces
    BY <1>14, Kinds, NoncesHeld DEF Authorize, At, ChoosePhases
  <2>2. audited' \in [Nonces -> SUBSET Events]
    BY <1>14, <2>1, Auditing DEF Authorize, Events
  <2>3. granted' \in [Nonces -> Seq(Wikis)]
    <3>1. caller[c].wiki \in Wikis /\ granted[NonceOf(c)] \in Seq(Wikis)
      BY <2>1 DEF Choosing
    <3>2. Append(granted[NonceOf(c)], caller[c].wiki) \in Seq(Wikis)
      BY <3>1
    <3>3. QED
      BY <1>14, <3>2 DEF Authorize
  <2>4. QED
    BY <1>14, <2>2, <2>3, Ending DEF Authorize
<1>15. CASE Drift
  BY <1>15 DEF Drift, files, history
<1>16. ASSUME NEW c \in Callers, CallerDies(c) PROVE SelectTypeOK'
  BY <1>16, Ending DEF CallerDies, files, history
<1>17. CASE UNCHANGED selectVars
  BY <1>17 DEF selectVars, files, history
<1>18. QED
  BY <1>1, <1>2, <1>3, <1>4, <1>5, <1>6, <1>7, <1>8, <1>9, <1>10, <1>11, <1>12, <1>13, <1>14,
     <1>15, <1>16, <1>17
     DEF SelectNext, SelectProgress

(* Nothing a caller does leaves a list, a claim or a caller in a state the *)
(* code has no name for; the last issuance is not exceeded                 *)
(* (selection.py:650).                                                     *)
THEOREM SelectTypeCorrect == SelectSpec => []SelectTypeOK
  BY TypeInit, TypeStep, PTL DEF SelectSpec

-----------------------------------------------------------------------------
(* Single use                                                              *)

LEMMA InvInit == SelectInit => SelectInv
<1> SUFFICES ASSUME SelectInit PROVE SelectInv
  OBVIOUS
<1>1. SelectTypeOK
  BY TypeInit
<1>2. \A c \in Callers : caller[c].phase = "idle"
  BY DEF SelectInit, Idle
<1>3. (\A c \in Callers : Knows(c)) /\ OneMaker
  BY <1>2 DEF Knows, OneMaker, Maker, Spender, Past, At, ChoosePhases
<1>4. Earned /\ ReadableIsOffered /\ ConsumedIsAccountedFor
  BY SelectConstants DEF SelectInit, Earned, ReadableIsOffered, ConsumedIsAccountedFor
<1>5. QED
  BY <1>1, <1>3, <1>4 DEF SelectInv

(* What a step of a caller leaves of what it and the others hold.          *)
LEMMA Others ==
  ASSUME caller \in [Callers -> CallerStates], NEW c \in Callers
  PROVE  /\ Finish(c) => /\ caller'[c] = Idle
                         /\ \A d \in Callers \ {c} : caller'[d] = caller[d]
         /\ \A phase : Goto(c, phase) =>
              /\ \A d \in Callers \ {c} : caller'[d] = caller[d]
              /\ caller[c] \in Listing \cup Choosing =>
                   caller'[c].phase = phase /\ caller'[c].nonce = caller[c].nonce
              /\ caller[c] \in Choosing =>
                   caller'[c].wiki = caller[c].wiki /\ caller'[c].mine = caller[c].mine
  BY DEF Finish, Goto, Listing, Choosing

(* What a caller that chooses has in its hands.                            *)
LEMMA InHand ==
  ASSUME SelectTypeOK, NEW c \in Callers, caller[c].phase \in ChoosePhases
  PROVE  /\ caller[c] \in Choosing /\ caller[c].nonce \in Nonces /\ caller[c].wiki \in Wikis
         /\ caller[c].mine \in BOOLEAN /\ NonceOf(c) = caller[c].nonce
  BY Kinds DEF SelectTypeOK, Choosing, NonceOf

(* A maker's claim file is there.                                          *)
LEMMA MadeIt ==
  ASSUME SelectTypeOK, NEW c \in Callers, Knows(c), Maker(c)
  PROVE  caller[c].nonce \in Nonces /\ claim[caller[c].nonce] # NoWiki
<1>1. caller[c].nonce \in Nonces /\ caller[c].wiki \in Wikis
  BY InHand DEF Maker, Spender, Past, At, ChoosePhases
<1>2. QED
  BY <1>1, SelectConstants DEF Knows, Maker

(* What a caller knows stays true while it rests, its claim is left alone  *)
(* and the files only grow.                                                *)
LEMMA StillKnows ==
  ASSUME SelectTypeOK, NEW d \in Callers, Knows(d), caller'[d] = caller[d],
         Maker(d) => /\ claim'[caller[d].nonce] = claim[caller[d].nonce]
                     /\ granted'[caller[d].nonce] = granted[caller[d].nonce],
         \A n \in Nonces : Claimed(n) => Claimed(n)',
         offered \subseteq offered',
         \A n \in Nonces : audited[n] \subseteq audited'[n]
  PROVE  Knows(d)'
<1>1. CASE caller[d].phase \in ChoosePhases
  <2>1. caller[d].nonce \in Nonces
    BY <1>1, InHand
  <2>2. Maker(d)' <=> Maker(d)
    BY DEF Maker, Spender, Past, At
  <2>3. QED
    BY <2>1, <2>2 DEF Knows, Past, Spender, Maker, At
<1>2. CASE caller[d].phase \notin ChoosePhases
  BY <1>2 DEF Knows, Past, Spender, Maker, At, ChoosePhases
<1>3. QED
  BY <1>1, <1>2

(* A caller that does not hold a choice knows nothing yet.                 *)
LEMMA KnowsNothing ==
  ASSUME NEW c \in Callers, caller'[c].phase \notin ChoosePhases
  PROVE  Knows(c)' /\ ~Maker(c)'
  BY DEF Knows, Past, Spender, Maker, At, ChoosePhases

(* A step of one caller keeps the invariant when that caller knows what it *)
(* should, no list has got a second maker, claims and grants change only   *)
(* where nobody else is the maker, and the state files go forward.         *)
LEMMA CallerSteps ==
  ASSUME SelectInv, SelectTypeOK', NEW c \in Callers,
         \A d \in Callers \ {c} : caller'[d] = caller[d],
         Knows(c)',
         Maker(c)' => \A d \in Callers \ {c} : Maker(d) => caller[d].nonce # caller'[c].nonce,
         \A n \in Nonces :
           \/ claim'[n] = claim[n] /\ granted'[n] = granted[n]
           \/ /\ \A d \in Callers \ {c} : Maker(d) => caller[d].nonce # n
              /\ Claimed(n) => Claimed(n)'
              /\ claim'[n] \in Wikis => claim'[n] \in n.eligible
              /\ granted'[n] = <<>> \/ (claim'[n] \in Wikis /\ granted'[n] = <<claim'[n]>>),
         offered \subseteq offered', withdrawn \subseteq withdrawn',
         \A n \in Nonces : audited[n] \subseteq audited'[n],
         \A n \in Nonces :
           \/ listing'[n] = listing[n] \/ listing'[n] \in {"absent", "torn"}
           \/ listing'[n] = "listed" /\ n \in offered'
           \/ listing'[n] = "consumed" /\ n \in offered' /\ "claimed" \in audited'[n] /\ Claimed(n)
  PROVE  SelectInv'
<1>0. SelectTypeOK
  BY DEF SelectInv
<1>1. \A n \in Nonces : Claimed(n) => Claimed(n)'
  BY DEF Claimed
<1>2. \A d \in Callers : Knows(d)'
  <2> SUFFICES ASSUME NEW d \in Callers \ {c} PROVE Knows(d)'
    OBVIOUS
  <2>1. Maker(d) => /\ claim'[caller[d].nonce] = claim[caller[d].nonce]
                    /\ granted'[caller[d].nonce] = granted[caller[d].nonce]
    BY <1>0, MadeIt DEF SelectInv
  <2>2. QED
    BY <1>0, <1>1, <2>1, StillKnows DEF SelectInv
<1>3. OneMaker'
  <2>1. \A d \in Callers \ {c} : Maker(d)' <=> Maker(d)
    BY DEF Maker, Spender, Past, At
  <2>2. QED
    BY <2>1 DEF SelectInv, OneMaker
<1>4. Earned'
  BY DEF SelectInv, Earned
<1>5. ReadableIsOffered'
  BY DEF SelectInv, ReadableIsOffered
<1>6. ConsumedIsAccountedFor'
  <2> SUFFICES ASSUME NEW n \in Nonces, listing'[n] = "consumed"
               PROVE  Claimed(n)' /\ "claimed" \in audited'[n]
    BY DEF ConsumedIsAccountedFor, Claimed
  <2>1. CASE listing[n] = "consumed"
    BY <1>1, <2>1 DEF SelectInv, ConsumedIsAccountedFor, Claimed
  <2>2. CASE listing[n] # "consumed"
    BY <1>1, <2>2
  <2>3. QED
    BY <2>1, <2>2
<1>7. QED
  BY <1>2, <1>3, <1>4, <1>5, <1>6 DEF SelectInv

(* A step that leaves claims and grants alone, of a caller that makes no   *)
(* claim by it.                                                            *)
LEMMA QuietSteps ==
  ASSUME SelectInv, SelectTypeOK', NEW c \in Callers,
         \A d \in Callers \ {c} : caller'[d] = caller[d],
         Knows(c)', Maker(c)' => Maker(c) /\ caller'[c].nonce = caller[c].nonce,
         UNCHANGED <<claim, granted, withdrawn>>,
         offered \subseteq offered',
         \A n \in Nonces : audited[n] \subseteq audited'[n],
         \A n \in Nonces :
           \/ listing'[n] = listing[n] \/ listing'[n] \in {"absent", "torn"}
           \/ listing'[n] = "listed" /\ n \in offered'
           \/ listing'[n] = "consumed" /\ n \in offered' /\ "claimed" \in audited'[n] /\ Claimed(n)
  PROVE  SelectInv'
<1>1. Maker(c)' => \A d \in Callers \ {c} : Maker(d) => caller[d].nonce # caller'[c].nonce
  BY DEF SelectInv, OneMaker
<1>2. QED
  BY <1>1, CallerSteps

LEMMA Reissued ==
  ASSUME caller \in [Callers -> CallerStates], NEW c \in Callers, caller[c] \in Listing, NextIssuance(c)
  PROVE  /\ caller'[c].phase \notin ChoosePhases
         /\ \A d \in Callers \ {c} : caller'[d] = caller[d]
  BY DEF NextIssuance, Finish, Listing, Idle, ChoosePhases

LEMMA Grown ==
  ASSUME SelectTypeOK, NEW m \in Nonces, NEW event, Ensure(m, event)
  PROVE  /\ \A n \in Nonces : audited[n] \subseteq audited'[n]
         /\ event \in audited'[m]
  BY DEF SelectTypeOK, Ensure

LEMMA InvList ==
  ASSUME SelectInv, SelectTypeOK', NEW c \in Callers,
         \/ \E s \in Sessions : BeginList(c, s)
         \/ Look(c) \/ CreateListing(c) \/ WriteListing(c) \/ AuditListed(c)
         \/ ListingFails(c) \/ CallerDies(c)
  PROVE  SelectInv'
<1> USE DEF ChoosePhases
<1>0. SelectTypeOK /\ caller \in [Callers -> CallerStates]
  BY DEF SelectInv, SelectTypeOK
<1>a. ASSUME caller'[c].phase \notin ChoosePhases,
             \A d \in Callers \ {c} : caller'[d] = caller[d],
             UNCHANGED <<claim, granted, withdrawn>>, offered \subseteq offered',
             \A n \in Nonces : audited[n] \subseteq audited'[n],
             \A n \in Nonces : \/ listing'[n] = listing[n] \/ listing'[n] \in {"absent", "torn"}
                               \/ listing'[n] = "listed" /\ n \in offered'
      PROVE  SelectInv'
  BY <1>a, KnowsNothing, QuietSteps
<1>1. ASSUME NEW s \in Sessions, BeginList(c, s) PROVE SelectInv'
  BY <1>0, <1>1, <1>a DEF BeginList, files, history
<1>2. CASE Look(c)
  <2>1. caller[c] \in Listing /\ NonceOf(c) \in Nonces
    BY <1>0, <1>2, Kinds, NoncesHeld DEF Look, At, ListPhases
  <2>2. /\ caller'[c].phase \notin ChoosePhases
        /\ \A d \in Callers \ {c} : caller'[d] = caller[d]
    BY <1>0, <1>2, <2>1, Reissued, Others DEF Look, Idle
  <2>3. \A n \in Nonces : audited[n] \subseteq audited'[n]
    BY <1>0, <1>2, <2>1, Grown DEF Look
  <2>4. QED
    BY <1>2, <1>a, <2>2, <2>3 DEF Look, history
<1>3. CASE CreateListing(c)
  <2>1. caller[c] \in Listing /\ NonceOf(c) \in Nonces
    BY <1>0, <1>3, Kinds, NoncesHeld DEF CreateListing, At, ListPhases
  <2>2. /\ caller'[c].phase \notin ChoosePhases
        /\ \A d \in Callers \ {c} : caller'[d] = caller[d]
    BY <1>0, <1>3, <2>1, Reissued, Others DEF CreateListing
  <2>3. \A n \in Nonces : listing'[n] = listing[n] \/ listing'[n] = "torn"
    BY <1>0, <1>3, <2>1 DEF CreateListing, SelectTypeOK
  <2>4. QED
    BY <1>3, <1>a, <2>2, <2>3 DEF CreateListing, history
<1>4. CASE WriteListing(c)
  <2>1. caller[c] \in Listing /\ NonceOf(c) \in Nonces
    BY <1>0, <1>4, Kinds, NoncesHeld DEF WriteListing, At, ListPhases
  <2>2. /\ caller'[c].phase \notin ChoosePhases
        /\ \A d \in Callers \ {c} : caller'[d] = caller[d]
    BY <1>0, <1>4, <2>1, Others DEF WriteListing
  <2>3. /\ offered \subseteq offered'
        /\ \A n \in Nonces : listing'[n] = listing[n] \/ (listing'[n] = "listed" /\ n \in offered')
    BY <1>0, <1>4, <2>1 DEF WriteListing, SelectTypeOK
  <2>4. QED
    BY <1>4, <1>a, <2>2, <2>3 DEF WriteListing
<1>5. CASE AuditListed(c)
  <2>1. NonceOf(c) \in Nonces
    BY <1>0, <1>5, Kinds, NoncesHeld DEF AuditListed, At, ListPhases
  <2>2. QED
    BY <1>0, <1>5, <1>a, <2>1, Grown, Others DEF AuditListed, Idle, history
<1>6. CASE ListingFails(c)
  <2>1. \A n \in Nonces : listing'[n] = listing[n] \/ listing'[n] = "absent"
    BY <1>0, <1>6 DEF ListingFails, SelectTypeOK
  <2>2. QED
    BY <1>0, <1>6, <1>a, <2>1, Others DEF ListingFails, Idle, history
<1>7. CASE CallerDies(c)
  BY <1>0, <1>7, <1>a, Others DEF CallerDies, Idle, files, history
<1>8. QED
  BY <1>1, <1>2, <1>3, <1>4, <1>5, <1>6, <1>7

LEMMA InvPresent ==
  ASSUME SelectInv, SelectTypeOK', NEW c \in Callers, NEW s \in Sessions, NEW n \in Nonces,
         NEW w \in Wikis, Present(c, s, n, w)
  PROVE  SelectInv'
<1>0. SelectTypeOK /\ caller \in [Callers -> CallerStates]
  BY DEF SelectInv, SelectTypeOK
<1>1. \A m \in Nonces : audited[m] \subseteq audited'[m]
  BY <1>0, Grown DEF Present
<1>2. \A d \in Callers \ {c} : caller'[d] = caller[d]
  BY <1>0 DEF Present
<1>3. Knows(c)' /\ ~Maker(c)'
  <2>1. CASE listing[n] = "listed" /\ Bound(n, s, w)
    <3>1. caller'[c] = [phase |-> "claim", nonce |-> n, wiki |-> w, mine |-> FALSE]
      BY <1>0, <2>1 DEF Present
    <3>2. n \in offered'
      BY <2>1 DEF Present, history, SelectInv, ReadableIsOffered
    <3>3. QED
      BY <2>1, <3>1, <3>2 DEF Knows, At, Past, Spender, Maker, Bound
  <2>2. CASE ~(listing[n] = "listed" /\ Bound(n, s, w))
    BY <2>2, KnowsNothing DEF Present, At, ChoosePhases
  <2>3. QED
    BY <2>1, <2>2
<1>4. QED
  BY <1>1, <1>2, <1>3, QuietSteps DEF Present, history

(* Who creates the claim file is its maker; nobody else is.                *)
LEMMA InvClaim ==
  ASSUME SelectInv, SelectTypeOK', NEW c \in Callers, Claim(c)
  PROVE  SelectInv'
<1> DEFINE n == caller[c].nonce
<1>0. SelectTypeOK /\ caller \in [Callers -> CallerStates]
  BY DEF SelectInv, SelectTypeOK
<1>1. caller[c] \in Choosing /\ n \in Nonces /\ NonceOf(c) = n
  BY <1>0, InHand DEF Claim, At, ChoosePhases
<1>2. ~caller[c].mine /\ n \in offered /\ caller[c].wiki \in n.eligible
  BY DEF SelectInv, Knows, Claim, At, ChoosePhases
<1>3. /\ \A d \in Callers \ {c} : caller'[d] = caller[d]
      /\ caller'[c].nonce = n /\ caller'[c].wiki = caller[c].wiki
  BY <1>0, <1>1 DEF Claim, Goto, Choosing
<1>4. CASE claim[n] = NoWiki
  <2>1. /\ claim' = [claim EXCEPT ![n] = Torn]
        /\ caller'[c].phase = "writeClaim" /\ caller'[c].mine
    BY <1>0, <1>1, <1>4 DEF Claim, Choosing
  <2>2. \A m \in Nonces : claim'[m] = IF m = n THEN Torn ELSE claim[m]
    BY <1>0, <1>1, <2>1 DEF SelectTypeOK
  <2>3. granted'[n] = <<>>
    BY <1>1, <1>4, SelectConstants DEF SelectInv, Earned, Claim, history
  <2>4. Knows(c)'
    BY <1>1, <1>2, <1>3, <2>1, <2>2, <2>3 DEF Claim, history, Knows, At, Past, Spender, Maker
  <2>5. \A d \in Callers \ {c} : Maker(d) => caller[d].nonce # n
    BY <1>0, <1>4, MadeIt DEF SelectInv
  <2>6. \A m \in Nonces : Claimed(m) => Claimed(m)'
    BY <1>4, <2>2, SelectConstants DEF Claimed, Claim, history
  <2>7. \A m \in Nonces : granted'[m] = granted[m]
    BY DEF Claim, history
  <2>8. QED
    BY <1>1, <1>3, <2>2, <2>3, <2>4, <2>5, <2>6, <2>7, CallerSteps, SelectConstants DEF Claim, history
<1>5. CASE claim[n] # NoWiki
  <2>1. UNCHANGED claim /\ ~caller'[c].mine /\ caller'[c].phase = "readClaim"
    BY <1>0, <1>1, <1>2, <1>5 DEF Claim, Goto, Choosing
  <2>2. Knows(c)' /\ ~Maker(c)'
    BY <1>2, <1>3, <2>1 DEF Claim, history, Knows, At, Past, Spender, Maker
  <2>3. QED
    BY <1>3, <2>1, <2>2, QuietSteps DEF Claim, history
<1>6. QED
  BY <1>4, <1>5

(* The claim is written by its maker, which makes the list its own.        *)
LEMMA InvWriteClaim ==
  ASSUME SelectInv, SelectTypeOK', NEW c \in Callers, WriteClaim(c)
  PROVE  SelectInv'
<1> DEFINE n == caller[c].nonce
           w == caller[c].wiki
<1>0. SelectTypeOK /\ caller \in [Callers -> CallerStates]
  BY DEF SelectInv, SelectTypeOK
<1>1. caller[c] \in Choosing /\ n \in Nonces /\ NonceOf(c) = n /\ w \in Wikis
  BY <1>0, InHand DEF WriteClaim, At, ChoosePhases
<1>2. /\ Maker(c) /\ caller[c].mine /\ n \in offered /\ w \in n.eligible
      /\ claim[n] = Torn /\ granted[n] = <<>>
  BY DEF SelectInv, Knows, WriteClaim, Maker, At, ChoosePhases
<1>3. /\ \A d \in Callers \ {c} : caller'[d] = caller[d]
      /\ caller'[c].phase = "auditClaim" /\ caller'[c].nonce = n
      /\ caller'[c].wiki = w /\ caller'[c].mine
  BY <1>0, <1>1, <1>2, Others DEF WriteClaim
<1>4. \A m \in Nonces : claim'[m] = IF m = n THEN w ELSE claim[m]
  BY <1>0, <1>1 DEF SelectTypeOK, WriteClaim
<1>5. Knows(c)'
  BY <1>1, <1>2, <1>3, <1>4 DEF WriteClaim, history, Knows, At, Past, Spender, Maker, Claimed
<1>6. \A d \in Callers \ {c} : Maker(d) => caller[d].nonce # n
  BY <1>2 DEF SelectInv, OneMaker
<1>7. \A m \in Nonces : Claimed(m) => Claimed(m)'
  BY <1>1, <1>4 DEF Claimed, WriteClaim, history
<1>8. \A m \in Nonces : granted'[m] = granted[m]
  BY DEF WriteClaim, history
<1>9. QED
  BY <1>1, <1>2, <1>3, <1>4, <1>5, <1>6, <1>7, <1>8, CallerSteps DEF WriteClaim, history

(* A claim that goes with its maker leaves its list without one.           *)
LEMMA InvClaimFails ==
  ASSUME SelectInv, SelectTypeOK', NEW c \in Callers, ClaimFails(c)
  PROVE  SelectInv'
<1> DEFINE n == caller[c].nonce
<1>0. SelectTypeOK /\ caller \in [Callers -> CallerStates]
  BY DEF SelectInv, SelectTypeOK
<1>1. n \in Nonces /\ NonceOf(c) = n
  BY <1>0, InHand DEF ClaimFails, At, ChoosePhases
<1>2. Maker(c) /\ granted[n] = <<>>
  BY DEF SelectInv, Knows, ClaimFails, Maker, Spender, Past, At
<1>3. caller'[c] = Idle /\ \A d \in Callers \ {c} : caller'[d] = caller[d]
  BY <1>0, Others DEF ClaimFails
<1>4. Knows(c)' /\ ~Maker(c)'
  BY <1>3, KnowsNothing DEF Idle, ChoosePhases
<1>5. \A m \in Nonces : claim'[m] = IF m = n THEN NoWiki ELSE claim[m]
  BY <1>0, <1>1 DEF SelectTypeOK, ClaimFails
<1>6. withdrawn \subseteq withdrawn'
  BY DEF ClaimFails
<1>7. \A m \in Nonces : Claimed(m) => Claimed(m)'
  <2>1. CASE At(c, "auditClaim")
    BY <1>1, <1>5, <2>1 DEF Claimed, ClaimFails
  <2>2. CASE At(c, "writeClaim")
    <3>1. claim[n] = Torn
      BY <2>2 DEF SelectInv, Knows
    <3>2. QED
      BY <1>5, <1>6, <3>1, SelectConstants DEF Claimed
  <2>3. QED
    BY <2>1, <2>2 DEF ClaimFails
<1>8. \A d \in Callers \ {c} : Maker(d) => caller[d].nonce # n
  BY <1>2 DEF SelectInv, OneMaker
<1>9. QED
  BY <1>1, <1>2, <1>3, <1>4, <1>5, <1>6, <1>7, <1>8, CallerSteps, SelectConstants DEF ClaimFails

(* A caller that goes on with a claim that is there leaves it alone.       *)
LEMMA PastSteps ==
  ASSUME SelectInv, SelectTypeOK', NEW c \in Callers, Past(c) \/ At(c, "readClaim"),
         NEW phase, Goto(c, phase), phase \in {"auditClaim", "consume", "auditConsumed"},
         Claimed(caller[c].nonce),
         phase # "auditClaim" => "claimed" \in audited'[caller[c].nonce],
         UNCHANGED <<claim, granted, offered, withdrawn>>,
         \A n \in Nonces : audited[n] \subseteq audited'[n],
         \A n \in Nonces : \/ listing'[n] = listing[n]
                           \/ /\ n = caller[c].nonce /\ listing'[n] = "consumed"
                              /\ phase = "auditConsumed"
  PROVE  SelectInv'
<1> DEFINE n == caller[c].nonce
<1>0. SelectTypeOK /\ caller \in [Callers -> CallerStates]
  BY DEF SelectInv, SelectTypeOK
<1>1. caller[c] \in Choosing /\ n \in Nonces
  BY <1>0, InHand DEF Past, At, ChoosePhases
<1>2. /\ \A d \in Callers \ {c} : caller'[d] = caller[d]
      /\ caller'[c].phase = phase /\ caller'[c].nonce = n
      /\ caller'[c].wiki = caller[c].wiki /\ caller'[c].mine = caller[c].mine
  BY <1>0, <1>1, Others
<1>3. n \in offered
  BY DEF SelectInv, Knows, Past, At, ChoosePhases
<1>4. Maker(c)' => Spender(c)
  BY <1>2 DEF Maker, Spender, Past, At, SelectInv, Knows
<1>5. Claimed(caller[c].nonce) <=> Claimed(caller[c].nonce)'
  BY <1>2 DEF Claimed
<1>6. Knows(c)'
  <2>1. Spender(c) => claim'[n] = caller[c].wiki /\ granted'[n] = <<>>
    BY DEF SelectInv, Knows, Maker
  <2>2. QED
    BY <1>2, <1>3, <1>4, <1>5, <2>1 DEF Knows, At, Maker, Spender
<1>7. QED
  BY <1>1, <1>2, <1>3, <1>4, <1>6, QuietSteps DEF Maker

LEMMA InvAuthorize ==
  ASSUME SelectInv, SelectTypeOK', NEW c \in Callers, Authorize(c)
  PROVE  SelectInv'
<1> DEFINE n == caller[c].nonce
<1>0. SelectTypeOK /\ caller \in [Callers -> CallerStates]
  BY DEF SelectInv, SelectTypeOK
<1>1. n \in Nonces /\ NonceOf(c) = n /\ caller[c].wiki \in Wikis
  BY <1>0, InHand DEF Authorize, At, ChoosePhases
<1>2. caller'[c] = Idle /\ \A d \in Callers \ {c} : caller'[d] = caller[d]
  BY <1>0, Others DEF Authorize
<1>3. \A m \in Nonces : audited[m] \subseteq audited'[m]
  BY <1>0, <1>1, Grown DEF Authorize
<1>4. Knows(c)' /\ ~Maker(c)'
  BY <1>2, KnowsNothing DEF Idle, ChoosePhases
<1>5. CASE ~caller[c].mine
  BY <1>2, <1>3, <1>4, <1>5, QuietSteps DEF Authorize
<1>6. CASE caller[c].mine
  <2>1. Spender(c) /\ Maker(c)
    BY <1>6 DEF Maker, Spender, Past, Authorize, At
  <2>2. granted[n] = <<>> /\ claim[n] = caller[c].wiki
    BY <2>1 DEF SelectInv, Knows
  <2>3. Append(granted[n], caller[c].wiki) = <<claim[n]>>
    BY <2>2
  <2>4. \A m \in Nonces : granted'[m] = IF m = n THEN <<claim[n]>> ELSE granted[m]
    BY <1>0, <1>1, <1>6, <2>3 DEF Authorize, SelectTypeOK
  <2>5. \A d \in Callers \ {c} : Maker(d) => caller[d].nonce # n
    BY <2>1 DEF SelectInv, OneMaker
  <2>6. claim[n] \in n.eligible
    BY <1>1, <2>2 DEF SelectInv, Earned
  <2>7. UNCHANGED <<claim, withdrawn>>
    BY DEF Authorize
  <2>8. QED
    BY <1>1, <1>2, <1>3, <1>4, <2>2, <2>4, <2>5, <2>6, <2>7, CallerSteps DEF Authorize, Claimed
<1>7. QED
  BY <1>5, <1>6

LEMMA InvStep == SelectInv /\ [SelectNext]_selectVars => SelectInv'
<1> SUFFICES ASSUME SelectInv, [SelectNext]_selectVars PROVE SelectInv'
  OBVIOUS
<1>0. SelectTypeOK /\ SelectTypeOK' /\ caller \in [Callers -> CallerStates]
  BY TypeStep DEF SelectInv, SelectTypeOK
<1>1. ASSUME NEW c \in Callers, ReadClaim(c) PROVE SelectInv'
  <2>1. caller[c].nonce \in Nonces /\ NonceOf(c) = caller[c].nonce
    BY <1>0, <1>1, InHand DEF ReadClaim, At, ChoosePhases
  <2>2. CASE claim[NonceOf(c)] \in Wikis
    BY <1>0, <1>1, <2>1, <2>2, PastSteps DEF ReadClaim, Claimed, files, history
  <2>3. CASE claim[NonceOf(c)] \notin Wikis
    <3>1. caller'[c] = Idle /\ \A d \in Callers \ {c} : caller'[d] = caller[d]
      BY <1>0, <1>1, <2>3, Others DEF ReadClaim
    <3>2. Knows(c)' /\ ~Maker(c)'
      BY <3>1, KnowsNothing DEF Idle, ChoosePhases
    <3>3. QED
      BY <1>0, <1>1, <3>1, <3>2, QuietSteps DEF ReadClaim, files, history
  <2>4. QED
    BY <2>2, <2>3
<1>2. ASSUME NEW c \in Callers, AuditClaim(c) PROVE SelectInv'
  <2>1. NonceOf(c) \in Nonces /\ NonceOf(c) = caller[c].nonce
    BY <1>0, <1>2, InHand DEF AuditClaim, At, ChoosePhases
  <2>2. (\A n \in Nonces : audited[n] \subseteq audited'[n]) /\ "claimed" \in audited'[caller[c].nonce]
    BY <1>0, <1>2, <2>1, Grown DEF AuditClaim
  <2>3. Past(c) /\ Claimed(caller[c].nonce)
    BY <1>2 DEF SelectInv, Knows, AuditClaim, Past, At
  <2>4. QED
    BY <1>0, <1>2, <2>2, <2>3, PastSteps DEF AuditClaim, history
<1>3. ASSUME NEW c \in Callers, WriteConsumed(c) PROVE SelectInv'
  <2>1. NonceOf(c) \in Nonces /\ NonceOf(c) = caller[c].nonce
    BY <1>0, <1>3, InHand DEF WriteConsumed, At, ChoosePhases
  <2>2. Past(c) /\ Claimed(caller[c].nonce) /\ "claimed" \in audited[caller[c].nonce]
    BY <1>3 DEF SelectInv, Knows, WriteConsumed, Past, At
  <2>3. \A n \in Nonces : listing'[n] = listing[n] \/ (n = caller[c].nonce /\ listing'[n] = "consumed")
    BY <1>0, <1>3, <2>1 DEF WriteConsumed, SelectTypeOK
  <2>4. QED
    BY <1>0, <1>3, <2>2, <2>3, PastSteps DEF WriteConsumed, history
<1>4. ASSUME UNCHANGED <<files, caller, history>> PROVE SelectInv'
  BY <1>0, <1>4
     DEF files, history, SelectInv, Knows, Past, Spender, Maker, At, Claimed, OneMaker, Earned,
         ReadableIsOffered, ConsumedIsAccountedFor
<1>5. CASE Drift \/ UNCHANGED selectVars
  BY <1>4, <1>5 DEF Drift, selectVars
<1>6. QED
  BY <1>0, <1>1, <1>2, <1>3, <1>5, InvList, InvPresent, InvClaim, InvWriteClaim, InvClaimFails,
     InvAuthorize
     DEF SelectNext, SelectProgress

(* What callers know, that a claim file has one maker and what was granted *)
(* is what was claimed, are kept by every step (selection.py:513, 776).    *)
THEOREM SelectInvariance == SelectSpec => []SelectInv
  BY InvInit, InvStep, PTL DEF SelectSpec

LEMMA InvSingleUse == SelectInv => SingleUse
<1> SUFFICES ASSUME SelectInv PROVE SingleUse
  OBVIOUS
<1>1. ASSUME NEW n \in Nonces, granted[n] = <<>> PROVE Len(granted[n]) <= 1
  <2>1. Len(<<>>) = 0
    OBVIOUS
  <2>2. QED
    BY <1>1, <2>1
<1>2. ASSUME NEW n \in Nonces, granted[n] # <<>>
      PROVE  /\ Len(granted[n]) <= 1
             /\ granted[n] = <<claim[n]>> /\ claim[n] \in n.eligible
  <2>1. granted[n] = <<claim[n]>> /\ claim[n] \in n.eligible
    BY <1>2 DEF SelectInv, Earned
  <2>2. Len(<<claim[n]>>) = 1
    OBVIOUS
  <2>3. QED
    BY <2>1, <2>2
<1>3. QED
  BY <1>1, <1>2 DEF SingleUse

(* Only its maker touches a torn claim, and only before it has written it. *)
LEMMA TornIsLeft ==
  ASSUME SelectInv, [SelectNext]_selectVars, NEW n \in Nonces, claim[n] = Torn,
         \A c \in Callers : ~Writes(c, n)
  PROVE  claim'[n] = Torn
<1>0. SelectTypeOK
  BY DEF SelectInv
<1>1. ASSUME NEW c \in Callers, Claim(c) PROVE claim'[n] = Torn
  BY <1>0, <1>1, SelectConstants DEF Claim, SelectTypeOK
<1>2. ASSUME NEW c \in Callers, WriteClaim(c) PROVE claim'[n] = Torn
  BY <1>0, <1>2 DEF WriteClaim, Writes, SelectTypeOK
<1>3. ASSUME NEW c \in Callers, ClaimFails(c) PROVE claim'[n] = Torn
  <2>1. NonceOf(c) # n
    <3>1. CASE At(c, "writeClaim")
      BY <3>1 DEF Writes
    <3>2. CASE At(c, "auditClaim") /\ caller[c].mine
      <4>1. claim[caller[c].nonce] = caller[c].wiki
        BY <3>2 DEF SelectInv, Knows, Spender, Past, At
      <4>2. caller[c].wiki \in Wikis
        BY <1>0, <3>2, InHand DEF At, ChoosePhases
      <4>3. QED
        BY <4>1, <4>2, SelectConstants DEF NonceOf
    <3>3. QED
      BY <1>3, <3>1, <3>2 DEF ClaimFails
  <2>2. QED
    BY <1>0, <1>3, <2>1 DEF ClaimFails, SelectTypeOK
<1>4. CASE UNCHANGED claim
  BY <1>4
<1>5. QED
  BY <1>1, <1>2, <1>3, <1>4
     DEF SelectNext, SelectProgress, BeginList, Look, CreateListing, WriteListing, AuditListed,
         ListingFails, Present, ReadClaim, AuditClaim, WriteConsumed, Authorize, Drift, CallerDies,
         selectVars, files

(* However many callers present a list at once, fail, die with it and come *)
(* back, it authorises at most one wiki, which was listed and which its    *)
(* claim names; it is never closed without its trail; and a claim that was *)
(* left torn blocks it for good (selection.py:446, 513, 549).              *)
THEOREM SelectsOnce == SelectSpec => SelectionKept
<1>1. SelectInv => SingleUse /\ ConsumedIsAccountedFor
  BY InvSingleUse DEF SelectInv
<1>2. SelectInv /\ [SelectNext]_selectVars
        => [\A n \in Nonces :
              claim[n] = Torn /\ (\A c \in Callers : ~Writes(c, n)) => claim'[n] = Torn]_selectVars
  BY TornIsLeft
<1>3. SelectSpec => [][SelectNext]_selectVars
  BY DEF SelectSpec
<1>4. QED
  BY <1>1, <1>2, <1>3, SelectInvariance, PTL DEF SelectionKept, TornStays

-----------------------------------------------------------------------------
(* The refinement of the one-shot token                                    *)

(* What a token was spent on and what a caller holds in the abstraction.   *)
Choice(n)   == IF claim[n] = Torn THEN NoWiki ELSE claim[n]
HolderOf(c) == IF Spender(c) THEN {caller[c].nonce} ELSE {}

LEMMA InitMaps == SelectInit => Token!TokenInit
<1> SUFFICES ASSUME SelectInit PROVE Token!TokenInit
  OBVIOUS
<1>1. [c \in Callers |-> HolderOf(c)] = [c \in Callers |-> {}]
  BY DEF SelectInit, Idle, HolderOf, Spender, Past
<1>2. [n \in Nonces |-> Choice(n)] = [n \in Nonces |-> NoWiki]
  BY DEF SelectInit, Choice
<1>3. QED
  BY <1>1, <1>2 DEF SelectInit, Token!TokenInit, Choice, HolderOf, Spender, Past

(* The steps that only prepare a choice, or come after it, are stutters.   *)
LEMMA Stutters ==
  ASSUME UNCHANGED <<offered, granted>>,
         \A n \in Nonces : Choice(n)' = Choice(n),
         \A c \in Callers : HolderOf(c)' = HolderOf(c)
  PROVE  UNCHANGED Token!tokenVars
  BY DEF Token!tokenVars, Choice, HolderOf, Spender, Past

LEMMA IssueMaps ==
  ASSUME NEW n \in Nonces, n \notin offered, offered' = offered \cup {n}, UNCHANGED granted,
         \A m \in Nonces : Choice(m)' = Choice(m),
         \A c \in Callers : HolderOf(c)' = HolderOf(c)
  PROVE  Token!TokenNext
<1>1. Token!Issue(n)
  BY DEF Token!Issue, Choice, HolderOf, Spender, Past
<1>2. QED
  BY <1>1 DEF Token!TokenNext

LEMMA SpendMaps ==
  ASSUME NEW n \in Nonces, NEW c \in Callers, NEW w \in Wikis,
         n \in offered, Choice(n) = NoWiki,
         \A m \in Nonces : Choice(m)' = IF m = n THEN w ELSE Choice(m),
         UNCHANGED <<offered, granted>>, HolderOf(c)' = {n},
         \A d \in Callers \ {c} : HolderOf(d)' = HolderOf(d)
  PROVE  Token!TokenNext
<1>1. Token!Spend(n, c, w)
  BY DEF Token!Spend, Choice, HolderOf, Spender, Past
<1>2. QED
  BY <1>1 DEF Token!TokenNext

LEMMA GrantMaps ==
  ASSUME NEW n \in Nonces, NEW c \in Callers, n \in HolderOf(c),
         granted' = [granted EXCEPT ![n] = Append(@, Choice(n))],
         UNCHANGED offered, \A m \in Nonces : Choice(m)' = Choice(m),
         HolderOf(c)' = {},
         \A d \in Callers \ {c} : HolderOf(d)' = HolderOf(d)
  PROVE  Token!TokenNext
<1>1. Token!Grant(n, c)
  BY DEF Token!Grant, Choice, HolderOf, Spender, Past
<1>2. QED
  BY <1>1 DEF Token!TokenNext

LEMMA GiveBackMaps ==
  ASSUME NEW n \in Nonces, NEW c \in Callers, n \in HolderOf(c),
         \A m \in Nonces : Choice(m)' = IF m = n THEN NoWiki ELSE Choice(m),
         UNCHANGED <<offered, granted>>, HolderOf(c)' = {},
         \A d \in Callers \ {c} : HolderOf(d)' = HolderOf(d)
  PROVE  Token!TokenNext
<1>1. Token!GiveBack(n, c)
  BY DEF Token!GiveBack, Choice, HolderOf, Spender, Past
<1>2. QED
  BY <1>1 DEF Token!TokenNext

LEMMA DeathMaps ==
  ASSUME NEW c \in Callers, UNCHANGED <<offered, granted>>,
         \A m \in Nonces : Choice(m)' = Choice(m), HolderOf(c)' = {},
         \A d \in Callers \ {c} : HolderOf(d)' = HolderOf(d)
  PROVE  Token!TokenNext
<1>1. Token!Die(c)
  BY DEF Token!Die, Choice, HolderOf, Spender, Past
<1>2. QED
  BY <1>1 DEF Token!TokenNext

LEMMA StepMaps == SelectInv /\ [SelectNext]_selectVars => [Token!TokenNext]_(Token!tokenVars)
<1> SUFFICES ASSUME SelectInv, [SelectNext]_selectVars
             PROVE  Token!TokenNext \/ UNCHANGED Token!tokenVars
  OBVIOUS
<1>0. SelectTypeOK /\ caller \in [Callers -> CallerStates]
  BY DEF SelectInv, SelectTypeOK
<1>a. UNCHANGED claim => \A n \in Nonces : Choice(n)' = Choice(n)
  BY DEF Choice
<1>1. ASSUME NEW c \in Callers, ~Past(c), ~Past(c)' \/ ~caller'[c].mine,
             \A d \in Callers \ {c} : caller'[d] = caller[d]
      PROVE  \A d \in Callers : HolderOf(d)' = HolderOf(d)
  BY <1>1 DEF HolderOf, Spender, Past
<1>2. ASSUME NEW c \in Callers, NEW s \in Sessions, BeginList(c, s) PROVE UNCHANGED Token!tokenVars
  <2>1. \A d \in Callers : HolderOf(d)' = HolderOf(d)
    BY <1>0, <1>1, <1>2 DEF BeginList, At, Past
  <2>2. QED
    BY <1>2, <1>a, <2>1, Stutters DEF BeginList, files, history
<1>3. ASSUME NEW c \in Callers, NEW s \in Sessions, NEW n \in Nonces, NEW w \in Wikis,
             Present(c, s, n, w)
      PROVE  UNCHANGED Token!tokenVars
  <2>1. \A d \in Callers : HolderOf(d)' = HolderOf(d)
    BY <1>0, <1>1, <1>3 DEF Present, At, Past
  <2>2. QED
    BY <1>3, <1>a, <2>1, Stutters DEF Present, history
<1>4. ASSUME NEW c \in Callers, Look(c) \/ CreateListing(c) PROVE UNCHANGED Token!tokenVars
  <2>1. caller[c] \in Listing
    BY <1>0, <1>4, Kinds DEF Look, CreateListing, At, ListPhases
  <2>2. ~Past(c) /\ ~Past(c)' /\ \A d \in Callers \ {c} : caller'[d] = caller[d]
    BY <1>0, <1>4, <2>1, Reissued, Others DEF Look, CreateListing, At, Past, Idle, ChoosePhases
  <2>3. QED
    BY <1>1, <1>4, <1>a, <2>2, Stutters DEF Look, CreateListing, history
<1>5. ASSUME NEW c \in Callers, WriteListing(c) PROVE Token!TokenNext \/ UNCHANGED Token!tokenVars
  <2>1. caller[c] \in Listing /\ NonceOf(c) \in Nonces
    BY <1>0, <1>5, Kinds, NoncesHeld DEF WriteListing, At, ListPhases
  <2>2. ~Past(c) /\ ~Past(c)' /\ \A d \in Callers \ {c} : caller'[d] = caller[d]
    BY <1>0, <1>5, <2>1, Others DEF WriteListing, At, Past
  <2>3. \A d \in Callers : HolderOf(d)' = HolderOf(d)
    BY <1>1, <2>2
  <2>4. offered' = offered \/ (NonceOf(c) \notin offered /\ offered' = offered \cup {NonceOf(c)})
    BY <1>5 DEF WriteListing
  <2>5. UNCHANGED <<claim, granted>>
    BY <1>5 DEF WriteListing
  <2>6. QED
    BY <1>a, <2>1, <2>3, <2>4, <2>5, Stutters, IssueMaps
<1>6. ASSUME NEW c \in Callers, AuditListed(c) \/ ListingFails(c) PROVE UNCHANGED Token!tokenVars
  <2>1. \A d \in Callers : HolderOf(d)' = HolderOf(d)
    BY <1>0, <1>1, <1>6, Others DEF AuditListed, ListingFails, At, Past, Idle
  <2>2. QED
    BY <1>6, <1>a, <2>1, Stutters DEF AuditListed, ListingFails, history
<1>7. ASSUME NEW c \in Callers, Claim(c) PROVE UNCHANGED Token!tokenVars
  <2>1. caller[c] \in Choosing /\ NonceOf(c) \in Nonces
    BY <1>0, <1>7, InHand DEF Claim, At, ChoosePhases
  <2>2. ~Past(c) /\ ~Past(c)' /\ \A d \in Callers \ {c} : caller'[d] = caller[d]
    BY <1>0, <1>7, <2>1 DEF Claim, Goto, At, Past, Choosing
  <2>3. \A d \in Callers : HolderOf(d)' = HolderOf(d)
    BY <1>1, <2>2
  <2>4. \A n \in Nonces : Choice(n)' = Choice(n)
    BY <1>0, <1>7, <2>1 DEF Claim, Choice, SelectTypeOK
  <2>5. QED
    BY <1>7, <2>3, <2>4, Stutters DEF Claim, history
<1>8. ASSUME NEW c \in Callers, WriteClaim(c) PROVE Token!TokenNext
  <2> DEFINE n == caller[c].nonce
             w == caller[c].wiki
  <2>1. caller[c] \in Choosing /\ n \in Nonces /\ NonceOf(c) = n /\ w \in Wikis
    BY <1>0, <1>8, InHand DEF WriteClaim, At, ChoosePhases
  <2>2. n \in offered /\ caller[c].mine /\ claim[n] = Torn
    BY <1>8 DEF SelectInv, Knows, WriteClaim, At, ChoosePhases
  <2>3. /\ \A d \in Callers \ {c} : caller'[d] = caller[d]
        /\ caller'[c].phase = "auditClaim" /\ caller'[c].nonce = n /\ caller'[c].mine
    BY <1>0, <1>8, <2>1, <2>2, Others DEF WriteClaim
  <2>4. HolderOf(c)' = {n} /\ \A d \in Callers \ {c} : HolderOf(d)' = HolderOf(d)
    BY <2>3 DEF HolderOf, Spender, Past
  <2>5. /\ Choice(n) = NoWiki
        /\ \A m \in Nonces : Choice(m)' = IF m = n THEN w ELSE Choice(m)
    BY <1>0, <1>8, <2>1, <2>2, SelectConstants DEF WriteClaim, Choice, SelectTypeOK
  <2>6. QED
    BY <1>8, <2>1, <2>2, <2>4, <2>5, SpendMaps DEF WriteClaim, history
<1>9. ASSUME NEW c \in Callers, ReadClaim(c) PROVE UNCHANGED Token!tokenVars
  <2>1. caller[c] \in Choosing /\ ~caller[c].mine /\ ~Past(c)
    BY <1>0, <1>9, InHand DEF SelectInv, Knows, ReadClaim, At, Past, ChoosePhases
  <2>2. /\ ~Past(c)' \/ ~caller'[c].mine
        /\ \A d \in Callers \ {c} : caller'[d] = caller[d]
    BY <1>0, <1>9, <2>1, Others DEF ReadClaim, Idle, Past
  <2>3. QED
    BY <1>1, <1>9, <1>a, <2>1, <2>2, Stutters DEF ReadClaim, files, history
<1>10. ASSUME NEW c \in Callers, ClaimFails(c) PROVE Token!TokenNext \/ UNCHANGED Token!tokenVars
  <2> DEFINE n == caller[c].nonce
  <2>1. n \in Nonces /\ NonceOf(c) = n
    BY <1>0, <1>10, InHand DEF ClaimFails, At, ChoosePhases
  <2>2. caller'[c] = Idle /\ \A d \in Callers \ {c} : caller'[d] = caller[d]
    BY <1>0, <1>10, Others DEF ClaimFails
  <2>3. HolderOf(c)' = {} /\ \A d \in Callers \ {c} : HolderOf(d)' = HolderOf(d)
    BY <2>2 DEF Idle, HolderOf, Spender, Past
  <2>4. \A m \in Nonces : Choice(m)' = IF m = n THEN NoWiki ELSE Choice(m)
    BY <1>0, <1>10, <2>1, SelectConstants DEF ClaimFails, Choice, SelectTypeOK
  <2>5. CASE At(c, "auditClaim") /\ caller[c].mine
    <3>1. n \in HolderOf(c)
      BY <2>5 DEF HolderOf, Spender, Past, At
    <3>2. QED
      BY <1>10, <2>1, <2>3, <2>4, <3>1, GiveBackMaps DEF ClaimFails
  <2>6. CASE At(c, "writeClaim")
    <3>1. HolderOf(c) = {}
      BY <2>6 DEF HolderOf, Spender, Past, At
    <3>2. Choice(n) = NoWiki
      BY <2>6 DEF SelectInv, Knows, Choice
    <3>3. QED
      BY <1>10, <2>3, <2>4, <3>1, <3>2, Stutters DEF ClaimFails
  <2>7. QED
    BY <1>10, <2>5, <2>6 DEF ClaimFails
<1>11. ASSUME NEW c \in Callers, AuditClaim(c) \/ WriteConsumed(c) PROVE UNCHANGED Token!tokenVars
  <2>1. Past(c) /\ caller[c] \in Choosing
    BY <1>0, <1>11, InHand DEF AuditClaim, WriteConsumed, At, Past, ChoosePhases
  <2>2. \A d \in Callers : HolderOf(d)' = HolderOf(d)
    BY <1>0, <1>11, <2>1, Others DEF AuditClaim, WriteConsumed, HolderOf, Spender, Past
  <2>3. QED
    BY <1>11, <1>a, <2>2, Stutters DEF AuditClaim, WriteConsumed, history
<1>12. ASSUME NEW c \in Callers, Finish(c), UNCHANGED <<claim, offered, granted>>
       PROVE  Token!TokenNext
  <2>1. caller'[c] = Idle /\ \A d \in Callers \ {c} : caller'[d] = caller[d]
    BY <1>0, <1>12, Others
  <2>2. HolderOf(c)' = {} /\ \A d \in Callers \ {c} : HolderOf(d)' = HolderOf(d)
    BY <2>1 DEF Idle, HolderOf, Spender, Past
  <2>3. QED
    BY <1>12, <1>a, <2>2, DeathMaps
<1>13. ASSUME NEW c \in Callers, Authorize(c) PROVE Token!TokenNext
  <2> DEFINE n == caller[c].nonce
  <2>1. n \in Nonces /\ NonceOf(c) = n /\ caller[c].wiki \in Wikis
    BY <1>0, <1>13, InHand DEF Authorize, At, ChoosePhases
  <2>2. CASE caller[c].mine
    <3>1. Spender(c)
      BY <1>13, <2>2 DEF Spender, Past, Authorize, At
    <3>2. n \in HolderOf(c) /\ Choice(n) = caller[c].wiki
      BY <2>1, <3>1, SelectConstants DEF HolderOf, Choice, SelectInv, Knows
    <3>3. granted' = [granted EXCEPT ![n] = Append(@, Choice(n))]
      BY <1>13, <2>1, <2>2, <3>2 DEF Authorize
    <3>4. caller'[c] = Idle /\ \A d \in Callers \ {c} : caller'[d] = caller[d]
      BY <1>0, <1>13, Others DEF Authorize
    <3>5. HolderOf(c)' = {} /\ \A d \in Callers \ {c} : HolderOf(d)' = HolderOf(d)
      BY <3>4 DEF Idle, HolderOf, Spender, Past
    <3>6. UNCHANGED <<claim, offered>>
      BY <1>13 DEF Authorize
    <3>7. QED
      BY <1>a, <2>1, <3>2, <3>3, <3>5, <3>6, GrantMaps
  <2>3. CASE ~caller[c].mine
    BY <1>12, <1>13, <2>3 DEF Authorize
  <2>4. QED
    BY <2>2, <2>3
<1>14. ASSUME NEW c \in Callers, CallerDies(c) PROVE Token!TokenNext
  BY <1>12, <1>14 DEF CallerDies, files, history
<1>15. CASE Drift \/ UNCHANGED selectVars
  BY <1>15, <1>a, Stutters DEF Drift, selectVars, files, history, HolderOf, Spender, Past
<1>16. QED
  BY <1>2, <1>3, <1>4, <1>5, <1>6, <1>7, <1>8, <1>9, <1>10, <1>11, <1>13, <1>14, <1>15
     DEF SelectNext, SelectProgress

(* The claim file, the state file and their audit lines together are one   *)
(* instant at which a list is spent, which only the caller that spent it   *)
(* may undo, and only that caller is authorised (selection.py:776-799).    *)
THEOREM SelectRefinesToken == SelectSpec => ImplementsOneShot
  BY InitMaps, StepMaps, SelectInvariance, PTL DEF SelectSpec, ImplementsOneShot, Token!TokenSpec
=============================================================================
