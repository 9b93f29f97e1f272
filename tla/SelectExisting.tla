--------------------------- MODULE SelectExisting ---------------------------
(***************************************************************************)
(* Selection of an existing wiki (selection.py).  `list` issues a nonce    *)
(* for the wikis that are eligible now; `select` consumes it and authorises*)
(* one of them.  The state file and the claim file of a nonce are created  *)
(* exclusively and then written, by create_private_file, so that a file is *)
(* there before it can be read; the state file is replaced at the end; and *)
(* all of these have audit lines.  Processes share nothing else and may    *)
(* die between any two of these.                                           *)
(*                                                                         *)
(* A nonce is the hash of the binding and of the number of the issuance,   *)
(* so it is modelled as the record it is the hash of.                      *)
(***************************************************************************)
EXTENDS Naturals, Sequences

CONSTANTS Callers,       \* processes that list and select
          Sessions,      \* what else a binding holds: request, owner, day
          Wikis,         \* the wikis of the catalog
          NoWiki,        \* no choice
          Torn,          \* a claim file that was created and not written whole
          MaxIssuance,   \* how often one binding may be issued (10000)
          MaxMishaps     \* bound on changes of the catalog, failures and deaths

ASSUME SelectConstants ==
  /\ NoWiki \notin Wikis /\ Torn \notin Wikis \cup {NoWiki}
  /\ MaxIssuance \in Nat \ {0} /\ MaxMishaps \in Nat

Nonces == [session : Sessions, eligible : SUBSET Wikis, issuance : 0 .. MaxIssuance - 1]
Events == {"listed", "claimed", "consumed"}

VARIABLES candidates,   \* the wikis that are eligible now
          listing,      \* the state file of each nonce
          claim,        \* its claim file: none, torn, or the choice in it
          audited,      \* the audit events of each nonce
          caller,       \* what each caller is doing
          granted,      \* history: the wikis authorised for each nonce
          offered,      \* history: the nonces whose state file was ever whole
          withdrawn,    \* history: those of which a whole claim was removed
          mishaps

history == <<granted, offered, withdrawn>>
files == <<listing, claim, audited>>
selectVars == <<candidates, files, caller, history, mishaps>>

Idle == [phase |-> "idle"]

Listing  == [phase : {"look", "create", "writeListing", "auditListed"}, nonce : Nonces]
Choosing == [phase : {"claim", "readClaim", "writeClaim", "auditClaim", "consume", "auditConsumed"},
             nonce : Nonces, wiki : Wikis, mine : BOOLEAN]
CallerStates == {Idle} \cup Listing \cup Choosing

SelectTypeOK ==
  /\ candidates \in SUBSET Wikis
  /\ listing \in [Nonces -> {"absent", "torn", "listed", "consumed"}]
  /\ claim \in [Nonces -> Wikis \cup {NoWiki, Torn}]
  /\ audited \in [Nonces -> SUBSET Events]
  /\ caller \in [Callers -> CallerStates]
  /\ granted \in [Nonces -> Seq(Wikis)]
  /\ offered \subseteq Nonces /\ withdrawn \subseteq Nonces
  /\ mishaps \in 0 .. MaxMishaps

SelectInit ==
  /\ candidates = Wikis
  /\ listing = [n \in Nonces |-> "absent"]
  /\ claim = [n \in Nonces |-> NoWiki]
  /\ audited = [n \in Nonces |-> {}]
  /\ caller = [c \in Callers |-> Idle]
  /\ granted = [n \in Nonces |-> <<>>]
  /\ offered = {} /\ withdrawn = {}
  /\ mishaps = 0

Goto(c, phase) == caller' = [caller EXCEPT ![c].phase = phase]
Finish(c)      == caller' = [caller EXCEPT ![c] = Idle]
At(c, phase)   == caller[c].phase = phase
NonceOf(c)     == caller[c].nonce

(* _ensure_existing_audit: the line is appended unless it is there.        *)
Ensure(n, event) == audited' = [audited EXCEPT ![n] = @ \cup {event}]

-----------------------------------------------------------------------------
(* list_existing                                                           *)

BeginList(c, s) ==
  /\ At(c, "idle")
  /\ caller' = [caller EXCEPT ![c] =
       [phase |-> "look", nonce |-> [session |-> s, eligible |-> candidates, issuance |-> 0]]]
  /\ UNCHANGED <<candidates, files, history, mishaps>>

(* Faulty: one issuance too many.                                          *)
NextIssuanceBeyond(c) ==
  IF NonceOf(c).issuance + 1 <= MaxIssuance
  THEN caller' = [caller EXCEPT ![c].phase = "look", ![c].nonce.issuance = @ + 1]
  ELSE Finish(c)

(* The next issuance, or the refusal when there is none.                   *)
NextIssuance(c) ==
  IF NonceOf(c).issuance + 1 < MaxIssuance
  THEN caller' = [caller EXCEPT ![c].phase = "look", ![c].nonce.issuance = @ + 1]
  ELSE Finish(c)

(* A nonce whose state is still listed is handed out again; one whose      *)
(* state cannot be read is refused, and no other is tried.                 *)
Look(c) ==
  /\ At(c, "look")
  /\ \/ /\ listing[NonceOf(c)] = "listed"
        /\ Ensure(NonceOf(c), "listed")
        /\ Finish(c)
     \/ /\ listing[NonceOf(c)] = "torn"
        /\ Finish(c)
        /\ UNCHANGED audited
     \/ /\ listing[NonceOf(c)] = "consumed"
        /\ NextIssuance(c)
        /\ UNCHANGED audited
     \/ /\ listing[NonceOf(c)] = "absent"
        /\ Goto(c, "create")
        /\ UNCHANGED audited
  /\ UNCHANGED <<candidates, listing, claim, history, mishaps>>

(* The state is created exclusively: who comes second takes the next one.  *)
CreateListing(c) ==
  /\ At(c, "create")
  /\ \/ /\ listing[NonceOf(c)] = "absent"
        /\ listing' = [listing EXCEPT ![NonceOf(c)] = "torn"]
        /\ Goto(c, "writeListing")
     \/ /\ listing[NonceOf(c)] # "absent"
        /\ NextIssuance(c)
        /\ UNCHANGED listing
  /\ UNCHANGED <<candidates, claim, audited, history, mishaps>>

(* What is written goes nowhere when the file was replaced meanwhile.      *)
WriteListing(c) ==
  LET n == NonceOf(c) IN
  /\ At(c, "writeListing")
  /\ IF listing[n] = "torn"
     THEN /\ listing' = [listing EXCEPT ![n] = "listed"]
          /\ offered' = offered \cup {n}
     ELSE UNCHANGED <<listing, offered>>
  /\ Goto(c, "auditListed")
  /\ UNCHANGED <<candidates, claim, audited, granted, withdrawn, mishaps>>

AuditListed(c) ==
  /\ At(c, "auditListed")
  /\ Ensure(NonceOf(c), "listed")
  /\ Finish(c)
  /\ UNCHANGED <<candidates, listing, claim, history, mishaps>>

(* A write or a sync that fails removes the file, whatever it holds by now.*)
ListingFails(c) ==
  /\ At(c, "writeListing") \/ At(c, "auditListed")
  /\ mishaps < MaxMishaps
  /\ mishaps' = mishaps + 1
  /\ listing' = [listing EXCEPT ![NonceOf(c)] = "absent"]
  /\ Finish(c)
  /\ UNCHANGED <<candidates, claim, audited, history>>

-----------------------------------------------------------------------------
(* select_existing                                                         *)

(* The binding is recomputed from the request at hand and the catalog.     *)
Bound(n, s, w) == n.session = s /\ n.eligible = candidates /\ w \in n.eligible

(* The state is read and its audit line ensured even if it is refused; one *)
(* that cannot be read is refused before that.                             *)
Present(c, s, n, w) ==
  /\ At(c, "idle")
  /\ listing[n] \in {"listed", "consumed"}
  /\ Ensure(n, listing[n])
  /\ IF listing[n] = "listed" /\ Bound(n, s, w)
     THEN caller' = [caller EXCEPT ![c] =
            [phase |-> "claim", nonce |-> n, wiki |-> w, mine |-> FALSE]]
     ELSE UNCHANGED caller
  /\ UNCHANGED <<candidates, listing, claim, history, mishaps>>

(* Faulty: the claim is written as the other files are, not created.       *)
ClaimReplaces(c) ==
  /\ At(c, "claim")
  /\ claim' = [claim EXCEPT ![NonceOf(c)] = caller[c].wiki]
  /\ caller' = [caller EXCEPT ![c].phase = "auditClaim", ![c].mine = TRUE]
  /\ UNCHANGED <<candidates, listing, audited, history, mishaps>>

(* The claim is created exclusively, and empty.                            *)
Claim(c) ==
  /\ At(c, "claim")
  /\ \/ /\ claim[NonceOf(c)] = NoWiki
        /\ claim' = [claim EXCEPT ![NonceOf(c)] = Torn]
        /\ caller' = [caller EXCEPT ![c].phase = "writeClaim", ![c].mine = TRUE]
     \/ /\ claim[NonceOf(c)] # NoWiki
        /\ Goto(c, "readClaim")
        /\ UNCHANGED claim
  /\ UNCHANGED <<candidates, listing, audited, history, mishaps>>

WriteClaim(c) ==
  /\ At(c, "writeClaim")
  /\ claim' = [claim EXCEPT ![NonceOf(c)] = caller[c].wiki]
  /\ Goto(c, "auditClaim")
  /\ UNCHANGED <<candidates, listing, audited, history, mishaps>>

(* Faulty: who finds a torn claim removes it.                              *)
ReadClaimRemoving(c) ==
  LET n == NonceOf(c) IN
  /\ At(c, "readClaim")
  /\ IF claim[n] = Torn THEN claim' = [claim EXCEPT ![n] = NoWiki] ELSE UNCHANGED claim
  /\ IF claim[n] \in Wikis THEN Goto(c, "auditClaim") ELSE Finish(c)
  /\ UNCHANGED <<candidates, listing, audited, history, mishaps>>

(* Whoever finds a claim closes the selection in its place, and is refused;*)
(* of a claim that cannot be read there is only the refusal.               *)
ReadClaim(c) ==
  /\ At(c, "readClaim")
  /\ IF claim[NonceOf(c)] \in Wikis THEN Goto(c, "auditClaim") ELSE Finish(c)
  /\ UNCHANGED <<candidates, files, history, mishaps>>

(* A write or a sync that fails removes the claim.  By then another caller *)
(* may have read it.                                                       *)
ClaimFails(c) ==
  /\ \/ At(c, "writeClaim")
     \/ At(c, "auditClaim") /\ caller[c].mine
  /\ mishaps < MaxMishaps
  /\ mishaps' = mishaps + 1
  /\ claim' = [claim EXCEPT ![NonceOf(c)] = NoWiki]
  /\ withdrawn' = IF At(c, "auditClaim") THEN withdrawn \cup {NonceOf(c)} ELSE withdrawn
  /\ Finish(c)
  /\ UNCHANGED <<candidates, listing, audited, granted, offered>>

(* Faulty: a caller that finds a claim is refused and leaves it at that.   *)
AuditClaimMine(c) ==
  /\ At(c, "auditClaim")
  /\ Ensure(NonceOf(c), "claimed")
  /\ IF caller[c].mine THEN Goto(c, "consume") ELSE Finish(c)
  /\ UNCHANGED <<candidates, listing, claim, history, mishaps>>

(* Faulty: the line of the claim is left to somebody else.                 *)
AuditClaimSilent(c) ==
  /\ At(c, "auditClaim")
  /\ Goto(c, "consume")
  /\ UNCHANGED <<candidates, files, history, mishaps>>

AuditClaim(c) ==
  /\ At(c, "auditClaim")
  /\ Ensure(NonceOf(c), "claimed")
  /\ Goto(c, "consume")
  /\ UNCHANGED <<candidates, listing, claim, history, mishaps>>

WriteConsumed(c) ==
  /\ At(c, "consume")
  /\ listing' = [listing EXCEPT ![NonceOf(c)] = "consumed"]
  /\ Goto(c, "auditConsumed")
  /\ UNCHANGED <<candidates, claim, audited, history, mishaps>>

(* Faulty: the recovering caller's choice is authorised too.               *)
AuthorizeAll(c) ==
  /\ At(c, "auditConsumed")
  /\ Ensure(NonceOf(c), "consumed")
  /\ granted' = [granted EXCEPT ![NonceOf(c)] = Append(@, caller[c].wiki)]
  /\ Finish(c)
  /\ UNCHANGED <<candidates, listing, claim, offered, withdrawn, mishaps>>

Authorize(c) ==
  /\ At(c, "auditConsumed")
  /\ Ensure(NonceOf(c), "consumed")
  /\ granted' = IF caller[c].mine
                THEN [granted EXCEPT ![NonceOf(c)] = Append(@, caller[c].wiki)]
                ELSE granted
  /\ Finish(c)
  /\ UNCHANGED <<candidates, listing, claim, offered, withdrawn, mishaps>>

-----------------------------------------------------------------------------
(* The environment                                                         *)

(* A card, an artifact or the catalog changes: a wiki becomes eligible or  *)
(* ceases to be.                                                           *)
Drift ==
  /\ mishaps < MaxMishaps
  /\ \E w \in Wikis :
       candidates' = IF w \in candidates THEN candidates \ {w} ELSE candidates \cup {w}
  /\ mishaps' = mishaps + 1
  /\ UNCHANGED <<files, caller, history>>

CallerDies(c) ==
  /\ ~At(c, "idle")
  /\ mishaps < MaxMishaps
  /\ mishaps' = mishaps + 1
  /\ Finish(c)
  /\ UNCHANGED <<candidates, files, history>>

-----------------------------------------------------------------------------

SelectProgress(c) ==
  \/ Look(c) \/ CreateListing(c) \/ WriteListing(c) \/ AuditListed(c)
  \/ Claim(c) \/ WriteClaim(c) \/ ReadClaim(c)
  \/ AuditClaim(c) \/ WriteConsumed(c) \/ Authorize(c)

SelectNext ==
  \/ \E c \in Callers, s \in Sessions : BeginList(c, s)
  \/ \E c \in Callers, s \in Sessions, n \in Nonces, w \in Wikis : Present(c, s, n, w)
  \/ \E c \in Callers : SelectProgress(c)
  \/ Drift
  \/ \E c \in Callers : ListingFails(c) \/ ClaimFails(c) \/ CallerDies(c)

(* A host presents a list whose selection it has not seen the end of.      *)
ComeBack(claims) ==
  \E c \in Callers, n \in Nonces, w \in Wikis :
    /\ claim[n] \in claims
    /\ \/ listing[n] = "listed" /\ Bound(n, n.session, w)
       \/ listing[n] = "consumed" /\ audited[n] # Events
    /\ Present(c, n.session, n, w)

(* A running caller goes on, and hosts come back to lists whose claim is   *)
(* whole, each of which brings one of them to its end, and to torn ones.   *)
SelectFairness ==
  /\ \A c \in Callers : WF_selectVars(SelectProgress(c))
  /\ SF_selectVars(ComeBack(Wikis)) /\ SF_selectVars(ComeBack({Torn}))

SelectSpec == SelectInit /\ [][SelectNext]_selectVars /\ SelectFairness

-----------------------------------------------------------------------------

(* One list authorises at most one wiki, to one caller, and it is the one  *)
(* its claim names, out of those that were listed: whichever callers       *)
(* present it at once, die and come back (selection.py:446).  A claim that *)
(* was never written whole authorises nothing.                             *)
SingleUse ==
  \A n \in Nonces :
    /\ Len(granted[n]) <= 1
    /\ granted[n] # <<>> => granted[n] = <<claim[n]>> /\ claim[n] \in n.eligible

(* A state becomes consumed only after a claim and the audit line of that  *)
(* claim: the trail is complete whoever closes the selection.  The claim   *)
(* is still there, unless its own caller has removed it after a failure.   *)
ConsumedIsAccountedFor ==
  \A n \in Nonces :
    listing[n] = "consumed" =>
      /\ "claimed" \in audited[n]
      /\ claim[n] \in Wikis \/ n \in withdrawn

(* A claim whose caller died between its creation and its end is never     *)
(* completed, replaced or removed by anybody else: the list it is of       *)
(* stays unusable (selection.py:528, 549).                                 *)
Writes(c, n) == At(c, "writeClaim") /\ NonceOf(c) = n
TornStays ==
  [][\A n \in Nonces :
       claim[n] = Torn /\ (\A c \in Callers : ~Writes(c, n)) => claim'[n] = Torn]_selectVars

(* A listed selection authorises at most one wiki, a consumed one has its  *)
(* claim and the audit line of it, and a torn claim blocks it for good     *)
(* (selection.py:446, 513).                                                *)
SelectionKept == TornStays /\ [](SingleUse /\ ConsumedIsAccountedFor)

(* Nothing is left to do for a claim: its selection is closed and audited, *)
(* or a presenter is refused before it notices the claim, since the        *)
(* catalog has drifted or the lister failed and took the state file away.  *)
ClosedOrRefused(n) ==
  \/ listing[n] = "consumed" /\ audited[n] = Events
  \/ candidates # n.eligible
  \/ listing[n] \in {"absent", "torn"}

(* A claim that was written whole is closed and audited in the end, by     *)
(* whoever presents the list again, also when its caller died before it    *)
(* did so (selection.py:527-533).                                          *)
EventuallyClosed == []<>(\A n \in Nonces : claim[n] \in Wikis => ClosedOrRefused(n))

(* Each state transition has an audit event that is "recovered into the    *)
(* audit log on retry" (docs/schemas.md:264): so every claim is closed in  *)
(* the end.  Of a torn one that is not so (selection.py:549).              *)
EveryClaimCloses == []<>(\A n \in Nonces : claim[n] # NoWiki => ClosedOrRefused(n))

(* The token this implements: spent when the claim file is whole, and      *)
(* handed out when the state file first is.                                *)
Token == INSTANCE OneShot WITH
  Tokens   <- Nonces,
  Choices  <- Wikis,
  NoChoice <- NoWiki,
  issued   <- offered,
  choice   <- [n \in Nonces |-> IF claim[n] = Torn THEN NoWiki ELSE claim[n]],
  holder   <- [c \in Callers |->
                 IF caller[c].phase \in {"auditClaim", "consume", "auditConsumed"}
                    /\ caller[c].mine
                 THEN {caller[c].nonce} ELSE {}],
  grants   <- granted

(* Claim, audit and state file together are one instant at which the list  *)
(* is spent.                                                               *)
ImplementsOneShot == Token!TokenSpec
=============================================================================
