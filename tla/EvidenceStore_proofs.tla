------------------------- MODULE EvidenceStore_proofs -------------------------
(***************************************************************************)
(* Theorems about EvidenceStore for any records, citations, related sets   *)
(* and notices, any number of recorders and any bound on what they do.     *)
(***************************************************************************)
EXTENDS EvidenceStore, FiniteSetTheorems, TLAPS

-----------------------------------------------------------------------------
(* The inductive invariant                                                 *)

Setting(r) == recorder[r].phase \in {"check", "journal", "write"}
Alone(r)   == recorder[r].phase \in {"admit", "single"}

(* How many items of its set a recorder has written.                       *)
Written(r) == Len(recorder[r].items) - Len(recorder[r].left)

(* What is left to a recorder is a suffix of its set, which was admitted   *)
(* and so stays: no record is ever removed.                                *)
Sound(r) ==
  /\ Setting(r) =>
       /\ Written(r) \in Nat
       /\ \A n \in 1 .. Len(recorder[r].left) :
            recorder[r].left[n] = recorder[r].items[Written(r) + n]
       /\ \A n \in 1 .. Written(r) : recorder[r].items[n].key \in Stored
  /\ In(r, "check") \/ In(r, "journal") => Written(r) = 0 /\ recorder[r].journal.items = Items(r)
  /\ Setting(r) \/ In(r, "single") => Admitted(Items(r))

(* While nobody raced, a recorder that looked for journals may rely on what*)
(* it saw, and what it has written of its set is in the store.             *)
Undisturbed(r) ==
  /\ In(r, "journal") \/ Alone(r) => journals = {}
  /\ In(r, "write") =>
       /\ recorder[r].journal \in journals
       /\ Range(recorder[r].journal.items) = Range(Items(r))
       /\ \A n \in 1 .. Written(r) : store[Items(r)[n].key] = Items(r)[n].body
  /\ In(r, "single") /\ Items(r)[1].key \in Notices =>
       ChainValid((Stored \cap Notices) \cup {Items(r)[1].key})

(* The store differs from what landed only where a journal says so.        *)
Covered ==
  /\ journals = {} => store = landed
  /\ \A i, j \in journals : i = j
  /\ \A j \in journals : \A k \in Keys \ KeysOf(j.items) : store[k] = landed[k]

Chained == Stored \cap Notices = {} \/ ChainValid(Stored \cap Notices)

EvidenceInv ==
  /\ EvidenceTypeOK
  /\ \A r \in Recorders : Sound(r)
  /\ NothingDangles
  /\ IsFiniteSet(Stored \cap Notices)
  /\ ~raced => Covered /\ Chained /\ \A r \in Recorders : Undisturbed(r)

-----------------------------------------------------------------------------
(* Types                                                                   *)

RecorderStates == {Waiting} \cup SetUnderWay \cup OneUnderWay

(* The phase of a recorder says what it holds.                             *)
LEMMA RecorderKinds ==
  ASSUME EvidenceTypeOK, NEW r \in Recorders
  PROVE  /\ In(r, "wait") <=> recorder[r] = Waiting
         /\ Setting(r) => recorder[r] \in SetUnderWay
         /\ Alone(r) => recorder[r] \in OneUnderWay
         /\ In(r, "audit") => recorder[r] \in SetUnderWay \cup OneUnderWay
<1>1. recorder[r] \in RecorderStates
  BY DEF EvidenceTypeOK, RecorderStates
<1>2. QED
  BY <1>1 DEF RecorderStates, In, Setting, Alone, Waiting, SetUnderWay, OneUnderWay

LEMMA BatchItems ==
  ASSUME NEW b \in Batches
  PROVE  /\ b \in Seq(Item)
         /\ Range(b) \subseteq Item
         /\ KeysOf(b) \subseteq Keys
         /\ KeysOf(b) = {b[n].key : n \in 1 .. Len(b)}
         /\ Related(b)
<1>1. b \in Seq(Item) /\ Related(b)
  BY EvidenceConstants
<1>2. DOMAIN b = 1 .. Len(b) /\ \A n \in 1 .. Len(b) : b[n] \in Item
  BY <1>1
<1>3. Range(b) = {b[n] : n \in 1 .. Len(b)}
  BY <1>2 DEF Range
<1>4. QED
  BY <1>1, <1>2, <1>3 DEF KeysOf, Item

LEMMA SingleItem ==
  ASSUME NEW i \in Singles
  PROVE  /\ i \in Item /\ <<i>>[1] = i
         /\ Range(<<i>>) = {i} /\ KeysOf(<<i>>) = {i.key}
<1>1. DOMAIN <<i>> = {1}
  OBVIOUS
<1>2. QED
  BY <1>1, EvidenceConstants DEF Range, KeysOf

LEMMA RecorderReplaced ==
  ASSUME EvidenceTypeOK, NEW r \in Recorders, NEW state, state \in RecorderStates,
         recorder' = [recorder EXCEPT ![r] = state]
  PROVE  /\ recorder' \in [Recorders -> {Waiting} \cup SetUnderWay \cup OneUnderWay]
         /\ recorder'[r] = state
         /\ \A q \in Recorders \ {r} : recorder'[q] = recorder[q]
  BY DEF EvidenceTypeOK, RecorderStates

LEMMA Quitting ==
  ASSUME EvidenceTypeOK, NEW r \in Recorders, Quit(r)
  PROVE  /\ recorder' \in [Recorders -> {Waiting} \cup SetUnderWay \cup OneUnderWay]
         /\ recorder'[r] = Waiting
         /\ \A q \in Recorders \ {r} : recorder'[q] = recorder[q]
  BY DEF EvidenceTypeOK, Quit

(* A set or a single item goes on to its next phase.                       *)
LEMMA Stepping ==
  ASSUME EvidenceTypeOK, NEW r \in Recorders, NEW phase, Step(r, phase),
         \/ recorder[r] \in SetUnderWay /\ phase \in {"check", "journal", "write", "audit"}
         \/ recorder[r] \in OneUnderWay /\ phase \in {"admit", "single", "audit"}
  PROVE  /\ recorder' \in [Recorders -> {Waiting} \cup SetUnderWay \cup OneUnderWay]
         /\ recorder'[r] = [recorder[r] EXCEPT !.phase = phase]
         /\ \A q \in Recorders \ {r} : recorder'[q] = recorder[q]
<1> DEFINE state == [recorder[r] EXCEPT !.phase = phase]
<1>1. state \in SetUnderWay \cup OneUnderWay
  BY DEF SetUnderWay, OneUnderWay
<1>2. recorder' = [recorder EXCEPT ![r] = state]
  BY DEF Step
<1> HIDE DEF state
<1>3. QED
  BY <1>1, <1>2, RecorderReplaced DEF RecorderStates, state

(* A set whose next item, if there is one, is written.                     *)
LEMMA Advancing ==
  ASSUME EvidenceTypeOK, NEW r \in Recorders, In(r, "write"), recorder[r].left # <<>>,
         recorder' = [recorder EXCEPT ![r].left = Tail(@)]
  PROVE  /\ recorder' \in [Recorders -> {Waiting} \cup SetUnderWay \cup OneUnderWay]
         /\ recorder'[r] = [recorder[r] EXCEPT !.left = Tail(recorder[r].left)]
         /\ \A q \in Recorders \ {r} : recorder'[q] = recorder[q]
         /\ Head(recorder[r].left) \in Item
<1> DEFINE state == [recorder[r] EXCEPT !.left = Tail(recorder[r].left)]
<1>1. recorder[r] \in SetUnderWay
  BY RecorderKinds DEF In, Setting
<1>2. recorder[r].left \in Seq(Item)
  BY <1>1 DEF SetUnderWay
<1>3. Head(recorder[r].left) \in Item /\ Tail(recorder[r].left) \in Seq(Item)
  BY <1>2
<1>4. state \in SetUnderWay
  BY <1>1, <1>3 DEF SetUnderWay
<1>5. recorder' = [recorder EXCEPT ![r] = state]
  BY <1>1 DEF EvidenceTypeOK
<1> HIDE DEF state
<1>6. QED
  BY <1>3, <1>4, <1>5, RecorderReplaced DEF RecorderStates, state

LEMMA Replaying ==
  ASSUME EvidenceTypeOK, NEW r \in Recorders, In(r, "check"), NEW j \in journals,
         recorder' = [recorder EXCEPT ![r].phase = "write", ![r].journal = j]
  PROVE  /\ recorder' \in [Recorders -> {Waiting} \cup SetUnderWay \cup OneUnderWay]
         /\ recorder'[r] = [recorder[r] EXCEPT !.phase = "write", !.journal = j]
         /\ \A q \in Recorders \ {r} : recorder'[q] = recorder[q]
<1> DEFINE state == [recorder[r] EXCEPT !.phase = "write", !.journal = j]
<1>1. recorder[r] \in SetUnderWay
  BY RecorderKinds DEF In, Setting
<1>2. j \in Journals
  BY DEF EvidenceTypeOK
<1>3. state \in SetUnderWay
  BY <1>1, <1>2 DEF SetUnderWay
<1>4. recorder' = [recorder EXCEPT ![r] = state]
  BY <1>1 DEF EvidenceTypeOK
<1> HIDE DEF state
<1>5. QED
  BY <1>3, <1>4, RecorderReplaced DEF RecorderStates, state

LEMMA Beginning ==
  ASSUME EvidenceTypeOK, NEW r \in Recorders, NEW b \in Batches, Begin(r, b)
  PROVE  /\ recorder' \in [Recorders -> {Waiting} \cup SetUnderWay \cup OneUnderWay]
         /\ recorder'[r] = [phase |-> "check", items |-> b, left |-> b,
                            journal |-> [items |-> b, previous |-> [k \in KeysOf(b) |-> store[k]]]]
         /\ \A q \in Recorders \ {r} : recorder'[q] = recorder[q]
<1> DEFINE journal == [items |-> b, previous |-> [k \in KeysOf(b) |-> store[k]]]
           state   == [phase |-> "check", items |-> b, left |-> b, journal |-> journal]
<1>1. KeysOf(b) \subseteq Keys /\ b \in Seq(Item)
  BY BatchItems
<1>2. [k \in KeysOf(b) |-> store[k]] \in [KeysOf(b) -> Body]
  BY <1>1 DEF EvidenceTypeOK
<1>3. journal \in Journals
  BY <1>2 DEF Journals
<1>4. state \in SetUnderWay
  BY <1>1, <1>3 DEF SetUnderWay
<1>5. recorder' = [recorder EXCEPT ![r] = state]
  BY DEF Begin
<1> HIDE DEF journal, state
<1>6. QED
  BY <1>4, <1>5, RecorderReplaced DEF RecorderStates, state, journal

LEMMA BeginningOne ==
  ASSUME EvidenceTypeOK, NEW r \in Recorders, NEW i \in Singles, BeginSingle(r, i)
  PROVE  /\ recorder' \in [Recorders -> {Waiting} \cup SetUnderWay \cup OneUnderWay]
         /\ recorder'[r] = [phase |-> "admit", items |-> <<i>>]
         /\ \A q \in Recorders \ {r} : recorder'[q] = recorder[q]
<1> DEFINE state == [phase |-> "admit", items |-> <<i>>]
<1>1. state \in OneUnderWay
  BY DEF OneUnderWay
<1>2. recorder' = [recorder EXCEPT ![r] = state]
  BY DEF BeginSingle
<1> HIDE DEF state
<1>3. QED
  BY <1>1, <1>2, RecorderReplaced DEF RecorderStates, state

LEMMA ItemsTyped ==
  ASSUME EvidenceTypeOK, NEW r \in Recorders, ~In(r, "wait")
  PROVE  Range(Items(r)) \subseteq Item
<1>1. recorder[r] \in SetUnderWay \cup OneUnderWay
  BY RecorderKinds DEF EvidenceTypeOK
<1>2. CASE recorder[r] \in SetUnderWay
  BY <1>2, BatchItems DEF SetUnderWay, Items
<1>3. CASE recorder[r] \in OneUnderWay
  BY <1>3, SingleItem DEF OneUnderWay, Items
<1>4. QED
  BY <1>1, <1>2, <1>3

LEMMA LandingType ==
  ASSUME EvidenceTypeOK, NEW b \in Batches
  PROVE  Landing(b) \in [Keys -> Body]
<1>1. ASSUME NEW k \in KeysOf(b)
      PROVE  (CHOOSE i \in Range(b) : i.key = k).body \in Body
  BY BatchItems DEF KeysOf, Item, Body
<1>2. QED
  BY <1>1 DEF Landing, EvidenceTypeOK

LEMMA EvidenceTypeInit == EvidenceInit => EvidenceTypeOK
<1> SUFFICES ASSUME EvidenceInit PROVE EvidenceTypeOK
  OBVIOUS
<1>1. store \in [Keys -> Body] /\ landed \in [Keys -> Body]
  BY DEF EvidenceInit, Body
<1>2. recorder \in [Recorders -> {Waiting} \cup SetUnderWay \cup OneUnderWay]
  BY DEF EvidenceInit
<1>3. recordings \in 0 .. MaxRecordings /\ evDeaths \in 0 .. MaxEvidenceDeaths
  BY EvidenceConstants DEF EvidenceInit
<1>4. QED
  BY <1>1, <1>2, <1>3 DEF EvidenceInit, EvidenceTypeOK

LEMMA StoreTyped ==
  ASSUME EvidenceTypeOK, NEW i \in Item, NEW f \in [Keys -> Body]
  PROVE  [f EXCEPT ![i.key] = i.body] \in [Keys -> Body]
  BY DEF Item, Body

LEMMA EvidenceTypeStep == EvidenceTypeOK /\ [EvidenceNext]_evVars => EvidenceTypeOK'
<1> SUFFICES ASSUME EvidenceTypeOK, [EvidenceNext]_evVars PROVE EvidenceTypeOK'
  OBVIOUS
<1> USE EvidenceConstants
<1>1. ASSUME NEW r \in Recorders, NEW b \in Batches, Begin(r, b) PROVE EvidenceTypeOK'
  <2>1. recorder' \in [Recorders -> {Waiting} \cup SetUnderWay \cup OneUnderWay]
    BY <1>1, Beginning
  <2>2. recordings' \in 0 .. MaxRecordings
    BY <1>1 DEF Begin, EvidenceTypeOK
  <2>3. QED
    BY <1>1, <2>1, <2>2 DEF Begin, EvidenceTypeOK
<1>2. ASSUME NEW r \in Recorders, NEW i \in Singles, BeginSingle(r, i) PROVE EvidenceTypeOK'
  <2>1. recorder' \in [Recorders -> {Waiting} \cup SetUnderWay \cup OneUnderWay]
    BY <1>2, BeginningOne
  <2>2. recordings' \in 0 .. MaxRecordings
    BY <1>2 DEF BeginSingle, EvidenceTypeOK
  <2>3. QED
    BY <1>2, <2>1, <2>2 DEF BeginSingle, EvidenceTypeOK
<1>3. ASSUME NEW r \in Recorders, CheckPending(r) PROVE EvidenceTypeOK'
  <2>1. recorder[r] \in SetUnderWay
    BY <1>3, RecorderKinds DEF CheckPending, In, Setting
  <2>2. recorder' \in [Recorders -> {Waiting} \cup SetUnderWay \cup OneUnderWay]
    BY <1>3, <2>1, Stepping, Replaying, Quitting DEF CheckPending
  <2>3. QED
    BY <1>3, <2>2 DEF CheckPending, EvidenceTypeOK, evCounts
<1>4. ASSUME NEW r \in Recorders, WriteJournal(r) PROVE EvidenceTypeOK'
  <2>1. recorder[r] \in SetUnderWay
    BY <1>4, RecorderKinds DEF WriteJournal, In, Setting
  <2>2. recorder[r].journal \in Journals
    BY <2>1 DEF SetUnderWay
  <2>3. recorder' \in [Recorders -> {Waiting} \cup SetUnderWay \cup OneUnderWay]
    BY <1>4, <2>1, Stepping DEF WriteJournal
  <2>4. QED
    BY <1>4, <2>2, <2>3 DEF WriteJournal, EvidenceTypeOK, Disturb, evCounts
<1>5. ASSUME NEW r \in Recorders, WriteItem(r) PROVE EvidenceTypeOK'
  BY <1>5, Advancing, StoreTyped DEF WriteItem, EvidenceTypeOK, Disturb, evCounts
<1>6. ASSUME NEW r \in Recorders, RemoveJournal(r) PROVE EvidenceTypeOK'
  <2>1. recorder[r] \in SetUnderWay
    BY <1>6, RecorderKinds DEF RemoveJournal, In, Setting
  <2>2. recorder' \in [Recorders -> {Waiting} \cup SetUnderWay \cup OneUnderWay]
    BY <1>6, <2>1, Stepping DEF RemoveJournal
  <2>3. Landing(Items(r)) \in [Keys -> Body]
    BY <2>1, LandingType DEF SetUnderWay, Items
  <2>4. QED
    BY <1>6, <2>2, <2>3 DEF RemoveJournal, EvidenceTypeOK, Disturb, evCounts
<1>7. ASSUME NEW r \in Recorders, AuditItems(r) PROVE EvidenceTypeOK'
  <2>1. Range(Items(r)) \subseteq Item
    BY <1>7, ItemsTyped DEF AuditItems, In
  <2>2. recorder' \in [Recorders -> {Waiting} \cup SetUnderWay \cup OneUnderWay]
    BY <1>7, Quitting DEF AuditItems
  <2>3. QED
    BY <1>7, <2>1, <2>2 DEF AuditItems, EvidenceTypeOK, evCounts
<1>8. ASSUME NEW r \in Recorders, Admit(r) PROVE EvidenceTypeOK'
  <2>1. recorder[r] \in OneUnderWay
    BY <1>8, RecorderKinds DEF Admit, In, Alone
  <2>2. recorder' \in [Recorders -> {Waiting} \cup SetUnderWay \cup OneUnderWay]
    BY <1>8, <2>1, Stepping, Quitting DEF Admit
  <2>3. QED
    BY <1>8, <2>2 DEF Admit, EvidenceTypeOK, evCounts
<1>9. ASSUME NEW r \in Recorders, WriteSingle(r) PROVE EvidenceTypeOK'
  <2>1. recorder[r] \in OneUnderWay
    BY <1>9, RecorderKinds DEF WriteSingle, In, Alone
  <2>2. recorder' \in [Recorders -> {Waiting} \cup SetUnderWay \cup OneUnderWay]
    BY <1>9, <2>1, Stepping DEF WriteSingle
  <2>3. Items(r)[1] \in Item
    BY <2>1, SingleItem DEF OneUnderWay, Items
  <2>4. QED
    BY <1>9, <2>2, <2>3, StoreTyped DEF WriteSingle, EvidenceTypeOK, Disturb, evCounts
<1>10. ASSUME NEW r \in Recorders, RecorderDies(r) PROVE EvidenceTypeOK'
  <2>1. Range(Items(r)) \subseteq Item
    BY <1>10, ItemsTyped DEF RecorderDies
  <2>2. recorder' \in [Recorders -> {Waiting} \cup SetUnderWay \cup OneUnderWay]
    BY <1>10, Quitting DEF RecorderDies
  <2>3. QED
    BY <1>10, <2>1, <2>2 DEF RecorderDies, EvidenceTypeOK
<1>11. CASE UNCHANGED evVars
  BY <1>11 DEF evVars, EvidenceTypeOK
<1>12. QED
  BY <1>1, <1>2, <1>3, <1>4, <1>5, <1>6, <1>7, <1>8, <1>9, <1>10, <1>11
     DEF EvidenceNext, EvidenceProgress

-----------------------------------------------------------------------------
(* The store and the chains of notices                                     *)

LEMMA StoredGrows ==
  ASSUME EvidenceTypeOK, NEW i \in Item, store' = [store EXCEPT ![i.key] = i.body]
  PROVE  Stored' = Stored \cup {i.key}
  BY EvidenceConstants DEF EvidenceTypeOK, Stored, Item

(* A record that is stored after all it refers to leaves nothing dangling. *)
LEMMA NoneDangles ==
  ASSUME NothingDangles, NEW k \in Keys, Stored' = Stored \cup {k}, Cites[k] \subseteq Stored \cup {k}
  PROVE  NothingDangles'
  BY DEF NothingDangles, DanglingRecords

(* A chain has one head: the others are replaced by one notice each, and   *)
(* only the first replaces none.                                           *)
LEMMA OneHead ==
  ASSUME NEW S \in SUBSET Notices, IsFiniteSet(S), S = {} \/ ChainValid(S)
  PROVE  Cardinality(Heads(S)) <= 1
<1>1. Heads(S) \subseteq S /\ IsFiniteSet(Heads(S))
  BY FS_Subset DEF Heads
<1>2. ASSUME NEW h1 \in Heads(S), NEW h2 \in Heads(S), h1 # h2 PROVE FALSE
  <2> DEFINE Firsts == {n \in S : Supersedes[n] = NoNotice}
  <2>1. ChainValid(S)
    BY <1>1
  <2>2. IsFiniteSet(Firsts)
    BY FS_Subset
  <2>3. PICK first : Firsts = {first}
    BY <2>1, <2>2, FS_Singleton DEF ChainValid
  <2> DEFINE Later  == S \ {first}
             Rest1  == S \ {h1}
             Others == Rest1 \ {h2}
             f      == [n \in Later |-> Supersedes[n]]
  <2>4. /\ IsFiniteSet(Later) /\ Cardinality(Later) = Cardinality(S) - 1
        /\ IsFiniteSet(Rest1) /\ Cardinality(Rest1) = Cardinality(S) - 1
    BY <1>1, <1>2, <2>3, FS_RemoveElement
  <2>5. IsFiniteSet(Others) /\ Cardinality(Others) = Cardinality(Rest1) - 1
    BY <1>1, <1>2, <2>4, FS_RemoveElement
  <2>6. Cardinality(S) \in Nat
    BY FS_CardinalityType
  <2>7. Cardinality(Others) < Cardinality(Later)
    BY <2>4, <2>5, <2>6
  <2>8. f \in [Later -> Others]
    BY <1>2, <2>1, <2>3 DEF Heads, ChainValid
  <2>9. PICK m, n \in Later : m # n /\ f[m] = f[n]
    <3> HIDE DEF f, Later, Others, Rest1
    <3>1. QED
      BY <2>4, <2>5, <2>7, <2>8, FS_PigeonHole
  <2>10. QED
    BY <2>1, <2>3, <2>9 DEF ChainValid
<1>3. CASE Heads(S) = {}
  BY <1>3, FS_EmptySet
<1>4. CASE Heads(S) # {}
  <2>1. PICK h : Heads(S) = {h}
    BY <1>2, <1>4
  <2>2. QED
    BY <2>1, FS_Singleton
<1>5. QED
  BY <1>3, <1>4

-----------------------------------------------------------------------------
(* What a step leaves as it was                                            *)

Apart(r) == \A q \in Recorders \ {r} : recorder'[q] = recorder[q]

LEMMA SoundKept ==
  ASSUME NEW q \in Recorders, recorder'[q] = recorder[q], Stored \subseteq Stored', Sound(q)
  PROVE  Sound(q)'
  BY DEF Sound, Setting, In, Written, Items, Admitted

LEMMA UndisturbedKept ==
  ASSUME NEW q \in Recorders, recorder'[q] = recorder[q], UNCHANGED <<store, journals>>,
         Undisturbed(q)
  PROVE  Undisturbed(q)'
  BY DEF Undisturbed, In, Alone, Written, Items, Stored, ChainValid

(* Who is not between a look and a write relies on nothing.                *)
LEMMA Unaware ==
  ASSUME NEW q \in Recorders, recorder'[q] = recorder[q], ~Critical(q)
  PROVE  Undisturbed(q)'
  BY DEF Undisturbed, In, Alone, Critical

(* A step that writes nothing.                                             *)
LEMMA Looking ==
  ASSUME EvidenceInv, EvidenceTypeOK', NEW r \in Recorders, Apart(r),
         UNCHANGED <<store, journals, landed, raced>>,
         Sound(r)', ~raced => Undisturbed(r)'
  PROVE  EvidenceInv'
<1>1. Stored' = Stored
  BY DEF Stored
<1>2. \A q \in Recorders : Sound(q)'
  BY <1>1, SoundKept DEF EvidenceInv, Apart
<1>3. ~raced' => \A q \in Recorders : Undisturbed(q)'
  BY UndisturbedKept DEF EvidenceInv, Apart
<1>4. NothingDangles'
  BY <1>1 DEF EvidenceInv, NothingDangles, DanglingRecords
<1>5. ~raced' => Covered'
  BY DEF EvidenceInv, Covered
<1>6. ~raced' => Chained'
  BY <1>1 DEF EvidenceInv, Chained, ChainValid
<1>7. QED
  BY <1>1, <1>2, <1>3, <1>4, <1>5, <1>6 DEF EvidenceInv

(* A step that writes, when nobody else was between a look and a write.    *)
LEMMA Writing ==
  ASSUME EvidenceInv, EvidenceTypeOK', NEW r \in Recorders, Apart(r), Disturb(r), Critical(r),
         Stored \subseteq Stored', Sound(r)', NothingDangles', IsFiniteSet(Stored' \cap Notices),
         ~raced /\ Undisturbed(r) /\ Covered /\ Chained => Covered' /\ Chained' /\ Undisturbed(r)'
  PROVE  EvidenceInv'
<1>1. \A q \in Recorders : Sound(q)'
  BY SoundKept DEF EvidenceInv, Apart
<1>2. ASSUME ~raced' PROVE Covered' /\ Chained' /\ \A q \in Recorders : Undisturbed(q)'
  <2>1. ~raced /\ \A q \in Recorders \ {r} : ~Critical(q)
    BY <1>2 DEF Disturb, EvidenceInv, EvidenceTypeOK
  <2>2. Covered' /\ Chained' /\ Undisturbed(r)'
    BY <2>1 DEF EvidenceInv
  <2>3. QED
    BY <2>1, <2>2, Unaware DEF Apart
<1>3. QED
  BY <1>1, <1>2 DEF EvidenceInv

-----------------------------------------------------------------------------
(* The steps                                                               *)

(* A recorder that waits, or that has only its audit lines left to write.  *)
LEMMA RestingRecorder ==
  ASSUME NEW r \in Recorders, recorder'[r].phase \in {"wait", "audit", "admit"}
  PROVE  /\ Sound(r)'
         /\ recorder'[r].phase # "admit" => Undisturbed(r)'
  BY DEF Sound, Undisturbed, Setting, Alone, In

LEMMA QuitStep ==
  ASSUME EvidenceInv, EvidenceTypeOK', NEW r \in Recorders, Quit(r),
         UNCHANGED <<store, journals, landed, raced>>
  PROVE  EvidenceInv'
<1>1. recorder'[r] = Waiting /\ Apart(r)
  BY Quitting DEF EvidenceInv, Apart
<1>2. QED
  BY <1>1, Looking, RestingRecorder DEF Waiting

LEMMA BeginStep ==
  ASSUME EvidenceInv, EvidenceTypeOK', NEW r \in Recorders, NEW b \in Batches, Begin(r, b)
  PROVE  EvidenceInv'
<1>1. /\ recorder'[r] = [phase |-> "check", items |-> b, left |-> b,
                         journal |-> [items |-> b, previous |-> [k \in KeysOf(b) |-> store[k]]]]
      /\ Apart(r)
  BY Beginning DEF EvidenceInv, Apart
<1>2. Len(b) \in Nat
  BY BatchItems
<1>3. Admitted(b)'
  BY DEF Begin, Admitted, Stored
<1>4. Sound(r)'
  BY <1>1, <1>2, <1>3 DEF Sound, Setting, In, Written, Items
<1>5. Undisturbed(r)'
  BY <1>1 DEF Undisturbed, In, Alone
<1>6. QED
  BY <1>1, <1>4, <1>5, Looking DEF Begin

LEMMA BeginSingleStep ==
  ASSUME EvidenceInv, EvidenceTypeOK', NEW r \in Recorders, NEW i \in Singles, BeginSingle(r, i)
  PROVE  EvidenceInv'
<1>1. recorder'[r] = [phase |-> "admit", items |-> <<i>>] /\ Apart(r)
  BY BeginningOne DEF EvidenceInv, Apart
<1>2. Sound(r)'
  BY <1>1, RestingRecorder
<1>3. Undisturbed(r)'
  BY <1>1 DEF Undisturbed, In, Alone, BeginSingle
<1>4. QED
  BY <1>1, <1>2, <1>3, Looking DEF BeginSingle

(* What the look for journals and the journal itself leave of a set.       *)
LEMMA StillSound ==
  ASSUME EvidenceInv, NEW r \in Recorders, In(r, "check") \/ In(r, "journal"),
         recorder'[r].phase \in {"journal", "write"},
         recorder'[r].phase = "journal" => recorder'[r].journal = recorder[r].journal,
         recorder'[r].items = recorder[r].items, recorder'[r].left = recorder[r].left,
         Stored' = Stored
  PROVE  Sound(r)'
<1>1. Sound(r) /\ Setting(r)
  BY DEF EvidenceInv, In, Setting
<1>2. Admitted(Items(r)) /\ Items(r)' = Items(r)
  BY <1>1 DEF Sound, Items
<1>3. Written(r)' = Written(r) /\ Written(r) = 0
  BY <1>1 DEF Sound, Written
<1>4. QED
  BY <1>1, <1>2, <1>3 DEF Sound, Setting, In, Admitted, Items

LEMMA CheckPendingStep ==
  ASSUME EvidenceInv, EvidenceTypeOK', NEW r \in Recorders, CheckPending(r)
  PROVE  EvidenceInv'
<1>1. recorder[r] \in SetUnderWay /\ In(r, "check") /\ Sound(r) /\ Written(r) = 0
  BY RecorderKinds DEF EvidenceInv, CheckPending, In, Setting, Sound
<1> EvidenceTypeOK
  BY DEF EvidenceInv
<1>2. UNCHANGED <<store, journals, landed, raced>> /\ Stored' = Stored
  BY DEF CheckPending, Stored
<1>3. /\ recorder'[r].phase = "write"
      /\ recorder'[r].items = recorder[r].items /\ recorder'[r].left = recorder[r].left
      => Sound(r)'
  BY <1>1, <1>2, StillSound DEF SetUnderWay
<1>4. CASE journals = {} /\ Step(r, "journal")
  <2>1. recorder'[r] = [recorder[r] EXCEPT !.phase = "journal"] /\ Apart(r)
    BY <1>1, <1>4, Stepping DEF Apart
  <2>2. Sound(r)'
    BY <1>1, <1>2, <2>1, StillSound DEF SetUnderWay
  <2>3. Undisturbed(r)'
    BY <1>1, <1>2, <1>4, <2>1 DEF Undisturbed, In, Alone, SetUnderWay
  <2>4. QED
    BY <1>2, <2>1, <2>2, <2>3, Looking
<1>5. ASSUME NEW j \in journals, \A other \in journals : MatchesJournal(other, Items(r)),
             recorder' = [recorder EXCEPT ![r].phase = "write", ![r].journal = j]
      PROVE  EvidenceInv'
  <2>1. recorder'[r] = [recorder[r] EXCEPT !.phase = "write", !.journal = j] /\ Apart(r)
    BY <1>1, <1>5, Replaying DEF Apart
  <2>2. /\ recorder'[r].phase = "write" /\ recorder'[r].journal = j
        /\ recorder'[r].items = recorder[r].items /\ recorder'[r].left = recorder[r].left
    BY <1>1, <2>1 DEF SetUnderWay
  <2>3. Sound(r)'
    BY <1>3, <2>2
  <2>4. Range(j.items) = Range(Items(r))
    BY <1>5 DEF MatchesJournal
  <2>5. Written(r)' = 0
    BY <1>1, <2>2 DEF Written
  <2>6. Undisturbed(r)'
    BY <1>2, <2>2, <2>4, <2>5 DEF Undisturbed, In, Alone, Items
  <2>7. QED
    BY <1>2, <2>1, <2>3, <2>6, Looking
<1>6. CASE Quit(r)
  BY <1>2, <1>6, QuitStep
<1>7. QED
  BY <1>4, <1>5, <1>6 DEF CheckPending

LEMMA WriteJournalStep ==
  ASSUME EvidenceInv, EvidenceTypeOK', NEW r \in Recorders, WriteJournal(r)
  PROVE  EvidenceInv'
<1> USE DEF EvidenceInv
<1> DEFINE j == recorder[r].journal
<1>1. recorder[r] \in SetUnderWay /\ In(r, "journal") /\ Sound(r) /\ Written(r) = 0
  BY RecorderKinds DEF WriteJournal, In, Setting, Sound
<1>2. /\ Stored' = Stored /\ UNCHANGED <<store, landed>>
      /\ journals' = journals \cup {j} /\ Disturb(r) /\ Critical(r)
  BY <1>1 DEF WriteJournal, Stored, Critical, In
<1>3. recorder'[r] = [recorder[r] EXCEPT !.phase = "write"] /\ Apart(r)
  BY <1>1, Stepping DEF Apart, WriteJournal
<1>4. /\ recorder'[r].phase = "write" /\ recorder'[r].journal = j
      /\ recorder'[r].items = recorder[r].items /\ recorder'[r].left = recorder[r].left
  BY <1>1, <1>3 DEF SetUnderWay
<1>5. Sound(r)'
  BY <1>1, <1>2, <1>4, StillSound
<1>6. NothingDangles'
  BY <1>2 DEF NothingDangles, DanglingRecords
<1>7. ASSUME ~raced, Undisturbed(r), Covered, Chained
      PROVE  Covered' /\ Chained' /\ Undisturbed(r)'
  <2>1. journals = {} /\ journals' = {j}
    BY <1>1, <1>2, <1>7 DEF Undisturbed
  <2>2. Covered'
    BY <1>2, <1>7, <2>1 DEF Covered
  <2>3. Chained'
    BY <1>2, <1>7 DEF Chained, ChainValid
  <2>4. Written(r)' = 0
    BY <1>1, <1>4 DEF Written
  <2>5. j.items = Items(r) /\ Items(r)' = Items(r)
    BY <1>1, <1>4 DEF Sound, Items
  <2> HIDE DEF j
  <2>6. Undisturbed(r)'
    BY <1>4, <2>1, <2>4, <2>5 DEF Undisturbed, In, Alone
  <2>7. QED
    BY <2>2, <2>3, <2>6
<1>8. QED
  BY <1>2, <1>3, <1>5, <1>6, <1>7, Writing

(* The next item of a set is one it has not written, and refers to what is *)
(* stored or comes with it.                                                *)
LEMMA NextItem ==
  ASSUME EvidenceInv, NEW r \in Recorders, In(r, "write"), recorder[r].left # <<>>
  PROVE  LET n == Written(r) + 1
             i == Head(recorder[r].left) IN
         /\ n \in 1 .. Len(Items(r)) /\ i = Items(r)[n] /\ Items(r) \in Batches
         /\ i \in Item /\ i \in Range(Items(r)) /\ i.key \notin Notices
         /\ Cites[i.key] \subseteq Stored \cup {i.key}
<1> DEFINE n == Written(r) + 1
           i == Head(recorder[r].left)
           b == Items(r)
<1>1. recorder[r] \in SetUnderWay /\ Sound(r)
  BY RecorderKinds DEF EvidenceInv, In, Setting
<1>2. recorder[r].left \in Seq(Item) /\ b \in Batches
  BY <1>1 DEF SetUnderWay, Items
<1>3. b \in Seq(Item) /\ Related(b) /\ KeysOf(b) = {b[m].key : m \in 1 .. Len(b)}
  BY <1>2, BatchItems
<1>4. /\ Written(r) \in Nat /\ Len(recorder[r].left) \in Nat \ {0}
      /\ Written(r) = Len(b) - Len(recorder[r].left)
  BY <1>1, <1>2 DEF Sound, Setting, In, Written, Items
<1>5. n \in 1 .. Len(b)
  BY <1>3, <1>4
<1>6. i = recorder[r].left[1]
  BY <1>2, <1>4
<1>7. recorder[r].left[1] = b[n]
  <2>1. 1 \in 1 .. Len(recorder[r].left)
    BY <1>4
  <2>2. QED
    BY <1>1, <2>1 DEF Sound, Setting, In, Items
<1>8. i = b[n] /\ i \in Item /\ i \in Range(b)
  BY <1>3, <1>5, <1>6, <1>7 DEF Range
<1>9. i.key \notin Notices
  BY <1>3, <1>5, <1>8 DEF Related
<1>10. ASSUME NEW c \in Cites[i.key] PROVE c \in Stored \cup {i.key}
  <2>1. c \in Stored \/ c \in KeysOf(b)
    BY <1>1, <1>3, <1>5, <1>8 DEF Sound, Setting, In, Admitted
  <2>2. CASE c \in KeysOf(b)
    <3>1. PICK m \in 1 .. n : c = b[m].key
      BY <1>3, <1>5, <1>8, <2>2 DEF Related
    <3>2. CASE m = n
      BY <1>8, <3>1, <3>2
    <3>3. CASE m # n
      <4>1. m \in 1 .. Written(r)
        BY <1>4, <3>3
      <4>2. QED
        BY <1>1, <3>1, <4>1 DEF Sound, Setting, In, Items
    <3>4. QED
      BY <3>2, <3>3
  <2>3. QED
    BY <2>1, <2>2
<1>11. QED
  BY <1>2, <1>5, <1>8, <1>9, <1>10

LEMMA WriteItemStep ==
  ASSUME EvidenceInv, EvidenceTypeOK', NEW r \in Recorders, WriteItem(r)
  PROVE  EvidenceInv'
<1> USE DEF EvidenceInv
<1> DEFINE n == Written(r) + 1
           i == Head(recorder[r].left)
           b == Items(r)
<1>1. In(r, "write") /\ recorder[r].left # <<>>
  BY DEF WriteItem
<1>2. recorder[r] \in SetUnderWay /\ Sound(r) /\ Critical(r)
  BY <1>1, RecorderKinds DEF In, Setting, Critical
<1>3. /\ n \in 1 .. Len(b) /\ i = b[n] /\ b \in Batches
      /\ i \in Item /\ i \in Range(b) /\ i.key \notin Notices
      /\ Cites[i.key] \subseteq Stored \cup {i.key}
  BY <1>1, NextItem
<1>4. /\ store' = [store EXCEPT ![i.key] = i.body] /\ UNCHANGED <<journals, landed>>
      /\ Disturb(r)
  BY DEF WriteItem
<1>5. recorder'[r] = [recorder[r] EXCEPT !.left = Tail(recorder[r].left)] /\ Apart(r)
  BY <1>1, Advancing DEF WriteItem, Apart
<1>6. /\ recorder'[r].phase = "write" /\ recorder'[r].journal = recorder[r].journal
      /\ Items(r)' = b /\ recorder'[r].left = Tail(recorder[r].left)
  BY <1>1, <1>2, <1>5 DEF SetUnderWay, Items, In
<1>7. Stored' = Stored \cup {i.key}
  BY <1>3, <1>4, StoredGrows
<1>8. recorder[r].left \in Seq(Item) /\ b \in Seq(Item) /\ Len(recorder[r].left) \in Nat \ {0}
  BY <1>1, <1>2, <1>3, BatchItems DEF SetUnderWay
<1>9. Written(r) \in Nat /\ Written(r) = Len(b) - Len(recorder[r].left)
  BY <1>2, <1>1 DEF Sound, Setting, In, Written, Items
<1>10. Written(r)' = n
  <2>1. Len(Tail(recorder[r].left)) = Len(recorder[r].left) - 1 /\ Len(b) \in Nat
    BY <1>1, <1>8
  <2>2. Written(r)' = Len(b) - (Len(recorder[r].left) - 1)
    BY <1>6, <2>1 DEF Written, Items
  <2>3. QED
    BY <1>8, <1>9, <2>1, <2>2
<1> HIDE DEF b, i
<1>11. Sound(r)'
  <2>1. n \in Nat
    BY <1>3
  <2>2. ASSUME NEW m \in 1 .. Len(recorder'[r].left)
        PROVE  recorder'[r].left[m] = b[n + m]
    <3>1. m + 1 \in 1 .. Len(recorder[r].left) /\ recorder'[r].left[m] = recorder[r].left[m + 1]
      BY <1>6, <1>8, <2>2
    <3>2. recorder[r].left[m + 1] = b[Written(r) + (m + 1)]
      BY <1>1, <1>2, <3>1 DEF Sound, Setting, In, b, Items
    <3>3. Written(r) + (m + 1) = n + m
      BY <1>9
    <3>4. QED
      BY <3>1, <3>2, <3>3
  <2>3. ASSUME NEW m \in 1 .. n PROVE b[m].key \in Stored'
    <3>1. CASE m = n
      BY <1>3, <1>7, <3>1
    <3>2. CASE m # n
      <4>1. m \in 1 .. Written(r)
        BY <1>9, <3>2
      <4>2. QED
        BY <1>1, <1>2, <1>7, <4>1 DEF Sound, Setting, In, b, Items
    <3>3. QED
      BY <3>1, <3>2
  <2>4. Admitted(b)'
    <3>1. Admitted(b)
      BY <1>1, <1>2 DEF Sound, Setting, In, b
    <3>2. b' = b
      BY <1>6 DEF b
    <3>3. QED
      BY <1>7, <3>1, <3>2 DEF Admitted
  <2>5. Items(r)' = recorder'[r].items /\ b' = b
    BY <1>6 DEF Items, b
  <2>6. QED
    BY <1>6, <1>10, <2>1, <2>2, <2>3, <2>4, <2>5 DEF Sound, Setting, In
<1>12. NothingDangles'
  BY <1>3, <1>7, NoneDangles DEF Item
<1>13. Stored' \cap Notices = Stored \cap Notices
  BY <1>3, <1>7
<1>14. ASSUME ~raced, Undisturbed(r), Covered, Chained
       PROVE  Covered' /\ Chained' /\ Undisturbed(r)'
  <2>1. recorder[r].journal \in journals /\ Range(recorder[r].journal.items) = Range(b)
    BY <1>1, <1>14 DEF Undisturbed, b
  <2>2. i.key \in KeysOf(recorder[r].journal.items)
    BY <1>3, <2>1 DEF KeysOf
  <2>3. Covered'
    <3>1. journals # {} /\ UNCHANGED <<journals, landed>>
      BY <1>4, <2>1
    <3>2. ASSUME NEW j \in journals, NEW k \in Keys \ KeysOf(j.items) PROVE store'[k] = landed[k]
      <4>1. j = recorder[r].journal
        BY <1>14, <2>1 DEF Covered
      <4>2. k # i.key
        BY <2>2, <4>1
      <4>3. QED
        BY <1>4, <1>14, <4>2 DEF Covered, EvidenceTypeOK
    <3>3. QED
      BY <1>14, <3>1, <3>2 DEF Covered
  <2>4. Chained'
    BY <1>13, <1>14 DEF Chained, ChainValid
  <2>5. ASSUME NEW m \in 1 .. n PROVE store'[b[m].key] = b[m].body
    <3>1. CASE m = n
      BY <1>3, <1>4, <3>1 DEF EvidenceTypeOK, Item
    <3>2. CASE m # n
      <4>1. m \in 1 .. Written(r) /\ m \in 1 .. Len(b)
        BY <1>3, <1>8, <1>9, <3>2
      <4>2. store[b[m].key] = b[m].body
        BY <1>1, <1>14, <4>1 DEF Undisturbed, b
      <4>3. b[m].key # b[n].key
        BY <1>3, <3>2, <4>1, BatchItems DEF Related
      <4>4. b[m] \in Item /\ b[m].key \in Keys
        <5>1. b[m] \in Item
          BY <1>8, <4>1
        <5>2. QED
          BY <5>1 DEF Item
      <4>5. QED
        BY <1>3, <1>4, <4>2, <4>3, <4>4 DEF EvidenceTypeOK
    <3>3. QED
      BY <3>1, <3>2
  <2>6. Undisturbed(r)'
    <3>1. recorder'[r].journal \in journals' /\ Range(recorder'[r].journal.items) = Range(b)
      BY <1>4, <1>6, <2>1
    <3>2. Items(r)' = b
      BY <1>6
    <3>3. QED
      BY <1>6, <1>10, <2>5, <3>1, <3>2 DEF Undisturbed, In, Alone
  <2>7. QED
    BY <2>3, <2>4, <2>6
<1>15. QED
  BY <1>2, <1>4, <1>5, <1>7, <1>11, <1>12, <1>13, <1>14, Writing

(* A set that is written as a whole has landed, and no other journal is    *)
(* left.                                                                   *)
LEMMA RemoveJournalStep ==
  ASSUME EvidenceInv, EvidenceTypeOK', NEW r \in Recorders, RemoveJournal(r)
  PROVE  EvidenceInv'
<1> DEFINE j == recorder[r].journal
           b == Items(r)
<1> EvidenceTypeOK
  BY DEF EvidenceInv
<1>1. recorder[r] \in SetUnderWay /\ In(r, "write") /\ Sound(r) /\ Critical(r)
  BY RecorderKinds DEF EvidenceInv, RemoveJournal, In, Setting, Critical
<1>2. /\ Stored' = Stored /\ UNCHANGED store /\ recorder[r].left = <<>>
      /\ journals' = journals \ {j} /\ landed' = Landing(b) /\ Disturb(r)
  BY DEF RemoveJournal, Stored
<1>3. recorder'[r].phase = "audit" /\ Apart(r)
  <2>1. recorder'[r] = [recorder[r] EXCEPT !.phase = "audit"] /\ Apart(r)
    BY <1>1, Stepping DEF RemoveJournal, Apart
  <2>2. QED
    BY <1>1, <2>1 DEF SetUnderWay
<1>4. Sound(r)' /\ Undisturbed(r)'
  BY <1>3, RestingRecorder
<1>5. NothingDangles'
  BY <1>2 DEF EvidenceInv, NothingDangles, DanglingRecords
<1>6. b \in Batches /\ b \in Seq(Item) /\ Range(b) = {b[n] : n \in 1 .. Len(b)}
  <2>1. b \in Batches /\ b \in Seq(Item)
    BY <1>1, BatchItems DEF SetUnderWay, Items
  <2>2. DOMAIN b = 1 .. Len(b)
    BY <2>1
  <2>3. QED
    BY <2>1, <2>2 DEF Range
<1>7. Written(r) = Len(b)
  BY <1>2, <1>6 DEF Written, Items
<1>8. ASSUME ~raced, Undisturbed(r), Covered, Chained
      PROVE  Covered' /\ Chained'
  <2>1. /\ j \in journals /\ Range(j.items) = Range(b)
        /\ \A n \in 1 .. Len(b) : store[b[n].key] = b[n].body
    BY <1>1, <1>7, <1>8 DEF Undisturbed
  <2>2. journals' = {}
    BY <1>2, <1>8, <2>1 DEF Covered
  <2>3. ASSUME NEW k \in Keys PROVE landed'[k] = store[k]
    <3>1. CASE k \in KeysOf(b)
      <4> DEFINE i == CHOOSE x \in Range(b) : x.key = k
      <4>1. i \in Range(b) /\ i.key = k
        BY <3>1 DEF KeysOf
      <4>2. PICK n \in 1 .. Len(b) : i = b[n]
        BY <1>6, <4>1
      <4>3. store[k] = i.body
        BY <2>1, <4>1, <4>2
      <4>4. QED
        BY <1>2, <3>1, <4>3 DEF Landing
    <3>2. CASE k \notin KeysOf(b)
      <4>1. k \notin KeysOf(j.items)
        BY <2>1, <3>2 DEF KeysOf
      <4>2. store[k] = landed[k]
        BY <1>8, <2>1, <4>1 DEF Covered
      <4>3. QED
        BY <1>2, <3>2, <4>2 DEF Landing
    <3>3. QED
      BY <3>1, <3>2
  <2>4. store' = landed'
    <3>1. store' \in [Keys -> Body] /\ landed' \in [Keys -> Body]
      BY DEF EvidenceTypeOK
    <3>2. \A k \in Keys : store'[k] = landed'[k]
      BY <1>2, <2>3
    <3>3. QED
      BY <3>1, <3>2
  <2>5. Covered'
    BY <2>2, <2>4 DEF Covered
  <2>6. Chained'
    BY <1>2, <1>8 DEF Chained, ChainValid
  <2>7. QED
    BY <2>5, <2>6
<1>9. IsFiniteSet(Stored' \cap Notices)
  BY <1>2 DEF EvidenceInv
<1>10. QED
  BY <1>1, <1>2, <1>3, <1>4, <1>5, <1>8, <1>9, Writing

LEMMA AdmitStep ==
  ASSUME EvidenceInv, EvidenceTypeOK', NEW r \in Recorders, Admit(r)
  PROVE  EvidenceInv'
<1> EvidenceTypeOK
  BY DEF EvidenceInv
<1>1. recorder[r] \in OneUnderWay /\ In(r, "admit")
  BY RecorderKinds DEF Admit, In, Alone
<1>2. UNCHANGED <<store, journals, landed, raced>> /\ Stored' = Stored
  BY DEF Admit, Stored
<1>3. ASSUME Step(r, "single"), Admitted(Items(r)),
             Items(r)[1].key \in Notices => ChainValid((Stored \cap Notices) \cup {Items(r)[1].key})
      PROVE  EvidenceInv'
  <2>1. recorder'[r] = [recorder[r] EXCEPT !.phase = "single"] /\ Apart(r)
    BY <1>1, <1>3, Stepping DEF Apart
  <2>2. recorder'[r].phase = "single" /\ Items(r)' = Items(r)
    BY <1>1, <2>1 DEF OneUnderWay, Items
  <2>3. Sound(r)'
    BY <1>2, <1>3, <2>2 DEF Sound, Setting, In, Admitted
  <2>4. ASSUME ~raced PROVE Undisturbed(r)'
    <3>1. journals' = {}
      BY <1>1, <1>2, <2>4 DEF EvidenceInv, Undisturbed, Alone, In
    <3>2. QED
      BY <1>2, <1>3, <2>2, <3>1 DEF Undisturbed, In, ChainValid
  <2>5. QED
    BY <1>2, <2>1, <2>3, <2>4, Looking
<1>4. CASE Quit(r)
  BY <1>2, <1>4, QuitStep
<1>5. QED
  BY <1>3, <1>4 DEF Admit

LEMMA WriteSingleStep ==
  ASSUME EvidenceInv, EvidenceTypeOK', NEW r \in Recorders, WriteSingle(r)
  PROVE  EvidenceInv'
<1> DEFINE i == Items(r)[1]
<1> EvidenceTypeOK
  BY DEF EvidenceInv
<1>1. recorder[r] \in OneUnderWay /\ In(r, "single") /\ Sound(r) /\ Critical(r)
  BY RecorderKinds DEF EvidenceInv, WriteSingle, In, Alone, Critical
<1>2. i \in Item /\ KeysOf(Items(r)) = {i.key} /\ i.key \in Keys
  BY <1>1, SingleItem DEF OneUnderWay, Items, Item
<1>3. /\ store' = [store EXCEPT ![i.key] = i.body] /\ landed' = [landed EXCEPT ![i.key] = i.body]
      /\ UNCHANGED journals /\ Disturb(r)
  BY DEF WriteSingle
<1>4. recorder'[r].phase = "audit" /\ Apart(r)
  <2>1. recorder'[r] = [recorder[r] EXCEPT !.phase = "audit"] /\ Apart(r)
    BY <1>1, Stepping DEF WriteSingle, Apart
  <2>2. QED
    BY <1>1, <2>1 DEF OneUnderWay
<1>5. Sound(r)' /\ Undisturbed(r)'
  BY <1>4, RestingRecorder
<1> HIDE DEF i
<1>6. Stored' = Stored \cup {i.key}
  BY <1>2, <1>3, StoredGrows
<1>7. NothingDangles'
  <2>1. Cites[i.key] \subseteq Stored \cup {i.key}
    BY <1>1, <1>2 DEF Sound, In, Setting, Admitted
  <2>2. QED
    BY <1>2, <1>6, <2>1, NoneDangles DEF EvidenceInv
<1>8. IsFiniteSet(Stored' \cap Notices)
  <2>1. IsFiniteSet((Stored \cap Notices) \cup {i.key})
    BY FS_AddElement DEF EvidenceInv
  <2>2. Stored' \cap Notices \in SUBSET ((Stored \cap Notices) \cup {i.key})
    BY <1>6
  <2>3. QED
    BY <2>1, <2>2, FS_Subset
<1>9. ASSUME ~raced, Undisturbed(r), Covered, Chained
      PROVE  Covered' /\ Chained'
  <2>1. journals = {} /\ store = landed
    BY <1>1, <1>9 DEF Undisturbed, Alone, In, Covered
  <2>2. Covered'
    BY <1>3, <2>1 DEF Covered
  <2>3. CASE i.key \in Notices
    <3>1. ChainValid((Stored \cap Notices) \cup {i.key})
      BY <1>1, <1>9, <2>3 DEF Undisturbed, i
    <3>2. (Stored \cap Notices)' = (Stored \cap Notices) \cup {i.key}
      BY <1>6, <2>3
    <3>3. QED
      BY <2>2, <3>1, <3>2 DEF Chained, ChainValid
  <2>4. CASE i.key \notin Notices
    <3>1. (Stored \cap Notices)' = Stored \cap Notices
      BY <1>6, <2>4
    <3>2. QED
      BY <1>9, <2>2, <3>1 DEF Chained, ChainValid
  <2>5. QED
    BY <2>3, <2>4
<1>10. QED
  BY <1>1, <1>3, <1>4, <1>5, <1>6, <1>7, <1>8, <1>9, Writing

-----------------------------------------------------------------------------
(* The theorems                                                            *)

LEMMA EvidenceInvInit == EvidenceInit => EvidenceInv
<1> SUFFICES ASSUME EvidenceInit PROVE EvidenceInv
  OBVIOUS
<1>1. EvidenceTypeOK
  BY EvidenceTypeInit
<1>2. Stored = {}
  BY DEF EvidenceInit, Stored
<1>3. \A r \in Recorders : Sound(r) /\ Undisturbed(r)
  BY DEF EvidenceInit, Waiting, Sound, Undisturbed, Setting, Alone, In
<1>4. NothingDangles /\ Chained
  BY <1>2 DEF NothingDangles, DanglingRecords, Chained
<1>5. Covered
  BY DEF EvidenceInit, Covered
<1>6. IsFiniteSet(Stored \cap Notices)
  BY <1>2, FS_EmptySet
<1>7. QED
  BY <1>1, <1>3, <1>4, <1>5, <1>6 DEF EvidenceInv

LEMMA EvidenceInvStep == EvidenceInv /\ [EvidenceNext]_evVars => EvidenceInv'
<1> SUFFICES ASSUME EvidenceInv, [EvidenceNext]_evVars PROVE EvidenceInv'
  OBVIOUS
<1>1. EvidenceTypeOK'
  BY EvidenceTypeStep DEF EvidenceInv
<1>2. ASSUME NEW r \in Recorders, AuditItems(r) PROVE EvidenceInv'
  BY <1>1, <1>2, QuitStep DEF AuditItems
<1>3. ASSUME NEW r \in Recorders, RecorderDies(r) PROVE EvidenceInv'
  BY <1>1, <1>3, QuitStep DEF RecorderDies
<1>4. CASE UNCHANGED evVars
  <2>1. Stored' = Stored /\ UNCHANGED <<store, journals, landed, raced, recorder>>
    BY <1>4 DEF evVars, Stored
  <2>2. \A q \in Recorders : Sound(q)' /\ (~raced => Undisturbed(q)')
    BY <2>1, SoundKept, UndisturbedKept DEF EvidenceInv
  <2>3. NothingDangles' /\ (~raced => Covered' /\ Chained')
    BY <2>1 DEF EvidenceInv, NothingDangles, DanglingRecords, Covered, Chained, ChainValid
  <2>4. QED
    BY <1>1, <2>1, <2>2, <2>3 DEF EvidenceInv
<1>5. QED
  BY <1>1, <1>2, <1>3, <1>4, BeginStep, BeginSingleStep, CheckPendingStep, WriteJournalStep,
     WriteItemStep, RemoveJournalStep, AdmitStep, WriteSingleStep
     DEF EvidenceNext, EvidenceProgress

(* The inductive invariant: while a journal is there the store differs from*)
(* the completed recordings only in its records, and each recorder's hand  *)
(* agrees with the store, unless two raced (evidence.py:1217, 1459).       *)
THEOREM EvidenceInvariance == EvidenceSpec => []EvidenceInv
<1>1. QED
  BY EvidenceInvInit, EvidenceInvStep, PTL DEF EvidenceSpec

(* Type correctness of the evidence store (evidence.py:1200).              *)
THEOREM EvidenceTypeCorrect == EvidenceSpec => []EvidenceTypeOK
<1>1. EvidenceInv => EvidenceTypeOK
  BY DEF EvidenceInv
<1>2. QED
  BY <1>1, EvidenceInvariance, PTL

(* Whoever dies wherever: with no journal left the store is what completed *)
(* recordings made it, no stored record refers to one that is not there,   *)
(* and the notices of an artifact are a chain with one head; the first and *)
(* the last unless two recorders raced (evidence.py:552, 1217, 1414).      *)
THEOREM EvidenceStaysIntact == EvidenceSpec => []EvidenceIntact
<1>1. ASSUME EvidenceInv PROVE EvidenceIntact
  <2>1. AllOrNothing /\ NothingDangles
    BY <1>1, Zenon DEF EvidenceInv, AllOrNothing, Covered
  <2>2. OnePosture
    <3>1. ASSUME ~raced PROVE ~BrokenChain /\ Cardinality(Heads(Stored \cap Notices)) <= 1
      BY <1>1, <3>1, OneHead DEF EvidenceInv, Chained, BrokenChain
    <3>2. QED
      BY <3>1 DEF OnePosture
  <2>3. QED
    BY <2>1, <2>2 DEF EvidenceIntact
<1>2. QED
  BY <1>1, EvidenceInvariance, PTL
=============================================================================
