---------------------------- MODULE OutboundProofs ----------------------------
(***************************************************************************)
(* Proofs about what the relay asks of others: about Runtimes for every    *)
(* number of tests and edits, FetchGate for every number of hosts,         *)
(* requests and redirects, and Catalogs for every number of catalogs,      *)
(* URLs, versions, candidates and calls, whatever each version lists.      *)
(***************************************************************************)
EXTENDS Runtimes, FetchGate, Catalogs, FiniteSetTheorems, TLAPS

\* Every edit stamps the row with its own number.
StampIsLast == runtime.stamp = edits

\* A test that read the row after the last edit has read the headers that edit
\* left, however long ago it read them.
TestsRead ==
  \A c \in Tests :
    LET t == tests[c] IN
      /\ t.stamp <= edits
      /\ t.step \in {"status", "state", "commit"} /\ t.stamp = edits => t.credential = credential

RuntimeIInv == RuntimeTypeOK /\ StampIsLast /\ TestsRead /\ VerdictOfConfiguration

-----------------------------------------------------------------------------
(* Runtimes. *)

LEMMA RuntimeBase == ASSUME RuntimeInit PROVE RuntimeIInv
BY RuntimeAssumption
   DEF RuntimeInit, RuntimeIInv, RuntimeTypeOK, StampIsLast, TestsRead, VerdictOfConfiguration,
       NoTest, Addresses, Health, Steps

\* An edit of the row or of the headers: no test has its number.
LEMMA EditKeeps ==
  ASSUME RuntimeIInv, Edit, UNCHANGED <<tests, judged>>,
         runtime'.stamp = edits', runtime'.health = "unknown",
         runtime' \in [address : Addresses, stamp : 0..MaxEdits, health : Health,
                       found : SUBSET (Addresses \X Addresses)],
         credential' \in Addresses
  PROVE  RuntimeIInv'
<1>1. edits \in Nat /\ edits' = edits + 1 /\ edits' \in 0..MaxEdits
  BY RuntimeAssumption DEF RuntimeIInv, RuntimeTypeOK, Edit
<1>2. RuntimeTypeOK' /\ StampIsLast' /\ VerdictOfConfiguration'
  BY <1>1 DEF RuntimeIInv, RuntimeTypeOK, StampIsLast, VerdictOfConfiguration
<1>3. TestsRead'
  <2> SUFFICES ASSUME NEW c \in Tests
               PROVE  tests[c].stamp <= edits' /\ tests[c].stamp # edits'
    BY DEF TestsRead
  <2>1. tests[c].stamp <= edits /\ tests[c].stamp \in Nat
    BY RuntimeAssumption DEF RuntimeIInv, RuntimeTypeOK, TestsRead
  <2> QED BY <1>1, <2>1
<1> QED BY <1>2, <1>3 DEF RuntimeIInv

\* A step of a test that leaves the runtime alone: what it read stays as read.
LEMMA TestKeeps ==
  ASSUME RuntimeIInv, UNCHANGED <<runtime, credential, edits, judged>>,
         NEW c \in Tests, NEW t, Moves(c, t),
         t \in [step : Steps, address : Addresses, stamp : 0..MaxEdits,
                credential : Addresses, syncs : BOOLEAN, works : BOOLEAN],
         t.stamp <= edits,
         t.step \in {"status", "state", "commit"} /\ t.stamp = edits => t.credential = credential
  PROVE  RuntimeIInv'
BY DEF RuntimeIInv, RuntimeTypeOK, StampIsLast, TestsRead, VerdictOfConfiguration, Moves

LEMMA CommitKeeps ==
  ASSUME RuntimeIInv, NEW c \in Tests, CommitTest(c) PROVE RuntimeIInv'
<1> DEFINE t == tests[c]
<1>1. /\ t \in [step : Steps, address : Addresses, stamp : 0..MaxEdits,
                credential : Addresses, syncs : BOOLEAN, works : BOOLEAN]
      /\ t.step = "commit"
      /\ tests' = [tests EXCEPT ![c] = NoTest] /\ UNCHANGED <<credential, edits>>
  BY DEF RuntimeIInv, RuntimeTypeOK, CommitTest, At, Moves
<1>2. TestsRead' /\ (RuntimeTypeOK => tests' \in [Tests -> [step : Steps, address : Addresses,
        stamp : 0..MaxEdits, credential : Addresses, syncs : BOOLEAN, works : BOOLEAN]])
  BY <1>1, RuntimeAssumption
     DEF RuntimeIInv, RuntimeTypeOK, TestsRead, NoTest, Steps, Addresses
<1>3. CASE runtime.address = t.address /\ runtime.stamp = t.stamp
  <2>1. t.credential = credential
    BY <1>1, <1>3 DEF RuntimeIInv, StampIsLast, TestsRead
  <2>2. /\ judged' = <<runtime.address, credential>>
        /\ runtime' = [runtime EXCEPT !.health = IF t.works THEN "healthy" ELSE "failing",
                                      !.found = IF t.works THEN {judged'} ELSE @]
    BY <1>3, <2>1 DEF CommitTest
  <2>3. judged' \in Addresses \X Addresses
    BY <2>2 DEF RuntimeIInv, RuntimeTypeOK
  <2>4. runtime' \in [address : Addresses, stamp : 0..MaxEdits, health : Health,
                      found : SUBSET (Addresses \X Addresses)]
    BY <2>2, <2>3 DEF RuntimeIInv, RuntimeTypeOK, Health
  <2>5. VerdictOfConfiguration'
    BY <1>1, <2>2 DEF VerdictOfConfiguration, RuntimeIInv, RuntimeTypeOK
  <2>6. StampIsLast'
    BY <1>1, <2>2 DEF StampIsLast, RuntimeIInv, RuntimeTypeOK
  <2> QED BY <1>1, <1>2, <2>3, <2>4, <2>5, <2>6 DEF RuntimeIInv, RuntimeTypeOK
<1>4. CASE ~(runtime.address = t.address /\ runtime.stamp = t.stamp)
  <2>1. UNCHANGED <<runtime, judged>>
    BY <1>4 DEF CommitTest
  <2> QED BY <1>1, <1>2, <2>1 DEF RuntimeIInv, RuntimeTypeOK, StampIsLast, VerdictOfConfiguration
<1> QED BY <1>3, <1>4

LEMMA RuntimeStep == ASSUME RuntimeIInv, [RuntimeNext]_runtimeVars PROVE RuntimeIInv'
<1> DEFINE Test == [step : Steps, address : Addresses, stamp : 0..MaxEdits,
                    credential : Addresses, syncs : BOOLEAN, works : BOOLEAN]
<1>a. NoTest \in Test /\ NoTest.step = "idle" /\ NoTest.stamp <= edits
  BY RuntimeAssumption DEF NoTest, Steps, Addresses, RuntimeIInv, RuntimeTypeOK
<1>1. ASSUME NEW keepsAddress \in BOOLEAN, NEW keepsHeaders \in BOOLEAN,
             SaveRuntime(keepsAddress, keepsHeaders)
      PROVE  RuntimeIInv'
  <2>1. edits' \in 0..MaxEdits
    BY <1>1, RuntimeAssumption DEF SaveRuntime, Edit, RuntimeIInv, RuntimeTypeOK
  <2> QED BY <1>1, <2>1, EditKeeps
         DEF SaveRuntime, RuntimeIInv, RuntimeTypeOK, Addresses, Health
<1>2. CASE SetHeaders
  <2>1. edits' \in 0..MaxEdits
    BY <1>2, RuntimeAssumption DEF SetHeaders, Edit, RuntimeIInv, RuntimeTypeOK
  <2> QED BY <1>2, <2>1, EditKeeps
         DEF SetHeaders, RuntimeIInv, RuntimeTypeOK, Addresses, Health
<1>3. ASSUME NEW c \in Tests, NEW asks \in BOOLEAN, ReadRow(c, asks) PROVE RuntimeIInv'
  <2> DEFINE t == [NoTest EXCEPT !.step = "row", !.address = runtime.address,
                                 !.stamp = runtime.stamp, !.syncs = asks]
  <2>1. t \in Test /\ t.stamp = edits /\ t.step = "row"
    BY <1>a DEF NoTest, Steps, RuntimeIInv, RuntimeTypeOK, StampIsLast
  <2>2. edits <= edits
    BY DEF RuntimeIInv, RuntimeTypeOK
  <2> HIDE DEF t
  <2>3. Moves(c, t)
    BY <1>3 DEF ReadRow, t
  <2> QED BY <1>3, <2>1, <2>2, <2>3, TestKeeps DEF ReadRow
<1>4. ASSUME NEW c \in Tests, ReadHeaders(c) PROVE RuntimeIInv'
  <2>1. CASE Moves(c, [tests[c] EXCEPT !.step = "status", !.credential = credential])
    <3> DEFINE t == [tests[c] EXCEPT !.step = "status", !.credential = credential]
    <3>1. t \in Test /\ t.stamp <= edits /\ t.credential = credential
      BY DEF RuntimeIInv, RuntimeTypeOK, TestsRead, Steps
    <3> HIDE DEF t
    <3> QED BY <1>4, <2>1, <3>1, TestKeeps DEF ReadHeaders, t
  <2>2. CASE Moves(c, NoTest)
    BY <1>4, <1>a, <2>2, TestKeeps DEF ReadHeaders
  <2> QED BY <1>4, <2>1, <2>2 DEF ReadHeaders
<1>5. ASSUME NEW c \in Tests, AskStatus(c) PROVE RuntimeIInv'
  <2> PICK works \in BOOLEAN :
        Moves(c, [tests[c] EXCEPT !.works = works,
                  !.step = IF works /\ tests[c].syncs THEN "state" ELSE "commit"])
    BY <1>5 DEF AskStatus
  <2> DEFINE t == [tests[c] EXCEPT !.works = works,
                   !.step = IF works /\ tests[c].syncs THEN "state" ELSE "commit"]
  <2>1. /\ t \in Test /\ t.stamp <= edits
        /\ t.stamp = edits => t.credential = credential
    BY <1>5 DEF AskStatus, At, RuntimeIInv, RuntimeTypeOK, TestsRead, Steps
  <2> HIDE DEF t
  <2> QED BY <1>5, <2>1, TestKeeps DEF AskStatus, t
<1>6. ASSUME NEW c \in Tests, AskState(c) PROVE RuntimeIInv'
  <2> PICK works \in BOOLEAN : Moves(c, [tests[c] EXCEPT !.works = works, !.step = "commit"])
    BY <1>6 DEF AskState
  <2> DEFINE t == [tests[c] EXCEPT !.works = works, !.step = "commit"]
  <2>1. /\ t \in Test /\ t.stamp <= edits
        /\ t.stamp = edits => t.credential = credential
    BY <1>6 DEF AskState, At, RuntimeIInv, RuntimeTypeOK, TestsRead, Steps
  <2> HIDE DEF t
  <2> QED BY <1>6, <2>1, TestKeeps DEF AskState, t
<1>7. ASSUME NEW c \in Tests, AbandonTest(c) PROVE RuntimeIInv'
  BY <1>7, <1>a, TestKeeps DEF AbandonTest
<1>8. CASE UNCHANGED runtimeVars
  BY <1>8 DEF runtimeVars, RuntimeIInv, RuntimeTypeOK, StampIsLast, TestsRead,
              VerdictOfConfiguration
<1> QED BY <1>1, <1>2, <1>3, <1>4, <1>5, <1>6, <1>7, <1>8, CommitKeeps DEF RuntimeNext

LEMMA RuntimeInvariant == RuntimeSpec => []RuntimeIInv
BY RuntimeBase, RuntimeStep, PTL DEF RuntimeSpec

\* runtime.go: the row, the credential and every test keep their types.
THEOREM RuntimeTypeCorrect == RuntimeSpec => []RuntimeTypeOK
BY RuntimeInvariant, PTL DEF RuntimeIInv

\* TestRuntime: a verdict is about the address and the credential the runtime has.
THEOREM VerdictsHold == RuntimeSpec => []VerdictOfConfiguration
BY RuntimeInvariant, PTL DEF RuntimeIInv
-----------------------------------------------------------------------------
(* FetchGate. *)

LEMMA HoldersFinite == \A g : IsFiniteSet(Holders(g)) /\ Cardinality(Holders(g)) \in Nat
<1> TAKE g
<1>1. Holders(g) \subseteq Fetches
  BY DEF Holders
<1> QED BY <1>1, GateAssumption, FS_Subset, FS_CardinalityType

\* Who holds a slot of h after r became f.
LEMMA HoldersAfter ==
  ASSUME GateTypeOK, NEW r \in Fetches, NEW f, Becomes(r, f), NEW h \in Gates
  PROVE  /\ f.step \in InFlight /\ f.gate = {h} => Holders(h)' = Holders(h) \cup {r}
         /\ ~(f.step \in InFlight /\ f.gate = {h}) => Holders(h)' = Holders(h) \ {r}
BY DEF GateTypeOK, Becomes, Holders

\* r holds a slot neither before nor after, or the same one before and after.
LEMMA Rests ==
  ASSUME GateTypeOK, SlotsAreHeld, NEW r \in Fetches, NEW f \in FetchState, Becomes(r, f),
         UNCHANGED taken, f.step \in InFlight <=> fetches[r].step \in InFlight,
         f.step \in InFlight => f.gate = fetches[r].gate
  PROVE  SlotsAreHeld' /\ taken' \in [Gates -> Nat] /\ fetches' \in [Fetches -> FetchState]
<1> SUFFICES ASSUME NEW h \in Gates PROVE Holders(h)' = Holders(h)
  BY DEF SlotsAreHeld, GateTypeOK, Becomes
<1>1. r \in Holders(h) <=> fetches[r].step \in InFlight /\ fetches[r].gate = {h}
  BY DEF Holders
<1>2. CASE f.step \in InFlight /\ f.gate = {h}
  <2>1. Holders(h)' = Holders(h) \cup {r}
    BY <1>2, HoldersAfter
  <2> QED BY <1>1, <1>2, <2>1
<1>3. CASE ~(f.step \in InFlight /\ f.gate = {h})
  <2>1. Holders(h)' = Holders(h) \ {r}
    BY <1>3, HoldersAfter
  <2> QED BY <1>1, <1>3, <2>1
<1> QED BY <1>2, <1>3

LEMMA Takes ==
  ASSUME GateTypeOK, SlotsAreHeld, NEW r \in Fetches, NEW f \in FetchState, Becomes(r, f),
         NEW g \in Gates, fetches[r].step \notin InFlight, f.step \in InFlight, f.gate = {g},
         taken[g] < Slots, taken' = [taken EXCEPT ![g] = @ + 1]
  PROVE  SlotsAreHeld' /\ taken' \in [Gates -> Nat] /\ fetches' \in [Fetches -> FetchState]
<1>1. taken \in [Gates -> Nat] /\ taken' \in [Gates -> Nat]
  BY DEF GateTypeOK
<1>2. ASSUME NEW h \in Gates PROVE taken'[h] = Cardinality(Holders(h)') /\ taken'[h] <= Slots
  <2>1. r \notin Holders(h)
    BY DEF Holders
  <2>2. CASE h = g
    <3>1. Holders(h)' = Holders(h) \cup {r}
      BY <2>2, HoldersAfter
    <3>2. Cardinality(Holders(h) \cup {r}) = Cardinality(Holders(h)) + 1
      BY <2>1, HoldersFinite, FS_AddElement
    <3> QED BY <1>1, <2>2, <3>1, <3>2 DEF SlotsAreHeld, Slots
  <2>3. CASE h # g
    <3>1. Holders(h)' = Holders(h) \ {r}
      <4>1. f.gate # {h}
        BY <2>3
      <4> QED BY <4>1, HoldersAfter
    <3>2. Holders(h)' = Holders(h)
      BY <2>1, <3>1
    <3> QED BY <1>1, <2>3, <3>2 DEF SlotsAreHeld
  <2> QED BY <2>2, <2>3
<1>3. fetches' \in [Fetches -> FetchState]
  BY DEF GateTypeOK, Becomes
<1> QED BY <1>1, <1>2, <1>3 DEF SlotsAreHeld

LEMMA GivesBack ==
  ASSUME GateTypeOK, SlotsAreHeld, NEW r \in Fetches, NEW f \in FetchState, Becomes(r, f),
         NEW g \in Gates, fetches[r].step \in InFlight, fetches[r].gate = {g},
         f.step \notin InFlight, taken' = [taken EXCEPT ![g] = @ - 1]
  PROVE  SlotsAreHeld' /\ taken' \in [Gates -> Nat] /\ fetches' \in [Fetches -> FetchState]
<1>1. taken \in [Gates -> Nat] /\ \A h \in Gates \ {g} : taken'[h] = taken[h]
  BY DEF GateTypeOK
<1>2. r \in Holders(g) /\ Holders(g)' = Holders(g) \ {r}
  BY HoldersAfter DEF Holders
<1>3. Cardinality(Holders(g)') = Cardinality(Holders(g)) - 1 /\ Cardinality(Holders(g)') \in Nat
  <2>1. IsFiniteSet(Holders(g) \ {r})
    BY HoldersFinite, FS_Subset
  <2> QED BY <1>2, <2>1, HoldersFinite, FS_RemoveElement, FS_CardinalityType
<1>4. taken'[g] = Cardinality(Holders(g)') /\ taken'[g] <= Slots /\ taken'[g] \in Nat
  BY <1>1, <1>3, HoldersFinite DEF SlotsAreHeld, Slots
<1>5. ASSUME NEW h \in Gates \ {g} PROVE Holders(h)' = Holders(h)
  <2>1. Holders(h)' = Holders(h) \ {r}
    BY HoldersAfter
  <2>2. r \notin Holders(h)
    BY DEF Holders
  <2> QED BY <2>1, <2>2
<1>6. SlotsAreHeld'
  BY <1>1, <1>4, <1>5 DEF SlotsAreHeld
<1>7. taken' \in [Gates -> Nat]
  BY <1>1, <1>4
<1>8. fetches' \in [Fetches -> FetchState]
  BY DEF GateTypeOK, Becomes
<1> QED BY <1>6, <1>7, <1>8

\* What a request becomes that meets the circuit of g.
LEMMA Enters ==
  ASSUME NEW r \in Fetches, NEW f \in FetchState, NEW g \in Gates, Enter(r, f, g)
  PROVE  \E e \in FetchState : Becomes(r, e) /\ e.step \notin InFlight
<1>1. NoFetch \in FetchState /\ NoFetch.step \notin InFlight
  BY GateAssumption DEF NoFetch, FetchState, InFlight
<1>2. [f EXCEPT !.step = "wait", !.gate = {g}] \in FetchState
  BY DEF FetchState
<1>3. [f EXCEPT !.step = "wait", !.gate = {g}].step \notin InFlight
  BY DEF FetchState, InFlight
<1> QED BY <1>1, <1>2, <1>3 DEF Enter

LEMMA CountsType ==
  ASSUME GateTypeOK, NEW g \in Gates, NEW fails \in BOOLEAN, Counts(g, fails)
  PROVE  strikes' \in [Gates -> 0..Threshold] /\ open' \in [Gates -> BOOLEAN]
<1>1. strikes[g] \in 0..Threshold /\ open[g] \in BOOLEAN
  BY DEF GateTypeOK
<1>2. strikes' \in [Gates -> 0..Threshold]
  BY <1>1 DEF GateTypeOK, Counts, Threshold
<1>3. open' \in [Gates -> BOOLEAN]
  <2>1. CASE fails
    BY <1>1, <2>1 DEF GateTypeOK, Counts
  <2>2. CASE ~fails
    BY <1>1, <2>2 DEF GateTypeOK, Counts
  <2> QED BY <2>1, <2>2
<1> QED BY <1>2, <1>3

LEMMA GateStep ==
  ASSUME GateTypeOK, SlotsAreHeld, [GateNext]_gateVars
  PROVE  GateTypeOK' /\ SlotsAreHeld'
<1>a. NoFetch \in FetchState /\ NoFetch.step \notin InFlight /\ NoFetch.step = "idle"
  BY GateAssumption DEF NoFetch, FetchState, InFlight
<1>b. \A r \in Fetches : fetches[r] \in FetchState
  BY DEF GateTypeOK
<1>1. ASSUME NEW r \in Fetches, NEW g \in Gates, Arrive(r, g) PROVE GateTypeOK' /\ SlotsAreHeld'
  <2>1. PICK e \in FetchState : Becomes(r, e) /\ e.step \notin InFlight
    BY <1>1, <1>a, Enters DEF Arrive
  <2> QED BY <1>1, <1>a, <2>1, Rests DEF Arrive, GateTypeOK
<1>2. ASSUME NEW r \in Fetches, NEW g \in Gates, TakeSlot(r, g) PROVE GateTypeOK' /\ SlotsAreHeld'
  <2> DEFINE f == [fetches[r] EXCEPT !.step = "sent"]
  <2>1. f \in FetchState /\ f.step \in InFlight /\ f.gate = {g} /\ fetches[r].step \notin InFlight
    BY <1>2, <1>b DEF TakeSlot, FetchState, InFlight
  <2> HIDE DEF f
  <2> QED BY <1>2, <2>1, Takes DEF TakeSlot, GateTypeOK, f
<1>3. ASSUME NEW r \in Fetches, NEW g \in Gates, Break(r, g) PROVE GateTypeOK' /\ SlotsAreHeld'
  <2>1. fetches[r].step \in InFlight
    BY <1>3 DEF Break, InFlight
  <2> QED BY <1>3, <1>a, <2>1, GivesBack, CountsType DEF Break, GateTypeOK
<1>4. ASSUME NEW r \in Fetches, NEW g \in Gates, Close(r, g) PROVE GateTypeOK' /\ SlotsAreHeld'
  <2>1. fetches[r].step \in InFlight
    BY <1>4 DEF Close, InFlight
  <2> QED BY <1>4, <1>a, <2>1, GivesBack DEF Close, GateTypeOK
<1>5. ASSUME NEW r \in Fetches, NEW g \in Gates, NEW fails \in BOOLEAN, Answer(r, g, fails)
      PROVE  GateTypeOK' /\ SlotsAreHeld'
  <2> PICK step \in {"body", "redirect"} : Becomes(r, [fetches[r] EXCEPT !.step = step])
    BY <1>5 DEF Answer
  <2> DEFINE f == [fetches[r] EXCEPT !.step = step]
  <2>1. /\ f \in FetchState /\ f.step \in InFlight /\ fetches[r].step \in InFlight
        /\ f.gate = fetches[r].gate
    BY <1>5, <1>b DEF Answer, FetchState, InFlight
  <2> HIDE DEF f
  <2> QED BY <1>5, <2>1, Rests, CountsType DEF Answer, GateTypeOK, f
<1>6. ASSUME NEW r \in Fetches, NEW g \in Gates, NEW to \in Gates, Follow(r, g, to)
      PROVE  GateTypeOK' /\ SlotsAreHeld'
  <2>1. [fetches[r] EXCEPT !.hops = @ + 1] \in FetchState /\ fetches[r].step \in InFlight
    BY <1>6, <1>b, GateAssumption DEF Follow, FetchState, InFlight
  <2>2. PICK e \in FetchState : Becomes(r, e) /\ e.step \notin InFlight
    BY <1>6, <2>1, Enters DEF Follow
  <2> QED BY <1>6, <2>1, <2>2, GivesBack DEF Follow, GateTypeOK
<1>7. ASSUME NEW r \in Fetches, GiveUp(r) PROVE GateTypeOK' /\ SlotsAreHeld'
  <2>1. fetches[r].step \notin InFlight
    BY <1>7 DEF GiveUp, InFlight
  <2> QED BY <1>7, <1>a, <2>1, Rests DEF GiveUp, GateTypeOK
<1>8. ASSUME NEW g \in Gates, Passes(g) PROVE GateTypeOK' /\ SlotsAreHeld'
  BY <1>8 DEF Passes, GateTypeOK, SlotsAreHeld, Holders
<1>9. CASE UNCHANGED gateVars
  BY <1>9 DEF gateVars, GateTypeOK, SlotsAreHeld, Holders
<1> QED BY <1>1, <1>2, <1>3, <1>4, <1>5, <1>6, <1>7, <1>8, <1>9 DEF GateNext

LEMMA GateBase == ASSUME GateInit PROVE GateTypeOK /\ SlotsAreHeld
<1>1. NoFetch \in FetchState
  BY GateAssumption DEF NoFetch, FetchState
<1>2. GateTypeOK
  BY <1>1 DEF GateInit, GateTypeOK, Threshold
<1>3. \A g \in Gates : Holders(g) = {} /\ taken[g] = 0 /\ 0 <= Slots
  BY DEF GateInit, Holders, NoFetch, InFlight, Slots
<1> QED BY <1>2, <1>3, FS_EmptySet DEF SlotsAreHeld

LEMMA GateInvariant == GateSpec => [](GateTypeOK /\ SlotsAreHeld)
BY GateBase, GateStep, PTL DEF GateSpec

\* fetch.go: the slots, the circuits and the requests keep their types; in particular
\* a slot is given back only after it was taken.
THEOREM GateTypeCorrect == GateSpec => []GateTypeOK
BY GateInvariant, PTL

\* fetch.go: the slots taken of a host are those of its requests in flight, and at
\* most two, for every number of hosts, requests and redirects.
THEOREM NoSlotIsLost == GateSpec => []SlotsAreHeld
BY GateInvariant, PTL

-----------------------------------------------------------------------------
(* Catalogs: the box of candidates and the syncs. *)

\* A row of the box is one candidate, and it was made a source iff it is accepted.
OneCandidate == \A i \in CandidateIds : \A c, d \in box[i] : c = d
MadeOnce ==
  \A i \in CandidateIds : \A c \in box[i] :
    c.sources = IF c.status = "accepted" THEN 1 ELSE 0

\* An accept read a status that may be accepted.
AcceptsOpen == \A a \in Visits : accepts[a].step = "read" => accepts[a].status \in {"pending", "ignored"}

\* What a sync that is under way knows: the validator it sent is of a list that is
\* recorded, though the catalog may have moved to another URL; and its answer names
\* the list it has, or, without one, the list it was asked about.
SyncsAsk ==
  \A s \in Visits : syncs[s].step # "idle" =>
    \E k \in CatalogIds, u \in CatalogUrls :
      /\ syncs[s].catalog = {k} /\ syncs[s].url = {u}
      /\ syncs[s].sent # 0 => Listed[u][syncs[s].sent] \subseteq Recorded(k)
Answered ==
  \A s \in Visits : syncs[s].step = "answered" =>
    \/ syncs[s].fresh = {} /\ syncs[s].tag \in {0, syncs[s].sent}
    \/ \E v \in 1..Versions : syncs[s].fresh = {v} /\ syncs[s].tag \in {0, v}

\* A catalog has one URL, once it is saved.
OneUrl == \A k \in CatalogIds : \A u, v \in url[k] : u = v

BoxOK == OneCandidate /\ MadeOnce /\ OncePerEntry
CatalogIInv ==
  /\ CatalogTypeOK /\ BoxOK /\ OneUrl /\ AcceptsOpen
  /\ SyncsAsk /\ Answered /\ AcknowledgedIsRecorded

-----------------------------------------------------------------------------
(* The box. *)

LEMMA KnownIs ==
  \A k, e : e \in Recorded(k) <=>
    \E i \in CandidateIds : \E c \in box[i] : c.catalog = k /\ c.entry = e
BY DEF Recorded, Candidates

LEMMA KnownIsThen ==
  \A k, e : e \in Recorded(k)' <=>
    \E i \in CandidateIds : \E c \in box'[i] : c.catalog = k /\ c.entry = e
BY DEF Recorded, Candidates

\* What a sync's new rows do to the box.
LEMMA DiscoversBox ==
  ASSUME CatalogTypeOK, BoxOK, NEW k \in CatalogIds, NEW entries \in SUBSET Entries,
         entries \cap Recorded(k) = {}, Discovers(k, entries)
  PROVE  /\ box' \in [CandidateIds -> SUBSET Candidate] /\ BoxOK'
         /\ \A j \in CatalogIds : Recorded(j) \subseteq Recorded(j)'
         /\ entries \subseteq Recorded(k)'
         /\ \A i \in CandidateIds : \A c \in box[i] : \A d \in box'[i] : d = c
<1> PICK at \in [entries -> {i \in CandidateIds : box[i] = {}}] :
      /\ \A e, f \in entries : at[e] = at[f] => e = f
      /\ box' = [i \in CandidateIds |->
           box[i] \cup {[catalog |-> k, entry |-> e, status |-> "pending", sources |-> 0] :
                          e \in {f \in entries : at[f] = i}}]
  BY DEF Discovers
<1> DEFINE row(e) == [catalog |-> k, entry |-> e, status |-> "pending", sources |-> 0]
<1>1. ASSUME NEW i \in CandidateIds, NEW c \in box'[i]
      PROVE  \/ c \in box[i]
             \/ \E e \in entries : at[e] = i /\ c = row(e) /\ box[i] = {}
  OBVIOUS
<1>2. \A e \in entries : at[e] \in CandidateIds /\ row(e) \in box'[at[e]]
  OBVIOUS
<1>3. \A i \in CandidateIds : box[i] \subseteq box'[i]
  OBVIOUS
<1>4. \A e \in entries : row(e) \in Candidate
  BY DEF Candidate, Statuses
<1>5. \A e : row(e).catalog = k /\ row(e).entry = e /\ row(e).status = "pending"
             /\ row(e).sources = 0
  OBVIOUS
<1> HIDE DEF row
<1>6. box' \in [CandidateIds -> SUBSET Candidate]
  <2>1. \A i \in CandidateIds : box'[i] \subseteq Candidate
    BY <1>1, <1>4 DEF CatalogTypeOK
  <2>2. box' = [i \in CandidateIds |-> box'[i]]
    OBVIOUS
  <2> QED BY <2>1, <2>2
<1>7. OneCandidate'
  <2> SUFFICES ASSUME NEW i \in CandidateIds, NEW c \in box'[i], NEW d \in box'[i] PROVE c = d
    BY DEF OneCandidate
  <2>1. CASE box[i] = {}
    <3>1. PICK e \in entries : at[e] = i /\ c = row(e)
      BY <1>1, <2>1
    <3>2. PICK f \in entries : at[f] = i /\ d = row(f)
      BY <1>1, <2>1
    <3> QED BY <3>1, <3>2
  <2>2. CASE box[i] # {}
    BY <1>1, <2>2 DEF BoxOK, OneCandidate
  <2> QED BY <2>1, <2>2
<1>8. MadeOnce'
  BY <1>1, <1>5 DEF BoxOK, MadeOnce
<1>9. OncePerEntry'
  <2> SUFFICES ASSUME NEW i \in CandidateIds, NEW j \in CandidateIds, NEW c \in box'[i],
                      NEW d \in box'[j], c.catalog = d.catalog, c.entry = d.entry
               PROVE  i = j
    BY DEF OncePerEntry
  <2>1. ASSUME NEW m \in CandidateIds, NEW n \in CandidateIds, NEW x \in box[m],
               NEW e \in entries, x.catalog = k, x.entry = e
        PROVE  FALSE
    BY <2>1, KnownIs
  <2>2. CASE c \in box[i] /\ d \in box[j]
    BY <2>2 DEF BoxOK, OncePerEntry
  <2>3. CASE c \in box[i] /\ d \notin box[j]
    BY <1>1, <1>5, <2>1, <2>3
  <2>4. CASE c \notin box[i] /\ d \in box[j]
    BY <1>1, <1>5, <2>1, <2>4
  <2>5. CASE c \notin box[i] /\ d \notin box[j]
    BY <1>1, <1>5, <2>5
  <2> QED BY <2>2, <2>3, <2>4, <2>5
<1>10. \A j \in CatalogIds : Recorded(j) \subseteq Recorded(j)'
  BY <1>3, KnownIs, KnownIsThen
<1>11. entries \subseteq Recorded(k)'
  <2> SUFFICES ASSUME NEW e \in entries PROVE e \in Recorded(k)'
    OBVIOUS
  <2> QED BY <1>2, <1>5, KnownIsThen
<1>12. \A i \in CandidateIds : \A c \in box[i] : \A d \in box'[i] : d = c
  BY <1>1 DEF BoxOK, OneCandidate
<1> QED BY <1>6, <1>7, <1>8, <1>9, <1>10, <1>11, <1>12 DEF BoxOK

\* What a decision does: one candidate changes its status, and its sources by what
\* was made.
LEMMA DecidesBox ==
  ASSUME CatalogTypeOK, BoxOK, NEW i \in CandidateIds, NEW c \in box[i],
         NEW status \in Statuses, NEW made \in {0, 1}, c.status # "accepted",
         made = (IF status = "accepted" THEN 1 ELSE 0), Decides(i, status, made)
  PROVE  /\ box' \in [CandidateIds -> SUBSET Candidate] /\ BoxOK'
         /\ \A j \in CatalogIds : Recorded(j)' = Recorded(j)
         /\ c.sources = 0
         /\ \A j \in CandidateIds : \A x \in box[j] : \A y \in box'[j] :
              IF j = i THEN x = c /\ y.sources = made ELSE y = x
<1> DEFINE d == [c EXCEPT !.status = status, !.sources = @ + made]
<1>1. box[i] = {c} /\ c \in Candidate /\ c.sources = 0
  BY DEF BoxOK, OneCandidate, MadeOnce, CatalogTypeOK
<1>2. /\ d \in Candidate /\ d.catalog = c.catalog /\ d.entry = c.entry
      /\ d.status = status /\ d.sources = made
  <2>1. c.sources + made = made /\ made \in Nat
    BY <1>1
  <2>2. d = [c EXCEPT !.status = status, !.sources = made]
    BY <2>1
  <2> HIDE DEF d
  <2> QED BY <1>1, <2>1, <2>2 DEF Candidate
<1>3. box' = [box EXCEPT ![i] = {d}]
  BY <1>1 DEF Decides
<1> HIDE DEF d
<1>4. box'[i] = {d} /\ \A j \in CandidateIds \ {i} : box'[j] = box[j]
  BY <1>3 DEF CatalogTypeOK
<1>5. box' \in [CandidateIds -> SUBSET Candidate]
  BY <1>2, <1>3 DEF CatalogTypeOK
<1>6. OneCandidate' /\ MadeOnce'
  BY <1>2, <1>4 DEF BoxOK, OneCandidate, MadeOnce
<1>7. OncePerEntry'
  <2> SUFFICES ASSUME NEW m \in CandidateIds, NEW n \in CandidateIds, NEW x \in box'[m],
                      NEW y \in box'[n], x.catalog = y.catalog, x.entry = y.entry
               PROVE  m = n
    BY DEF OncePerEntry
  <2>1. \A j \in CandidateIds : \A z \in box'[j] :
          \E w \in box[j] : w.catalog = z.catalog /\ w.entry = z.entry
    BY <1>1, <1>2, <1>4
  <2> QED BY <2>1 DEF BoxOK, OncePerEntry
<1>8. \A j \in CatalogIds : Recorded(j)' = Recorded(j)
  <2> SUFFICES ASSUME NEW j \in CatalogIds, NEW e PROVE e \in Recorded(j)' <=> e \in Recorded(j)
    OBVIOUS
  <2>1. e \in Recorded(j) => e \in Recorded(j)'
    BY <1>1, <1>2, <1>4, KnownIs, KnownIsThen
  <2>2. e \in Recorded(j)' => e \in Recorded(j)
    BY <1>1, <1>2, <1>4, KnownIs, KnownIsThen
  <2> QED BY <2>1, <2>2
<1>9. \A j \in CandidateIds : \A x \in box[j] : \A y \in box'[j] :
        IF j = i THEN x = c /\ y.sources = made ELSE y = x
  BY <1>1, <1>2, <1>4 DEF BoxOK, OneCandidate
<1> QED BY <1>1, <1>5, <1>6, <1>7, <1>8, <1>9 DEF BoxOK
-----------------------------------------------------------------------------
(* Steps. *)

\* The syncs' part of the invariant rests on what is known.
LEMMA SyncsKeep ==
  ASSUME SyncsAsk, Answered, UNCHANGED syncs, \A k \in CatalogIds : Recorded(k) \subseteq Recorded(k)'
  PROVE  SyncsAsk' /\ Answered'
<1>1. SyncsAsk'
  BY DEF SyncsAsk
<1>2. Answered'
  BY DEF Answered
<1> QED BY <1>1, <1>2

LEMMA NoCallType ==
  /\ NoSync \in Sync /\ NoSync.step = "idle"
  /\ NoAccept \in Accept /\ NoAccept.step = "idle"
BY CatalogAssumption DEF NoSync, Sync, NoAccept, Accept, Statuses

\* A step that leaves all but the call s and what the servers have.
LEMMA SyncMoves ==
  ASSUME CatalogIInv, UNCHANGED <<url, validator, box, accepts>>,
         hosted' \in [CatalogUrls -> 1..Versions],
         NEW s \in Visits, NEW t \in Sync, syncs' = [syncs EXCEPT ![s] = t],
         t.step # "idle" => \E k \in CatalogIds, u \in CatalogUrls :
           /\ t.catalog = {k} /\ t.url = {u}
           /\ t.sent # 0 => Listed[u][t.sent] \subseteq Recorded(k),
         t.step = "answered" =>
           \/ t.fresh = {} /\ t.tag \in {0, t.sent}
           \/ \E v \in 1..Versions : t.fresh = {v} /\ t.tag \in {0, v}
  PROVE  CatalogIInv'
<1>1. \A k : Recorded(k)' = Recorded(k)
  BY DEF Recorded, Candidates
<1>2. CatalogTypeOK' /\ OneUrl' /\ AcceptsOpen'
  BY DEF CatalogIInv, CatalogTypeOK, OneUrl, AcceptsOpen
<1>3. BoxOK'
  BY DEF CatalogIInv, BoxOK, OneCandidate, MadeOnce, OncePerEntry
<1>4. AcknowledgedIsRecorded'
  BY <1>1 DEF CatalogIInv, AcknowledgedIsRecorded
<1>5. SyncsAsk'
  BY <1>1 DEF CatalogIInv, CatalogTypeOK, SyncsAsk
<1>6. Answered'
  BY DEF CatalogIInv, CatalogTypeOK, Answered
<1> QED BY <1>2, <1>3, <1>4, <1>5, <1>6 DEF CatalogIInv

LEMMA UpdateKeeps == ASSUME CatalogIInv, NEW u \in CatalogUrls, Update(u) PROVE CatalogIInv'
<1>1. \A k : Recorded(k)' = Recorded(k)
  BY DEF Recorded, Candidates, Update
<1>2. CatalogTypeOK' /\ OneUrl' /\ AcceptsOpen'
  BY CatalogAssumption DEF CatalogIInv, CatalogTypeOK, OneUrl, AcceptsOpen, Update
<1>3. BoxOK'
  BY DEF CatalogIInv, BoxOK, OneCandidate, MadeOnce, OncePerEntry, Update
<1>4. SyncsAsk' /\ Answered' /\ AcknowledgedIsRecorded'
  BY <1>1, SyncsKeep DEF CatalogIInv, AcknowledgedIsRecorded, Update
<1> QED BY <1>2, <1>3, <1>4 DEF CatalogIInv

LEMMA SaveCatalogKeeps ==
  ASSUME CatalogIInv, NEW k \in CatalogIds, NEW u \in CatalogUrls, SaveCatalog(k, u) PROVE CatalogIInv'
<1>1. \A j : Recorded(j)' = Recorded(j)
  BY DEF Recorded, Candidates, SaveCatalog
<1>2. CatalogTypeOK' /\ OneUrl' /\ AcceptsOpen'
  BY CatalogAssumption DEF CatalogIInv, CatalogTypeOK, OneUrl, AcceptsOpen, SaveCatalog
<1>3. BoxOK'
  BY DEF CatalogIInv, BoxOK, OneCandidate, MadeOnce, OncePerEntry, SaveCatalog
<1>4. SyncsAsk' /\ Answered'
  BY <1>1, SyncsKeep DEF CatalogIInv, SaveCatalog
<1>5. AcknowledgedIsRecorded'
  BY <1>1 DEF CatalogIInv, CatalogTypeOK, AcknowledgedIsRecorded, SaveCatalog
<1> QED BY <1>2, <1>3, <1>4, <1>5 DEF CatalogIInv

LEMMA ReadCatalogKeeps ==
  ASSUME CatalogIInv, NEW s \in Visits, NEW k \in CatalogIds, ReadCatalog(s, k) PROVE CatalogIInv'
<1> DEFINE K == {k}
           t == [NoSync EXCEPT !.step = "read", !.catalog = K, !.url = url[k],
                               !.sent = validator[k]]
<1>1. url[k] \in SUBSET CatalogUrls /\ url[k] # {} /\ validator[k] \in 0..Versions
  BY DEF CatalogIInv, CatalogTypeOK, ReadCatalog
<1>2. /\ t \in Sync /\ t.step = "read" /\ t.catalog = {k} /\ t.url = url[k]
      /\ t.sent = validator[k]
  <2>1. K \in SUBSET CatalogIds
    OBVIOUS
  <2> HIDE DEF K
  <2>2. t \in Sync /\ t.step = "read" /\ t.catalog = K /\ t.url = url[k] /\ t.sent = validator[k]
    BY <1>1, <2>1, NoCallType DEF Sync
  <2> QED BY <2>2 DEF K
<1>3. PICK u \in CatalogUrls : url[k] = {u}
  BY <1>1 DEF CatalogIInv, OneUrl
<1>4. t.sent # 0 => Listed[u][t.sent] \subseteq Recorded(k)
  BY <1>2, <1>3 DEF CatalogIInv, AcknowledgedIsRecorded
<1>5. /\ syncs' = [syncs EXCEPT ![s] = t] /\ UNCHANGED <<url, validator, box, accepts>>
      /\ hosted' \in [CatalogUrls -> 1..Versions]
  BY DEF ReadCatalog, CatalogIInv, CatalogTypeOK
<1> HIDE DEF t
<1> QED BY <1>2, <1>3, <1>4, <1>5, SyncMoves

LEMMA AskCatalogKeeps == ASSUME CatalogIInv, NEW s \in Visits, AskCatalog(s) PROVE CatalogIInv'
<1> PICK u \in syncs[s].url, named \in BOOLEAN :
      syncs' = [syncs EXCEPT ![s] =
        [syncs[s] EXCEPT !.step = "answered",
           !.fresh = IF hosted[u] = syncs[s].sent THEN {} ELSE {hosted[u]},
           !.tag = IF named THEN hosted[u] ELSE 0]]
  BY DEF AskCatalog
<1> DEFINE fresh == IF hosted[u] = syncs[s].sent THEN {} ELSE {hosted[u]}
           tag == IF named THEN hosted[u] ELSE 0
           t == [syncs[s] EXCEPT !.step = "answered", !.fresh = fresh, !.tag = tag]
<1>1. syncs[s] \in Sync /\ hosted[u] \in 1..Versions
  BY DEF CatalogIInv, CatalogTypeOK, Sync
<1>2. /\ fresh \in SUBSET (1..Versions) /\ tag \in 0..Versions
      /\ \/ fresh = {} /\ tag \in {0, syncs[s].sent}
         \/ \E v \in 1..Versions : fresh = {v} /\ tag \in {0, v}
  BY <1>1, CatalogAssumption
<1>3. syncs' = [syncs EXCEPT ![s] = t]
  OBVIOUS
<1> HIDE DEF fresh, tag
<1>4. /\ t \in Sync /\ t.step = "answered" /\ t.fresh = fresh /\ t.tag = tag
      /\ t.catalog = syncs[s].catalog /\ t.url = syncs[s].url /\ t.sent = syncs[s].sent
  BY <1>1, <1>2 DEF Sync
<1> HIDE DEF t
<1>5. \E k \in CatalogIds, v \in CatalogUrls :
        /\ t.catalog = {k} /\ t.url = {v}
        /\ t.sent # 0 => Listed[v][t.sent] \subseteq Recorded(k)
  BY <1>4 DEF CatalogIInv, SyncsAsk, AskCatalog
<1>6. /\ UNCHANGED <<url, validator, box, accepts>>
      /\ hosted' \in [CatalogUrls -> 1..Versions]
  BY DEF AskCatalog, CatalogIInv, CatalogTypeOK
<1>7. \/ t.fresh = {} /\ t.tag \in {0, t.sent}
      \/ \E v \in 1..Versions : t.fresh = {v} /\ t.tag \in {0, v}
  BY <1>2, <1>4
<1> QED BY <1>3, <1>4, <1>5, <1>6, <1>7, SyncMoves

LEMMA SyncFailsKeeps == ASSUME CatalogIInv, NEW s \in Visits, SyncFails(s) PROVE CatalogIInv'
<1>1. hosted' \in [CatalogUrls -> 1..Versions]
  BY DEF SyncFails, CatalogIInv, CatalogTypeOK
<1> QED BY <1>1, NoCallType, SyncMoves DEF SyncFails

\* The commit: what the answer brings is recorded, and the validator kept is of a
\* list that is.
LEMMA CommitSyncKeeps == ASSUME CatalogIInv, NEW s \in Visits, CommitSync(s) PROVE CatalogIInv'
<1> PICK k \in syncs[s].catalog, u \in syncs[s].url :
      IF url[k] = {u}
      THEN Discovers(k, Brings(s, u) \ Recorded(k)) /\ Keeps(s, k)
      ELSE UNCHANGED <<box, validator>>
  BY DEF CommitSync
<1>a. /\ syncs[s].step = "answered" /\ syncs' = [syncs EXCEPT ![s] = NoSync]
      /\ UNCHANGED <<hosted, url, accepts>>
  BY DEF CommitSync
<1>b. /\ k \in CatalogIds /\ u \in CatalogUrls
      /\ syncs[s].catalog = {k} /\ syncs[s].url = {u}
      /\ syncs[s].sent # 0 => Listed[u][syncs[s].sent] \subseteq Recorded(k)
  BY <1>a DEF CatalogIInv, SyncsAsk
<1>1. CASE url[k] # {u}
  <2>1. UNCHANGED <<box, validator>> /\ hosted' \in [CatalogUrls -> 1..Versions]
    BY <1>1, <1>a DEF CatalogIInv, CatalogTypeOK
  <2> QED BY <1>a, <2>1, NoCallType, SyncMoves
<1>2. CASE url[k] = {u}
  <2> DEFINE new == Brings(s, u) \ Recorded(k)
  <2>1. Discovers(k, new) /\ Keeps(s, k)
    BY <1>2
  <2>2. new \in SUBSET Entries /\ new \cap Recorded(k) = {}
    <3>1. \A v \in syncs[s].fresh : v \in 1..Versions /\ Listed[u][v] \subseteq Entries
      BY <1>b, CatalogAssumption DEF CatalogIInv, CatalogTypeOK, Sync
    <3> QED BY <3>1 DEF Brings
  <2> HIDE DEF new
  <2>3. /\ box' \in [CandidateIds -> SUBSET Candidate] /\ BoxOK'
        /\ \A j \in CatalogIds : Recorded(j) \subseteq Recorded(j)'
        /\ new \subseteq Recorded(k)'
    BY <1>b, <2>1, <2>2, DiscoversBox DEF CatalogIInv
  <2>4. Brings(s, u) \subseteq Recorded(k)'
    BY <1>b, <2>3 DEF new
  <2> DEFINE w == IF syncs[s].fresh # {} \/ syncs[s].tag # 0 THEN syncs[s].tag ELSE validator[k]
  <2>5. validator' = [validator EXCEPT ![k] = w]
    BY <2>1 DEF Keeps
  <2>6. w \in 0..Versions
    BY <1>b DEF CatalogIInv, CatalogTypeOK, Sync
  <2>7. w # 0 => Listed[u][w] \subseteq Recorded(k)'
    <3>1. CASE syncs[s].fresh = {} /\ syncs[s].tag = 0
      BY <1>2, <1>b, <2>3, <3>1 DEF CatalogIInv, AcknowledgedIsRecorded
    <3>2. CASE syncs[s].fresh = {} /\ syncs[s].tag # 0
      BY <1>a, <1>b, <2>3, <3>2 DEF CatalogIInv, Answered
    <3>3. CASE syncs[s].fresh # {}
      <4>1. PICK v \in 1..Versions : syncs[s].fresh = {v} /\ syncs[s].tag \in {0, v}
        BY <1>a, <3>3 DEF CatalogIInv, Answered
      <4> QED BY <2>4, <3>3, <4>1 DEF Brings
    <3> QED BY <3>1, <3>2, <3>3
  <2> HIDE DEF w
  <2>8. AcknowledgedIsRecorded'
    <3> SUFFICES ASSUME NEW j \in CatalogIds, NEW v \in CatalogUrls,
                        url[j] = {v}, validator'[j] # 0
                 PROVE  Listed[v][validator'[j]] \subseteq Recorded(j)'
      BY <1>a DEF AcknowledgedIsRecorded
    <3>1. CASE j = k
      <4>1. v = u /\ validator'[j] = w
        BY <1>2, <1>b, <2>5, <3>1 DEF CatalogIInv, CatalogTypeOK
      <4> QED BY <2>7, <3>1, <4>1
    <3>2. CASE j # k
      <4>1. validator'[j] = validator[j]
        BY <2>5, <3>2 DEF CatalogIInv, CatalogTypeOK
      <4> QED BY <2>3, <4>1 DEF CatalogIInv, AcknowledgedIsRecorded
    <3> QED BY <3>1, <3>2
  <2>9. CatalogTypeOK' /\ OneUrl' /\ AcceptsOpen'
    BY <1>a, <2>3, <2>5, <2>6, NoCallType DEF CatalogIInv, CatalogTypeOK, OneUrl, AcceptsOpen
  <2>10. SyncsAsk'
    BY <1>a, <2>3, NoCallType DEF CatalogIInv, CatalogTypeOK, SyncsAsk
  <2>11. Answered'
    BY <1>a, NoCallType DEF CatalogIInv, CatalogTypeOK, Answered
  <2> QED BY <2>3, <2>8, <2>9, <2>10, <2>11 DEF CatalogIInv
<1> QED BY <1>1, <1>2

\* A decision about i, by itself or by an accept.
LEMMA DecidesKeeps ==
  ASSUME CatalogIInv, NEW i \in CandidateIds, NEW c \in box[i], NEW status \in Statuses,
         NEW made \in {0, 1}, c.status # "accepted",
         made = (IF status = "accepted" THEN 1 ELSE 0), Decides(i, status, made),
         UNCHANGED <<hosted, url, validator, syncs>>,
         accepts' \in [Visits -> Accept], AcceptsOpen'
  PROVE  CatalogIInv'
<1>1. /\ box' \in [CandidateIds -> SUBSET Candidate] /\ BoxOK'
      /\ \A j \in CatalogIds : Recorded(j)' = Recorded(j)
  BY DecidesBox DEF CatalogIInv
<1>2. CatalogTypeOK' /\ OneUrl'
  BY <1>1 DEF CatalogIInv, CatalogTypeOK, OneUrl
<1>3. SyncsAsk' /\ Answered'
  BY <1>1, SyncsKeep DEF CatalogIInv
<1>4. AcknowledgedIsRecorded'
  BY <1>1 DEF CatalogIInv, AcknowledgedIsRecorded
<1> QED BY <1>1, <1>2, <1>3, <1>4 DEF CatalogIInv

LEMMA DecideKeeps ==
  ASSUME CatalogIInv, NEW i \in CandidateIds, NEW status \in Statuses, Decide(i, status)
  PROVE  CatalogIInv'
<1> PICK c \in box[i] : c.status # "accepted"
  BY DEF Decide
<1>1. accepts' \in [Visits -> Accept] /\ AcceptsOpen'
  BY DEF Decide, CatalogIInv, CatalogTypeOK, AcceptsOpen
<1> QED BY <1>1, DecidesKeeps DEF Decide

\* A step of an accept that leaves all else.
LEMMA AcceptMoves ==
  ASSUME CatalogIInv, UNCHANGED <<hosted, url, validator, box, syncs>>,
         NEW a \in Visits, NEW t \in Accept, accepts' = [accepts EXCEPT ![a] = t],
         t.step = "read" => t.status \in {"pending", "ignored"}
  PROVE  CatalogIInv'
<1>1. \A k : Recorded(k)' = Recorded(k)
  BY DEF Recorded, Candidates
<1>2. CatalogTypeOK' /\ OneUrl' /\ AcceptsOpen'
  BY DEF CatalogIInv, CatalogTypeOK, OneUrl, AcceptsOpen
<1>3. BoxOK'
  BY DEF CatalogIInv, BoxOK, OneCandidate, MadeOnce, OncePerEntry
<1>4. SyncsAsk' /\ Answered' /\ AcknowledgedIsRecorded'
  BY <1>1, SyncsKeep DEF CatalogIInv, AcknowledgedIsRecorded
<1> QED BY <1>2, <1>3, <1>4 DEF CatalogIInv

LEMMA StartAcceptKeeps ==
  ASSUME CatalogIInv, NEW a \in Visits, NEW i \in CandidateIds, StartAccept(a, i) PROVE CatalogIInv'
<1> PICK c \in box[i] :
      /\ c.status \notin {"blocked", "accepted"}
      /\ accepts' = [accepts EXCEPT ![a] = [step |-> "read", candidate |-> {i}, status |-> c.status]]
  BY DEF StartAccept
<1> DEFINE t == [step |-> "read", candidate |-> {i}, status |-> c.status]
<1>1. c.status \in {"pending", "ignored"}
  BY DEF CatalogIInv, CatalogTypeOK, Candidate, Statuses
<1>2. t \in Accept /\ t.status \in {"pending", "ignored"}
  BY <1>1 DEF Accept, Statuses
<1>3. accepts' = [accepts EXCEPT ![a] = t]
  OBVIOUS
<1> HIDE DEF t
<1> QED BY <1>2, <1>3, AcceptMoves DEF StartAccept

LEMMA AcceptFailsKeeps == ASSUME CatalogIInv, NEW a \in Visits, AcceptFails(a) PROVE CatalogIInv'
BY NoCallType, AcceptMoves DEF AcceptFails

LEMMA CommitAcceptKeeps == ASSUME CatalogIInv, NEW a \in Visits, CommitAccept(a) PROVE CatalogIInv'
<1>1. PICK i \in accepts[a].candidate :
        (\E c \in box[i] : c.status = accepts[a].status) /\ Decides(i, "accepted", 1)
  BY DEF CommitAccept
<1>2. PICK c \in box[i] : c.status = accepts[a].status
  BY <1>1
<1>3. i \in CandidateIds /\ c.status # "accepted"
  BY <1>2 DEF CommitAccept, CatalogIInv, CatalogTypeOK, Accept, AcceptsOpen
<1>4. accepts' \in [Visits -> Accept] /\ AcceptsOpen'
  BY NoCallType DEF CommitAccept, CatalogIInv, CatalogTypeOK, AcceptsOpen
<1>5. "accepted" \in Statuses
  BY DEF Statuses
<1> QED BY <1>1, <1>3, <1>4, <1>5, DecidesKeeps DEF CommitAccept

LEMMA CatalogStep == ASSUME CatalogIInv, [CatalogNext]_catalogVars PROVE CatalogIInv'
<1>1. CASE UNCHANGED catalogVars
  <2>1. \A k : Recorded(k)' = Recorded(k)
    BY <1>1 DEF Recorded, Candidates, catalogVars
  <2>2. CatalogTypeOK' /\ OneUrl' /\ AcceptsOpen'
    BY <1>1 DEF CatalogIInv, CatalogTypeOK, OneUrl, AcceptsOpen, catalogVars
  <2>3. BoxOK'
    BY <1>1 DEF CatalogIInv, BoxOK, OneCandidate, MadeOnce, OncePerEntry, catalogVars
  <2>4. SyncsAsk' /\ Answered' /\ AcknowledgedIsRecorded'
    BY <1>1, <2>1, SyncsKeep DEF CatalogIInv, AcknowledgedIsRecorded, catalogVars
  <2> QED BY <2>2, <2>3, <2>4 DEF CatalogIInv
<1> QED BY <1>1, UpdateKeeps, SaveCatalogKeeps, ReadCatalogKeeps, AskCatalogKeeps,
           SyncFailsKeeps, CommitSyncKeeps, DecideKeeps, StartAcceptKeeps, AcceptFailsKeeps,
           CommitAcceptKeeps DEF CatalogNext

LEMMA CatalogBase == ASSUME CatalogInit PROVE CatalogIInv
<1>1. CatalogTypeOK
  BY NoCallType, CatalogAssumption DEF CatalogInit, CatalogTypeOK
<1>2. BoxOK /\ OneUrl /\ AcceptsOpen /\ SyncsAsk /\ Answered
  BY NoCallType DEF CatalogInit, BoxOK, OneCandidate, MadeOnce, OncePerEntry, OneUrl,
                    AcceptsOpen, SyncsAsk, Answered
<1>3. AcknowledgedIsRecorded
  BY DEF CatalogInit, AcknowledgedIsRecorded
<1> QED BY <1>1, <1>2, <1>3 DEF CatalogIInv

LEMMA CatalogInvariant == CatalogSpec => []CatalogIInv
BY CatalogBase, CatalogStep, PTL DEF CatalogSpec

\* catalog.go: catalogs, candidates and the calls under way keep their types.
THEOREM CatalogTypeCorrect == CatalogSpec => []CatalogTypeOK
BY CatalogInvariant, PTL DEF CatalogIInv

\* SyncCatalog: the validator kept for a URL is of a list that is recorded.
THEOREM AcknowledgedRecorded == CatalogSpec => []AcknowledgedIsRecorded
BY CatalogInvariant, PTL DEF CatalogIInv

\* SyncCatalog: of an entry a catalog makes one candidate.
THEOREM EntriesOnce == CatalogSpec => []OncePerEntry
BY CatalogInvariant, PTL DEF CatalogIInv, BoxOK

-----------------------------------------------------------------------------
(* The accepts. *)

Opens ==
  \A i \in CandidateIds : \A c \in box[i] : \A d \in box'[i] :
    d.sources # c.sources =>
      /\ c.status \in {"pending", "ignored"} /\ c.sources = 0 /\ d.sources = 1

LEMMA OpensStep == ASSUME CatalogIInv, [CatalogNext]_catalogVars PROVE Opens
<1>a. \A i \in CandidateIds : \A c, d \in box[i] : c = d
  BY DEF CatalogIInv, BoxOK, OneCandidate
<1>1. ASSUME NEW s \in Visits, CommitSync(s) PROVE Opens
  <2> PICK k \in syncs[s].catalog, u \in syncs[s].url :
        IF url[k] = {u}
        THEN Discovers(k, Brings(s, u) \ Recorded(k)) /\ Keeps(s, k)
        ELSE UNCHANGED <<box, validator>>
    BY <1>1 DEF CommitSync
  <2>1. CASE url[k] # {u}
    BY <1>a, <2>1 DEF Opens
  <2>2. CASE url[k] = {u}
    <3> DEFINE new == Brings(s, u) \ Recorded(k)
    <3>1. k \in CatalogIds /\ u \in CatalogUrls
      BY DEF CatalogIInv, CatalogTypeOK, Sync
    <3>2. new \in SUBSET Entries /\ new \cap Recorded(k) = {}
      <4>1. \A v \in syncs[s].fresh : v \in 1..Versions /\ Listed[u][v] \subseteq Entries
        BY <3>1, CatalogAssumption DEF CatalogIInv, CatalogTypeOK, Sync
      <4> QED BY <4>1 DEF Brings
    <3>3. Discovers(k, new)
      BY <2>2
    <3> HIDE DEF new
    <3> QED BY <3>1, <3>2, <3>3, DiscoversBox DEF CatalogIInv, Opens
  <2> QED BY <2>1, <2>2
<1>2. ASSUME NEW i \in CandidateIds, NEW status \in Statuses, Decide(i, status) PROVE Opens
  <2> PICK c \in box[i] : c.status # "accepted"
    BY <1>2 DEF Decide
  <2>1. \A j \in CandidateIds : \A x \in box[j] : \A y \in box'[j] :
          IF j = i THEN x = c /\ y.sources = 0 ELSE y = x
    BY <1>2, DecidesBox DEF CatalogIInv, Decide
  <2>2. c.sources = 0
    BY <1>2, DecidesBox DEF CatalogIInv, Decide
  <2> QED BY <2>1, <2>2 DEF Opens
<1>3. ASSUME NEW a \in Visits, CommitAccept(a) PROVE Opens
  <2>1. PICK i \in accepts[a].candidate :
          (\E c \in box[i] : c.status = accepts[a].status) /\ Decides(i, "accepted", 1)
    BY <1>3 DEF CommitAccept
  <2>2. PICK c \in box[i] : c.status = accepts[a].status
    BY <2>1
  <2>3. i \in CandidateIds /\ c.status \in {"pending", "ignored"} /\ "accepted" \in Statuses
    BY <1>3, <2>2 DEF CommitAccept, CatalogIInv, CatalogTypeOK, Accept, AcceptsOpen, Statuses
  <2>4. /\ c.sources = 0
        /\ \A j \in CandidateIds : \A x \in box[j] : \A y \in box'[j] :
             IF j = i THEN x = c /\ y.sources = 1 ELSE y = x
    BY <2>1, <2>3, DecidesBox DEF CatalogIInv
  <2> QED BY <2>3, <2>4 DEF Opens
<1>4. CASE UNCHANGED box
  BY <1>a, <1>4 DEF Opens
<1>5. \/ \E s \in Visits : CommitSync(s) \/ CommitAccept(s)
      \/ \E i \in CandidateIds, status \in Statuses : Decide(i, status)
      \/ UNCHANGED box
  BY DEF CatalogNext, catalogVars, Update, SaveCatalog, ReadCatalog, AskCatalog, SyncFails,
         StartAccept, AcceptFails
<1> QED BY <1>1, <1>2, <1>3, <1>4, <1>5

\* CandidateAction: a candidate becomes a source at most once, and only while it is
\* neither blocked nor accepted.
THEOREM AcceptsOnlyOnce == CatalogSpec => AcceptsOnlyOpen
<1>1. CatalogIInv /\ [CatalogNext]_catalogVars => [Opens]_catalogVars
  BY OpensStep
<1> QED BY <1>1, CatalogInvariant, PTL DEF CatalogSpec, AcceptsOnlyOpen, Opens
=============================================================================
