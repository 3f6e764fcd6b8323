------------------------------- MODULE Catalogs -------------------------------
(***************************************************************************)
(* Catalogs and the candidate box (internal/service/catalog.go).  A sync   *)
(* reads the catalog, asks its URL with the kept validator, and commits    *)
(* the entries it does not know as candidates; the job queue may run two   *)
(* syncs of a catalog at once when a lease ran out.  An operator accepts a *)
(* candidate, which fetches it before the transaction that makes a source  *)
(* of it, and ignores, blocks or resets it meanwhile.                      *)
(*                                                                         *)
(* ETag and Last-Modified are one validator.  A server numbers the         *)
(* versions of what it has at a URL, so two URLs use the same validators.  *)
(***************************************************************************)
EXTENDS Integers, FiniteSets

CONSTANTS
  CatalogIds,
  CatalogUrls,
  Versions,      \* bound: versions a URL goes through, 1 to Versions
  Listed,        \* the entries of each version of each URL
  CandidateIds,  \* bound: rows of the candidate box
  Visits         \* calls under way: each a sync or an accept

Entries == UNION {Listed[u][v] : u \in CatalogUrls, v \in 1..Versions}

ASSUME CatalogAssumption ==
  /\ Versions \in Nat \ {0}
  /\ Listed \in [CatalogUrls -> [1..Versions -> SUBSET Entries]]

VARIABLES
  hosted,      \* the version a URL is at
  url,         \* a catalog's URL, {} before it is saved
  validator,   \* the version of its URL the kept validator is of; 0: none
  box,         \* the candidates: [catalog, entry, status, sources]
  syncs,       \* [step, catalog, url, sent, fresh, tag]
  accepts      \* [step, candidate, status]

catalogVars == <<hosted, url, validator, box, syncs, accepts>>

Statuses == {"pending", "ignored", "blocked", "accepted"}

\* sources: how many sources were made of the candidate.
Candidate == [catalog : CatalogIds, entry : Entries, status : Statuses, sources : Nat]

\* fresh: the version of a 200, {} for a 304; tag: the validator the answer has.
Sync == [step : {"idle", "read", "answered"}, catalog : SUBSET CatalogIds,
         url : SUBSET CatalogUrls, sent : 0..Versions, fresh : SUBSET (1..Versions),
         tag : 0..Versions]
NoSync == [step |-> "idle", catalog |-> {}, url |-> {}, sent |-> 0, fresh |-> {}, tag |-> 0]

Accept == [step : {"idle", "read"}, candidate : SUBSET CandidateIds, status : Statuses]
NoAccept == [step |-> "idle", candidate |-> {}, status |-> "pending"]

CatalogTypeOK ==
  /\ hosted \in [CatalogUrls -> 1..Versions]
  /\ url \in [CatalogIds -> SUBSET CatalogUrls]
  /\ validator \in [CatalogIds -> 0..Versions]
  /\ box \in [CandidateIds -> SUBSET Candidate]
  /\ syncs \in [Visits -> Sync] /\ accepts \in [Visits -> Accept]

CatalogInit ==
  /\ hosted = [u \in CatalogUrls |-> 1]
  /\ url = [k \in CatalogIds |-> {}]
  /\ validator = [k \in CatalogIds |-> 0]
  /\ box = [i \in CandidateIds |-> {}]
  /\ syncs = [s \in Visits |-> NoSync] /\ accepts = [a \in Visits |-> NoAccept]

Candidates == UNION {box[i] : i \in CandidateIds}

\* The fingerprints a catalog has, whatever became of their candidates.
Recorded(k) == {c.entry : c \in {d \in Candidates : d.catalog = k}}

-----------------------------------------------------------------------------
(* Catalogs. *)

\* SaveCatalog: a URL is subscribed once, and a save forgets the validator.
SaveCatalog(k, u) ==
  /\ \A other \in CatalogIds \ {k} : url[other] # {u}
  /\ url' = [url EXCEPT ![k] = {u}]
  /\ validator' = [validator EXCEPT ![k] = 0]
  /\ UNCHANGED <<hosted, box, syncs, accepts>>

\* The list at a URL changes.
Update(u) ==
  /\ hosted[u] < Versions
  /\ hosted' = [hosted EXCEPT ![u] = @ + 1]
  /\ UNCHANGED <<url, validator, box, syncs, accepts>>

ReadCatalog(s, k) ==
  /\ syncs[s] = NoSync /\ accepts[s] = NoAccept /\ url[k] # {}
  /\ syncs' = [syncs EXCEPT ![s] =
       [NoSync EXCEPT !.step = "read", !.catalog = {k}, !.url = url[k], !.sent = validator[k]]]
  /\ UNCHANGED <<hosted, url, validator, box, accepts>>

\* The server answers 304 for the version it is at, with the validator or
\* without one, or 200 with the list and perhaps a validator.
AskCatalog(s) ==
  /\ syncs[s].step = "read"
  /\ \E u \in syncs[s].url, named \in BOOLEAN :
       syncs' = [syncs EXCEPT ![s] =
         [syncs[s] EXCEPT !.step = "answered",
            !.fresh = IF hosted[u] = syncs[s].sent THEN {} ELSE {hosted[u]},
            !.tag = IF named THEN hosted[u] ELSE 0]]
  /\ UNCHANGED <<hosted, url, validator, box, accepts>>

\* The request or the answer fails: the sync ends, and the job is retried.
SyncFails(s) ==
  /\ syncs[s].step # "idle"
  /\ syncs' = [syncs EXCEPT ![s] = NoSync]
  /\ UNCHANGED <<hosted, url, validator, box, accepts>>

\* One new row for each of the given entries.
Discovers(k, entries) ==
  \E at \in [entries -> {i \in CandidateIds : box[i] = {}}] :
    /\ \A e, f \in entries : at[e] = at[f] => e = f
    /\ box' = [i \in CandidateIds |->
         box[i] \cup {[catalog |-> k, entry |-> e, status |-> "pending", sources |-> 0] :
                        e \in {f \in entries : at[f] = i}}]

\* The entries an answer of URL u lists.
Brings(s, u) == UNION {Listed[u][v] : v \in syncs[s].fresh}

Keeps(s, k) ==
  validator' = [validator EXCEPT ![k] =
    IF syncs[s].fresh # {} \/ syncs[s].tag # 0 THEN syncs[s].tag ELSE @]

\* A commit that does not look whether the URL is still the one it asked.
CommitAnyUrl(s) ==
  /\ syncs[s].step = "answered"
  /\ \E k \in syncs[s].catalog, u \in syncs[s].url :
       Discovers(k, Brings(s, u) \ Recorded(k)) /\ Keeps(s, k)
  /\ syncs' = [syncs EXCEPT ![s] = NoSync]
  /\ UNCHANGED <<hosted, url, accepts>>

\* A commit that knows only what is still to be decided.
CommitPendingKnown(s) ==
  /\ syncs[s].step = "answered"
  /\ \E k \in syncs[s].catalog, u \in syncs[s].url :
       IF url[k] = {u}
       THEN /\ Discovers(k, Brings(s, u) \
                 {c.entry : c \in {d \in Candidates : d.catalog = k /\ d.status # "blocked"}})
            /\ Keeps(s, k)
       ELSE UNCHANGED <<box, validator>>
  /\ syncs' = [syncs EXCEPT ![s] = NoSync]
  /\ UNCHANGED <<hosted, url, accepts>>

\* The transaction refuses an answer of another URL than the catalog's.
CommitSync(s) ==
  /\ syncs[s].step = "answered"
  /\ \E k \in syncs[s].catalog, u \in syncs[s].url :
       IF url[k] = {u}
       THEN Discovers(k, Brings(s, u) \ Recorded(k)) /\ Keeps(s, k)
       ELSE UNCHANGED <<box, validator>>
  /\ syncs' = [syncs EXCEPT ![s] = NoSync]
  /\ UNCHANGED <<hosted, url, accepts>>

-----------------------------------------------------------------------------
(* Candidates. *)

Decides(i, status, made) ==
  box' = [box EXCEPT ![i] = {[c EXCEPT !.status = status, !.sources = @ + made] : c \in box[i]}]

\* CandidateAction "ignore", "block" and "reset".
Decide(i, status) ==
  /\ status \in {"ignored", "blocked", "pending"}
  /\ \E c \in box[i] : c.status # "accepted"
  /\ Decides(i, status, 0)
  /\ UNCHANGED <<hosted, url, validator, syncs, accepts>>

\* CandidateAction "accept" reads the candidate and fetches what it lists.
StartAccept(a, i) ==
  /\ accepts[a] = NoAccept /\ syncs[a] = NoSync
  /\ \E c \in box[i] :
       /\ c.status \notin {"blocked", "accepted"}
       /\ accepts' = [accepts EXCEPT ![a] = [step |-> "read", candidate |-> {i}, status |-> c.status]]
  /\ UNCHANGED <<hosted, url, validator, box, syncs>>

\* The fetch fails, or the transaction finds the candidate decided since.
AcceptFails(a) ==
  /\ accepts[a].step = "read"
  /\ accepts' = [accepts EXCEPT ![a] = NoAccept]
  /\ UNCHANGED <<hosted, url, validator, box, syncs>>

\* A commit that trusts the status it read before the fetch.
CommitAcceptUnchecked(a) ==
  /\ accepts[a].step = "read"
  /\ \E i \in accepts[a].candidate : Decides(i, "accepted", 1)
  /\ accepts' = [accepts EXCEPT ![a] = NoAccept]
  /\ UNCHANGED <<hosted, url, validator, syncs>>

\* The transaction makes the source, its revision and its endpoint, unless the
\* candidate was decided since.
CommitAccept(a) ==
  /\ accepts[a].step = "read"
  /\ \E i \in accepts[a].candidate :
       /\ \E c \in box[i] : c.status = accepts[a].status
       /\ Decides(i, "accepted", 1)
  /\ accepts' = [accepts EXCEPT ![a] = NoAccept]
  /\ UNCHANGED <<hosted, url, validator, syncs>>

CatalogNext ==
  \/ \E u \in CatalogUrls : Update(u) \/ \E k \in CatalogIds : SaveCatalog(k, u)
  \/ \E s \in Visits :
       \/ \E k \in CatalogIds : ReadCatalog(s, k)
       \/ AskCatalog(s) \/ SyncFails(s) \/ CommitSync(s)
  \/ \E i \in CandidateIds :
       \/ \E status \in Statuses : Decide(i, status)
       \/ \E a \in Visits : StartAccept(a, i)
  \/ \E a \in Visits : CommitAccept(a) \/ AcceptFails(a)

CatalogSpec == CatalogInit /\ [][CatalogNext]_catalogVars

-----------------------------------------------------------------------------
(* Properties. *)

\* SyncCatalog: a 304 ends a sync without a candidate, so the validator that asks
\* for it must be of a list all of whose entries the catalog has, whatever saves
\* and syncs came between, and although other URLs use the same validators.
AcknowledgedIsRecorded ==
  \A k \in CatalogIds, u \in CatalogUrls :
    url[k] = {u} /\ validator[k] # 0 => Listed[u][validator[k]] \subseteq Recorded(k)

\* docs/design.md: an address is one candidate however often and in however many
\* overlapping syncs it is listed, and a blocked one does not come back.
OncePerEntry ==
  \A i, j \in CandidateIds : \A c \in box[i] : \A d \in box[j] :
    c.catalog = d.catalog /\ c.entry = d.entry => i = j

\* CandidateAction: of a candidate at most one source is ever made, and it is made
\* while the candidate is neither blocked nor accepted, although its accept began
\* before other decisions.
AcceptsOnlyOpen ==
  [][\A i \in CandidateIds : \A c \in box[i] : \A d \in box'[i] :
       d.sources # c.sources =>
         /\ c.status \in {"pending", "ignored"} /\ c.sources = 0 /\ d.sources = 1
    ]_catalogVars
=============================================================================
