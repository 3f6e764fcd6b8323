------------------------------- MODULE Runtimes -------------------------------
(***************************************************************************)
(* One external runtime (internal/service/runtime.go): its row, with the   *)
(* health and the state the last test found, and its credential, a row of  *)
(* the vault.  Tests run in workers and in probes of the sources bound to  *)
(* it, several at a time; they read the row and the credential one after   *)
(* the other, ask the runtime, and commit much later.                      *)
(***************************************************************************)
EXTENDS Integers

CONSTANTS
  Tests,      \* test calls under way
  MaxEdits    \* bound: saves of the row and of the credential

ASSUME RuntimeAssumption == MaxEdits \in Nat

VARIABLES
  runtime,     \* address, stamp (UpdatedAt), health, and found: what set the state
  credential,  \* the version of its headers
  edits,
  tests,       \* [step, address, stamp, credential, syncs, works]
  judged       \* history: the <<address, credential>> the health is about

runtimeVars == <<runtime, credential, edits, tests, judged>>

Addresses == 0..MaxEdits
Health == {"unknown", "healthy", "failing"}
Steps == {"idle", "row", "status", "state", "commit"}

RuntimeTypeOK ==
  /\ runtime \in [address : Addresses, stamp : 0..MaxEdits, health : Health,
                  found : SUBSET (Addresses \X Addresses)]
  /\ credential \in Addresses /\ edits \in 0..MaxEdits
  /\ tests \in [Tests -> [step : Steps, address : Addresses, stamp : 0..MaxEdits,
                          credential : Addresses, syncs : BOOLEAN, works : BOOLEAN]]
  /\ judged \in Addresses \X Addresses

NoTest == [step |-> "idle", address |-> 0, stamp |-> 0, credential |-> 0,
           syncs |-> FALSE, works |-> TRUE]

RuntimeInit ==
  /\ runtime = [address |-> 0, stamp |-> 0, health |-> "unknown", found |-> {}]
  /\ credential = 0 /\ edits = 0
  /\ tests = [c \in Tests |-> NoTest]
  /\ judged = <<0, 0>>

\* model.Now() is a time no earlier edit has.
Edit == edits < MaxEdits /\ edits' = edits + 1

\* SaveRuntime, with new headers or without: everything a test found is gone.
SaveRuntime(keepsAddress, keepsHeaders) ==
  /\ Edit
  /\ runtime' = [address |-> IF keepsAddress THEN runtime.address ELSE edits',
                 stamp |-> edits', health |-> "unknown", found |-> {}]
  /\ credential' = IF keepsHeaders THEN credential ELSE edits'
  /\ UNCHANGED <<tests, judged>>

\* A replacement of the headers that leaves UpdatedAt as it is.
SetHeadersUnstamped ==
  /\ Edit
  /\ runtime' = [runtime EXCEPT !.health = "unknown"]
  /\ credential' = edits'
  /\ UNCHANGED <<tests, judged>>

\* SetHeaders of a runtime: its state stays, its health does not.
SetHeaders ==
  /\ Edit
  /\ runtime' = [runtime EXCEPT !.stamp = edits', !.health = "unknown"]
  /\ credential' = edits'
  /\ UNCHANGED <<tests, judged>>

-----------------------------------------------------------------------------
(* TestRuntime. *)

At(c, step) == tests[c].step = step
Moves(c, test) == tests' = [tests EXCEPT ![c] = test]

ReadRow(c, syncs) ==
  /\ At(c, "idle")
  /\ Moves(c, [NoTest EXCEPT !.step = "row", !.address = runtime.address,
                             !.stamp = runtime.stamp, !.syncs = syncs])
  /\ UNCHANGED <<runtime, credential, edits, judged>>

\* The headers are read on their own; a test whose row they fail to open ends.
ReadHeaders(c) ==
  /\ At(c, "row")
  /\ \/ Moves(c, [tests[c] EXCEPT !.step = "status", !.credential = credential])
     \/ Moves(c, NoTest)
  /\ UNCHANGED <<runtime, credential, edits, judged>>

\* The status request; the state is asked for only after an answer.
AskStatus(c) ==
  /\ At(c, "status")
  /\ \E works \in BOOLEAN :
       Moves(c, [tests[c] EXCEPT !.works = works,
                 !.step = IF works /\ tests[c].syncs THEN "state" ELSE "commit"])
  /\ UNCHANGED <<runtime, credential, edits, judged>>

AskState(c) ==
  /\ At(c, "state")
  /\ \E works \in BOOLEAN : Moves(c, [tests[c] EXCEPT !.works = works, !.step = "commit"])
  /\ UNCHANGED <<runtime, credential, edits, judged>>

\* The transaction refuses the verdict of a row that was saved since.
CommitTest(c) ==
  /\ At(c, "commit")
  /\ LET t == tests[c] IN
       IF runtime.address = t.address /\ runtime.stamp = t.stamp
       THEN /\ judged' = <<t.address, t.credential>>
            /\ runtime' = [runtime EXCEPT
                 !.health = IF t.works THEN "healthy" ELSE "failing",
                 !.found = IF t.works THEN {judged'} ELSE @]
       ELSE UNCHANGED <<runtime, judged>>
  /\ Moves(c, NoTest)
  /\ UNCHANGED <<credential, edits>>

\* The worker stops, or the job's time is up.
AbandonTest(c) ==
  /\ ~At(c, "idle")
  /\ Moves(c, NoTest)
  /\ UNCHANGED <<runtime, credential, edits, judged>>

RuntimeNext ==
  \/ \E keepsAddress, keepsHeaders \in BOOLEAN : SaveRuntime(keepsAddress, keepsHeaders)
  \/ SetHeaders
  \/ \E c \in Tests :
       \/ \E syncs \in BOOLEAN : ReadRow(c, syncs)
       \/ ReadHeaders(c) \/ AskStatus(c) \/ AskState(c) \/ CommitTest(c) \/ AbandonTest(c)

RuntimeSpec == RuntimeInit /\ [][RuntimeNext]_runtimeVars

-----------------------------------------------------------------------------
(* Properties. *)

\* service.go and runtime.go, UpdatedAt: a health other than unknown is the
\* verdict on the address and the credential the runtime has now, although
\* they were read apart and could be replaced at any time since.  A healthy
\* runtime's state was found with them as well.
VerdictOfConfiguration ==
  /\ runtime.health # "unknown" => judged = <<runtime.address, credential>>
  /\ runtime.health = "healthy" => runtime.found = {judged}
=============================================================================
