---------------------------- MODULE InventoryStore ----------------------------
(***************************************************************************)
(* The device inventory of one account in Postgres, and the service that   *)
(* signs it (tacenta-accounts: pg.rs, inventory_tx.rs; tacenta-server:     *)
(* inventory_service.rs, inventory_issuer.rs).                             *)
(*                                                                         *)
(* Server processes share the database and the issuer key file.  Each has  *)
(* tasks that serve one call at a time.  A mutation is one transaction     *)
(* under READ COMMITTED whose statements are steps of their own: lock the  *)
(* account, look up the idempotency key, read the inventory, replace it if *)
(* it is still what was read, record the key, commit.  A task may fail or  *)
(* be dropped at any statement, a commit may land without its answer, and  *)
(* a process may stop at any time; callers come back with the same key.    *)
(* A link is signed after it has committed, if it is still current.        *)
(***************************************************************************)
EXTENDS DeviceInventory

CONSTANTS Keys,          \* idempotency keys
          Requests,      \* the requests clients make
          Servers,       \* server processes
          Tasks,         \* the tasks that serve calls
          ServerOf,      \* the process of each task
          NoTask,        \* marks a lock nobody holds
          NoKey          \* marks a secret that is not there

ASSUME StoreAssumption ==
    /\ ServerOf \in [Tasks -> Servers]
    /\ NoTask \notin Tasks
    /\ NoKey \notin Servers
    /\ \A r \in Requests : r.type \in {"link", "revoke", "replace"}

VARIABLES
    user,        \* whether the row of the account in users exists
    row,         \* the committed inventory; the empty one is an account without a row
    records,     \* account_inventory_mutations: key -> request and result
    lock,        \* the task that holds the lock of the account's row
    call,        \* per task: the call it serves
    keyFile,     \* the issuer key file: the secret in it, or NoKey
    issuer,      \* per process: the issuer's secret it holds, or NoKey
    stage,       \* per process: down, drawn (a secret of its own), up
    statements   \* the statements signed so far

callVars == <<user, row, records, lock, call>>
issuerVars == <<keyFile, issuer, stage>>
vars == <<user, row, records, lock, call, keyFile, issuer, stage, statements>>

Idle == [pc |-> "idle"]

\* A task that has written the row and not yet committed holds the row.
Writes(t) == call[t].pc \in {"set", "recorded"}

\* The call of t at its next statement, without and with the inventory it returns.
At(t, pc) ==
    [pc |-> pc, key |-> call[t].key, request |-> call[t].request, since |-> call[t].since]
AtWith(t, pc, result) ==
    [pc |-> pc, key |-> call[t].key, request |-> call[t].request, since |-> call[t].since,
     result |-> result]

Released(t) == IF lock = t THEN NoTask ELSE lock

Init ==
    /\ user = FALSE
    /\ row = EmptyInventory
    /\ records = [k \in Keys |-> NoRecord]
    /\ lock = NoTask
    /\ call = [t \in Tasks |-> Idle]
    /\ keyFile = NoKey
    /\ issuer = [s \in Servers |-> NoKey]
    /\ stage = [s \in Servers |-> "down"]
    /\ statements = {}

-----------------------------------------------------------------------------
(* The issuer's key.                                                        *)

\* InventoryIssuer::load_or_create, up to the publication: an existing file is
\* read, otherwise the process draws a secret.
LoadIssuer(s) ==
    /\ stage[s] = "down"
    /\ IF keyFile # NoKey
         THEN /\ issuer' = [issuer EXCEPT ![s] = keyFile]
              /\ stage' = [stage EXCEPT ![s] = "up"]
         ELSE /\ issuer' = [issuer EXCEPT ![s] = s]
              /\ stage' = [stage EXCEPT ![s] = "drawn"]
    /\ UNCHANGED <<callVars, keyFile, statements>>

\* Mutant of PublishIssuer: the loser of the race serves the secret it drew.
ServesOwnKey(s) ==
    /\ stage[s] = "drawn"
    /\ keyFile' = IF keyFile = NoKey THEN issuer[s] ELSE keyFile
    /\ stage' = [stage EXCEPT ![s] = "up"]
    /\ UNCHANGED <<callVars, issuer, statements>>

\* create_key_file: the link under the final name succeeds for one starter; one
\* that finds the name taken reads the winner's key.
PublishIssuer(s) ==
    /\ stage[s] = "drawn"
    /\ keyFile' = IF keyFile = NoKey THEN issuer[s] ELSE keyFile
    /\ issuer' = [issuer EXCEPT ![s] = keyFile']
    /\ stage' = [stage EXCEPT ![s] = "up"]
    /\ UNCHANGED <<callVars, statements>>

\* A process stops: its transactions roll back, its secret is gone.
Stop(s) ==
    /\ stage[s] # "down"
    /\ stage' = [stage EXCEPT ![s] = "down"]
    /\ issuer' = [issuer EXCEPT ![s] = NoKey]
    /\ call' = [t \in Tasks |-> IF ServerOf[t] = s THEN Idle ELSE call[t]]
    /\ lock' = IF lock \in Tasks /\ ServerOf[lock] = s THEN NoTask ELSE lock
    /\ UNCHANGED <<user, row, records, keyFile, statements>>

-----------------------------------------------------------------------------
(* The statements of one mutation.                                          *)

\* PgAccounts::sign_up_user, for the account these calls are about.
SignUpUser ==
    /\ ~user
    /\ user' = TRUE
    /\ UNCHANGED <<row, records, lock, call, issuerVars, statements>>

\* PgAccounts::mutate_inventory: a transaction is opened for a call.  `since` is
\* no state of the code: it is the generation that was current then.
Begin(t) ==
    /\ call[t].pc = "idle"
    /\ stage[ServerOf[t]] = "up"
    /\ \E key \in Keys, request \in Requests :
          call' = [call EXCEPT ![t] =
                     [pc |-> "begun", key |-> key, request |-> request,
                      since |-> row.generation]]
    /\ UNCHANGED <<user, row, records, lock, issuerVars, statements>>

\* A refusal: the transaction is dropped and rolls back.
Refuse(t, refusal) ==
    /\ call' = [call EXCEPT ![t] =
                  [pc |-> "refused", key |-> call[t].key, request |-> call[t].request,
                   since |-> call[t].since, refusal |-> refusal]]
    /\ lock' = Released(t)

\* Mutant of LockAccount: the account is looked up and not locked.
LocksNothing(t) ==
    /\ call[t].pc = "begun"
    /\ IF user
         THEN call' = [call EXCEPT ![t] = At(t, "locked")]
              /\ UNCHANGED lock
         ELSE Refuse(t, "UnknownUser")
    /\ UNCHANGED <<user, row, records, issuerVars, statements>>

\* lock_account: waits until no other transaction holds the row of the user.
LockAccount(t) ==
    /\ call[t].pc = "begun"
    /\ IF user
         THEN /\ lock = NoTask
              /\ lock' = t
              /\ call' = [call EXCEPT ![t] = At(t, "locked")]
         ELSE Refuse(t, "UnknownUser")
    /\ UNCHANGED <<user, row, records, issuerVars, statements>>

\* prior_mutation: a recorded key answers with its result, or conflicts.
PriorMutation(t) ==
    /\ call[t].pc = "locked"
    /\ LET prior == records[call[t].key] IN
       IF prior.request.type = "none"
         THEN /\ call' = [call EXCEPT ![t] = At(t, "fresh")]
              /\ UNCHANGED lock
       ELSE IF prior.request # call[t].request
         THEN Refuse(t, "IdempotencyConflict")
       ELSE IF ~Valid(prior.result)
         THEN Refuse(t, "Invalid")
         ELSE /\ call' = [call EXCEPT ![t] = AtWith(t, "repeat", prior.result)]
              /\ UNCHANGED lock
    /\ UNCHANGED <<user, row, records, issuerVars, statements>>

\* stored_state: a statement of its own, which sees what is committed now.
StoredState(t) ==
    /\ call[t].pc = "fresh"
    /\ call' = [call EXCEPT ![t] =
                  [pc |-> "read", key |-> call[t].key, request |-> call[t].request,
                   since |-> call[t].since, stored |-> row]]
    /\ UNCHANGED <<user, row, records, lock, issuerVars, statements>>

\* The rules, and compare_and_set_state with what they give.  The statement waits
\* for a transaction that has written the row and not yet ended; then it
\* replaces the row if the row is still what was read.
CompareAndSetState(t) ==
    /\ call[t].pc = "read"
    /\ LET current == call[t].stored
           refusal == IF ~Valid(current) THEN "Invalid" ELSE Refusal(current, call[t].request)
       IN  IF refusal # "none"
             THEN Refuse(t, refusal)
             ELSE /\ \A u \in Tasks \ {t} : ~Writes(u)
                  /\ IF row = call[t].stored
                       THEN /\ call' = [call EXCEPT ![t] =
                                          AtWith(t, "set", Transition(current, call[t].request))]
                            /\ UNCHANGED lock
                       ELSE Refuse(t, "PredecessorMismatch")
    /\ UNCHANGED <<user, row, records, issuerVars, statements>>

\* record_mutation: the key is the primary key, so a second row for it fails the
\* statement and with it the transaction.
RecordMutation(t) ==
    /\ call[t].pc = "set"
    /\ IF records[call[t].key].request.type = "none"
         THEN /\ call' = [call EXCEPT ![t] = AtWith(t, "recorded", call[t].result)]
              /\ UNCHANGED lock
         ELSE /\ call' = [call EXCEPT ![t] = Idle]
              /\ lock' = Released(t)
    /\ UNCHANGED <<user, row, records, issuerVars, statements>>

\* Where a call stands when its transaction has committed: the caller may have
\* lost the answer.
AfterCommit(t) ==
    \/ call' = [call EXCEPT ![t] = AtWith(t, "committed", call[t].result)]
    \/ call' = [call EXCEPT ![t] = Idle]

\* Mutant of Commit: the record of the key is not part of the transaction.
CommitsRowOnly(t) ==
    /\ call[t].pc = "recorded"
    /\ row' = call[t].result
    /\ lock' = Released(t)
    /\ AfterCommit(t)
    /\ UNCHANGED <<user, records, issuerVars, statements>>

\* tx.commit: the row and the record of the key become visible together.
Commit(t) ==
    /\ call[t].pc = "recorded"
    /\ row' = call[t].result
    /\ records' = [records EXCEPT ![call[t].key] =
                     Record(call[t].request, call[t].result)]
    /\ lock' = Released(t)
    /\ AfterCommit(t)
    /\ UNCHANGED <<user, issuerVars, statements>>

\* The commit of a transaction that only read.
CommitRepeat(t) ==
    /\ call[t].pc = "repeat"
    /\ lock' = Released(t)
    /\ AfterCommit(t)
    /\ UNCHANGED <<user, row, records, issuerVars, statements>>

\* The database fails, or the call is dropped: what is not committed rolls back.
Abort(t) ==
    /\ call[t].pc # "idle"
    /\ call' = [call EXCEPT ![t] = Idle]
    /\ lock' = Released(t)
    /\ UNCHANGED <<user, row, records, issuerVars, statements>>

-----------------------------------------------------------------------------
(* The service in front of the store.                                       *)

\* Mutant of ReadCurrent: the result of the call is signed as it is.
SignsResult(t) ==
    /\ call[t].pc = "committed"
    /\ call[t].request.type = "link"
    /\ call' = [call EXCEPT ![t] = AtWith(t, "signing", call[t].result)]
    /\ UNCHANGED <<user, row, records, lock, issuerVars, statements>>

\* HostedInventoryService::issue, up to the signature: the account is read again,
\* and a result that is no longer current is not signed.  Only links are served
\* with a statement; the answer of another call ends it.
ReadCurrent(t) ==
    /\ call[t].pc = "committed"
    /\ call' = [call EXCEPT ![t] =
                  IF call[t].request.type = "link" /\ row = call[t].result
                    THEN AtWith(t, "signing", call[t].result)
                    ELSE Idle]
    /\ UNCHANGED <<user, row, records, lock, issuerVars, statements>>

\* InventoryIssuer::issue.
Sign(t) ==
    /\ call[t].pc = "signing"
    /\ statements' = statements \cup
         {[issuer |-> issuer[ServerOf[t]], inventory |-> call[t].result]}
    /\ call' = [call EXCEPT ![t] = Idle]
    /\ UNCHANGED <<user, row, records, lock, issuerVars>>

TaskNext(t) ==
    \/ Begin(t) \/ LockAccount(t) \/ PriorMutation(t) \/ StoredState(t)
    \/ CompareAndSetState(t) \/ RecordMutation(t) \/ Commit(t) \/ CommitRepeat(t)
    \/ Abort(t) \/ ReadCurrent(t) \/ Sign(t)

Next ==
    \/ \E t \in Tasks : TaskNext(t)
    \/ \E s \in Servers : LoadIssuer(s) \/ PublishIssuer(s) \/ Stop(s)
    \/ SignUpUser

Spec == Init /\ [][Next]_vars

-----------------------------------------------------------------------------
(* Properties.                                                              *)

\* The records of the keys seen as one of the two maps of the in-memory store.
RecordsOf(types) ==
    [k \in Keys |-> IF records[k].request.type \in types THEN records[k] ELSE NoRecord]

\* The transactions implement the in-memory store (Accounts in lib.rs): whatever
\* the tasks of two processes interleave, abort, lose the answer of or repeat, the
\* committed inventory moves by whole mutations, each with the record of its key.
Lifecycle == INSTANCE InventoryLifecycle
    WITH inventory <- row,
         links     <- RecordsOf({"link"}),
         lifecycle <- RecordsOf({"revoke", "replace"})

ImplementsLifecycle == Lifecycle!LifecycleSpec

\* A verifier orders statements by their generation, so two statements of one
\* generation are the same statement under the same key, from whichever process
\* (HostedInventoryService::issue; load_or_create: "a concurrent starter that loses
\* the race loads the winner's key").
OneStatementPerGeneration ==
    \A s, u \in statements :
        /\ s.issuer = u.issuer
        /\ s.inventory.generation = u.inventory.generation => s = u

\* A signed statement is not older than what was committed when its call came in,
\* even when the call repeats an old request (issue: "Sign only what is still
\* current").
SignsNothingOld ==
    \A t \in Tasks : call[t].pc = "signing" => call[t].result.generation >= call[t].since

\* A binding that was revoked or replaced is remembered, or the floor has risen to
\* the generation that retired it; and nothing active shares a device id or a key
\* with a remembered one (compact_revocations, binding_is_new).
RevocationsHold ==
    LET current == row IN
    /\ \A k \in Keys :
          records[k].request.type \in {"revoke", "replace"} =>
             LET gone == [binding  |-> records[k].request.retired,
                          terminal |-> records[k].result.generation]
             IN  gone \in current.revoked \/ gone.terminal <= current.floor
    /\ \A b \in current.active, r \in current.revoked :
          b.device # r.binding.device /\ b.key # r.binding.key

\* A call is never refused while its own request is already recorded under its
\* key: a retry that overlaps the first attempt waits for it and gets its result
\* (apply_mutation looks the key up under the lock).
RetryIsAnswered ==
    [][\A t \in Tasks :
          call'[t].pc = "refused" /\ call[t].pc # "refused" =>
             records[call[t].key].request # call[t].request]_vars
=============================================================================
