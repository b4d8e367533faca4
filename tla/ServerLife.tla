----------------------------- MODULE ServerLife -----------------------------
(***************************************************************************)
(* The life of a server: it starts from the files of its data directory,   *)
(* serves accounts and provisioning from tasks of its own, saves its       *)
(* stores one after the other on a timer, and stops on a signal, on a      *)
(* failed write or by crashing (tacenta-server, lib.rs, with the account   *)
(* and provisioning services of tacenta-transport and the AccountStore of  *)
(* tacenta-accounts).  Beside a server on PostgreSQL runs the gateway,     *)
(* a process of its own on the same database (tacenta-gateway).            *)
(*                                                                         *)
(* The accounts are a store of Accounts, in memory or on PostgreSQL, and   *)
(* the directory is one of Directory.  The queues of the relay, saved      *)
(* between the two, are the subject of Relay.                              *)
(***************************************************************************)
EXTENDS Accounts

CONSTANTS
    None,            \* Option::None, for the directory
    Tasks,           \* the tasks of connections
    Spellings,       \* the identifiers clients send, as they spell them
    Newcomers,       \* those of them that sign up
    TenantNames,     \* the usernames of tenants
    Emails,          \* and their email addresses
    Ips,             \* the addresses of the gateway's callers
    IdentityKeys,    \* the identity keys of devices
    Databases,       \* the backends considered: "memory", "postgres"
    Budgets,         \* what a behaviour has: how many tenants, tokens, failed sign-ins, API
                     \* key calls and requests to the gateway, whether sessions are revoked,
                     \* which sign-ins, pairs of an identifier and a password, which identity
                     \* keys, and the addresses the gateway sees
    MAX_PER_WINDOW,  \* requests the gateway admits from an address in a window
    MAX_CALLERS,     \* the most addresses its limiter holds
    MaxTime, MaxKeys \* bounds of an instance

ASSUME ServerLifeAssumption ==
    /\ Databases \subseteq {"memory", "postgres"}
    /\ {MAX_PER_WINDOW, MAX_CALLERS} \subseteq Nat \ {0}
    /\ {MaxTime, MaxKeys} \subseteq Nat
    /\ Budgets \subseteq
         [tenants : Nat, tokens : Nat, failed : Nat, keyCalls : Nat, requests : Nat,
          revokes : BOOLEAN,
          signIns : SUBSET (Spellings \X {"right", "wrong"}),
          identities : SUBSET IdentityKeys, ips : SUBSET Ips]

VARIABLES
    backend,     \* the account store the server is configured with
    stage,       \* "down", "up", or "stopping" on the last save
    writing,     \* the file persist_state writes next, or "none"
    accounts,    \* the account store; the database when the backend is one
    failures,    \* the limiter of the in-memory store
    directory,   \* the directory in memory
    files,       \* the snapshot files: each a set, empty when there is no file
    calls,       \* task -> the request it is in the middle of
    now,         \* the clock
    minted,      \* how many of each were generated or made so far
    budget,      \* the member of Budgets this behaviour has
    seen,        \* the limiter of the gateway
    \* What the properties compare with.
    history,     \* the sessions issued and the tokens revoked, in this store
    saved,       \* the history when the accounts file was written
    guesses,     \* account -> when the credential check failed, and the last failure
    admitted,    \* address -> when the gateway admitted a request, lately
    kept         \* what was there when the server began to stop

vars == <<backend, stage, writing, accounts, failures, directory, files, calls, now,
          minted, budget, seen, history, saved, guesses, admitted, kept>>
storeVars == <<backend, budget, stage, writing, directory, files, now, saved, kept>>
gatewayVars == <<seen, admitted>>
limiterVars == <<failures, guesses>>

Names == {Normalize[s] : s \in Spellings}
Handle == TenantNames \X Names
DeviceAddr == [user : Handle, device : {1}]
Dir == INSTANCE Directory
\* The gateway's limiter counts admitted requests as the other counts failures.
Ip == INSTANCE SignInLimiter WITH MAX_FAILURES <- MAX_PER_WINDOW, MAX_KEYS <- MAX_CALLERS

Serving == stage \in {"up", "stopping"}
Idle == [op |-> "Idle"]
NothingKept == [users |-> {}, issued |-> {}, revoked |-> {}, bound |-> {}]
NoGuesses == [k \in {} |-> [checks |-> <<>>, last |-> 0]]
NoHistory == [issued |-> {}, revoked |-> {}]

\* A store an older server left: a user of a tenant, signed in.
OldSession == Session(0, 0, Normalize[CHOOSE s \in Newcomers : TRUE], 1)
OldStore ==
    [EmptyStore EXCEPT
        !.tenants = {Tenant(0, CHOOSE n \in TenantNames : TRUE, "old")},
        !.keys = {ApiKey(0, 0)},
        !.users = {User(0, OldSession.name, "right")},
        !.sessions = {OldSession}]

\* One that a server with device inventories left: a device linked, then replaced.
DeviceStore ==
    LET Record(key, predecessor) ==
            [tenant |-> 0, name |-> OldSession.name, key |-> key,
             predecessor |-> predecessor, result |-> predecessor + 1]
    IN  [OldStore EXCEPT
            !.inventories = {[tenant |-> 0, name |-> OldSession.name, generation |-> 2]},
            !.links = {Record("first", 0)},
            !.lifecycle = {Record("second", 1)}]

Bound == {d \in DeviceAddr : Dir!contains_device(directory, d)}

-----------------------------------------------------------------------------
(* AccountStore: each call goes to the store that is configured.            *)

SignUpTenants(id, name, email, key) ==
    IF backend = "memory"
      THEN {SignUpTenant(accounts, id, name, email, key) :
               ok \in {TRUE} \cap {MaySignUpTenant(accounts, name, email)}}
      ELSE PgSignUpTenant(accounts, id, name, email, key)

SignUpUsers(tenant, name, password) ==
    IF backend = "memory"
      THEN {SignUpUser(accounts, tenant, name, password) :
               ok \in {TRUE} \cap {MaySignUpUser(accounts, tenant, name)}}
      ELSE PgSignUpUser(accounts, tenant, name, password)

AuthenticateTenants(identifier, password) ==
    IF backend = "memory"
      THEN AuthenticateTenant(accounts, identifier, password)
      ELSE PgAuthenticateTenant(accounts, identifier, password)

TenantsByApiKey(key) ==
    IF backend = "memory" THEN TenantByApiKey(accounts, key) ELSE PgTenantByApiKey(accounts, key)

CreateApiKeys(tenant, key) ==
    IF backend = "memory"
      THEN {CreateApiKey(accounts, tenant, key) :
               ok \in {TRUE} \cap {tenant \in TenantIds(accounts)}}
      ELSE PgCreateApiKey(accounts, tenant, key)

WithoutApiKey(tenant, key) ==
    IF backend = "memory"
      THEN RevokeApiKey(accounts, tenant, key)
      ELSE PgRevokeApiKey(accounts, tenant, key)

ValidSessions ==
    IF backend = "memory" THEN LiveSessions(accounts, now) ELSE PgValidateSession(accounts, now)

WithoutSession(token) ==
    IF backend = "memory" THEN RevokeSession(accounts, token) ELSE PgRevokeSession(accounts, token)

WithoutUserSessions(tenant, spelling) ==
    IF backend = "memory"
      THEN RevokeUserSessions(accounts, tenant, spelling)
      ELSE PgRevokeUserSessions(accounts, tenant, spelling)

Swept ==
    IF backend = "memory"
      THEN SweepExpiredSessions(accounts, now)
      ELSE PgSweepExpiredSessions(accounts, now)

HandlesOf(tenant, name) ==
    IF backend = "memory" THEN Handles(accounts, tenant, name) ELSE PgHandles(accounts, tenant, name)

-----------------------------------------------------------------------------
(* Starting.                                                                *)

Init ==
    /\ backend \in Databases
    /\ accounts \in IF backend = "postgres" THEN {EmptyStore, OldStore} ELSE {EmptyStore}
    /\ files \in [directory : {{}},
                  accounts : IF backend = "postgres" THEN {{}}
                             ELSE {{}, {FourSections(OldStore)}, {Snapshot(DeviceStore)}}]
    /\ stage = "down" /\ writing = "none"
    /\ failures = NoFailures
    /\ directory = Dir!NewDirectory
    /\ calls = [t \in Tasks |-> Idle]
    /\ now = 0
    /\ minted = [tenants |-> 0, keys |-> 0, tokens |-> 0, failed |-> 0, keyCalls |-> 0,
                 requests |-> 0]
    /\ budget \in Budgets
    /\ seen = NoFailures
    /\ saved = [NoHistory EXCEPT !.issued = IF files.accounts = {} THEN {} ELSE {OldSession}]
    /\ history = [NoHistory EXCEPT !.issued = accounts.sessions]
    /\ guesses = NoGuesses
    /\ admitted = [i \in Ips |-> <<>>]
    /\ kept = NothingKept

\* load: the default without a file, and no start at all from a corrupt one.
LoadDirectory ==
    IF files.directory = {} THEN {Dir!NewDirectory} ELSE {Dir!restore(s) : s \in files.directory}

LoadAccounts ==
    IF files.accounts = {} THEN {EmptyStore} ELSE UNION {TryRestore(f) : f \in files.accounts}

\* Server::bind.  The limiter starts empty; a database is as it was left.
Bind ==
    /\ stage = "down"
    /\ directory' \in LoadDirectory
    /\ IF backend = "memory"
         THEN accounts' \in LoadAccounts /\ history' = saved
         ELSE UNCHANGED <<accounts, history>>
    /\ stage' = "up"
    /\ failures' = NoFailures
    /\ guesses' = NoGuesses
    /\ kept' = NothingKept
    /\ UNCHANGED <<backend, budget, writing, files, calls, now, minted, saved, gatewayVars>>

-----------------------------------------------------------------------------
(* The account service: AccountServer::handle.                              *)

\* The calls of tasks that are in the middle of nothing else.
Free(t) == Serving /\ calls[t] = Idle
Goes(t, call) == calls' = [calls EXCEPT ![t] = call]

NewTenant(id, key, requests) ==
    \E name \in TenantNames, email \in Emails :
        /\ minted.tenants < budget.tenants /\ minted.keys < MaxKeys
        /\ accounts' \in SignUpTenants(id, name, email, key)
        /\ minted' = [minted EXCEPT !.tenants = id, !.keys = key, !.requests = requests]

SignUpTenantRequest ==
    /\ Serving
    /\ NewTenant(minted.tenants + 1, minted.keys + 1, minted.requests)
    /\ UNCHANGED <<calls, history, storeVars, gatewayVars, limiterVars>>

\* Both user requests select the tenant by the API key first, under a lock of its own.
ResolveKey(t, op, spelling, password) ==
    /\ Free(t)
    /\ \E key \in 0..minted.keys : \E tenant \in TenantsByApiKey(key) :
         Goes(t, [op |-> op, tenant |-> tenant, spelling |-> spelling, password |-> password])
    /\ UNCHANGED <<accounts, minted, history, storeVars, gatewayVars, limiterVars>>

SignUpUserRequest(t) ==
    \E s \in Newcomers : ResolveKey(t, "SignUpUser", s, "right")

SignInRequest(t) ==
    \E s \in budget.signIns : ResolveKey(t, "SignIn", s[1], s[2])

\* Taken names and unknown tenants are refused; nothing changes then.
DoSignUpUser(t) ==
    LET c    == calls[t]
        next == SignUpUsers(c.tenant, Normalize[c.spelling], c.password)
    IN  /\ Serving /\ c.op = "SignUpUser"
        /\ IF next = {} THEN UNCHANGED accounts ELSE accounts' \in next
        /\ Goes(t, Idle)
        /\ UNCHANGED <<minted, history, storeVars, gatewayVars, limiterVars>>

Issue(token, tenant, name) ==
    history' = [history EXCEPT !.issued = @ \cup {Session(token, tenant, name, now + SESSION_TTL_SECS)}]

Account(c) == [tenant |-> c.tenant, name |-> Normalize[c.spelling]]

\* What a sign-in adds to the failures of the account it is aimed at.
Noted(c, outcome) ==
    LET key    == Account(c)
        checks == IF key \in DOMAIN guesses THEN guesses[key].checks ELSE <<>>
        new    == CASE outcome = "Refused" -> [checks |-> Append(checks, now), last |-> now]
                    [] outcome = "Flooded" -> [checks |-> checks, last |-> now]
                    [] outcome = "SignedIn" /\ key \in DOMAIN guesses ->
                          [checks |-> <<>>, last |-> guesses[key].last]
    IN  IF outcome = "Blocked" \/ (outcome = "SignedIn" /\ key \notin DOMAIN guesses)
          THEN guesses
          ELSE [k \in DOMAIN guesses \cup {key} |-> IF k = key THEN new ELSE guesses[k]]

\* The in-memory store signs in under one lock.
DoSignInMemory(t) ==
    LET c == calls[t]
        r == SignInAt(accounts, failures, now, c.tenant, c.spelling, c.password, minted.tokens + 1)
    IN  /\ backend = "memory" /\ Serving /\ c.op = "SignIn"
        /\ r.outcome = "SignedIn" => minted.tokens < budget.tokens
        /\ r.outcome # "SignedIn" => minted.failed < budget.failed
        /\ accounts' = r.store
        /\ failures' = r.failures
        /\ guesses' = Noted(c, r.outcome)
        /\ IF r.outcome = "SignedIn"
             THEN /\ Issue(minted.tokens + 1, c.tenant, Normalize[c.spelling])
                  /\ minted' = [minted EXCEPT !.tokens = @ + 1]
             ELSE /\ minted' = [minted EXCEPT !.failed = @ + 1]
                  /\ UNCHANGED history
        /\ Goes(t, Idle)
        /\ UNCHANGED <<storeVars, gatewayVars>>

\* The database authenticates and inserts the session in two statements.
DoAuthenticate(t) ==
    LET c     == calls[t]
        found == PgAuthenticateUser(accounts, c.tenant, c.spelling, c.password)
    IN  /\ backend = "postgres" /\ Serving /\ c.op = "SignIn"
        /\ IF found = {} THEN Goes(t, Idle)
           ELSE \E u \in found : Goes(t, [op |-> "InsertSession", tenant |-> u.tenant, name |-> u.name])
        /\ UNCHANGED <<accounts, minted, history, storeVars, gatewayVars, limiterVars>>

DoInsertSession(t) ==
    LET c == calls[t] IN
    /\ Serving /\ c.op = "InsertSession" /\ minted.tokens < budget.tokens
    /\ accounts' \in PgInsertSession(accounts, now, c.tenant, c.name, minted.tokens + 1)
    /\ Issue(minted.tokens + 1, c.tenant, c.name)
    /\ minted' = [minted EXCEPT !.tokens = @ + 1]
    /\ Goes(t, Idle)
    /\ UNCHANGED <<storeVars, gatewayVars, limiterVars>>

\* An error of the database, or a proof of possession that fails, ends a request.
CallFails(t) ==
    /\ Serving /\ calls[t].op \in {"SignUpUser", "SignIn", "InsertSession", "Provision"}
    /\ backend = "postgres" \/ calls[t].op = "Provision"
    /\ Goes(t, Idle)
    /\ UNCHANGED <<accounts, minted, history, storeVars, gatewayVars, limiterVars>>

-----------------------------------------------------------------------------
(* Provisioning: AccountProvisioner::provision.                             *)

\* The session gives the handle; the client does not choose it.
ProvisionRequest(t) ==
    /\ Free(t)
    /\ \E s \in ValidSessions, key \in budget.identities :
         \E handle \in HandlesOf(s.tenant, s.name) :
             Goes(t, [op |-> "Provision", addr |-> [user |-> handle, device |-> 1], key |-> key])
    /\ UNCHANGED <<accounts, minted, history, storeVars, gatewayVars, limiterVars>>

\* The binding follows under the lock of the directory; a rejection changes nothing.
DoProvision(t) ==
    LET c == calls[t] IN
    /\ Serving /\ c.op = "Provision"
    /\ directory' = Dir!register(directory, c.addr, c.key, "bundle").dir
    /\ Goes(t, Idle)
    /\ UNCHANGED <<backend, budget, stage, writing, accounts, files, now, minted, history, saved, kept,
                   gatewayVars, limiterVars>>

-----------------------------------------------------------------------------
(* What a program holding the store may call.                               *)

\* create_api_key and revoke_api_key on the in-memory store; the gateway calls them on
\* the database.
ApiKeyCall ==
    /\ Serving /\ backend = "memory"
    /\ minted.keyCalls < budget.keyCalls
    /\ \E tenant \in TenantIds(accounts) :
         \/ /\ accounts' \in CreateApiKeys(tenant, minted.keys + 1)
            /\ minted' = [minted EXCEPT !.keyCalls = @ + 1, !.keys = @ + 1]
         \/ /\ \E k \in accounts.keys : accounts' = WithoutApiKey(tenant, k.key)
            /\ minted' = [minted EXCEPT !.keyCalls = @ + 1]
    /\ UNCHANGED <<calls, history, storeVars, gatewayVars, limiterVars>>

RevokeSessionCall ==
    /\ Serving /\ budget.revokes
    /\ \E s \in accounts.sessions :
         /\ accounts' = WithoutSession(s.token)
         /\ history' = [history EXCEPT !.revoked = @ \cup {s.token}]
    /\ UNCHANGED <<calls, minted, storeVars, gatewayVars, limiterVars>>

RevokeUserSessionsCall ==
    /\ Serving /\ budget.revokes
    /\ \E u \in accounts.users, s \in Spellings :
         /\ accounts' = WithoutUserSessions(u.tenant, s)
         /\ history' = [history EXCEPT !.revoked = @ \cup
                {x.token : x \in {y \in history.issued :
                                     y.tenant = u.tenant /\ y.name = Normalize[s]}}]
    /\ UNCHANGED <<calls, minted, storeVars, gatewayVars, limiterVars>>

-----------------------------------------------------------------------------
(* The gateway.                                                             *)

\* check_and_record: an admitted request is recorded, a refused one is not.
CheckAndRecord(ip) ==
    /\ backend = "postgres"
    /\ minted.requests < budget.requests
    /\ ~Ip!IsBlocked(seen, ip, now)
    /\ seen' = Ip!RecordFailure(seen, ip, now)
    /\ admitted' = [admitted EXCEPT ![ip] = Append(@, now)]

\* create_tenant.
GatewayCreateTenant(ip) ==
    /\ CheckAndRecord(ip)
    /\ NewTenant(minted.tenants + 1, minted.keys + 1, minted.requests + 1)
    /\ UNCHANGED <<calls, history, storeVars, limiterVars>>

\* A request that changes nothing: a name or an email that is taken (409), bad input
\* (422), wrong credentials (401), an error of the database (500), or list_keys.
GatewayAnswers(ip) ==
    /\ CheckAndRecord(ip)
    /\ minted' = [minted EXCEPT !.requests = @ + 1]
    /\ UNCHANGED <<accounts, calls, history, storeVars, limiterVars>>

\* create_key and revoke_key: each authenticates the tenant, which is never removed, first.
GatewayCreateKey(ip) ==
    /\ CheckAndRecord(ip)
    /\ minted.keys < MaxKeys
    /\ \E identifier \in TenantNames \cup Emails :
         \E tenant \in AuthenticateTenants(identifier, "right") :
             accounts' \in CreateApiKeys(tenant, minted.keys + 1)
    /\ minted' = [minted EXCEPT !.keys = @ + 1, !.requests = @ + 1]
    /\ UNCHANGED <<calls, history, storeVars, limiterVars>>

GatewayRevokeKey(ip) ==
    /\ CheckAndRecord(ip)
    /\ \E identifier \in TenantNames \cup Emails, k \in accounts.keys :
         \E tenant \in AuthenticateTenants(identifier, "right") :
             accounts' = WithoutApiKey(tenant, k.key)
    /\ minted' = [minted EXCEPT !.requests = @ + 1]
    /\ UNCHANGED <<calls, history, storeVars, limiterVars>>

-----------------------------------------------------------------------------
(* Saving and stopping.                                                     *)

\* The tick: sweep, then persist_state.  A sweep that fails is not an error.
Tick ==
    /\ stage = "up" /\ writing = "none"
    /\ accounts' \in {Swept} \cup (IF backend = "postgres" THEN {accounts} ELSE {})
    /\ writing' = "directory"
    /\ UNCHANGED <<backend, budget, stage, directory, files, calls, now, minted, history, saved, kept,
                   gatewayVars, limiterVars>>

\* persist_state, a file at a time; the tasks go on in between.
PersistDirectory ==
    /\ writing = "directory"
    /\ files' = [files EXCEPT !.directory = {Dir!snapshot(directory)}]
    /\ writing' = "accounts"
    /\ UNCHANGED <<backend, budget, stage, accounts, directory, calls, now, minted, history, saved, kept,
                   gatewayVars, limiterVars>>

PersistAccounts ==
    /\ writing = "accounts"
    /\ IF backend = "memory"
         THEN /\ files' = [files EXCEPT !.accounts = {Snapshot(accounts)}]
              /\ saved' = history
         ELSE UNCHANGED <<files, saved>>
    /\ writing' = "none"
    /\ UNCHANGED <<backend, budget, stage, accounts, directory, calls, now, minted, history, kept,
                   gatewayVars, limiterVars>>

\* What the stores hold that a restart should find.
AllThere == [users |-> accounts.users, issued |-> history.issued,
             revoked |-> history.revoked, bound |-> Bound]

\* Mutant of StopServing: the loop ends and nothing is saved on the way out.
StopsUnsaved ==
    /\ stage = "up" /\ writing = "none"
    /\ stage' = "stopping"
    /\ kept' = AllThere
    /\ UNCHANGED <<backend, budget, writing, accounts, directory, files, calls, now, minted, history,
                   saved, gatewayVars, limiterVars>>

\* The loop ends on a signal or on an accept error, and the last save begins.
StopServing ==
    /\ stage = "up" /\ writing = "none"
    /\ stage' = "stopping"
    /\ writing' = "directory"
    /\ kept' = AllThere
    /\ UNCHANGED <<backend, budget, accounts, directory, files, calls, now, minted, history, saved,
                   gatewayVars, limiterVars>>

\* The process is gone with its tasks.  What it held in memory goes with it.
Gone(keeping) ==
    /\ stage' = "down"
    /\ writing' = "none"
    /\ calls' = [t \in Tasks |-> Idle]
    /\ directory' = Dir!NewDirectory
    /\ failures' = NoFailures
    /\ guesses' = NoGuesses
    /\ kept' = keeping
    /\ IF backend = "memory"
         THEN accounts' = EmptyStore /\ history' = saved
         ELSE UNCHANGED <<accounts, history>>
    /\ UNCHANGED <<backend, budget, files, now, minted, saved, gatewayVars>>

Exit == stage = "stopping" /\ writing = "none" /\ Gone(kept)

\* A failed write ends serving at once; nothing more is saved, so a failed periodic save
\* skips the one on the way out (serve_until's `?`), against the comment on that one,
\* "Persist on the way out regardless of why we stopped".
PersistFails == writing # "none" /\ Gone(NothingKept)

Crash == Serving /\ Gone(NothingKept)

\* Requests and failures that are out of the window count no more.
Clock ==
    /\ now < MaxTime
    /\ now' = now + 1
    /\ guesses' = [k \in {x \in DOMAIN guesses : WithinWindow(guesses[x].last, now + 1)} |->
                     [guesses[k] EXCEPT !.checks = Recent(@, now + 1)]]
    /\ admitted' = [i \in Ips |-> Recent(admitted[i], now + 1)]
    /\ UNCHANGED <<backend, budget, stage, writing, accounts, failures, directory, files, calls, minted,
                   seen, history, saved, kept>>

TaskStep(t) ==
    \/ SignUpUserRequest(t) \/ SignInRequest(t) \/ DoSignUpUser(t) \/ DoSignInMemory(t)
    \/ DoAuthenticate(t) \/ DoInsertSession(t) \/ CallFails(t)
    \/ ProvisionRequest(t) \/ DoProvision(t)

Next ==
    \/ Bind \/ Tick \/ PersistDirectory \/ PersistAccounts \/ StopServing \/ Exit
    \/ PersistFails \/ Crash \/ Clock
    \/ SignUpTenantRequest \/ ApiKeyCall \/ RevokeSessionCall \/ RevokeUserSessionsCall
    \/ \E t \in Tasks : TaskStep(t)
    \/ \E ip \in budget.ips :
         GatewayCreateTenant(ip) \/ GatewayAnswers(ip) \/ GatewayCreateKey(ip) \/ GatewayRevokeKey(ip)

Spec == Init /\ [][Next]_vars

-----------------------------------------------------------------------------
(* Properties.                                                              *)

\* While the server runs, a token authorises exactly from its sign-in until its time is
\* over or it is revoked, in every spelling and over every restart, sweep and save that
\* the store it was issued in survived (sign_in, validate_session, revoke_session,
\* revoke_user_sessions, sweep_expired_sessions, snapshot and try_restore).
SessionsExact ==
    Serving => ValidSessions = {s \in history.issued : s.token \notin history.revoked /\ now < s.expires}

\* Between a wrong password and the one MAX_FAILURES checks later, in one window, the
\* in-memory store's limiter lost count of the account, and it does so only at its cap:
\* MAX_KEYS other accounts have failed since the first of them.  So an account is checked
\* MAX_FAILURES times in a window, however its name is spelled and whatever fails beside
\* it, unless that many others came after it (is_blocked, record_failure, and shed, which
\* evicts the oldest).  The gateway's limiter holds its callers to MAX_PER_WINDOW requests
\* in the same way (check_and_record).
GuessesBounded ==
    /\ \A k \in DOMAIN guesses : \A i \in DOMAIN guesses[k].checks :
         i + MAX_FAILURES <= Len(guesses[k].checks) =>
             Cardinality({l \in DOMAIN guesses \ {k} : guesses[l].last >= guesses[k].checks[i]})
                 >= MAX_KEYS
    /\ \A ip \in Ips : \A i \in DOMAIN admitted[ip] :
         i + MAX_PER_WINDOW <= Len(admitted[ip]) =>
             Cardinality({j \in Ips \ {ip} : /\ admitted[j] # <<>>
                                              /\ Last(admitted[j]) >= admitted[ip][i]})
                 >= MAX_CALLERS

\* A server that is down can start again: the files it left are restored and not refused,
\* whatever was saved last and whenever it stopped, while a file cut between two sections
\* is refused (bind, load, try_restore).  After an orderly stop they hold every user,
\* session, revocation and binding there was when it began (serve_until, persist_state);
\* a stop for a failed save is not one.
RestartKeeps ==
    stage = "down" =>
        /\ LoadAccounts # {}
        /\ \A f \in files.accounts, n \in 0..7 : n < Len(f) => TryRestore(SubSeq(f, 1, n)) = {}
        /\ kept.issued \subseteq (IF backend = "memory" THEN saved ELSE history).issued
        /\ kept.revoked \subseteq (IF backend = "memory" THEN saved ELSE history).revoked
        /\ \A a \in (IF backend = "memory" THEN LoadAccounts ELSE {accounts}) :
              kept.users \subseteq a.users
        /\ \A dir \in LoadDirectory, d \in kept.bound : Dir!contains_device(dir, d)
=============================================================================
