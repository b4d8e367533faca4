------------------------------ MODULE Accounts ------------------------------
(***************************************************************************)
(* The in-memory account store (tacenta-accounts, lib.rs) and its snapshot *)
(* (persist.rs).  A store is a value here and its operations are operators *)
(* on it.  The indexes by username and email are computed from the         *)
(* records, as a restore rebuilds them.  Secrets are opaque: an API key or *)
(* a token stands for its hash.  The device inventories and their records  *)
(* are carried and restored, as generations; how they change is the        *)
(* subject of InventoryLifecycle.                                          *)
(***************************************************************************)
EXTENDS SignInLimiter, SequencesExt

CONSTANTS Normalize,          \* spelling -> the normal form of an identifier
          SESSION_TTL_SECS    \* how long a session lasts

ASSUME AccountsAssumption == SESSION_TTL_SECS \in Nat

\* Accounts::new.
EmptyStore ==
    [tenants |-> {}, keys |-> {}, users |-> {}, sessions |-> {},
     inventories |-> {}, links |-> {}, lifecycle |-> {}]

Tenant(id, name, email) == [id |-> id, name |-> name, email |-> email, password |-> "right"]
ApiKey(key, tenant) == [key |-> key, tenant |-> tenant]
User(tenant, name, password) == [tenant |-> tenant, name |-> name, password |-> password]
Session(token, tenant, name, expires) ==
    [token |-> token, tenant |-> tenant, name |-> name, expires |-> expires]

TenantIds(store) == {t.id : t \in store.tenants}
HasUser(store, tenant, name) ==
    \E u \in store.users : u.tenant = tenant /\ u.name = name

-----------------------------------------------------------------------------
(* Tenants and their API keys.                                              *)

\* sign_up_tenant: the username and the email are unique across all tenants.
MaySignUpTenant(store, name, email) ==
    \A t \in store.tenants : t.name # name /\ t.email # email

SignUpTenant(store, id, name, email, key) ==
    [store EXCEPT !.tenants = @ \cup {Tenant(id, name, email)},
                  !.keys = @ \cup {ApiKey(key, id)}]

\* authenticate_tenant: by username, else by email.
AuthenticateTenant(store, identifier, password) ==
    LET ByName  == {t \in store.tenants : t.name = identifier}
        ByEmail == {t \in store.tenants : t.email = identifier}
        found   == IF ByName # {} THEN ByName ELSE ByEmail
    IN  {t.id : t \in {x \in found : x.password = password}}

\* tenant_by_api_key: the tenants a key selects, one or none.
TenantByApiKey(store, key) == {k.tenant : k \in {x \in store.keys : x.key = key}}

CreateApiKey(store, tenant, key) == [store EXCEPT !.keys = @ \cup {ApiKey(key, tenant)}]

\* revoke_api_key removes by prefix; a key is the only one with its prefix.
RevokeApiKey(store, tenant, key) == [store EXCEPT !.keys = @ \ {ApiKey(key, tenant)}]

-----------------------------------------------------------------------------
(* Users and their sessions.                                                *)

MaySignUpUser(store, tenant, name) ==
    tenant \in TenantIds(store) /\ ~HasUser(store, tenant, name)

SignUpUser(store, tenant, name, password) ==
    [store EXCEPT !.users = @ \cup {User(tenant, name, password)}]

AuthenticateUser(store, tenant, spelling, password) ==
    User(tenant, Normalize[spelling], password) \in store.users

RatelimitKey(tenant, spelling) == [tenant |-> tenant, name |-> Normalize[spelling]]

\* sign_in_at: what becomes of the store and of the limiter, and the outcome.  A blocked
\* key and a flooded tenant are both answered RateLimited.
SignInAt(store, failures, now, tenant, spelling, password, token) ==
    LET key     == RatelimitKey(tenant, spelling)
        Failed(outcome) == [outcome |-> outcome, store |-> store,
                            failures |-> RecordFailure(failures, key, now)]
    IN  IF IsBlocked(failures, key, now)
          THEN [outcome |-> "Blocked", store |-> store, failures |-> failures]
        ELSE IF TenantIsFlooded(failures, tenant, now)
          THEN Failed("Flooded")
        ELSE IF AuthenticateUser(store, tenant, spelling, password)
          THEN [outcome  |-> "SignedIn",
                store    |-> [store EXCEPT !.sessions =
                                @ \cup {Session(token, tenant, Normalize[spelling],
                                                now + SESSION_TTL_SECS)}],
                failures |-> RecordSuccess(failures, key)]
          ELSE Failed("Refused")

\* validate_session_at: the sessions that authorise at this time.
LiveSessions(store, now) == {s \in store.sessions : now < s.expires}

RevokeSession(store, token) ==
    [store EXCEPT !.sessions = {s \in @ : s.token # token}]

\* Mutant of RevokeUserSessions: the username is compared as it is spelled.
RevokesAsSpelled(store, tenant, spelling) ==
    [store EXCEPT !.sessions = {s \in @ : ~(s.tenant = tenant /\ s.name = spelling)}]

RevokeUserSessions(store, tenant, spelling) ==
    [store EXCEPT !.sessions =
        {s \in @ : ~(s.tenant = tenant /\ s.name = Normalize[spelling])}]

SweepExpiredSessions(store, now) == [store EXCEPT !.sessions = LiveSessions(store, now)]

\* handle: the user's name below the username of the tenant.
Handles(store, tenant, name) == {<<t.name, name>> : t \in {x \in store.tenants : x.id = tenant}}

-----------------------------------------------------------------------------
(* The snapshot.                                                            *)

Section(name, records) == [section |-> name, records |-> records]

\* The four sections of servers before device inventories, without a header.
FourSections(store) ==
    <<Section("Tenants", store.tenants), Section("ApiKeys", store.keys),
      Section("Users", store.users), Section("Sessions", store.sessions)>>

ThreeSections(store) ==
    <<Section("Inventories", store.inventories), Section("LinkRecords", store.links),
      Section("LifecycleRecords", store.lifecycle)>>

Snapshot(store) == <<Section("Header", {})>> \o FourSections(store) \o ThreeSections(store)

Headed(file) == file # <<>> /\ file[1].section = "Header"

\* Every record names a tenant or a user of the snapshot.
NoOrphan(store) ==
    /\ \A r \in store.keys \cup store.users : r.tenant \in TenantIds(store)
    /\ \A r \in store.sessions \cup store.inventories \cup store.links \cup store.lifecycle :
          HasUser(store, r.tenant, r.name)

\* No account has two inventories, no idempotency key two records, and a result
\* follows its predecessor.
Consistent(store) ==
    /\ \A i, j \in store.inventories : i.tenant = j.tenant /\ i.name = j.name => i = j
    /\ \A r, q \in store.links \cup store.lifecycle :
          r.tenant = q.tenant /\ r.name = q.name /\ r.key = q.key => r = q
    /\ store.links \cap store.lifecycle = {}
    /\ \A r \in store.links \cup store.lifecycle : r.predecessor < r.result

\* The store the sections of a file hold.
Read(body) ==
    LET Records(i) == IF i <= Len(body) THEN body[i].records ELSE {}
    IN  [tenants |-> Records(1), keys |-> Records(2), users |-> Records(3),
         sessions |-> Records(4), inventories |-> Records(5), links |-> Records(6),
         lifecycle |-> Records(7)]

\* try_restore: the stores a file restores to, one, or none when it is refused: cut
\* between two sections, followed by more, or with records that break a rule.
TryRestore(file) ==
    LET body == IF Headed(file) THEN Tail(file) ELSE file
    IN  {store \in {Read(body)} :
            /\ Len(body) = IF Headed(file) THEN 7 ELSE 4
            /\ NoOrphan(store)
            /\ Consistent(store)}

-----------------------------------------------------------------------------
(* The store on PostgreSQL (tacenta-accounts, pg.rs).  A database is the    *)
(* same record of tables, its constraints are the guards of the inserts,   *)
(* and each operator is one statement or one transaction.  This store      *)
(* keeps no count of failed sign-ins.                                      *)

\* The databases an insert leaves: one, or none when a constraint refuses it.
Insert(db, table, row, constraint) ==
    {[db EXCEPT ![table] = @ \cup {row}] : ok \in {TRUE} \cap {constraint}}

\* tenants_username_key, tenants_email_key; then the first API key, in one transaction.
PgSignUpTenant(db, id, name, email, key) ==
    UNION {Insert(next, "keys", ApiKey(key, id), id \in TenantIds(next)) :
              next \in Insert(db, "tenants", Tenant(id, name, email),
                              \A t \in db.tenants : t.name # name /\ t.email # email)}

PgAuthenticateTenant(db, identifier, password) ==
    {t.id : t \in {x \in db.tenants : identifier \in {x.name, x.email} /\ password = x.password}}

PgTenantByApiKey(db, key) == {t \in TenantIds(db) : ApiKey(key, t) \in db.keys}

\* tenant_exists, then the insert with its foreign key.
PgCreateApiKey(db, tenant, key) ==
    Insert(db, "keys", ApiKey(key, tenant), tenant \in TenantIds(db))

PgRevokeApiKey(db, tenant, key) == [db EXCEPT !.keys = @ \ {ApiKey(key, tenant)}]

\* users_pkey and the foreign key to the tenant.
PgSignUpUser(db, tenant, name, password) ==
    Insert(db, "users", User(tenant, name, password),
           tenant \in TenantIds(db) /\ ~HasUser(db, tenant, name))

\* authenticate_user: the user a sign-in authenticates, by its stored name.
PgAuthenticateUser(db, tenant, spelling, password) ==
    {u \in db.users : u = User(tenant, Normalize[spelling], password)}

\* sign_in, after the authentication: the row carries the database's clock.
PgInsertSession(db, now, tenant, name, token) ==
    Insert(db, "sessions", Session(token, tenant, name, now + SESSION_TTL_SECS),
           HasUser(db, tenant, name))

PgValidateSession(db, now) == {s \in db.sessions : s.expires > now}

PgRevokeSession(db, token) == [db EXCEPT !.sessions = {s \in @ : s.token # token}]

PgRevokeUserSessions(db, tenant, spelling) ==
    [db EXCEPT !.sessions = {s \in @ : s.tenant # tenant \/ s.name # Normalize[spelling]}]

PgSweepExpiredSessions(db, now) == [db EXCEPT !.sessions = {s \in @ : ~(s.expires <= now)}]

PgHandles(db, tenant, name) == {<<t.name, name>> : t \in {x \in db.tenants : x.id = tenant}}
=============================================================================
