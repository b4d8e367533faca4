-------------------------- MODULE DirectoryService --------------------------
(***************************************************************************)
(* The directory in service: a server holding one directory behind a mutex *)
(* (tacenta-transport, directory.rs), the devices that publish to it       *)
(* (tacenta-client), the peers that look them up, and the snapshot file it *)
(* is restored from (tacenta-server).                                      *)
(*                                                                         *)
(* A device's call writes a request on its own connection and reads the    *)
(* next answer there, whichever request that answers: nothing on the wire  *)
(* pairs the two.  A call dropped after it wrote its request leaves its    *)
(* answer for the next one.  When a connection ends, a request on its way  *)
(* may still reach the server: it stays in late, and the server may take   *)
(* it up after the device has given up, stopped, or connected again.       *)
(* Signatures are external; each is represented by the key that made it,   *)
(* and a device signs with keys it holds.                                  *)
(*                                                                         *)
(* A bundle is [owner, store, oneTime]: the identity key that signed it,   *)
(* the prekey store its signed prekey comes from, and its one-time prekey, *)
(* 0 for the multi-use bundle.  Key material is numbered in the order it   *)
(* is generated, so equal numbers are equal keys.                          *)
(***************************************************************************)
EXTENDS Directory, FiniteSets, FiniteSetsExt

CONSTANTS
    Clients,            \* installations of the client
    Scenarios,          \* the deployments to explore: records [addrOf, late,
                        \*   mail, generation, material, drops, saves, restores],
                        \*   read below
    Reserved,           \* addresses of the account namespace
    RecoveryKey,        \* the key kept offline for recovery
    ONE_TIME_PREKEYS,
    REPLENISH_BELOW,
    ServerCrashes       \* whether the server may stop without a last snapshot

ASSUME ServiceAssumption ==
    /\ Scenarios \subseteq
         [addrOf : [Clients -> DeviceAddr], late : Nat, mail : Nat, generation : Nat,
          material : Nat, drops : Nat, saves : Nat, restores : BOOLEAN]
    /\ Reserved \subseteq DeviceAddr
    /\ {None, RecoveryKey} \cap Nat = {} /\ None # RecoveryKey
    /\ {ONE_TIME_PREKEYS, REPLENISH_BELOW} \subseteq Nat \ {0}
    /\ ServerCrashes \in BOOLEAN

VARIABLES
    scenario,   \* the deployment of this behaviour; no step changes it
    dir,        \* the directory of the running server
    file,       \* directory.snapshot
    stage,      \* what each client is doing
    party,      \* its identity, prekeys, generation, and whether sessions are open
    next,       \* the party a rotation or a recovery would adopt
    sent,       \* the requests on its connection, until the server takes them up
    unread,     \* the answers on its connection, until the client reads them
    late,       \* requests of connections that have ended
    saved,      \* the states it has exported
    mail,       \* first-contact messages, by the bundle they were built on
    minted,     \* key material generated so far
    served,     \* lookups that handed out each one-time prekey: 0, 1, or 2 for more
    retired,    \* identity keys a rotation or a recovery has replaced
    witnessed,  \* the highest generation accepted as fresh under each key
    dropped     \* clients that dropped a call and kept its connection, while up

server  == <<dir, file>>
wire    == <<sent, unread>>
clients == <<stage, party, next, saved, minted, dropped>>
history == <<served, retired, witnessed>>
vars    == <<scenario, server, clients, wire, late, mail, history>>

AddrOf         == scenario.addrOf       \* the address each client runs as
MaxLate        == scenario.late         \* bound: requests outliving their callers
MaxMail        == scenario.mail         \* bound: first-contact messages queued
MaxGeneration  == scenario.generation   \* bound: state generations
MaxMaterial    == scenario.material     \* bound: keys, prekey stores and one-time
                                        \*   prekeys generated, each
MaxDrops       == scenario.drops        \* bound: dropped calls behind on a connection
MaxSaved       == scenario.saves        \* bound: exported states kept by one installation
ClientRestores == scenario.restores     \* whether an exported state may be started from

Keys == 1..MaxMaterial

Bundles == [owner : Keys, store : 1..MaxMaterial, oneTime : 0..MaxMaterial]

Parties ==
    [identity : Keys, store : 0..MaxMaterial, oneTime : SUBSET (1..MaxMaterial),
     generation : 0..MaxGeneration, open : BOOLEAN]

-----------------------------------------------------------------------------
(* The client's key material. *)

(* A new identity; its prekeys are created when it first publishes. *)
Generated(key) ==
    [identity |-> key, store |-> 0, oneTime |-> {}, generation |-> 0, open |-> FALSE]

\* The key generated next, if the bound allows one.
FreshKeys == {minted.keys + 1} \cap Keys

(* How many one-time prekeys publishing would generate: a full set with a  *)
(* new store, a top-up when few are left, otherwise none.                  *)
Shortfall(p) ==
    LET left == Cardinality(p.oneTime)
    IN  IF left < REPLENISH_BELOW THEN ONE_TIME_PREKEYS - left ELSE 0

CanPublish(p) ==
    /\ p.store = 0 => minted.stores < MaxMaterial
    /\ minted.oneTime + Shortfall(p) <= MaxMaterial

(* The party after publish_bundle, which keeps the store it has. *)
Published(p) ==
    [p EXCEPT !.store   = IF @ = 0 THEN minted.stores + 1 ELSE @,
              !.oneTime = @ \cup (minted.oneTime + 1 .. minted.oneTime + Shortfall(p))]

MintedBy(p) ==
    [keys    |-> Max({minted.keys, p.identity}),
     stores  |-> minted.stores + (IF p.store = 0 THEN 1 ELSE 0),
     oneTime |-> minted.oneTime + Shortfall(p)]

MultiUse(p) == [owner |-> p.identity, store |-> p.store, oneTime |-> 0]

(* One bundle for every one-time prekey the party still holds. *)
publish_one_time_batch(p) ==
    LET ids == SetToSortSeq(p.oneTime, LAMBDA a, b : a < b)
    IN  [i \in DOMAIN ids |-> [owner |-> p.identity, store |-> p.store, oneTime |-> ids[i]]]

-----------------------------------------------------------------------------
(* The server's handling of one request.  A handler yields the response    *)
(* and the directory it leaves.                                            *)

verify(key, signature) == signature = key

Reply(response) == [outcome |-> response, dir |-> dir]

(* The open path.  A new binding passes admission first: the deployment    *)
(* may be closed to it, or its source over the hourly limit.  Either way   *)
(* nothing is recorded and the answer is a refusal, so the two are one     *)
(* choice here, admitted.                                                  *)
HandleRegister(r, admitted) ==
    CASE r.device \in Reserved               -> Reply("ReservedHandle")
      [] ~verify(r.identity, r.signature)    -> Reply("PossessionFailed")
      [] OTHER -> IF contains_device(dir, r.device) \/ admitted
                  THEN register(dir, r.device, r.identity, r.bundle)
                  ELSE Reply("NotAdmitted")

(* Provisioning: a signed-in account's handle, bound without the admission *)
(* checks of the open path.                                                *)
HandleProvision(r) ==
    IF verify(r.identity, r.signature)
    THEN register(dir, r.device, r.identity, r.bundle)
    ELSE Reply("PossessionFailed")

HandleDeposit(r) ==
    IF verify(r.identity, r.signature)
    THEN deposit_prekeys(dir, r.device, r.identity, r.bundles)
    ELSE Reply("PossessionFailed")

(* Possession of the new key, then the bound key's word for it, checked    *)
(* against the binding of the moment.                                      *)
HandleRotate(r) ==
    CASE ~verify(r.identity, r.signature) -> Reply("PossessionFailed")
      [] ~contains_device(dir, r.device)  -> Reply("Unregistered")
      [] OTHER -> IF verify(identity(dir, r.device), r.authority)
                  THEN rotate(dir, r.device, r.identity, r.bundle)
                  ELSE Reply("Unauthorized")

HandleSetRecovery(r) ==
    IF ~contains_device(dir, r.device) THEN Reply("Unregistered")
    ELSE IF verify(identity(dir, r.device), r.signature)
         THEN set_recovery(dir, r.device, RecoveryKey)
         ELSE Reply("Unauthorized")

HandleRecover(r) ==
    CASE ~verify(r.identity, r.signature)   -> Reply("PossessionFailed")
      [] dir.recovery[r.device] = None      -> Reply("NoRecovery")
      [] OTHER -> IF verify(dir.recovery[r.device], r.authority)
                  THEN rotate(dir, r.device, r.identity, r.bundle)
                  ELSE Reply("Unauthorized")

HandleWitness(r) ==
    IF ~contains_device(dir, r.device) THEN Reply("Unregistered")
    ELSE IF verify(identity(dir, r.device), r.signature)
         THEN witness(dir, r.device, r.generation)
         ELSE Reply("PossessionFailed")

handle(r, admitted) ==
    CASE r.kind = "Register"    -> HandleRegister(r, admitted)
      [] r.kind = "Provision"   -> HandleProvision(r)
      [] r.kind = "Deposit"     -> HandleDeposit(r)
      [] r.kind = "Rotate"      -> HandleRotate(r)
      [] r.kind = "SetRecovery" -> HandleSetRecovery(r)
      [] r.kind = "Recover"     -> HandleRecover(r)
      [] r.kind = "Witness"     -> HandleWitness(r)

(* The server takes up r and answers a: what it leaves, and what is        *)
(* remembered of it.                                                       *)
Serves(r, a) ==
    /\ dir' = a.dir
    /\ retired' = IF a.outcome = "Rotated"
                  THEN retired \cup {identity(dir, r.device)} ELSE retired
    /\ witnessed' = IF r.kind = "Witness" /\ a.outcome = "Fresh"
                    THEN [witnessed EXCEPT ![r.signature] = Max({@, r.generation})]
                    ELSE witnessed
    /\ UNCHANGED <<file, served>>

-----------------------------------------------------------------------------
(* The client. *)

Init ==
    /\ scenario \in Scenarios
    /\ dir = NewDirectory
    /\ file = snapshot(NewDirectory)
    /\ stage = [c \in Clients |-> "off"]
    /\ party = [c \in Clients |-> None]
    /\ next = [c \in Clients |-> None]
    /\ sent = [c \in Clients |-> <<>>]
    /\ unread = [c \in Clients |-> <<>>]
    /\ late = {}
    /\ saved = [c \in Clients |-> {}]
    /\ mail = [d \in DeviceAddr |-> {}]
    /\ minted = [keys |-> 0, stores |-> 0, oneTime |-> 0]
    /\ served = [i \in 1..MaxMaterial |-> 0]
    /\ retired = {}
    /\ witnessed = [k \in Keys |-> 0]
    /\ dropped = {}

(* Client c starts a call; s is the stage it waits in. *)
Calls(c, s, request) ==
    /\ stage' = [stage EXCEPT ![c] = s]
    /\ sent' = [sent EXCEPT ![c] = Append(@, request)]

(* Client c publishes p's bundle: through the directory for a raw handle,  *)
(* through provisioning when it signs in to an account.                    *)
Publish(c, p, kind) ==
    /\ stage[c] = "off"
    /\ kind = "Provision" => AddrOf[c] \in Reserved
    /\ CanPublish(p)
    /\ party' = [party EXCEPT ![c] = Published(p)]
    /\ minted' = MintedBy(p)
    /\ Calls(c, kind,
             [kind |-> kind, device |-> AddrOf[c], identity |-> p.identity,
              bundle |-> MultiUse(Published(p)), signature |-> p.identity])
    /\ UNCHANGED <<next, saved, dropped, unread, late, mail, server, history>>

Paths == {"Register", "Provision"}

(* connect and sign_in: a fresh identity. *)
Connect(c) == \E kind \in Paths, k \in FreshKeys : Publish(c, Generated(k), kind)

(* connect_with_identity: a saved identity, and nothing else of its state. *)
ConnectWithIdentity(c) ==
    \E kind \in Paths, p \in saved[c] : Publish(c, Generated(p.identity), kind)

(* connect_with_state: the identity, the prekeys and the generation that   *)
(* were exported; the prekeys are in place before the bundle is published. *)
ConnectWithState(c) ==
    /\ ClientRestores
    /\ \E kind \in Paths, p \in saved[c] : Publish(c, p, kind)

(* Export the state to reconnect with. *)
Export(c) ==
    /\ stage[c] = "up"
    /\ Cardinality(saved[c]) < MaxSaved
    /\ saved' = [saved EXCEPT ![c] = @ \cup {party[c]}]
    /\ UNCHANGED <<stage, party, next, minted, dropped, wire, late, mail, server, history>>

(* c's connection ends.  Of the requests on it, taken in order, some still *)
(* reach the server, and nobody reads what is answered.                    *)
Disconnects(c) ==
    /\ sent' = [sent EXCEPT ![c] = <<>>]
    /\ unread' = [unread EXCEPT ![c] = <<>>]
    /\ \E n \in 0..Len(sent[c]) :
         /\ late' = late \cup ToSet(SubSeq(sent[c], 1, n))
         /\ n > 0 => Cardinality(late') <= MaxLate

(* The process ends. *)
Stop(c) ==
    /\ stage[c] = "up"
    /\ stage' = [stage EXCEPT ![c] = "off"]
    /\ party' = [party EXCEPT ![c] = None]
    /\ dropped' = dropped \ {c}
    /\ Disconnects(c)
    /\ UNCHANGED <<next, saved, minted, mail, server, history>>

(* Client::rotate: a fresh party, published under the bound key's word. *)
Rotate(c) ==
    /\ stage[c] = "up"
    /\ \E k \in FreshKeys :
         LET p == Generated(k)
         IN  /\ CanPublish(p)
             /\ next' = [next EXCEPT ![c] = Published(p)]
             /\ minted' = MintedBy(p)
             /\ Calls(c, "rotate",
                      [kind |-> "Rotate", device |-> AddrOf[c], identity |-> k,
                       bundle |-> MultiUse(Published(p)), signature |-> k,
                       authority |-> party[c].identity])
    /\ UNCHANGED <<party, saved, dropped, unread, late, mail, server, history>>

SetRecovery(c) ==
    /\ stage[c] = "up"
    /\ Calls(c, "set_recovery",
             [kind |-> "SetRecovery", device |-> AddrOf[c], signature |-> party[c].identity])
    /\ UNCHANGED <<party, next, saved, minted, dropped, unread, late, mail, server, history>>

(* A device that lost its identity key moves its address to a new one. *)
Recover(c) ==
    /\ stage[c] = "off"
    /\ Cardinality(saved[c]) < MaxSaved
    /\ \E k \in FreshKeys :
         LET p == Generated(k)
         IN  /\ CanPublish(p)
             /\ next' = [next EXCEPT ![c] = Published(p)]
             /\ minted' = MintedBy(p)
             /\ Calls(c, "recover",
                      [kind |-> "Recover", device |-> AddrOf[c], identity |-> k,
                       bundle |-> MultiUse(Published(p)), signature |-> k,
                       authority |-> RecoveryKey])
    /\ UNCHANGED <<party, saved, dropped, unread, late, mail, server, history>>

(* checkpoint: present the generation of the state in use. *)
Checkpoint(c) ==
    /\ stage[c] = "up"
    /\ Calls(c, "checkpoint",
             [kind |-> "Witness", device |-> AddrOf[c], generation |-> party[c].generation,
              signature |-> party[c].identity])
    /\ UNCHANGED <<party, next, saved, minted, dropped, unread, late, mail, server, history>>
-----------------------------------------------------------------------------
(* The end of a call. *)

(* A connecting client that cannot go on drops its party; a connected one  *)
(* keeps it and has its error.                                             *)
Connecting(c) == stage[c] \in Paths \cup {"recover"}

Waiting(c) == stage[c] \notin {"off", "up"}

GivesUp(c) ==
    /\ stage' = [stage EXCEPT ![c] = IF Connecting(c) THEN "off" ELSE "up"]
    /\ party' = [party EXCEPT ![c] = IF Connecting(c) THEN None ELSE @]
    /\ next' = [next EXCEPT ![c] = None]
    /\ UNCHANGED <<saved, minted>>

(* The call is over and client c is connected, as p. *)
Settles(c, p) ==
    /\ stage' = [stage EXCEPT ![c] = "up"]
    /\ party' = [party EXCEPT ![c] = p]
    /\ next' = [next EXCEPT ![c] = None]
    /\ UNCHANGED <<saved, minted>>

(* Registered on the raw path, the client stocks its pool before it is     *)
(* connected.  An account's client is connected once it is provisioned.    *)
DepositPrekeys(c) ==
    /\ Calls(c, "deposit",
             [kind |-> "Deposit", device |-> AddrOf[c], identity |-> party[c].identity,
              bundles |-> publish_one_time_batch(party[c]),
              signature |-> party[c].identity])
    /\ UNCHANGED <<party, next, saved, minted>>

Continues(c, response) ==
    IF stage[c] = "Register" /\ response \in {"Registered", "Refreshed"} /\ party[c].oneTime # {}
    THEN DepositPrekeys(c)
    ELSE /\ sent' = sent
         /\ CASE stage[c] \in Paths /\ response \in {"Registered", "Refreshed"} ->
                   Settles(c, party[c])
              [] stage[c] = "rotate" /\ response = "Rotated" ->
                   Settles(c, [next[c] EXCEPT !.generation = party[c].generation])
              [] stage[c] = "checkpoint" /\ response = "RolledBack" ->
                   Settles(c, [party[c] EXCEPT !.open = FALSE])
              [] stage[c] = "recover" /\ response = "Rotated" ->
                   /\ stage' = [stage EXCEPT ![c] = "off"]
                   /\ saved' = [saved EXCEPT ![c] = @ \cup {next[c]}]
                   /\ next' = [next EXCEPT ![c] = None]
                   /\ UNCHANGED <<party, minted>>
              [] OTHER -> GivesUp(c)

(* The server takes up the oldest request on c's connection and answers on *)
(* it.                                                                     *)
Serve(c) ==
    /\ sent[c] # <<>>
    /\ \E admitted \in BOOLEAN :
         LET a == handle(Head(sent[c]), admitted)
         IN  /\ Serves(Head(sent[c]), a)
             /\ unread' = [unread EXCEPT ![c] = Append(@, a.outcome)]
    /\ sent' = [sent EXCEPT ![c] = Tail(@)]
    /\ UNCHANGED <<clients, late, mail>>

(* exchange, its last lines: c's call ends with the oldest unread answer,  *)
(* which is its own unless an earlier call was dropped.                    *)
Answer(c) ==
    /\ Waiting(c) /\ unread[c] # <<>>
    /\ Continues(c, Head(unread[c]))
    /\ unread' = [unread EXCEPT ![c] = Tail(@)]
    /\ UNCHANGED <<dropped, late, mail, server, history>>

(* The caller drops a call of a connected client, by a timeout around it   *)
(* for one.  The connection stays in use.                                  *)
DropCall(c) ==
    /\ Waiting(c) /\ ~Connecting(c) /\ stage[c] # "deposit"
    /\ Len(sent[c]) + Len(unread[c]) <= MaxDrops
    /\ GivesUp(c)
    /\ dropped' = dropped \cup {c}
    /\ UNCHANGED <<wire, late, mail, server, history>>

(* The connection breaks under a call, which fails, or is replaced by      *)
(* reconnect between calls.                                                *)
ConnectionEnds(c) ==
    /\ Disconnects(c)
    /\ IF Waiting(c) THEN GivesUp(c)
       ELSE /\ sent[c] # <<>> \/ unread[c] # <<>>
            /\ UNCHANGED <<stage, party, next, saved, minted>>
    /\ UNCHANGED <<dropped, mail, server, history>>

(* The server takes up a request of a connection that has ended. *)
ServeLate(r) ==
    /\ \E admitted \in BOOLEAN : Serves(r, handle(r, admitted))
    /\ late' = late \ {r}
    /\ UNCHANGED <<clients, wire, mail>>

-----------------------------------------------------------------------------
(* Peers. *)

(* A peer looks up d.  It may open a session on the bundle it is given and *)
(* send its first message, or have wanted only to know d exists.           *)
Lookup(d) ==
    LET found == lookup(dir, d)
    IN  /\ found.outcome = "Found"
        /\ dir' = found.dir
        /\ served' = [i \in DOMAIN served |->
                        IF i = found.bundle.oneTime THEN Min({served[i] + 1, 2})
                        ELSE served[i]]
        /\ \/ mail' = mail
           \/ /\ Cardinality(mail[d]) < MaxMail
              /\ mail' = [mail EXCEPT ![d] = @ \cup {found.bundle}]
        /\ UNCHANGED <<file, clients, wire, late, retired, witnessed>>

(* Whether p holds the private halves behind bundle b. *)
Opens(p, b) ==
    /\ b.owner = p.identity
    /\ b.store = p.store
    /\ b.oneTime \in p.oneTime \cup {0}

(* A first-contact message reaches its device.  One that opens starts a    *)
(* session and uses up its one-time prekey; one that does not is dropped.  *)
Receive(c) ==
    /\ stage[c] = "up"
    /\ \E b \in mail[AddrOf[c]] :
         /\ mail' = [mail EXCEPT ![AddrOf[c]] = @ \ {b}]
         /\ IF Opens(party[c], b)
            THEN /\ party[c].generation < MaxGeneration
                 /\ party' = [party EXCEPT ![c].oneTime = @ \ {b.oneTime},
                                           ![c].generation = @ + 1,
                                           ![c].open = TRUE]
            ELSE party' = party
    /\ UNCHANGED <<stage, next, saved, minted, dropped, wire, late, server, history>>

-----------------------------------------------------------------------------
(* The server's process. *)

persist_state ==
    /\ file' = snapshot(dir)
    /\ UNCHANGED <<dir, clients, wire, late, mail, history>>

(* The server stops and starts again from its file.  A graceful stop has   *)
(* just written it.  Connections end with the process, and with them every *)
(* request on its way.                                                     *)
Restart ==
    /\ ServerCrashes \/ file = snapshot(dir)
    /\ dir' = restore(file)
    /\ late' = {}
    /\ stage' = [c \in Clients |->
                    IF ~Waiting(c) THEN stage[c] ELSE IF Connecting(c) THEN "off" ELSE "up"]
    /\ party' = [c \in Clients |-> IF Connecting(c) THEN None ELSE party[c]]
    /\ next' = [c \in Clients |-> None]
    /\ sent' = [c \in Clients |-> <<>>]
    /\ unread' = [c \in Clients |-> <<>>]
    /\ UNCHANGED <<file, saved, minted, dropped, mail, history>>

Next ==
    /\ \/ \E c \in Clients :
             \/ Connect(c) \/ ConnectWithIdentity(c) \/ ConnectWithState(c)
             \/ Export(c) \/ Stop(c) \/ Rotate(c) \/ SetRecovery(c) \/ Recover(c)
             \/ Checkpoint(c) \/ Serve(c) \/ Answer(c) \/ DropCall(c)
             \/ ConnectionEnds(c) \/ Receive(c)
       \/ \E r \in late : ServeLate(r)
       \/ \E d \in DeviceAddr : Lookup(d)
       \/ persist_state \/ Restart
    /\ UNCHANGED scenario

Spec == Init /\ [][Next]_vars
-----------------------------------------------------------------------------
(* Properties. *)

Entries == [identity : Keys, bundle : Bundles, pool : Seq(Bundles)]

Connected(c) == party[c] # None /\ stage[c] \notin Paths

(* Type correctness of the server, the clients and what is between them. *)
TypeOK ==
    /\ dir.entries \in [DeviceAddr -> Entries \cup {None}]
    /\ dir.recovery \in [DeviceAddr -> {RecoveryKey, None}]
    /\ dir.generations \in [DeviceAddr -> (0..MaxGeneration) \cup {None}]
    /\ stage \in [Clients -> Paths \cup {"off", "deposit", "up", "rotate", "set_recovery",
                              "recover", "checkpoint"}]
    /\ party \in [Clients -> Parties \cup {None}]
    /\ next \in [Clients -> Parties \cup {None}]
    /\ \A c \in Clients : Len(sent[c]) + Len(unread[c]) \in
           (IF Waiting(c) THEN {1} ELSE {0}) \cup 1..MaxDrops + 1
    /\ dropped \subseteq {c \in Clients : stage[c] # "off"}
    /\ saved \in [Clients -> SUBSET Parties]
    /\ mail \in [DeviceAddr -> SUBSET Bundles]
    /\ served \in [1..MaxMaterial -> 0..2]
    /\ retired \subseteq Keys

(* A one-time prekey is handed to one peer only, whatever the clients do.  *)
(* An installation that goes back to an exported state breaks it: the      *)
(* state still holds the prekeys dispensed since, and connecting deposits  *)
(* them again (deposit in transport directory.rs).                         *)
HandedToOnePeer == \A i \in DOMAIN served : served[i] < 2

(* While no installation goes back to an exported state, a one-time prekey *)
(* is handed to one peer only (take_bundle removes what it returns;        *)
(* registration and rotation empty the pool), however lookups, deposits,   *)
(* reconnects and requests that outlive their callers interleave.          *)
DispensedOnce == ~ClientRestores => HandedToOnePeer

(* Everything a lookup can hand out for an address was signed by the       *)
(* identity key the address is bound to at that moment: a deposit that     *)
(* comes late, after a rotation or a recovery, stocks nothing.             *)
PoolBelongsToBinding ==
    \A d \in DeviceAddr : contains_device(dir, d) =>
        LET e == dir.entries[d]
        IN  /\ e.bundle.owner = e.identity /\ e.bundle.oneTime = 0
            /\ \A i \in DOMAIN e.pool :
                   e.pool[i].owner = e.identity /\ e.pool[i].oneTime # 0

(* A key that a rotation or a recovery replaced is never bound again: not  *)
(* by a registration still on its way, not by an installation that kept    *)
(* the old identity, not by a restart.                                     *)
RetiredKeyStaysRetired ==
    \A d \in DeviceAddr : identity(dir, d) \notin retired

(* Client c's address is bound to the key it uses, or was and the owner    *)
(* has replaced that key.                                                  *)
HoldsItsAddress(c) ==
    identity(dir, AddrOf[c]) = party[c].identity \/ party[c].identity \in retired

(* Not a property of this code, whose directory connection is not          *)
(* cancel-safe (exchange): a client that dropped a rotation reads its      *)
(* answer as that of the next, and adopts a key that was refused.          *)
AdoptedIsBound == \A c \in Clients : Connected(c) => HoldsItsAddress(c)

(* A connected client's address is bound to its key, unless the owner's    *)
(* own rotation or recovery replaced that key: trust on first use lets no  *)
(* other installation take the address, and rotate adopts a key only on    *)
(* its own answer.  A client that has dropped a call and kept the          *)
(* connection is out of it: its next rotation may be refused, read the     *)
(* answer of the dropped one and adopt a key nobody bound (exchange has no *)
(* way to tell; decision 0148 says so).  Such a client does not take the   *)
(* others with it.                                                         *)
ConnectedIsBound ==
    \A c \in Clients : Connected(c) /\ c \notin dropped => HoldsItsAddress(c)

(* Restoring a snapshot rebuilds the directory it was taken from, the      *)
(* device index included: replaying entries through register, which clears *)
(* pools, and recovery keys through set_recovery, which needs the entry,   *)
(* loses nothing.                                                          *)
RestoreRebuilds == restore(snapshot(dir)) = dir

(* The rollback anchor of a binding is never behind a generation it has    *)
(* accepted: not after the refresh every reconnect makes, nor a restart.   *)
AnchorRemembers ==
    \A d \in DeviceAddr : contains_device(dir, d) =>
        LET g == witnessed[identity(dir, d)]
        IN  g > 0 => dir.generations[d] # None /\ dir.generations[d] >= g
=============================================================================
