# Tacenta in TLA+

Tacenta is an end-to-end-encrypted messaging system: a relay that stores opaque
messages, a directory of identity keys and prekey bundles, accounts with device
inventories, a framed transport, a client, and a group coordinator over a durable
operation store. This directory models its stateful parts and its byte formats in
TLA+, checks them with TLC on small instances, and proves the central safety
properties with TLAPS for every value of the constants. Definitions keep the names
of the Rust code where TLA+ allows it; `PROJECT.json` maps each one to the lines it
models and lists the hazards of the code with the properties that cover them.

## The system and its parts

| part | code (`crates/`) | state | modules |
|---|---|---|---|
| relay store | `tacenta-relay`, `tacenta-state/session.rs` | one queue per device, byte counters per user and in total | `Session`, `Relay`, `DeliveryLog` |
| relay connections | `tacenta-transport/lib.rs`, receive path of `tacenta-client/lib.rs` | registrations, push channels, frames, the reader's queue, `outstanding`, `torn` | `RelayConnection` |
| operation store, direct traffic | `tacenta-client/operation_store.rs`, `group_client.rs` | the published snapshot; per handle the latch, `high_water`, `observed` | `DurableStore`, `Coordinator` |
| sealed state | `tacenta-client/lib.rs`, `secure_store.rs` | sealed files, the rollback counter, the directory's anchor | `SealedClient` |
| directory | `tacenta-directory`, `tacenta-directory-core`, `tacenta-transport/directory.rs` | bindings, pools, recovery keys, anchors; calls in flight | `Directory`, `DirectoryService` |
| group sending | `tacenta-group/send.rs`, `tacenta-client/group_operations.rs` | the outbox and its transcript, ratchet positions | `GroupOutbox`, `GroupSending` |
| group receiving | `tacenta-group/receive.rs`, `roster_view.rs`, `group_deferred_rosters.rs` | duplicate window, deferred mail, inbox, delivery cursor, held rosters | `GroupReceiver`, `GroupRoster`, `GroupReceiving` |
| group control | `tacenta-group/invitation.rs`, `group_control_outbox.rs`, `group_client.rs` | invitation book, control outbox, the control records of a snapshot | `InvitationBook`, `ControlOutbox`, `GroupControls` |
| device inventory | `tacenta-accounts/inventory*.rs`, `pg.rs`, `tacenta-server/inventory_*.rs` | the inventory, idempotency records, the issuer key | `DeviceInventory`, `InventoryLifecycle`, `InventoryStore` |
| accounts, server, gateway | `tacenta-accounts`, `tacenta-server`, `tacenta-gateway` | tenants, keys, users, sessions, failed sign-ins, the data directory | `SignInLimiter`, `Accounts`, `ServerLife` |
| byte formats | `tacenta-wire`, the `protocol.rs` files, `tacenta-group`, `tacenta-client`, `tacenta-core` | none | `Codec`, `RelayProtocol`, `ServiceProtocol`, `GroupFormats`, `GroupRecords`, `ClientState`, `WireFormats` |

How they interact: a client asks the directory for a peer's bundle, encrypts, and
hands the result to the relay, which appends it to the recipient's queue and wakes
the recipient's connection if one is registered. The recipient polls, decrypts
(which uses up keys for good) and acknowledges; the relay then forgets. The group
coordinator puts a committed snapshot between each of these effects, so that a
crash never repeats or forgets one. The authority of a group sends rosters and
invitations the same way. The server writes the relay, the directory and the
accounts to snapshot files and restarts from them.

What makes this hard: acknowledgements relative to a compacted log; counters kept
beside what they count; commits whose outcome is unknown; two processes on one
store; older state put back; futures dropped at any await; responses paired with
requests by order alone; outboxes rebuilt from compacted transcripts; rosters and
messages that overtake each other; transactions that are retried after their
answer was lost; objects hashed and compared as bytes.

## Modules

**`Session`, `Relay`, `DeliveryLog`.** A queue is a session (a log and a cursor)
and the `base` its compaction has moved past. `Send`, `Ack` and `Restart` are the
whole handlers: `Ack` compacts, recounts and updates both counters, as the code
does. Bodies are a few sizes, since only lengths matter to a relay that stores
opaque bytes. A snapshot is taken (`TakeSnapshot`) and written (`WriteSnapshot`)
separately, because the file replaces the old one after the lock is released;
`Restart` rebuilds from the file, perhaps under another ceiling. `DeliveryLog` is
what the relay promises, an append-only log with a cursor per device; `Relay`
refines it.

**`DurableStore`, `Coordinator`.** `DurableStore` has the decisions of one handle;
`Coordinator` has any number of handles over one store. The file lock makes a
commit one atomic compare-and-replace. Its outcome is `committed`, `landed`
(published, reported as failed), `lost`, or `exhausted`. The pairwise state is a
send counter and the set of ciphertexts consumed. Sending is prepare, commit,
dispatch; receiving is fetch, one commit per item, then one acknowledgement; a
process may end between any two of them.

**`SealedClient`.** A client with one conversation, the sealed files it exported,
and the counter in the secure store. Every send and receive bumps the counter
before the message leaves, if a store is attached and records; a restore compares
the file's counter with the store's and drops the sessions of a stale file. The
directory's anchor (`Directory!witness_core`) is the second witness. Any file may
be put back at any time. A sending chain is numbered when it is made, so a position
is a chain and how far it has been used. One client at a time uses the store, and
the store's counter does not go back: both are what the secure store is for.

**`RelayConnection`.** One receiving device, the server's task for each of its
connections, and the client's call. Streams carry frames in order and may break.
A call may be dropped at every await, halfway through a frame included.
`PromptRegistration`, `EagerReconnects` and `SenderFails` name environment
assumptions, so that each result says which it needs.

**`Directory`, `DirectoryService`.** `Directory` holds the operations as functions
from a directory to an outcome and a directory; `DirectoryService` puts them behind
the request handlers. A connection carries requests and answers in order (`sent`,
`unread`), and nothing else pairs them: a caller may drop a call and go on using the
connection (`DropCall`), and the next call then reads the answer of the dropped one. A
request on a connection that ended may be served later (`late`).
A signature is represented by the key that made it. Whether a new address is
admitted (closed policy, or the hourly limit of its source) is a choice, so the
properties hold whatever the limiter answers. `scenario`, chosen initially, says
which clients share an address, how many calls are dropped and whether states are
restored.

**`GroupOutbox`, `GroupSending`.** The running outbox and the transcript it is
rebuilt from are both there, with compaction and cancellation, so that a restart can
be compared with what ran. A ciphertext is the ratchet position that made it.

**`GroupReceiver`, `GroupRoster`, `GroupReceiving`.** A call of `receive` is its
steps: acknowledge what the last call handed over, read what is undelivered, stage
the fetched items with one commit each, apply the held rosters, acknowledge at the
relay, return. What the decoders demand of stored state is `StoredStateRecovers`.
`MAX_SEQUENCE` is the code's `u64::MAX`, a valid sequence, where the duplicate window
saturates (`WindowEnd`).

**`InvitationBook`, `ControlOutbox`, `GroupControls`.** The authority and the other
devices are sites that exchange controls through the relay, whose answer may be lost.
Every operation is a sequence of commits and may stop between any two (`Interrupted`
stands for a crash, a failed commit and a commit in doubt: all three end in reading the
store again). `RecordAcceptance` may find its handoff reclaimed and then records
nothing, as the code's `accept` fails.

**`DeviceInventory`, `InventoryLifecycle`, `InventoryStore`.** The rules of link,
revoke and replace are functions. `InventoryLifecycle` is the in-memory store, one
step per call; `InventoryStore` is the Postgres transaction statement by statement
under READ COMMITTED, with the service that signs and the issuer key file that two
processes may create at once. The first is the abstract specification of the second.

**`SignInLimiter`, `Accounts`, `ServerLife`.** `Accounts` has the operations of both
stores and the snapshot; `ServerLife` the process around them: start from the files,
requests, the periodic save of one store after another, a write that fails, an
orderly stop, a crash. The gateway runs beside a server on PostgreSQL with a limiter
of its own, an instance of the same module. `budget`, chosen initially, says how much
of each activity a behaviour has. `GuessesBounded` is about a sliding window and about
the eviction at a limiter's cap: between a check of an account and the one
`MAX_FAILURES` checks later, at least `MAX_KEYS` other accounts have failed.

**`Codec` and the formats.** A format is a value built from a few shapes (fixed and
length-prefixed bytes, text, integers of a width, structs, tagged sums, lists,
canonical order); `Put` writes one and `Whole` reads one to the end of the input.
Where the code has an encoder and a decoder as two functions the formats are two
definitions, each translated from its own lines. The checks the decoders make of
values (limits, order, authority, predecessor) are there too. A domain string or a tag
is a pair of bytes of its own: the real ones are pairwise distinct and none is a
prefix of another. A digest, and the seal's authenticator under its key, are a small
hash of the bytes. `WireFormats` writes a sample, carries it whole, cut, extended or
altered in one byte, and reads it with the right decoder or another.

`MC*.tla` give the constants values; `*Proofs` and `CoordinatorInvariant` hold the
proofs. Definitions marked as variants or mutants are used by no specification; they
are plausible slips that the properties must be able to tell from the code.

## Runs

| run | bounds | shows |
|---|---|---|
| `relay` | 2 users, 3 devices, bodies of 0, 2, 4, queue of 2 messages and 6 bytes, 8 per user, ceilings 8 and 10, 3 messages accepted, two starting files | pending is exactly the accepted log past the cursor; nothing is accepted past a budget, recounted from the queues; refines `DeliveryLog` |
| `two_writers` | 2 handles, generations to 3, 2 messages each way, 2 items per receive | no ratchet position used twice, no acknowledged message lost, one snapshot per generation, direct messages handed over once, no lost update |
| `rollback` | either 1 handle, generations to 4, the store put back (states past an older open pruned, `Watched`), or a sealed client with counter and chains to 3, 2 positions of a chain, 2 files put back | no ratchet position carries two messages although older state comes back |
| `connection` | 2 slots, 2 messages, 2 queued responses, 1 broken stream, 2 dropped futures | answers are paired and at most one is on its way, nothing follows half a frame, only decrypted messages are acknowledged |
| `connection_live` | as above, 1 dropped future, under `FairSpec` | everything accepted is in the end fetched |
| `directory` | 2 keys, 2 stores, 2 one-time prekeys; either two installations on one address with 1 late request, or an account's device and a raw one with restores; or 3 of each and 1 dropped call behind on a connection | prekeys dispensed once, pool under the binding, no takeover, replaced keys stay replaced, anchor never behind, snapshot and restore give the same directory back |
| `group_sending` | 2 rosters, 3 members, 2 payloads, 1 live and 1 terminal send, 2 attempts, 2 sequences | the rebuilt outbox is the one that ran; an id and a position carry one message; nothing is handed on for an old roster or more often than allowed |
| `group_receiving` | 3 rosters after the source, messages of 2 senders, one with the highest sequence, junk, 4 mails, a window of 1, an inbox of 2, 2 held rosters | one event per message, below the highest sequence; every event handed over or reported; what the relay drops is durable in a store that opens; losses counted exactly; no applicable roster waits |
| `group_controls` | an authority and one invitee, 2 revisions, 1 invitation with its expiry, 2 live and 1 terminal handoffs, 2 attempts | one roster per revision, admission only after acceptance, no control of an ended invitation leaves, stored state can be read back |
| `inventory` | 2 processes with a task each, 3 idempotency keys, 7 requests, 2 devices, 1 remembered revocation, generations to 3 | refines `InventoryLifecycle`; a retry gets the recorded result; one statement per generation, none signed that is old; revoked bindings stay out |
| `server_life` | both databases, 1 tenant, one name in two spellings and two others, 2 failures that block and 3 that flood, limiters of 2 accounts and of 1 address, 5 wrong passwords, 4 gateway requests from 2 addresses, windows of 1, time to 2, four budgets of activity | exactly the issued, live, unrevoked sessions are valid; guesses bounded, through evictions at the caps; what is left on disk starts a server, and holds what an orderly stop promised |
| `wire_formats` | bytes of 32 values, lengths of 2 to 4 digits, samples of every format at and around its limits; cut or extended at every place, every byte given every value | a reader yields what was written or refuses; never what its encoder would refuse; no format is read as another |

**Why the bounds are enough.** Each is the smallest at which its cases occur: two
writers for a race, two generations beyond the first for a stale fence, a queue that
fills while a user's other device still has room, two slots for a connection that
outlives its successor's handshake, one late request for an effect after its caller
has gone, a third key for a rotation after a dropped one, one account and one address
more than the limiters hold, a flood ceiling above the limit of one account so that the
limit decides, one more send than the outbox keeps, one more event than the inbox keeps, a
roster that arrives before its predecessor, two links for one generation. Between
them the passing runs fire every action. Bounds are guards, or for the coordinator
and the relay the constraint `Bounded`, and have names. Symmetry permutes values that
are only compared for equality (payloads, handles, slots, processes with their tasks);
the directory's keys are numbered in the order they are made instead. In `group_controls` one operation ends before another coordinator starts one
(`OneOperationAtATime`): a coordinator sees the others only through its mail, which
it reads between operations. Deadlock checking is off where a bounded model stops
because its inputs are used up.

Two questions share a run where they ask the same of two parts: `rollback` chooses
the store or the sealed client initially, `directory` chooses who shares an address,
`server_life` which activity there is.

**Fairness** (`connection_live` only). Weak fairness on the server's and the reader's
steps, because the runtime polls every task that is ready; on the steps of the call,
because the application keeps calling `receive`; and on dialling, because a network
that stays up in the end admits a connection. Faults, cancellations and sends get
none. The run assumes what the counterexamples below show to be needed: senders that
live to hand on the wake-up, registration before the next dial, no reconnect on a
live stream, and a backlog that fits a frame.

## Where the code does not do what a sentence says

These came up while modelling. The steps are in the models, so the passing runs
include them or name the assumption that excludes them; none is a run of its own. To
see the counterexample, change the run's cfg as in the last column.

| sentence | what the code does | how to see it |
|---|---|---|
| "that live registration must not be evicted by the stale one's exit" (transport `lib.rs:496`) | a reconnect that the client abandons takes the registration over and removes it as it ends | `MCConnectionLive.cfg` with `SPECIFICATION Spec`, `EagerReconnects = TRUE`, `INVARIANT LiveRegistrationKept` |
| "that client is notified so it can fetch without polling" (transport `lib.rs:4`) | the response is written before `notify`; if that write fails nobody is woken | `MCConnectionLive.cfg` with `MaxMail = 1`, no faults or cancels, `SenderFails = TRUE`, `PROPERTY WaitingClientIsNotified` |
| frames "all sit far below" the limit (transport `lib.rs:228`) | a queue of more than one frame is polled for ever and never acknowledged | `MCConnectionLive.cfg` with `FrameCap = 1`, no faults or cancels |
| "failing here would lose them" (client `lib.rs:4737`) | a failed acknowledgement returns before the decrypted batch does | `MCConnection.cfg` with `MaxCancels = 0`, `INVARIANT DecryptedIsReturned` |
| "hands to exactly one peer" (transport `directory.rs:484`) | a restored client deposits again a prekey that was dispensed and not yet used | `MCDirectory.cfg` with `Clients = {c1}`, `Scenarios <- Restored`, `INVARIANT HandedToOnePeer` |
| "the acceptance is recorded whichever attempt it was" (client `group_operations.rs:1564`) | the reservation of a last attempt may compact its own send away; the acceptance is then refused as unknown | `MCGroupSending.cfg` with `MAX_LIVE_LOGICAL_SENDS = 2`, `PROPERTY AcceptanceIsRecorded` |
| every event is handed over or reported lost (decisions 0131, 0144, 0148) | a caller that receives before it attaches passes events it was neither handed nor told of | `MCGroupReceiving.cfg` with `ReceivesUnattached = TRUE`, `DEDUP_WINDOW = 2`, `MAX_DEFERRED = 1`, `MAX_DEFERRED_ROSTERS = 1`, `Items <- MCFewItems` |
| "Once the relay has accepted it, that acceptance is recorded too (0135)" (client `group_operations.rs:952`) | the reservation of a control's last attempt may reclaim its own record (`group_control_outbox.rs:171`); `accept` then fails and the recipient is reported as pending | `MCGroupControls.cfg` with `INVARIANT AcceptanceIsRecorded` |
| "Persist on the way out regardless of why we stopped" (server `lib.rs:564`) | a failed periodic save returns at line 549, before that save; what changed since the last one is lost | `PersistFails` of `ServerLife` with `Gone(IF stage = "up" THEN AllThere ELSE NothingKept)`: `RestartKeeps` fails |
| "An exact duplicate creates no second inbox item" (decision 0096:19) | the window saturates at `u64::MAX` (`receive.rs:460`, `477`), which is a valid sequence: once it is accepted no entry of its sender and revision is kept, and a message received again is a new event | `MCGroupReceiving.cfg` with `INVARIANT OneEventEach` |

One more limit is the code's own word: decision 0148 (lines 78-81) and `docs/claims.md`
say that the directory and account connections are not cancel-safe, unlike the relay's.
For the directory the model has it, and `ConnectedIsBound` exempts a client that dropped
a call and kept the connection: such a client may read the answer of a dropped rotation
as that of a refused one, adopt the refused key and lose its address. `MCDirectory.cfg`
with `INVARIANT AdoptedIsBound` shows it. That the other clients keep their addresses,
and everything else the run checks, holds with dropped calls.

## Proofs

All theorems hold for any value of the constants the assumptions allow.

*Relay* (`RelayProofs`; any users, devices, limits and ceilings). `StoreInv` says that
every queue, and every queue in the snapshot and in the file, is backed by its log:
what is resident is the log past `base`. `PendingIsTheRest` alone is not inductive,
since a restart replaces queues by what is on disk. From it follow `NoLossNoReplay`
and, with a step-by-step correspondence of actions, `RelayImplementsDeliveryLog`.

*Coordinator* (`CoordinatorInvariant`, `CoordinatorProofs`; any number of handles).
`GenerationsStayInRange` is for `BackupSpec`, where older stores are put back.
`CoordinatorInv` adds four parts: the store's history is a chain of extensions
(`HistoryInv`); a handle that can still commit and has observed the current generation
holds the current state (`HandleInv`); positions on the wire are covered by the
durable state (`WireInv`); so is everything acknowledged or handed over (`MailInv`).
The fence makes it inductive: a commit goes through only if the store still holds what
the handle observed, so what it publishes extends it. One lemma per action; from it
`NoRatchetReuse`, `NothingAcknowledgedIsLost`, `GenerationsNameSnapshots`,
`DirectAtMostOnce` and `PublicationsExtend`, for `Spec`, in which no older store is
put back.

*Inventory* (`InventoryProofs`; any tasks, processes, keys, requests and limits).
`IInv` says that the row obeys the rules and remembers or has aged every revocation
(`RowInv`); each recorded result is an inventory the row has held, one per generation
(`RecordInv`); a task between its lock and its commit is the only one, its key is not
recorded, what it read is the row and what it will write follows from the row by the
rules (`TasksInv`); a serving process has the key of the file (`IssuerInv`); every
statement is a recorded result under it (`SignedInv`). It is inductive because the
lock spans the whole transaction, so nobody else changes the row or records the key in
between, and a call whose answer was lost finds its record. It gives
`StatementsAgree`, `SignedIsCurrent`, `RevocationsAreKept`, `RetriesAreAnswered` and
`Refinement`, the step-by-step implementation of `InventoryLifecycle`.

*Sealed client* (`SealedProofs`; any bounds). `SealedNeverReused` is about the message
in hand; the invariant must speak of the files too. `FilesSound` says that a file
whose counter is the store's knows every position given to the relay and the one in
hand; `Private` that a session of a client without a store is in no file;
`Numbered` that nothing is ahead of the counters. `SealedNeverReuses` follows.

Model-checked only: liveness (`AllFetched`), which is out of the prover's reach; the
byte accounting of the relay, which needs induction over a sum; the formats, whose
reader and writer are recursive; the coordinator with a store put back;
`RelayConnection`, `DirectoryService`, the group modules, `ServerLife`.

## Not modelled, and abstractions to know about

- Cryptography. Keys, bundles and ciphertexts are values and a ratchet is a counter.
- TLS, HTTP, WebSocket, URLs and dialling; the bindings, the command line and the demo
  programs. They hold no state of the protocol.
- The multi-device user log of `tacenta-state`, which no running component uses.
- The bytes of the directory's, the relay's and the accounts' snapshot files, of an
  inventory statement and of the issuer key file. The files' contents are values in
  `Relay`, `DirectoryService` and `ServerLife`.
- The client's half of the account connection, which is not cancel-safe either: a
  dropped call leaves its answer for the next. `ServerLife` has the server's half.
- Counters of 64 bits other than the sequences of group messages do not overflow in the
  models: event ids, generations and delivery cursors count this device's own steps,
  where a sequence is chosen by its sender.
- A roster control that the queue of held controls refuses because it is full: what is
  held before a coordinator has a view may fill it with controls far ahead, and a nearer
  one must then be sent again. `NothingApplicableWaits` is about what is held.
- Lengths are scaled: a byte has 32 values, an integer two to four digits. The limits
  of the formats are scaled with them and keep their relations.
- A server crash in `DirectoryService` is there (`ServerCrashes`), but the passing run
  restarts from a file just written: a crash loses the directory back to its last
  snapshot, as the server's documentation says, and prekeys are then dispensed again.
- Two or more handles together with a store put back: the fence compares generations,
  and a store that went back and forward again can show one that was observed before.
  `rollback` has one handle.
- Two clients on one secure store, and a secure store whose counter goes back.
- After a rollback verdict of the directory the client keeps the generation of its
  file, so later checkpoints may drop further sessions until it has caught up with the
  anchor. That is safe, and `SealedClient` has it.
- Hazards without a property, with the reason: see the notes in `PROJECT.json`.
