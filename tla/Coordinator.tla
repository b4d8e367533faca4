---------------------------- MODULE Coordinator ----------------------------
(***************************************************************************)
(* Group coordinators over one operation store: GroupClient's open,        *)
(* send_direct, receive and recover (crates/tacenta-client, group_client). *)
(*                                                                         *)
(* Each handle is a process that may hold a coordinator.  One writer per   *)
(* store is what the product asks for; several handles are what the fence  *)
(* is there for.  A coordinator's pairwise state is how far its sending    *)
(* ratchet has advanced and which inbound ciphertexts it has consumed: the *)
(* keys behind a smaller `sent` or a smaller `taken` are gone.             *)
(***************************************************************************)
EXTENDS DurableStore, FiniteSets

CONSTANTS
    Handles,              \* the processes that may open the store
    MAX_RECEIVE_ITEMS     \* relay items one `receive` processes

ASSUME CoordinatorAssumption == MAX_RECEIVE_ITEMS \in Nat \ {0}

VARIABLES
    durable,     \* the snapshot the store holds: [generation, state]
    backup,      \* a copy of the store made earlier
    store,       \* store[h]: the DurableStore of h
    snapshot,    \* snapshot[h]: GroupClient.snapshot
    mem,         \* mem[h]: the client's pairwise state in memory
    poisoned,    \* poisoned[h]: GroupClient.poisoned
    phase,       \* phase[h]: where h is in the call it is serving
    pos,         \* pos[h]: ratchet position of the ciphertext being sent
    fetched,     \* fetched[h]: [from, to, done] of the receive under way
    direct,      \* direct[h]: the messages of Inbound.direct so far
    mail,        \* messages the relay has queued for the device
    acked,       \* messages acknowledged to the relay
    wire,        \* history: ratchet positions the relay has been given
    handed,      \* history: messages returned to a caller
    published,   \* history: snapshots the store has held
    attempts,    \* history: attempts[h], snapshots h asked to publish
    vouched      \* history: a coordinator was opened over an older store

storeVars == <<durable, backup, published, vouched>>
handleVars == <<store, snapshot, mem, poisoned, phase, pos, fetched, direct, attempts>>
relayVars == <<mail, acked, wire, handed>>
vars == <<storeVars, handleVars, relayVars>>

\* The pairwise state of a client that has not sent or received.
Fresh == [sent |-> 0, taken |-> {}]
EmptyStore == [generation |-> None, state |-> Fresh]
NoFetch == [from |-> 0, to |-> 0, done |-> 0]

\* GroupClient::is_frozen
IsFrozen(h) == poisoned[h] \/ store[h].frozen

Idle(h) == phase[h] = "idle" /\ ~IsFrozen(h)

Init ==
    /\ durable = EmptyStore /\ backup = EmptyStore
    /\ store = [h \in Handles |-> NewStore]
    /\ snapshot = [h \in Handles |-> EmptyStore]
    /\ mem = [h \in Handles |-> Fresh]
    /\ poisoned = [h \in Handles |-> FALSE]
    /\ phase = [h \in Handles |-> "closed"]
    /\ pos = [h \in Handles |-> 0]
    /\ fetched = [h \in Handles |-> NoFetch]
    /\ direct = [h \in Handles |-> {}]
    /\ mail = 0 /\ acked = 0 /\ wire = {} /\ handed = {}
    /\ published = {} /\ attempts = [h \in Handles |-> {}]
    /\ vouched = FALSE

-----------------------------------------------------------------------------
\* Commits

\* begin_candidate: the snapshot in memory with a new state and generation.
Candidate(h, state) ==
    [generation |-> NextGeneration(store[h], snapshot[h].generation), state |-> state]

\* Mutant of MayPublish: writes whatever the store holds.
PublishesRegardless(h) == TRUE

\* FileOperationStore::commit_after, the check under the lock: the store still
\* holds the generation this handle last observed.
MayPublish(h) == durable.generation = store[h].observed

\* What a commit may come to.  `lost` and `landed` are a write reported failed
\* or unknown, absent from the store or present in it; a check that fails, or a
\* store that cannot be read, is `lost`.  `exhausted`: no next generation, and
\* nothing is forwarded.
Outcomes == {"committed", "landed", "lost", "exhausted"}

\* A commit through the handle: begin_candidate's generation check,
\* DurableStore::commit, and the store's compare-and-publish.
Commit(h, candidate, outcome) ==
    /\ outcome = "exhausted" <=> candidate.generation > MAX_GENERATION
    /\ outcome \in {"committed", "landed"} => MayPublish(h)
    /\ IF outcome = "exhausted"
       THEN UNCHANGED <<durable, store, published, attempts>>
       ELSE /\ store' = [store EXCEPT ![h] =
                  AfterCommit(store[h], candidate.generation, outcome = "committed")]
            /\ attempts' = [attempts EXCEPT ![h] = attempts[h] \union {candidate}]
            /\ IF outcome = "lost"
               THEN UNCHANGED <<durable, published>>
               ELSE durable' = candidate /\ published' = published \union {candidate}

-----------------------------------------------------------------------------
\* Opening, and losing the process

\* A client is connected from recovered_provider_state, or as a new one when
\* the store holds nothing.
Connect(h) ==
    /\ phase[h] = "closed"
    /\ phase' = [phase EXCEPT ![h] = "connected"]
    /\ mem' = [mem EXCEPT ![h] = durable.state]
    /\ UNCHANGED <<storeVars, store, snapshot, poisoned, pos, fetched, direct, attempts,
                   relayVars>>

\* The store has held a newer snapshot than the one it holds now.
WentBack == \E p \in published : p.generation > durable.generation

\* GroupClient::open over a store that holds the client's own state.
Open(h) ==
    /\ phase[h] = "connected"
    /\ durable.generation # None /\ mem[h] = durable.state
    /\ store' = [store EXCEPT ![h] = Adopt(NewStore, durable.generation)]
    /\ snapshot' = [snapshot EXCEPT ![h] = durable]
    /\ phase' = [phase EXCEPT ![h] = "idle"]
    /\ attempts' = [attempts EXCEPT ![h] = {}]
    /\ vouched' = (vouched \/ WentBack)
    /\ UNCHANGED <<durable, backup, published, mem, poisoned, pos, fetched, direct, relayVars>>

\* GroupClient::open over an empty store: the first snapshot is committed here,
\* from a snapshot in memory of generation zero.
OpenEmpty(h, outcome) ==
    LET first == [generation |-> NextGeneration(NewStore, 0), state |-> mem[h]] IN
    /\ phase[h] = "connected" /\ durable.generation = None
    /\ first.generation <= MAX_GENERATION /\ outcome # "exhausted"
    /\ store' = [store EXCEPT ![h] =
           AfterCommit(NewStore, first.generation, outcome = "committed")]
    /\ attempts' = [attempts EXCEPT ![h] = {first}]
    /\ IF outcome = "lost"
       THEN UNCHANGED <<durable, published>>
       ELSE durable' = first /\ published' = published \union {first}
    /\ snapshot' = [snapshot EXCEPT ![h] = first]
    /\ phase' = [phase EXCEPT ![h] = IF outcome = "committed" THEN "idle" ELSE "refused"]
    /\ vouched' = (vouched \/ WentBack)
    /\ UNCHANGED <<backup, mem, poisoned, pos, fetched, direct, relayVars>>

\* The process ends, at any moment: everything in memory is gone.  An `open`
\* that returns an error (another state, an unreadable store, a first commit in
\* doubt) keeps nothing either.
Crash(h) ==
    /\ phase[h] # "closed"
    /\ phase' = [phase EXCEPT ![h] = "closed"]
    /\ store' = [store EXCEPT ![h] = NewStore]
    /\ snapshot' = [snapshot EXCEPT ![h] = EmptyStore]
    /\ mem' = [mem EXCEPT ![h] = Fresh]
    /\ poisoned' = [poisoned EXCEPT ![h] = FALSE]
    /\ pos' = [pos EXCEPT ![h] = 0]
    /\ fetched' = [fetched EXCEPT ![h] = NoFetch]
    /\ direct' = [direct EXCEPT ![h] = {}]
    /\ attempts' = [attempts EXCEPT ![h] = {}]
    /\ UNCHANGED <<storeVars, relayVars>>

-----------------------------------------------------------------------------
\* send_direct

Advanced(state) == [sent |-> state.sent + 1, taken |-> state.taken]

\* prepare_send_as, then `poisoned = true`: the ratchet advanced in memory.
PrepareSend(h) ==
    /\ Idle(h)
    /\ mem' = [mem EXCEPT ![h] = Advanced(mem[h])]
    /\ pos' = [pos EXCEPT ![h] = mem[h].sent + 1]
    /\ poisoned' = [poisoned EXCEPT ![h] = TRUE]
    /\ phase' = [phase EXCEPT ![h] = "prepared"]
    /\ UNCHANGED <<storeVars, store, snapshot, fetched, direct, attempts, relayVars>>

\* prepare_send_as fails in commit_ratchet_advance, after it encrypted: the
\* ciphertext is dropped and the coordinator goes on.
PrepareSendFails(h) ==
    /\ Idle(h)
    /\ mem' = [mem EXCEPT ![h] = Advanced(mem[h])]
    /\ UNCHANGED <<storeVars, store, snapshot, poisoned, phase, pos, fetched, direct, attempts,
                   relayVars>>

\* The future is dropped, or the state cannot be exported, before the commit.
AbandonSend(h) ==
    /\ phase[h] = "prepared"
    /\ phase' = [phase EXCEPT ![h] = "idle"]
    /\ pos' = [pos EXCEPT ![h] = 0]
    /\ UNCHANGED <<storeVars, store, snapshot, mem, poisoned, fetched, direct, attempts,
                   relayVars>>

\* Mutant of CommitSend: the ciphertext goes out whatever the commit came to.
SendsUncommitted(h, outcome) ==
    LET candidate == Candidate(h, mem[h]) IN
    /\ phase[h] = "prepared"
    /\ Commit(h, candidate, outcome)
    /\ phase' = [phase EXCEPT ![h] = "dispatching"]
    /\ snapshot' = [snapshot EXCEPT ![h] = candidate]
    /\ poisoned' = [poisoned EXCEPT ![h] = FALSE]
    /\ UNCHANGED <<backup, vouched, mem, pos, fetched, direct, relayVars>>

\* commit_provider_state: only a committed state lifts the poison.
CommitSend(h, outcome) ==
    LET candidate == Candidate(h, mem[h]) IN
    /\ phase[h] = "prepared"
    /\ Commit(h, candidate, outcome)
    /\ IF outcome = "committed"
       THEN /\ phase' = [phase EXCEPT ![h] = "dispatching"]
            /\ snapshot' = [snapshot EXCEPT ![h] = candidate]
            /\ poisoned' = [poisoned EXCEPT ![h] = FALSE]
            /\ UNCHANGED pos
       ELSE /\ phase' = [phase EXCEPT ![h] = "idle"]
            /\ pos' = [pos EXCEPT ![h] = 0]
            /\ UNCHANGED <<snapshot, poisoned>>
    /\ UNCHANGED <<backup, vouched, mem, fetched, direct, relayVars>>

\* dispatch_prepared_send, its retry of the same bytes included: the relay is
\* given the ciphertext or not, whatever the caller is told.
Dispatch(h, arrives) ==
    /\ phase[h] = "dispatching"
    /\ wire' = IF arrives THEN wire \union {pos[h]} ELSE wire
    /\ phase' = [phase EXCEPT ![h] = "idle"]
    /\ pos' = [pos EXCEPT ![h] = 0]
    /\ UNCHANGED <<storeVars, store, snapshot, mem, poisoned, fetched, direct, attempts,
                   mail, acked, handed>>

-----------------------------------------------------------------------------
\* receive

\* The relay accepts another message for this device.
Arrive ==
    /\ mail' = mail + 1
    /\ UNCHANGED <<storeVars, handleVars, acked, wire, handed>>

\* fetch_staged: everything unacknowledged, of which the first
\* MAX_RECEIVE_ITEMS are processed.
Fetch(h) ==
    /\ Idle(h) /\ acked < mail
    /\ fetched' = [fetched EXCEPT ![h] =
           [from |-> acked, done |-> 0,
            to |-> IF mail - acked > MAX_RECEIVE_ITEMS THEN acked + MAX_RECEIVE_ITEMS ELSE mail]]
    /\ phase' = [phase EXCEPT ![h] = "staging"]
    /\ UNCHANGED <<storeVars, store, snapshot, mem, poisoned, pos, direct, attempts, relayVars>>

Item(h) == fetched[h].from + fetched[h].done + 1

Staging(h) ==
    /\ phase[h] = "staging" /\ ~poisoned[h]
    /\ fetched[h].from + fetched[h].done < fetched[h].to

Counted(h) == [fetched EXCEPT ![h] =
    [from |-> fetched[h].from, to |-> fetched[h].to, done |-> fetched[h].done + 1]]

\* stage of a ciphertext whose key was consumed before: the provider refuses it,
\* nothing changes, and it counts as processed.
StageDropped(h) ==
    /\ Staging(h) /\ Item(h) \in mem[h].taken
    /\ fetched' = Counted(h)
    /\ UNCHANGED <<storeVars, store, snapshot, mem, poisoned, phase, pos, direct, attempts,
                   relayVars>>

\* Mutant of Stage: an item counts as processed before its commit succeeds.
CountsUncommitted(h, outcome) ==
    LET after == [sent |-> mem[h].sent, taken |-> mem[h].taken \union {Item(h)}]
        candidate == Candidate(h, after)
    IN
    /\ Staging(h) /\ Item(h) \notin mem[h].taken
    /\ mem' = [mem EXCEPT ![h] = after]
    /\ Commit(h, candidate, outcome)
    /\ fetched' = Counted(h)
    /\ IF outcome = "committed"
       THEN /\ snapshot' = [snapshot EXCEPT ![h] = candidate]
            /\ direct' = [direct EXCEPT ![h] = direct[h] \union {Item(h)}]
            /\ UNCHANGED poisoned
       ELSE /\ poisoned' = [poisoned EXCEPT ![h] = TRUE]
            /\ UNCHANGED <<snapshot, direct>>
    /\ UNCHANGED <<backup, vouched, phase, pos, relayVars>>

\* Mutant of Stage: a message is shown although its commit is in doubt.
ShowsUncommitted(h, outcome) ==
    LET after == [sent |-> mem[h].sent, taken |-> mem[h].taken \union {Item(h)}]
        candidate == Candidate(h, after)
    IN
    /\ Staging(h) /\ Item(h) \notin mem[h].taken
    /\ mem' = [mem EXCEPT ![h] = after]
    /\ Commit(h, candidate, outcome)
    /\ direct' = [direct EXCEPT ![h] = direct[h] \union {Item(h)}]
    /\ IF outcome = "committed"
       THEN /\ snapshot' = [snapshot EXCEPT ![h] = candidate]
            /\ fetched' = Counted(h)
            /\ UNCHANGED poisoned
       ELSE /\ poisoned' = [poisoned EXCEPT ![h] = TRUE]
            /\ UNCHANGED <<snapshot, fetched>>
    /\ UNCHANGED <<backup, vouched, phase, pos, relayVars>>

\* stage of a ciphertext that decrypts: open_staged consumes its key, and
\* commit_item publishes the state that did before the message counts.  Nothing
\* yields between the two.
Stage(h, outcome) ==
    LET after == [sent |-> mem[h].sent, taken |-> mem[h].taken \union {Item(h)}]
        candidate == Candidate(h, after)
    IN
    /\ Staging(h) /\ Item(h) \notin mem[h].taken
    /\ mem' = [mem EXCEPT ![h] = after]
    /\ Commit(h, candidate, outcome)
    /\ IF outcome = "committed"
       THEN /\ snapshot' = [snapshot EXCEPT ![h] = candidate]
            /\ fetched' = Counted(h)
            /\ direct' = [direct EXCEPT ![h] = direct[h] \union {Item(h)}]
            /\ UNCHANGED poisoned
       ELSE /\ poisoned' = [poisoned EXCEPT ![h] = TRUE]
            /\ UNCHANGED <<snapshot, fetched, direct>>
    /\ UNCHANGED <<backup, vouched, phase, pos, relayVars>>

\* The end of receive: the processed prefix is acknowledged, and only then are
\* its messages returned.  `reached`: the relay took the acknowledgement.
\* `answered`: the client learned that it did; otherwise the call is an error
\* (or a dropped future), and what it decrypted is not returned.
Finish(h, reached, answered) ==
    LET up_to == fetched[h].from + fetched[h].done
        accepted == reached /\ acked < up_to
    IN
    /\ phase[h] = "staging"
    /\ poisoned[h] \/ up_to = fetched[h].to
    /\ answered => accepted \/ fetched[h].done = 0
    /\ acked' = IF accepted THEN up_to ELSE acked
    /\ handed' = IF answered THEN handed \union direct[h] ELSE handed
    /\ phase' = [phase EXCEPT ![h] = "idle"]
    /\ direct' = [direct EXCEPT ![h] = {}]
    /\ fetched' = [fetched EXCEPT ![h] = NoFetch]
    /\ UNCHANGED <<storeVars, store, snapshot, mem, poisoned, pos, attempts, mail, wire>>

-----------------------------------------------------------------------------
\* recover, and the store going back

\* GroupClient::recover that fails.  Poisoned first, whatever follows; a store
\* that is behind latches the handle, an unreadable one leaves it as it was, and
\* an empty one, or a state that cannot be restored, leaves the latch lifted.
RecoverFails(h) ==
    /\ phase[h] = "idle"
    /\ poisoned' = [poisoned EXCEPT ![h] = TRUE]
    /\ \/ UNCHANGED store
       \/ store' = [store EXCEPT ![h] =
              IF IsBehind(store[h], durable.generation)
              THEN Latched(store[h])
              ELSE Adopt(store[h], durable.generation)]
    /\ UNCHANGED <<storeVars, snapshot, mem, phase, pos, fetched, direct, attempts, relayVars>>

\* GroupClient::recover that succeeds: memory becomes what the store holds.
Recover(h) ==
    /\ phase[h] = "idle"
    /\ durable.generation # None
    /\ ~IsBehind(store[h], durable.generation)
    /\ store' = [store EXCEPT ![h] = Adopt(store[h], durable.generation)]
    /\ mem' = [mem EXCEPT ![h] = durable.state]
    /\ snapshot' = [snapshot EXCEPT ![h] = durable]
    /\ poisoned' = [poisoned EXCEPT ![h] = FALSE]
    /\ UNCHANGED <<storeVars, phase, pos, fetched, direct, attempts, relayVars>>

\* A copy of the store is made, and a copy is put back.
TakeBackup ==
    /\ backup' = durable
    /\ UNCHANGED <<durable, published, vouched, handleVars, relayVars>>

RestoreBackup ==
    /\ durable' = backup
    /\ UNCHANGED <<backup, published, vouched, handleVars, relayVars>>

Next ==
    \/ \E h \in Handles :
          \/ Connect(h) \/ Open(h) \/ Crash(h)
          \/ PrepareSend(h) \/ PrepareSendFails(h) \/ AbandonSend(h)
          \/ Fetch(h) \/ StageDropped(h)
          \/ RecoverFails(h) \/ Recover(h)
          \/ \E outcome \in Outcomes :
                OpenEmpty(h, outcome) \/ CommitSend(h, outcome) \/ Stage(h, outcome)
          \/ \E arrives \in BOOLEAN : Dispatch(h, arrives)
          \/ \E reached, answered \in BOOLEAN : Finish(h, reached, answered)
    \/ Arrive

Spec == Init /\ [][Next]_vars

\* With a store that may be replaced by an older copy.
BackupNext == Next \/ TakeBackup \/ RestoreBackup

BackupSpec == Init /\ [][BackupNext]_vars

-----------------------------------------------------------------------------
\* Properties

Phases == {"closed", "connected", "refused", "idle", "prepared", "dispatching", "staging"}
States == [sent : Nat, taken : SUBSET Nat]
Generations == 0..MAX_GENERATION
Snapshots == [generation : Generations \union {None}, state : States]
Stores == [frozen : BOOLEAN, high_water : Generations,
           observed : Generations \union {None}, committed : Generations \union {None}]

\* Type invariant of the store, the coordinators and the histories; generations
\* never leave the range of their integer type.
TypeOK ==
    /\ durable \in Snapshots /\ backup \in Snapshots
    /\ store \in [Handles -> Stores]
    /\ snapshot \in [Handles -> Snapshots]
    /\ mem \in [Handles -> States]
    /\ poisoned \in [Handles -> BOOLEAN]
    /\ phase \in [Handles -> Phases]
    /\ pos \in [Handles -> Nat]
    /\ fetched \in [Handles -> [from : Nat, to : Nat, done : Nat]]
    /\ direct \in [Handles -> SUBSET Nat]
    /\ mail \in Nat /\ acked \in Nat
    /\ wire \subseteq Nat /\ handed \subseteq Nat
    /\ published \subseteq Snapshots
    /\ attempts \in [Handles -> SUBSET Snapshots]
    /\ vouched \in BOOLEAN

Dispatching == {h \in Handles : phase[h] = "dispatching"}

\* No two different ciphertexts are ever given to the relay at one ratchet
\* position, over crashes, commits in doubt, a second writer and (unless a new
\* coordinator is opened over it) a store put back to an older snapshot: the
\* position about to be used is on no wire and in no other coordinator's hand
\* (group_client send_direct and recover; decisions 0132, 0134, 0143, 0147).
RatchetNeverReused ==
    ~vouched =>
        /\ \A h \in Dispatching : pos[h] \notin wire
        /\ \A g, h \in Dispatching : g # h => pos[g] # pos[h]

\* A message the relay was told to forget is recorded in the durable state: a
\* crash, a freeze or a second writer loses no key that the acknowledgement
\* relied on (receive acknowledges the committed prefix; decision 0131).
AcknowledgedIsDurable == 1..acked \subseteq durable.state.taken

\* Two different snapshots never share a generation, neither in the store nor
\* among what one coordinator asked it to publish (decision 0134; next_generation).
OneSnapshotPerGeneration ==
    /\ \A p, q \in published : p.generation = q.generation => p = q
    /\ \A h \in Handles :
          \A p, q \in attempts[h] : p.generation = q.generation => p = q

\* A direct message is handed to a caller at most once, whichever coordinators
\* fetched it and however often the relay redelivered it (decision 0132), unless
\* a new coordinator is opened over an older store.
DirectOnce ==
    ~vouched => \A h \in Handles :
        /\ direct[h] \cap handed = {}
        /\ \A g \in Handles : g # h => direct[g] \cap direct[h] = {}

Extends(s, t) == s.sent <= t.sent /\ s.taken \subseteq t.taken

\* Every publication extends the one it replaces: no writer undoes what another
\* published (commit_after; decision 0143).
NoLostUpdate ==
    [][durable' # durable => Extends(durable.state, durable'.state)]_vars
=============================================================================
