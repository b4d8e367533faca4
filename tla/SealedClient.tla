---------------------------- MODULE SealedClient ----------------------------
(***************************************************************************)
(* A client that keeps its pairwise state in sealed files, and the secure  *)
(* store whose counter tells an old file from the current one              *)
(* (tacenta-client: attach_secure_store, export_state_sealed,              *)
(* connect_with_state_sealed; decision 0078).                              *)
(*                                                                         *)
(* The client has one conversation.  A sending chain is numbered when it   *)
(* is made: a new session makes one, and so does a received message, which *)
(* turns the ratchet under a fresh key.  A position is a chain and how far *)
(* it has been used.  A file once exported may be put back at any time: the *)
(* files are those the behaviour will use again.  One client at a time     *)
(* uses the store.                                                         *)
(***************************************************************************)
EXTENDS Naturals, FiniteSets

CONSTANTS
    MaxCounter,   \* bound: how far the store's counter goes
    MaxChains,    \* bound: sending chains made
    MaxAdvance,   \* bound: positions used of one chain
    MaxFiles      \* bound: sealed files that are used again

VARIABLES
    client,     \* [running, attached, session, generation, seen]
    prepared,   \* the position of the PreparedSend in hand, or NoSession
    counter,    \* the secure store's rollback counter
    files,      \* sealed files exported: [session, generation, counter]
    anchor,     \* the generation the directory has witnessed
    chains,     \* sending chains made so far
    carried     \* history: positions the relay has been given

sealedVars == <<client, prepared, counter, files, anchor, chains, carried>>

\* The rules of the directory's anchor.  No generation witnessed and zero
\* witnessed admit the same generations.
Anchors == INSTANCE Directory WITH DeviceAddr <- {}, None <- 0

NoSession == [chain |-> 0, sent |-> 0]
NewChain(n) == [chain |-> n, sent |-> 0]
Advance(s) == [s EXCEPT !.sent = @ + 1]

NotRunning ==
    [running |-> FALSE, attached |-> FALSE, session |-> NoSession, generation |-> 0, seen |-> 0]

SealedInit ==
    /\ client = NotRunning /\ prepared = NoSession
    /\ counter = 0 /\ files = {} /\ anchor = 0 /\ chains = 0 /\ carried = {}

\* Between two calls: every call that changes the client holds it exclusively.
Resting == client.running /\ prepared = NoSession

-----------------------------------------------------------------------------
(* The secure store. *)

\* connect, connect_with_identity: no session, no store.
Start ==
    /\ ~client.running
    /\ client' = [NotRunning EXCEPT !.running = TRUE]
    /\ UNCHANGED <<prepared, counter, files, anchor, chains, carried>>

\* attach_secure_store.  A second store is refused.
Attach ==
    /\ Resting /\ ~client.attached
    /\ client' = [client EXCEPT !.attached = TRUE, !.seen = counter]
    /\ UNCHANGED <<prepared, counter, files, anchor, chains, carried>>

(* Mutant of Commits: the advance is recorded if it can be. *)
CommitsIfItCan(c, ok, seen) ==
    IF ~client.attached THEN c = counter /\ seen = client.seen /\ ok
    ELSE \/ c = counter + 1 /\ c > client.seen /\ ok /\ seen = c
         \/ c \in {counter, counter + 1} /\ ok /\ seen = client.seen

\* commit_ratchet_advance leaves the counter at c and counter_seen at `seen`,
\* and is ok or not.  A bump that reports an error may have landed.
Commits(c, ok, seen) ==
    IF ~client.attached THEN c = counter /\ seen = client.seen /\ ok
    ELSE \/ c = counter + 1 /\ c > client.seen /\ ok /\ seen = c
         \/ c \in {counter, counter + 1} /\ ~ok /\ seen = client.seen

-----------------------------------------------------------------------------
(* Sending and receiving. *)

\* The session a send uses, established on first contact.
Established == IF client.session # NoSession THEN client.session ELSE NewChain(chains + 1)

\* A session that was not there is an event the generation counts.
Counted == client.generation + IF client.session = NoSession THEN 1 ELSE 0

\* prepare_send_as: the ratchet has advanced before the store is asked, and
\* stays advanced when the store refuses.
PrepareSend ==
    /\ Resting
    /\ chains' = IF client.session = NoSession THEN chains + 1 ELSE chains
    /\ \E c \in {counter, counter + 1}, ok \in BOOLEAN, seen \in {client.seen, counter + 1} :
         /\ Commits(c, ok, seen)
         /\ counter' = c
         /\ client' = [client EXCEPT !.session = Advance(Established),
                                     !.generation = Counted,
                                     !.seen = seen]
         /\ prepared' = IF ok THEN Advance(Established) ELSE NoSession
    /\ UNCHANGED <<files, anchor, carried>>

\* dispatch_prepared_send: given to the relay, once or again after a
\* reconnect, or to nobody.
Dispatch ==
    /\ client.running /\ prepared # NoSession
    /\ carried' \in {carried, carried \cup {prepared}}
    /\ prepared' = NoSession
    /\ UNCHANGED <<client, counter, files, anchor, chains>>

\* poll_batch and open_staged: the messages decrypt whether or not the store
\* records it.
ReceiveMail ==
    /\ Resting
    /\ chains' = chains + 1
    /\ \E c \in {counter, counter + 1}, ok \in BOOLEAN, seen \in {client.seen, counter + 1} :
         /\ Commits(c, ok, seen)
         /\ counter' = c
         /\ client' = [client EXCEPT !.session = NewChain(chains + 1),
                                     !.generation = Counted,
                                     !.seen = seen]
    /\ UNCHANGED <<prepared, files, anchor, carried>>

-----------------------------------------------------------------------------
(* Sealed files. *)

\* export_state_sealed, also between preparing a send and dispatching it.
ExportSealed ==
    /\ client.running /\ client.attached
    /\ Cardinality(files) < MaxFiles
    /\ files' = files \cup {[session    |-> client.session,
                             generation |-> client.generation,
                             counter    |-> counter]}
    /\ UNCHANGED <<client, prepared, counter, anchor, chains, carried>>

\* The process ends, whatever it was doing.
Stop ==
    /\ client.running
    /\ client' = NotRunning /\ prepared' = NoSession
    /\ UNCHANGED <<counter, files, anchor, chains, carried>>

\* open_sealed's verdict on a file.
Stale(f) == f.counter < counter

\* restore_sessions, and discard_sessions for a stale file.
Resumed(f) == IF Stale(f) THEN NoSession ELSE f.session

\* The session kept after the directory has been shown a generation, when it
\* can be reached: checkpoint and discard_sessions.
Witnessed(session, generation, reached) ==
    IF reached /\ Anchors!witness_core(anchor, generation).verdict = "RolledBack"
    THEN NoSession ELSE session

AnchorAfter(generation, reached) ==
    IF reached THEN Anchors!witness_core(anchor, generation).highest ELSE anchor

\* connect_with_state_sealed, sign_in_with_state_sealed.
RestoreSealed(f) ==
    /\ ~client.running
    /\ \E reached \in BOOLEAN :
         /\ client' = [running |-> TRUE, attached |-> TRUE,
                       session |-> Witnessed(Resumed(f), f.generation, reached),
                       generation |-> f.generation, seen |-> counter]
         /\ anchor' = AnchorAfter(f.generation, reached)
    /\ UNCHANGED <<prepared, counter, files, chains, carried>>

\* checkpoint
Checkpoint ==
    /\ Resting
    /\ client' = [client EXCEPT !.session = Witnessed(@, client.generation, TRUE)]
    /\ anchor' = AnchorAfter(client.generation, TRUE)
    /\ UNCHANGED <<prepared, counter, files, chains, carried>>

Within ==
    /\ counter' <= MaxCounter /\ chains' <= MaxChains
    /\ client'.session.sent <= MaxAdvance

SealedNext ==
    \/ Start \/ Attach \/ Dispatch \/ ExportSealed \/ Stop \/ Checkpoint
    \/ (PrepareSend \/ ReceiveMail) /\ Within
    \/ \E f \in files : RestoreSealed(f)

SealedSpec == SealedInit /\ [][SealedNext]_sealedVars

-----------------------------------------------------------------------------
\* A message about to be dispatched is at a position the relay has never been
\* given, whichever sealed file the client was restored from, whatever the
\* store failed to record and wherever the client stopped (prepare_send_as,
\* commit_ratchet_advance, connect_with_state_sealed; decision 0078).
SealedNeverReused == prepared # NoSession => prepared \notin carried
=============================================================================
