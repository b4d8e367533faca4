---------------------------- MODULE SealedProofs ----------------------------
(***************************************************************************)
(* A client restored from sealed files uses no ratchet position twice, for *)
(* any number of files, chains and store failures.                         *)
(*                                                                         *)
(* The invariant says what the counter is for: a file that carries the     *)
(* store's present counter knows every position the relay has been given,  *)
(* the one being sent included.  It holds because a send that the store    *)
(* did not record is never dispatched, and one that it did record leaves   *)
(* every earlier file behind.  A client without a store has a chain that   *)
(* no file holds.                                                          *)
(***************************************************************************)
EXTENDS SealedClient, TLAPS

Positions == [chain : Nat, sent : Nat]

SealedTypeOK ==
    /\ client \in [running : BOOLEAN, attached : BOOLEAN, session : Positions,
                   generation : Nat, seen : Nat]
    /\ prepared \in Positions
    /\ counter \in Nat
    /\ files \subseteq [session : Positions, generation : Nat, counter : Nat]
    /\ chains \in Nat
    /\ carried \subseteq Positions

\* Nothing is ahead of the counters that number it.
Numbered ==
    /\ client.session.chain <= chains
    /\ client.session.chain = 0 => client.session = NoSession
    /\ \A f \in files :
         /\ f.session.chain <= chains /\ f.counter <= counter
         /\ f.session.chain = 0 => f.session = NoSession
    /\ \A p \in carried : 1 <= p.chain /\ p.chain <= chains

\* A session in state s knows every position given to the relay.
Knows(s) == \A p \in carried : p.chain = s.chain => p.sent <= s.sent

ClientSound ==
    /\ Knows(client.session)
    /\ ~client.running => prepared = NoSession
    /\ prepared # NoSession =>
         /\ prepared = client.session
         /\ \A p \in carried : p.chain = prepared.chain => p.sent < prepared.sent

FilesSound ==
    \A f \in files : f.counter = counter =>
        /\ Knows(f.session)
        /\ prepared # NoSession /\ f.session.chain = prepared.chain
             => prepared.sent <= f.session.sent

\* Without a store nothing of the session is in a file.
Private ==
    ~client.attached =>
        \A f \in files : client.session # NoSession => f.session.chain # client.session.chain

\* The inductive invariant.
SealedInv == SealedTypeOK /\ Numbered /\ ClientSound /\ FilesSound /\ Private

-----------------------------------------------------------------------------
\* The initial state satisfies the invariant.
LEMMA SealedInitInv == SealedInit => SealedInv
BY DEF SealedInit, SealedInv, SealedTypeOK, Numbered, ClientSound, FilesSound, Private,
       Knows, Positions, NoSession, NotRunning

\* Starting, attaching and stopping keep the invariant.
LEMMA LifeKeeps == SealedInv /\ (Start \/ Attach \/ Stop) => SealedInv'
<1> SUFFICES ASSUME SealedInv, Start \/ Attach \/ Stop PROVE SealedInv'
  OBVIOUS
<1> USE DEF SealedInv, SealedTypeOK, Numbered, ClientSound, FilesSound, Private,
            Knows, Positions, NoSession, NotRunning
<1>1. CASE Start
  <2>1. client' = [running |-> TRUE, attached |-> FALSE, session |-> NoSession,
                   generation |-> 0, seen |-> 0]
    BY Zenon, <1>1 DEF Start
  <2>2. /\ client'.session.chain = 0 /\ client'.session = NoSession /\ client'.running
        /\ UNCHANGED <<prepared, counter, files, chains, carried>>
        /\ prepared = NoSession
    BY <1>1, <2>1 DEF Start
  <2>3. SealedTypeOK'
    BY <2>1, <2>2
  <2>4. Numbered' /\ ClientSound' /\ Private'
    BY <2>2
  <2>5. FilesSound'
    BY <2>2
  <2> QED BY <2>3, <2>4, <2>5
<1>2. CASE Attach BY Zenon, <1>2 DEF Attach, Resting
<1>3. CASE Stop BY <1>3 DEF Stop
<1> QED BY <1>1, <1>2, <1>3

\* What commit_ratchet_advance may do: a send it lets through with a store
\* attached has moved the counter.
LEMMA CommitFacts ==
    ASSUME SealedTypeOK, NEW c, NEW ok \in BOOLEAN, NEW seen, Commits(c, ok, seen)
    PROVE  /\ c \in Nat /\ seen \in Nat /\ counter <= c
           /\ client.attached /\ ok => c = counter + 1
           /\ ~client.attached => c = counter
BY DEF SealedTypeOK, Commits

\* A chain that is made now is in no file and on no wire.
LEMMA NewChainFacts ==
    ASSUME SealedInv
    PROVE  /\ NewChain(chains + 1) \in Positions
           /\ Knows(NewChain(chains + 1))
           /\ \A f \in files : f.session.chain # chains + 1
           /\ \A p \in carried : p.chain # chains + 1
BY DEF SealedInv, SealedTypeOK, Numbered, Knows, NewChain, Positions

\* Preparing a send keeps the invariant.
LEMMA PrepareKeeps == SealedInv /\ PrepareSend => SealedInv'
<1> SUFFICES ASSUME SealedInv, PrepareSend PROVE SealedInv'
  OBVIOUS
<1> USE DEF SealedInv
<1>1. PICK c \in {counter, counter + 1}, ok \in BOOLEAN, seen \in {client.seen, counter + 1} :
        /\ Commits(c, ok, seen) /\ counter' = c
        /\ client' = [client EXCEPT !.session = Advance(Established),
                                    !.generation = Counted, !.seen = seen]
        /\ prepared' = IF ok THEN Advance(Established) ELSE NoSession
  BY Zenon DEF PrepareSend
<1>2. /\ c \in Nat /\ seen \in Nat /\ counter <= c
      /\ client.attached /\ ok => c = counter + 1
      /\ ~client.attached => c = counter
  BY <1>1, CommitFacts
<1>3. /\ files' = files /\ carried' = carried /\ client.running
      /\ chains' = IF client.session = NoSession THEN chains + 1 ELSE chains
  BY DEF PrepareSend, Resting
<1>4. /\ Established \in Positions /\ Knows(Established)
      /\ 1 <= Established.chain /\ Established.chain <= chains'
      /\ ~client.attached => \A f \in files : f.session.chain # Established.chain
  <2>1. CASE client.session = NoSession
    BY <2>1, <1>3, NewChainFacts DEF Established, NewChain, SealedTypeOK
  <2>2. CASE client.session # NoSession
    BY <2>2, <1>3 DEF Established, ClientSound, Numbered, Private, SealedTypeOK, Positions
  <2> QED BY <2>1, <2>2
<1> DEFINE s == Advance(Established)
<1>5. /\ s \in Positions /\ s.chain = Established.chain /\ s.sent = Established.sent + 1
  BY <1>4 DEF Advance, Positions
<1>6. \A p \in carried : p.chain = s.chain => p.sent < s.sent
  BY <1>4, <1>5 DEF Knows, SealedTypeOK, Positions
<1> HIDE DEF s
<1>7. /\ client'.session = s /\ client'.attached = client.attached
      /\ client'.running = client.running /\ prepared' \in {s, NoSession}
      /\ client' \in [running : BOOLEAN, attached : BOOLEAN, session : Positions,
                      generation : Nat, seen : Nat]
  <2>1. Counted \in Nat
    BY DEF Counted, SealedTypeOK
  <2>2. client' = [client EXCEPT !.session = s, !.generation = Counted, !.seen = seen]
    BY <1>1 DEF s
  <2>3. prepared' \in {s, NoSession}
    BY <1>1 DEF s
  <2> QED BY Zenon, <2>1, <2>2, <2>3, <1>2, <1>5 DEF SealedTypeOK
<1>8. SealedTypeOK' /\ Numbered'
  <2>1. chains' \in Nat /\ chains <= chains' /\ counter' \in Nat /\ counter <= counter'
    BY <1>1, <1>2, <1>3 DEF SealedTypeOK
  <2>2. prepared' \in Positions
    BY <1>5, <1>7 DEF NoSession, Positions
  <2>3. SealedTypeOK'
    BY <2>1, <2>2, <1>3, <1>7 DEF SealedTypeOK
  <2>4. Numbered'
    BY <2>1, <1>3, <1>4, <1>5, <1>7 DEF SealedTypeOK, Numbered, Positions
  <2> QED BY <2>3, <2>4
<1>9. ClientSound'
  BY <1>3, <1>4, <1>5, <1>6, <1>7 DEF ClientSound, Knows, NoSession, Positions, SealedTypeOK
<1>10. FilesSound'
  <2> SUFFICES ASSUME NEW f \in files, f.counter = counter'
               PROVE  /\ Knows(f.session)'
                      /\ prepared' # NoSession /\ f.session.chain = prepared'.chain
                            => prepared'.sent <= f.session.sent
    BY <1>3 DEF FilesSound
  <2>1. counter' = counter
    BY <1>1, <1>2 DEF Numbered, SealedTypeOK
  <2>2. Knows(f.session)'
    BY <2>1, <1>3 DEF FilesSound, Knows
  <2>3. prepared' # NoSession => ok /\ prepared' = s
    BY <1>1 DEF s
  <2>4. prepared' # NoSession => ~client.attached
    BY <2>1, <2>3, <1>1, <1>2 DEF SealedTypeOK
  <2> QED BY <2>2, <2>3, <2>4, <1>4, <1>5
<1>11. Private'
  BY <1>3, <1>4, <1>5, <1>7 DEF Private
<1> QED BY <1>8, <1>9, <1>10, <1>11

\* Dispatching keeps the invariant.
LEMMA DispatchKeeps == SealedInv /\ Dispatch => SealedInv'
<1> SUFFICES ASSUME SealedInv, Dispatch PROVE SealedInv'
  OBVIOUS
<1> USE DEF SealedInv
<1>1. /\ UNCHANGED <<client, counter, files, chains>> /\ prepared' = NoSession
      /\ prepared # NoSession /\ prepared = client.session
      /\ \A p \in carried' : p \in carried \/ p = prepared
  BY DEF Dispatch, ClientSound
<1>2. prepared \in Positions /\ 1 <= prepared.chain /\ prepared.chain <= chains
  BY <1>1 DEF ClientSound, Numbered, SealedTypeOK, Positions
<1>3. SealedTypeOK' /\ Numbered'
  <2>1. SealedTypeOK'
    BY <1>1, <1>2 DEF SealedTypeOK, Positions, NoSession
  <2>2. Numbered'
    BY <1>1, <1>2 DEF Numbered
  <2> QED BY <2>1, <2>2
<1>4. ClientSound'
  BY <1>1, <1>2 DEF ClientSound, Knows, SealedTypeOK, Positions
<1>5. FilesSound'
  BY <1>1 DEF FilesSound, Knows
<1>6. Private'
  BY <1>1 DEF Private
<1> QED BY <1>3, <1>4, <1>5, <1>6

\* Receiving keeps the invariant.
LEMMA ReceiveKeeps == SealedInv /\ ReceiveMail => SealedInv'
<1> SUFFICES ASSUME SealedInv, ReceiveMail PROVE SealedInv'
  OBVIOUS
<1> USE DEF SealedInv
<1>1. PICK c \in {counter, counter + 1}, ok \in BOOLEAN, seen \in {client.seen, counter + 1} :
        /\ Commits(c, ok, seen) /\ counter' = c
        /\ client' = [client EXCEPT !.session = NewChain(chains + 1),
                                    !.generation = Counted, !.seen = seen]
  BY Zenon DEF ReceiveMail
<1>2. c \in Nat /\ seen \in Nat /\ counter <= c
  BY <1>1, CommitFacts
<1>3. /\ files' = files /\ carried' = carried /\ client.running
      /\ chains' = chains + 1 /\ prepared = NoSession /\ prepared' = NoSession
  BY DEF ReceiveMail, Resting
<1> DEFINE s == NewChain(chains + 1)
<1>4. s \in Positions /\ Knows(s) /\ s.chain = chains + 1
      /\ (\A f \in files : f.session.chain # s.chain)
  BY NewChainFacts DEF NewChain
<1> HIDE DEF s
<1>5. /\ client'.session = s /\ client'.attached = client.attached
      /\ client'.running = client.running
      /\ client' \in [running : BOOLEAN, attached : BOOLEAN, session : Positions,
                      generation : Nat, seen : Nat]
  <2>1. Counted \in Nat
    BY DEF Counted, SealedTypeOK
  <2>2. client' = [client EXCEPT !.session = s, !.generation = Counted, !.seen = seen]
    BY <1>1 DEF s
  <2> QED BY Zenon, <2>1, <2>2, <1>2, <1>4 DEF SealedTypeOK
<1>6. SealedTypeOK' /\ Numbered'
  <2>1. SealedTypeOK'
    BY <1>1, <1>2, <1>3, <1>5 DEF SealedTypeOK
  <2>2. Numbered'
    BY <1>1, <1>2, <1>3, <1>4, <1>5 DEF SealedTypeOK, Numbered, Positions
  <2> QED BY <2>1, <2>2
<1>7. ClientSound'
  BY <1>3, <1>4, <1>5 DEF ClientSound, Knows, SealedTypeOK
<1>8. FilesSound'
  BY <1>1, <1>2, <1>3 DEF FilesSound, Knows, Numbered, SealedTypeOK
<1>9. Private'
  BY <1>3, <1>4, <1>5 DEF Private
<1> QED BY <1>6, <1>7, <1>8, <1>9

\* Exporting keeps the invariant.
LEMMA ExportKeeps == SealedInv /\ ExportSealed => SealedInv'
<1> SUFFICES ASSUME SealedInv, ExportSealed PROVE SealedInv'
  OBVIOUS
<1> USE DEF SealedInv
<1> DEFINE new == [session |-> client.session, generation |-> client.generation,
                   counter |-> counter]
<1>1. /\ UNCHANGED <<client, prepared, counter, chains, carried>>
      /\ files' = files \cup {new} /\ client.attached
  BY DEF ExportSealed
<1>2. /\ new \in [session : Positions, generation : Nat, counter : Nat]
      /\ new.session = client.session /\ new.counter = counter
  BY DEF SealedTypeOK
<1> HIDE DEF new
<1>3. SealedTypeOK'
  BY <1>1, <1>2 DEF SealedTypeOK
<1>4. Numbered'
  BY <1>1, <1>2 DEF SealedTypeOK, Numbered
<1>5. ClientSound'
  BY <1>1 DEF ClientSound, Knows
<1>6. FilesSound'
  BY <1>1, <1>2 DEF FilesSound, ClientSound, Knows, SealedTypeOK, Positions
<1>7. Private'
  BY <1>1 DEF Private
<1> QED BY <1>3, <1>4, <1>5, <1>6, <1>7

\* What is left of a session the directory is asked about.
LEMMA WitnessedFacts ==
    ASSUME NEW s, NEW g, NEW reached PROVE Witnessed(s, g, reached) \in {s, NoSession}
BY DEF Witnessed

\* Restoring a sealed file keeps the invariant: a file that is not stale
\* carries the store's counter.
LEMMA RestoreKeeps ==
    ASSUME SealedInv, NEW f \in files, RestoreSealed(f) PROVE SealedInv'
<1> USE DEF SealedInv
<1>1. PICK reached \in BOOLEAN :
        client' = [running |-> TRUE, attached |-> TRUE,
                   session |-> Witnessed(Resumed(f), f.generation, reached),
                   generation |-> f.generation, seen |-> counter]
  BY Zenon DEF RestoreSealed
<1>2. /\ UNCHANGED <<prepared, counter, files, chains, carried>> /\ prepared = NoSession
  BY DEF RestoreSealed, ClientSound
<1> DEFINE s == client'.session
<1>3. s \in {f.session, NoSession} /\ (s # NoSession => ~Stale(f))
  BY <1>1, WitnessedFacts DEF Resumed
<1>4. s \in Positions /\ s.chain <= chains /\ Knows(s) /\ (s.chain = 0 => s = NoSession)
  <2>1. CASE s = NoSession
    BY <2>1 DEF NoSession, Positions, Knows, Numbered, SealedTypeOK
  <2>2. CASE s # NoSession
    <3>1. f.counter = counter /\ s = f.session
      BY <2>2, <1>3 DEF Stale, Numbered, SealedTypeOK
    <3> QED BY <3>1 DEF FilesSound, Numbered, SealedTypeOK
  <2> QED BY <2>1, <2>2
<1> QED BY <1>1, <1>2, <1>4
        DEF SealedTypeOK, Numbered, ClientSound, FilesSound, Private, Knows

\* A checkpoint keeps the invariant.
LEMMA CheckpointKeeps == SealedInv /\ Checkpoint => SealedInv'
<1> SUFFICES ASSUME SealedInv, Checkpoint PROVE SealedInv'
  OBVIOUS
<1> USE DEF SealedInv
<1>1. /\ client' = [client EXCEPT !.session = Witnessed(@, client.generation, TRUE)]
      /\ UNCHANGED <<prepared, counter, files, chains, carried>>
      /\ prepared = NoSession /\ client.running
  BY DEF Checkpoint, Resting
<1>2. Witnessed(client.session, client.generation, TRUE) \in {client.session, NoSession}
  BY Zenon, WitnessedFacts
<1>3. CASE client' = client
  BY Zenon, <1>1, <1>3 DEF SealedTypeOK, Numbered, ClientSound, FilesSound, Private, Knows
<1>4. CASE client' = [client EXCEPT !.session = NoSession]
  <2>1. NoSession \in Positions /\ NoSession.chain = 0
    BY DEF NoSession, Positions
  <2>2. client'.session = NoSession /\ client'.running /\ client'.attached = client.attached
    BY Zenon, <1>1, <1>4 DEF SealedTypeOK
  <2>3. SealedTypeOK'
    BY Zenon, <2>1, <1>1, <1>4 DEF SealedTypeOK
  <2>4. Numbered' /\ ClientSound'
    BY <2>1, <2>2, <1>1 DEF Numbered, ClientSound, Knows, SealedTypeOK
  <2>5. FilesSound' /\ Private'
    BY <2>1, <2>2, <1>1 DEF FilesSound, Private, Knows
  <2> QED BY <2>3, <2>4, <2>5
<1> QED BY Zenon, <1>1, <1>2, <1>3, <1>4 DEF SealedTypeOK

\* A step that changes nothing keeps the invariant.
LEMMA SealedStutterKeeps == SealedInv /\ UNCHANGED sealedVars => SealedInv'
BY DEF SealedInv, SealedTypeOK, Numbered, ClientSound, FilesSound, Private, Knows, sealedVars

-----------------------------------------------------------------------------
\* The inductive invariant holds throughout.
THEOREM SealedInvariance == SealedSpec => []SealedInv
<1>1. SealedInv /\ [SealedNext]_sealedVars => SealedInv'
  <2> SUFFICES ASSUME SealedInv, [SealedNext]_sealedVars PROVE SealedInv'
    OBVIOUS
  <2>1. CASE Start \/ Attach \/ Stop BY <2>1, LifeKeeps
  <2>2. CASE PrepareSend BY <2>2, PrepareKeeps
  <2>3. CASE ReceiveMail BY <2>3, ReceiveKeeps
  <2>4. CASE Dispatch BY <2>4, DispatchKeeps
  <2>5. CASE ExportSealed BY <2>5, ExportKeeps
  <2>6. CASE Checkpoint BY <2>6, CheckpointKeeps
  <2>7. CASE \E f \in files : RestoreSealed(f) BY <2>7, RestoreKeeps
  <2>8. CASE UNCHANGED sealedVars BY <2>8, SealedStutterKeeps
  <2> QED BY <2>1, <2>2, <2>3, <2>4, <2>5, <2>6, <2>7, <2>8 DEF SealedNext
<1> QED BY <1>1, SealedInitInv, PTL DEF SealedSpec

\* No position is given to the relay for two messages, whichever sealed file
\* is restored and whatever the secure store fails to record
\* (commit_ratchet_advance before the dispatch; decision 0078).
THEOREM SealedNeverReuses == SealedSpec => []SealedNeverReused
<1>1. SealedInv => SealedNeverReused
  BY DEF SealedInv, ClientSound, SealedNeverReused, SealedTypeOK, Positions
<1> QED BY <1>1, SealedInvariance, PTL
=============================================================================
