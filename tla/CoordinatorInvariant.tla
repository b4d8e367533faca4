------------------------ MODULE CoordinatorInvariant ------------------------
(***************************************************************************)
(* Why the coordinators of one operation store never reuse a ratchet       *)
(* position, lose an acknowledged message or show one twice, for any       *)
(* number of handles, while the store itself does not go back.             *)
(*                                                                         *)
(* The argument: a coordinator that may still publish holds a snapshot the *)
(* store has held, of the generation it observed.  Generations identify    *)
(* snapshots, so when the store's generation is the observed one, what the *)
(* coordinator holds is what the store holds, and its candidate extends it. *)
(*                                                                         *)
(* Before it: what the operators of the store handle return, and the type  *)
(* correctness of the coordinators, whatever the store does.               *)
(***************************************************************************)
EXTENDS Coordinator, TLAPS

-----------------------------------------------------------------------------
\* The store handle

\* DurableStore::adopt: the handle observes what it recovered, and its
\* high-water mark does not go down.
LEMMA AdoptFacts ==
    ASSUME NEW s \in Stores, NEW g \in Generations \union {None}
    PROVE  /\ Adopt(s, g) \in Stores
           /\ Adopt(s, g).observed = g
           /\ Adopt(s, g).high_water >= s.high_water
           /\ Adopt(s, g).high_water >= g
  BY GenerationAssumption DEF Adopt, Stores, Larger, Generations, None

\* DurableStore::commit: whatever comes of it, the attempt raises the high-water
\* mark, and only a committed one is observed.
LEMMA AfterCommitFacts ==
    ASSUME NEW s \in Stores, NEW g \in Generations, NEW c \in BOOLEAN
    PROVE  /\ AfterCommit(s, g, c) \in Stores
           /\ AfterCommit(s, g, c).observed = IF c THEN g ELSE s.observed
           /\ AfterCommit(s, g, c).high_water >= s.high_water
           /\ AfterCommit(s, g, c).high_water >= g
  BY GenerationAssumption DEF AfterCommit, Latched, Stores, Larger, Generations, None

\* A new handle has seen nothing; a latched one is otherwise unchanged.
LEMMA HandleFacts ==
    /\ NewStore \in Stores /\ NewStore.observed = None /\ NewStore.high_water = 0
    /\ \A s \in Stores :
          /\ Latched(s) \in Stores
          /\ Latched(s).observed = s.observed
          /\ Latched(s).high_water = s.high_water
  BY GenerationAssumption DEF NewStore, Latched, Stores, Generations, None

\* begin_candidate's generation is above everything the handle attempted or
\* observed, and a generation when it is not exhausted.
LEMMA CandidateFacts ==
    ASSUME TypeOK, NEW h \in Handles, NEW state \in States
    PROVE  LET c == Candidate(h, state) IN
           /\ c.state = state
           /\ c.generation \in Nat
           /\ c.generation > store[h].high_water
           /\ c.generation <= MAX_GENERATION =>
                 c \in Snapshots /\ c.generation \in Generations
<1>1. store[h] \in Stores /\ snapshot[h] \in Snapshots
  BY DEF TypeOK
<1> QED BY <1>1, GenerationAssumption
  DEF Candidate, NextGeneration, Larger, Stores, Snapshots, Generations, None

-----------------------------------------------------------------------------
\* Types

\* A new coordinator's and an empty store's values are of their types.
LEMMA StartFacts ==
    /\ Fresh \in States /\ EmptyStore \in Snapshots
    /\ NoFetch \in [from : Nat, to : Nat, done : Nat]
  BY GenerationAssumption DEF Fresh, EmptyStore, NoFetch, States, Snapshots, Generations, None

\* A commit leaves the store, the handle and the histories in their types.
LEMMA CommitType ==
    ASSUME TypeOK, NEW h \in Handles, NEW state \in States, NEW outcome \in Outcomes,
           Commit(h, Candidate(h, state), outcome)
    PROVE  /\ durable' \in Snapshots
           /\ store' \in [Handles -> Stores]
           /\ published' \subseteq Snapshots
           /\ attempts' \in [Handles -> SUBSET Snapshots]
           /\ outcome # "exhausted" => Candidate(h, state) \in Snapshots
<1> DEFINE c == Candidate(h, state)
<1>1. CASE outcome = "exhausted"
  BY <1>1 DEF Commit, TypeOK
<1>2. CASE outcome # "exhausted"
  <2>0. c.generation \in Nat /\ ~(c.generation > MAX_GENERATION)
    BY <1>2, CandidateFacts DEF Commit
  <2>1. c \in Snapshots /\ c.generation \in Generations
    BY <2>0, CandidateFacts, GenerationAssumption
  <2>2. AfterCommit(store[h], c.generation, outcome = "committed") \in Stores
    BY Zenon, <2>1, AfterCommitFacts DEF TypeOK
  <2>3. /\ store' = [store EXCEPT ![h] = AfterCommit(store[h], c.generation, outcome = "committed")]
        /\ attempts' = [attempts EXCEPT ![h] = attempts[h] \union {c}]
        /\ \/ durable' = durable /\ published' = published
           \/ durable' = c /\ published' = published \union {c}
    BY <1>2 DEF Commit
  <2> HIDE DEF c
  <2>4. QED BY <2>1, <2>2, <2>3 DEF TypeOK, c
<1> QED BY <1>1, <1>2

\* Nothing has been opened, sent, received or published.
LEMMA TypeInit == Init => TypeOK
<1> SUFFICES ASSUME Init PROVE TypeOK
  OBVIOUS
<1>1. NewStore \in Stores
  BY HandleFacts
<1>2. /\ durable \in Snapshots /\ backup \in Snapshots
      /\ snapshot \in [Handles -> Snapshots]
      /\ mem \in [Handles -> States]
      /\ fetched \in [Handles -> [from : Nat, to : Nat, done : Nat]]
  BY StartFacts DEF Init
<1>3. store \in [Handles -> Stores]
  BY <1>1 DEF Init
<1>4. /\ poisoned \in [Handles -> BOOLEAN]
      /\ phase \in [Handles -> Phases]
      /\ pos \in [Handles -> Nat]
      /\ direct \in [Handles -> SUBSET Nat]
      /\ mail \in Nat /\ acked \in Nat
      /\ wire \subseteq Nat /\ handed \subseteq Nat
      /\ published \subseteq Snapshots
      /\ attempts \in [Handles -> SUBSET Snapshots]
      /\ vouched \in BOOLEAN
  BY Zenon DEF Init, Phases
<1> QED BY <1>2, <1>3, <1>4 DEF TypeOK

\* Every operation keeps every variable in its type, and so does a backup.
LEMMA TypeNext == TypeOK /\ [BackupNext]_vars => TypeOK'
<1> SUFFICES ASSUME TypeOK, [BackupNext]_vars PROVE TypeOK'
  OBVIOUS
<1> USE DEF storeVars, handleVars, relayVars
<1>1. ASSUME NEW h \in Handles, Connect(h) PROVE TypeOK'
  <2>1. durable.state \in States
    BY DEF TypeOK, Snapshots
  <2> QED BY <1>1, <2>1 DEF Connect, TypeOK, Phases
<1>2. ASSUME NEW h \in Handles, Open(h) PROVE TypeOK'
  <2>1. Adopt(NewStore, durable.generation) \in Stores
    BY AdoptFacts, HandleFacts DEF TypeOK, Snapshots
  <2> QED BY <1>2, <2>1 DEF Open, TypeOK, Phases, WentBack
<1>3. ASSUME NEW h \in Handles, NEW outcome \in Outcomes, OpenEmpty(h, outcome) PROVE TypeOK'
  <2> DEFINE first == [generation |-> NextGeneration(NewStore, 0), state |-> mem[h]]
  <2>1. first \in Snapshots /\ first.generation \in Generations
    BY <1>3, GenerationAssumption
    DEF OpenEmpty, TypeOK, Snapshots, Generations, NextGeneration, NewStore, Larger
  <2>2. AfterCommit(NewStore, first.generation, outcome = "committed") \in Stores
    BY Zenon, <2>1, AfterCommitFacts, HandleFacts
  <2>3. /\ store' = [store EXCEPT ![h] =
               AfterCommit(NewStore, first.generation, outcome = "committed")]
        /\ attempts' = [attempts EXCEPT ![h] = {first}]
        /\ \/ durable' = durable /\ published' = published
           \/ durable' = first /\ published' = published \union {first}
        /\ snapshot' = [snapshot EXCEPT ![h] = first]
        /\ phase' = [phase EXCEPT ![h] = IF outcome = "committed" THEN "idle" ELSE "refused"]
        /\ vouched' = (vouched \/ WentBack)
        /\ UNCHANGED <<backup, mem, poisoned, pos, fetched, direct, relayVars>>
    BY <1>3 DEF OpenEmpty
  <2> HIDE DEF first
  <2> QED BY <2>1, <2>2, <2>3 DEF TypeOK, Phases, WentBack
<1>4. ASSUME NEW h \in Handles, Crash(h) PROVE TypeOK'
  BY <1>4, StartFacts, HandleFacts DEF Crash, TypeOK, Phases
<1>5. ASSUME NEW h \in Handles, PrepareSend(h) PROVE TypeOK'
  BY <1>5 DEF PrepareSend, TypeOK, Phases, Advanced, States
<1>6. ASSUME NEW h \in Handles, PrepareSendFails(h) PROVE TypeOK'
  BY <1>6 DEF PrepareSendFails, TypeOK, Advanced, States
<1>7. ASSUME NEW h \in Handles, AbandonSend(h) PROVE TypeOK'
  BY <1>7 DEF AbandonSend, TypeOK, Phases
<1>8. ASSUME NEW h \in Handles, NEW outcome \in Outcomes, CommitSend(h, outcome) PROVE TypeOK'
  <2>1. mem[h] \in States /\ Commit(h, Candidate(h, mem[h]), outcome)
    BY <1>8 DEF CommitSend, TypeOK
  <2> HIDE DEF storeVars, handleVars, relayVars
  <2>2. /\ durable' \in Snapshots
        /\ store' \in [Handles -> Stores]
        /\ published' \subseteq Snapshots
        /\ attempts' \in [Handles -> SUBSET Snapshots]
        /\ outcome # "exhausted" => Candidate(h, mem[h]) \in Snapshots
    BY <2>1, CommitType
  <2>3. /\ snapshot' \in [Handles -> Snapshots]
        /\ phase' \in [Handles -> Phases]
        /\ poisoned' \in [Handles -> BOOLEAN]
        /\ pos' \in [Handles -> Nat]
    <3>1. CASE outcome = "committed"
      <4>1. Candidate(h, mem[h]) \in Snapshots
        BY <2>2, <3>1
      <4>2. snapshot' = [snapshot EXCEPT ![h] = Candidate(h, mem[h])]
        BY <1>8, <3>1 DEF CommitSend
      <4>3. snapshot' \in [Handles -> Snapshots]
        BY <4>1, <4>2 DEF TypeOK
      <4> QED BY Zenon, <1>8, <4>3, <3>1 DEF CommitSend, TypeOK, Phases
    <3>2. CASE outcome # "committed"
      BY <1>8, <2>2, <3>2 DEF CommitSend, TypeOK, Phases
    <3> QED BY <3>1, <3>2
  <2> QED BY <1>8, <2>2, <2>3 DEF CommitSend, TypeOK, relayVars
<1>9. ASSUME NEW h \in Handles, NEW arrives \in BOOLEAN, Dispatch(h, arrives) PROVE TypeOK'
  BY Zenon, <1>9 DEF Dispatch, TypeOK, Phases
<1>10. CASE Arrive
  BY <1>10 DEF Arrive, TypeOK
<1>11. ASSUME NEW h \in Handles, Fetch(h) PROVE TypeOK'
  <2>1. [from |-> acked, done |-> 0,
         to |-> IF mail - acked > MAX_RECEIVE_ITEMS THEN acked + MAX_RECEIVE_ITEMS ELSE mail]
           \in [from : Nat, to : Nat, done : Nat]
    BY CoordinatorAssumption DEF TypeOK
  <2> QED BY <1>11, <2>1 DEF Fetch, TypeOK, Phases
<1>12. ASSUME NEW h \in Handles, StageDropped(h) PROVE TypeOK'
  BY <1>12 DEF StageDropped, Counted, TypeOK
<1>13. ASSUME NEW h \in Handles, NEW outcome \in Outcomes, Stage(h, outcome) PROVE TypeOK'
  <2> DEFINE after == [sent |-> mem[h].sent, taken |-> mem[h].taken \union {Item(h)}]
  <2>1. Item(h) \in Nat /\ after \in States
    BY DEF Item, TypeOK, States
  <2>2. Commit(h, Candidate(h, after), outcome)
    BY <1>13 DEF Stage
  <2> HIDE DEF after, storeVars, handleVars, relayVars
  <2>3. /\ durable' \in Snapshots
        /\ store' \in [Handles -> Stores]
        /\ published' \subseteq Snapshots
        /\ attempts' \in [Handles -> SUBSET Snapshots]
        /\ outcome # "exhausted" => Candidate(h, after) \in Snapshots
    BY <2>1, <2>2, CommitType
  <2>4. /\ mem' = [mem EXCEPT ![h] = after]
        /\ IF outcome = "committed"
           THEN /\ snapshot' = [snapshot EXCEPT ![h] = Candidate(h, after)]
                /\ fetched' = Counted(h)
                /\ direct' = [direct EXCEPT ![h] = direct[h] \union {Item(h)}]
                /\ UNCHANGED poisoned
           ELSE /\ poisoned' = [poisoned EXCEPT ![h] = TRUE]
                /\ UNCHANGED <<snapshot, fetched, direct>>
        /\ UNCHANGED <<backup, vouched, phase, pos, mail, acked, wire, handed>>
    BY <1>13 DEF Stage, after, relayVars
  <2>5. Counted(h) \in [Handles -> [from : Nat, to : Nat, done : Nat]]
    BY DEF Counted, TypeOK
  <2>6. /\ snapshot' \in [Handles -> Snapshots]
        /\ mem' \in [Handles -> States]
        /\ fetched' \in [Handles -> [from : Nat, to : Nat, done : Nat]]
        /\ direct' \in [Handles -> SUBSET Nat]
        /\ poisoned' \in [Handles -> BOOLEAN]
    <3>1. CASE outcome = "committed"
      <4>1. Candidate(h, after) \in Snapshots
        BY <2>3, <3>1
      <4>2. snapshot' = [snapshot EXCEPT ![h] = Candidate(h, after)]
        BY <2>4, <3>1
      <4>3. snapshot' \in [Handles -> Snapshots]
        BY <4>1, <4>2 DEF TypeOK
      <4> QED BY <2>1, <2>4, <2>5, <4>3, <3>1 DEF TypeOK
    <3>2. CASE outcome # "committed"
      BY Zenon, <2>1, <2>4, <3>2 DEF TypeOK
    <3> QED BY <3>1, <3>2
  <2> QED BY <2>3, <2>4, <2>6 DEF TypeOK
<1>14. ASSUME NEW h \in Handles, NEW reached \in BOOLEAN, NEW answered \in BOOLEAN,
              Finish(h, reached, answered)
       PROVE  TypeOK'
  <2>1. fetched[h].from + fetched[h].done \in Nat
    BY DEF TypeOK
  <2> QED BY Zenon, <1>14, <2>1, StartFacts DEF Finish, TypeOK, Phases
<1>15. ASSUME NEW h \in Handles, RecoverFails(h) PROVE TypeOK'
  <2>1. Latched(store[h]) \in Stores /\ Adopt(store[h], durable.generation) \in Stores
    BY AdoptFacts, HandleFacts DEF TypeOK, Snapshots
  <2> QED BY <1>15, <2>1 DEF RecoverFails, TypeOK
<1>16. ASSUME NEW h \in Handles, Recover(h) PROVE TypeOK'
  <2>1. Adopt(store[h], durable.generation) \in Stores /\ durable.state \in States
    BY AdoptFacts, HandleFacts DEF TypeOK, Snapshots
  <2> QED BY <1>16, <2>1 DEF Recover, TypeOK
<1>17. CASE TakeBackup \/ RestoreBackup
  BY Zenon, <1>17 DEF TakeBackup, RestoreBackup, TypeOK
<1>18. CASE UNCHANGED vars
  BY <1>18 DEF vars, TypeOK
<1> QED
  BY <1>1, <1>2, <1>3, <1>4, <1>5, <1>6, <1>7, <1>8, <1>9, <1>10, <1>11, <1>12, <1>13,
     <1>14, <1>15, <1>16, <1>17, <1>18
  DEF BackupNext, Next

\* Type correctness of the coordinators: in particular no generation ever leaves
\* the integer's range (begin_candidate's checked addition), also when older stores
\* are put back.
THEOREM GenerationsStayInRange == BackupSpec => []TypeOK
<1> QED BY TypeInit, TypeNext, PTL DEF BackupSpec

-----------------------------------------------------------------------------
\* The inductive invariant

\* The store: its history grows one snapshot, one generation and one extension
\* at a time.
HistoryInv ==
    /\ vouched = FALSE
    /\ durable.generation = None => durable.state = Fresh
    /\ durable.generation # None => durable \in published
    /\ \A p \in published :
          /\ p.generation # None
          /\ p.generation <= durable.generation
          /\ Extends(p.state, durable.state)
    /\ \A p, q \in published : p.generation = q.generation => p = q

\* A coordinator whose next commit may be forwarded.
Clean(h) ==
    /\ phase[h] \in {"idle", "prepared", "dispatching", "staging"}
    /\ ~poisoned[h] \/ phase[h] = "prepared"

\* A handle has observed and attempted nothing beyond its marks.
Fenced(h) ==
    /\ store[h].observed <= durable.generation
    /\ store[h].observed <= store[h].high_water
    /\ \A p \in attempts[h] : p.generation <= store[h].high_water
    /\ \A p, q \in attempts[h] : p.generation = q.generation => p = q

\* A clean coordinator's memory continues the snapshot it observed.
Continues(h) ==
    /\ snapshot[h] \in published
    /\ snapshot[h].generation = store[h].observed
    /\ snapshot[h].state.sent <= mem[h].sent
    /\ snapshot[h].state.taken = mem[h].taken

Prepared(h) ==
    /\ poisoned[h]
    /\ pos[h] = mem[h].sent /\ snapshot[h].state.sent < mem[h].sent

Sound(h) ==
    /\ Fenced(h)
    /\ Clean(h) => Continues(h)
    /\ phase[h] = "prepared" => Prepared(h)

HandleInv == \A h \in Handles : Sound(h)

\* What left the coordinators is covered by the durable state.
WireInv ==
    /\ \A n \in wire : n <= durable.state.sent
    /\ \A h \in Dispatching : pos[h] <= durable.state.sent /\ pos[h] \notin wire
    /\ \A g, h \in Dispatching : g # h => pos[g] # pos[h]

MailInv ==
    /\ AcknowledgedIsDurable
    /\ handed \subseteq durable.state.taken
    /\ \A h \in Handles :
          /\ fetched[h].from <= acked
          /\ (fetched[h].from + 1)..(fetched[h].from + fetched[h].done)
                \subseteq durable.state.taken
          /\ direct[h] \subseteq durable.state.taken
          /\ direct[h] \cap handed = {}
    /\ \A g, h \in Handles : g # h => direct[g] \cap direct[h] = {}

CoordinatorInv == TypeOK /\ HistoryInv /\ HandleInv /\ WireInv /\ MailInv

-----------------------------------------------------------------------------
\* Publications

\* The step publishes c, which comes after what the store held.
Published(c) ==
    /\ durable' = c /\ published' = published \union {c}
    /\ c \in Snapshots
    /\ c.generation # None /\ c.generation > durable.generation
    /\ Extends(durable.state, c.state)

\* A publication that extends what it replaces keeps the history in order.
LEMMA PublishedKeepsHistory ==
    ASSUME TypeOK, HistoryInv, NEW c, Published(c), vouched' = vouched
    PROVE  /\ HistoryInv'
           /\ Extends(durable.state, durable'.state)
           /\ durable.generation <= durable'.generation
<1>1. durable \in Snapshots /\ published \subseteq Snapshots
  BY DEF TypeOK
<1>2. \A p \in published :
         /\ p.generation \in Nat /\ p.state \in States
         /\ p.generation < c.generation
         /\ Extends(p.state, c.state)
  BY <1>1 DEF HistoryInv, Published, Snapshots, States, Generations, None, Extends
<1>3. Extends(c.state, c.state)
  BY DEF Published, Snapshots, States, Extends
<1>4. c.generation \in Nat /\ c.generation <= c.generation
  BY DEF Published, Snapshots, Generations, None
<1>5. \A p \in published' : p \in published \/ p = c
  BY DEF Published
<1>6. durable' = c /\ c \in published' /\ c.generation # None
  BY DEF Published
<1>7. \A p \in published' :
         /\ p.generation # None
         /\ p.generation <= durable'.generation
         /\ Extends(p.state, durable'.state)
  <2> SUFFICES ASSUME NEW p \in published'
               PROVE  /\ p.generation # None
                      /\ p.generation <= c.generation
                      /\ Extends(p.state, c.state)
    BY <1>6
  <2>1. CASE p = c
    BY <2>1, <1>3, <1>4, <1>6
  <2>2. CASE p \in published
    BY <2>2, <1>2, <1>4 DEF HistoryInv
  <2> QED BY <2>1, <2>2, <1>5
<1>8. \A p, q \in published' : p.generation = q.generation => p = q
  BY <1>2, <1>4, <1>5 DEF HistoryInv
<1>9. HistoryInv'
  BY <1>6, <1>7, <1>8 DEF HistoryInv
<1>10. Extends(durable.state, durable'.state) /\ durable.generation <= durable'.generation
  BY <1>1, <1>4, <1>6 DEF Published, Snapshots, Generations, None
<1> QED BY <1>9, <1>10

\* A clean coordinator whose observed generation is the store's holds what the
\* store holds: this is what the compare in commit_after buys.
LEMMA FenceMeansCurrent ==
    ASSUME TypeOK, HistoryInv, HandleInv, NEW h \in Handles, Clean(h), MayPublish(h)
    PROVE  snapshot[h] = durable
<1>1. snapshot[h] \in published /\ snapshot[h].generation = durable.generation
  BY DEF HandleInv, Sound, Continues, MayPublish
<1>2. durable \in published
  BY <1>1 DEF HistoryInv
<1> QED BY <1>1, <1>2 DEF HistoryInv

\* A commit by a clean coordinator of a state that continues its snapshot either
\* leaves the store alone or publishes an extension; it is fenced afterwards.
LEMMA CommitFacts ==
    ASSUME TypeOK, HistoryInv, HandleInv, NEW h \in Handles, Clean(h),
           NEW state \in States, Extends(snapshot[h].state, state),
           NEW outcome \in Outcomes, Commit(h, Candidate(h, state), outcome)
    PROVE  /\ \/ durable' = durable /\ published' = published /\ outcome # "committed"
              \/ Published(Candidate(h, state)) /\ snapshot[h] = durable
           /\ outcome = "committed" => store'[h].observed = Candidate(h, state).generation
           /\ \A g \in Handles : Fenced(g)'
           /\ \A g \in Handles : g # h => store'[g] = store[g]
<1> DEFINE c == Candidate(h, state)
<1>t. /\ store[h] \in Stores /\ store \in [Handles -> Stores]
      /\ attempts \in [Handles -> SUBSET Snapshots] /\ durable \in Snapshots
  BY DEF TypeOK
<1>1. c.state = state /\ c.generation \in Nat /\ c.generation > store[h].high_water
  BY CandidateFacts
<1>2. CASE outcome = "exhausted"
  BY <1>2 DEF Commit, Fenced, HandleInv, Sound
<1>3. CASE outcome # "exhausted"
  <2>1. c \in Snapshots /\ c.generation \in Generations
    <3>1. ~(c.generation > MAX_GENERATION)
      BY <1>3 DEF Commit
    <3> QED BY <3>1, <1>1, CandidateFacts, GenerationAssumption
  <2> DEFINE s == AfterCommit(store[h], c.generation, outcome = "committed")
  <2>2. /\ store' = [store EXCEPT ![h] = s]
        /\ attempts' = [attempts EXCEPT ![h] = attempts[h] \union {c}]
        /\ outcome = "lost" => durable' = durable /\ published' = published
        /\ outcome # "lost" => durable' = c /\ published' = published \union {c}
    BY <1>3 DEF Commit
  <2>3. /\ s \in Stores
        /\ s.observed = IF outcome = "committed" THEN c.generation ELSE store[h].observed
        /\ s.high_water >= store[h].high_water /\ s.high_water >= c.generation
    BY Zenon, <2>1, <1>t, AfterCommitFacts
  <2>4. outcome # "lost" => Published(c) /\ snapshot[h] = durable
    <3> SUFFICES ASSUME outcome # "lost" PROVE Published(c) /\ snapshot[h] = durable
      OBVIOUS
    <3>1. MayPublish(h)
      BY <1>3 DEF Commit, Outcomes
    <3>2. snapshot[h] = durable
      BY <3>1, FenceMeansCurrent
    <3>3. store[h].observed \in Int /\ store[h].high_water \in Nat
      BY <1>t DEF Stores, Generations, None
    <3>4. durable.generation <= store[h].high_water
      BY <3>1 DEF MayPublish, HandleInv, Sound, Fenced
    <3>5. c.generation > durable.generation
      BY <3>1, <3>3, <3>4, <1>1 DEF MayPublish
    <3>6. c.generation # None
      BY <1>1 DEF None
    <3>7. Extends(durable.state, c.state)
      BY <3>2, <1>1
    <3> HIDE DEF c
    <3> QED BY <2>1, <2>2, <3>2, <3>5, <3>6, <3>7 DEF Published
  <2>5. durable.generation \in Int /\ durable'.generation \in Int
        /\ durable.generation <= durable'.generation
    <3>1. CASE outcome = "lost"
      BY <3>1, <2>2, <1>t DEF Snapshots, Generations, None
    <3>2. CASE outcome # "lost"
      BY <3>2, <2>1, <2>2, <2>4, <1>t DEF Published, Snapshots, Generations, None
    <3> QED BY <3>1, <3>2
  <2> HIDE DEF c, s
  <2>6. ASSUME NEW g \in Handles, g # h PROVE Fenced(g)' /\ store'[g] = store[g]
    <3>1. store'[g] = store[g] /\ attempts'[g] = attempts[g]
      BY <2>2, <2>6, <1>t
    <3>2. Fenced(g) /\ store[g].observed \in Int
      BY <1>t DEF HandleInv, Sound, Stores, Generations, None
    <3> QED BY <3>1, <3>2, <2>5 DEF Fenced
  <2>7. Fenced(h)'
    <3>1. store'[h] = s /\ attempts'[h] = attempts[h] \union {c}
      BY <2>2, <1>t
    <3>2. /\ s.observed \in Int /\ s.high_water \in Nat
          /\ store[h].observed \in Int /\ store[h].high_water \in Nat
      BY <2>3, <1>t DEF Stores, Generations, None
    <3>3. Fenced(h)
      BY DEF HandleInv, Sound
    <3>4. s.observed <= durable'.generation
      <4>1. CASE outcome = "committed"
        BY <4>1, <2>2, <2>3, <1>1 DEF c
      <4>2. CASE outcome # "committed"
        BY <4>2, <2>3, <2>5, <3>2, <3>3 DEF Fenced
      <4> QED BY <4>1, <4>2
    <3>5. s.observed <= s.high_water
      BY <2>1, <2>3, <3>2, <3>3 DEF Fenced, Generations
    <3>6. \A p \in attempts[h] : p.generation \in Int /\ p.generation < c.generation
          /\ p.generation <= s.high_water
      BY <1>t, <3>2, <3>3, <1>1, <2>3 DEF Fenced, Snapshots, Generations, None, c
    <3>7. c.generation \in Nat /\ c.generation <= s.high_water
      BY <2>3, <3>2, <1>1 DEF c
    <3> QED BY <3>1, <3>3, <3>4, <3>5, <3>6, <3>7 DEF Fenced
  <2>8. outcome = "committed" => store'[h].observed = c.generation /\ outcome # "lost"
    BY SMTT(30), <2>2, <2>3, <1>t
  <2> QED BY <2>2, <2>4, <2>6, <2>7, <2>8 DEF c
<1> QED BY <1>2, <1>3

-----------------------------------------------------------------------------
\* What a step leaves alone

\* A coordinator that takes no part in a step stays sound when the store's
\* history grows.
LEMMA OthersSound ==
    ASSUME NEW g \in Handles, Sound(g), Fenced(g)', published \subseteq published',
           store'[g] = store[g], snapshot'[g] = snapshot[g], mem'[g] = mem[g],
           poisoned'[g] = poisoned[g], phase'[g] = phase[g], pos'[g] = pos[g]
    PROVE  Sound(g)'
  BY DEF Sound, Clean, Continues, Prepared

\* Positions in use stay covered when the durable state is extended and nothing
\* new is sent.
LEMMA WireKept ==
    ASSUME TypeOK, TypeOK', WireInv, Extends(durable.state, durable'.state), wire' = wire,
           \A h \in Handles : phase'[h] = "dispatching" =>
               phase[h] = "dispatching" /\ pos'[h] = pos[h]
    PROVE  WireInv'
<1>1. /\ durable.state.sent \in Nat /\ durable'.state.sent \in Nat
      /\ durable.state.sent <= durable'.state.sent
      /\ wire \subseteq Nat /\ \A h \in Handles : pos[h] \in Nat
  BY DEF TypeOK, Snapshots, States, Extends
<1>2. \A h \in Dispatching' : h \in Handles /\ h \in Dispatching /\ pos'[h] = pos[h]
  BY DEF Dispatching
<1>3. \A n \in wire' : n <= durable'.state.sent
  BY <1>1 DEF WireInv
<1>4. \A h \in Dispatching' : pos'[h] <= durable'.state.sent /\ pos'[h] \notin wire'
  BY <1>1, <1>2 DEF WireInv
<1>5. \A g, h \in Dispatching' : g # h => pos'[g] # pos'[h]
  BY <1>2 DEF WireInv
<1> QED BY <1>3, <1>4, <1>5 DEF WireInv

\* What was fetched and decrypted stays covered when the durable state is
\* extended and nothing new is.
LEMMA MailKept ==
    ASSUME TypeOK, TypeOK', MailInv, Extends(durable.state, durable'.state),
           acked' = acked, handed' = handed,
           \A h \in Handles : fetched'[h] = fetched[h] \/ fetched'[h] = NoFetch,
           \A h \in Handles : direct'[h] = direct[h] \/ direct'[h] = {}
    PROVE  MailInv'
<1>1. durable.state.taken \subseteq durable'.state.taken
  BY DEF Extends
<1>2. AcknowledgedIsDurable' /\ handed' \subseteq durable'.state.taken
  BY <1>1 DEF MailInv, AcknowledgedIsDurable
<1>3. ASSUME NEW h \in Handles
      PROVE  /\ fetched'[h].from <= acked'
             /\ (fetched'[h].from + 1)..(fetched'[h].from + fetched'[h].done)
                   \subseteq durable'.state.taken
  <2>1. CASE fetched'[h] = fetched[h]
    BY <1>1, <2>1 DEF MailInv
  <2>2. CASE fetched'[h] = NoFetch
    <3>1. fetched'[h].from = 0 /\ fetched'[h].done = 0 /\ acked \in Nat
      BY <2>2 DEF NoFetch, TypeOK
    <3> QED BY <3>1
  <2> QED BY <2>1, <2>2
<1>4. ASSUME NEW h \in Handles
      PROVE  direct'[h] \subseteq durable'.state.taken /\ direct'[h] \cap handed' = {}
  BY <1>1 DEF MailInv
<1>5. ASSUME NEW g \in Handles, NEW h \in Handles, g # h
      PROVE  direct'[g] \cap direct'[h] = {}
  BY <1>5 DEF MailInv
<1> QED BY <1>2, <1>3, <1>4, <1>5 DEF MailInv

-----------------------------------------------------------------------------
\* The invariant

\* Nothing is open, sent, fetched or published.
LEMMA InvInit == Init => CoordinatorInv
<1> SUFFICES ASSUME Init PROVE CoordinatorInv
  OBVIOUS
<1>1. TypeOK
  BY TypeInit
<1>2. HistoryInv
  BY DEF Init, HistoryInv, EmptyStore
<1>3. HandleInv
  BY HandleFacts DEF Init, HandleInv, Sound, Fenced, Clean, EmptyStore, None
<1>4. WireInv
  BY SMTT(30) DEF Init, WireInv, Dispatching
<1>5. MailInv
  BY DEF Init, MailInv, AcknowledgedIsDurable, NoFetch
<1> QED BY <1>1, <1>2, <1>3, <1>4, <1>5 DEF CoordinatorInv

\* The steps of one coordinator that leave the store, the mail and the wire
\* alone keep the invariant if they keep that coordinator sound.
LEMMA LocalStep ==
    ASSUME CoordinatorInv, TypeOK', NEW h \in Handles, Sound(h)',
           UNCHANGED <<durable, published, vouched, acked, handed, wire>>,
           \A g \in Handles : g # h =>
               /\ store'[g] = store[g] /\ snapshot'[g] = snapshot[g] /\ mem'[g] = mem[g]
               /\ poisoned'[g] = poisoned[g] /\ phase'[g] = phase[g] /\ pos'[g] = pos[g]
               /\ attempts'[g] = attempts[g],
           \A g \in Handles : phase'[g] = "dispatching" =>
               phase[g] = "dispatching" /\ pos'[g] = pos[g],
           \A g \in Handles : fetched'[g] = fetched[g] \/ fetched'[g] = NoFetch,
           \A g \in Handles : direct'[g] = direct[g] \/ direct'[g] = {}
    PROVE  CoordinatorInv'
<1> USE DEF CoordinatorInv
<1>1. HistoryInv'
  BY DEF HistoryInv
<1>2. Extends(durable.state, durable'.state)
  BY DEF Extends, TypeOK, Snapshots, States
<1>3. WireInv'
  BY <1>2, WireKept
<1>4. MailInv'
  BY <1>2, MailKept
<1>5. ASSUME NEW g \in Handles, g # h PROVE Sound(g)'
  <2>1. Sound(g) /\ Fenced(g)'
    BY SMTT(30), <1>5 DEF HandleInv, Sound, Fenced
  <2> QED BY SMTT(30), <1>5, <2>1, OthersSound
<1> QED BY <1>1, <1>3, <1>4, <1>5 DEF HandleInv

\* A commit by a clean coordinator keeps the history and the other coordinators
\* sound, and extends the durable state.
LEMMA CommitStep ==
    ASSUME CoordinatorInv, TypeOK', NEW h \in Handles, Clean(h),
           NEW state \in States, Extends(snapshot[h].state, state),
           NEW outcome \in Outcomes, Commit(h, Candidate(h, state), outcome),
           vouched' = vouched,
           \A g \in Handles : g # h =>
               /\ snapshot'[g] = snapshot[g] /\ mem'[g] = mem[g]
               /\ poisoned'[g] = poisoned[g] /\ phase'[g] = phase[g] /\ pos'[g] = pos[g]
    PROVE  /\ HistoryInv'
           /\ Extends(durable.state, durable'.state)
           /\ Fenced(h)'
           /\ \A g \in Handles : g # h => Sound(g)'
           /\ outcome = "committed" =>
                 /\ durable' = Candidate(h, state)
                 /\ durable' \in published'
                 /\ store'[h].observed = durable'.generation
                 /\ snapshot[h] = durable
<1> USE DEF CoordinatorInv
<1> DEFINE c == Candidate(h, state)
<1>1. /\ \/ durable' = durable /\ published' = published /\ outcome # "committed"
         \/ Published(c) /\ snapshot[h] = durable
      /\ outcome = "committed" => store'[h].observed = c.generation
      /\ \A g \in Handles : Fenced(g)'
      /\ \A g \in Handles : g # h => store'[g] = store[g]
  BY SMTT(30), CommitFacts
<1> HIDE DEF c
<1>2. HistoryInv' /\ Extends(durable.state, durable'.state) /\ published \subseteq published'
  <2>1. CASE durable' = durable /\ published' = published
    BY <2>1 DEF HistoryInv, Extends, TypeOK, Snapshots, States
  <2>2. CASE Published(c)
    BY <2>2, PublishedKeepsHistory DEF Published
  <2> QED BY <1>1, <2>1, <2>2
<1>3. ASSUME NEW g \in Handles, g # h PROVE Sound(g)'
  BY <1>1, <1>2, <1>3, OthersSound DEF HandleInv
<1> QED BY <1>1, <1>2, <1>3 DEF Published, c
=============================================================================
