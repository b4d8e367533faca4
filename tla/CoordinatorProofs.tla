-------------------------- MODULE CoordinatorProofs --------------------------
(***************************************************************************)
(* Every operation of a coordinator keeps the invariant, and what follows  *)
(* from it.                                                                *)
(***************************************************************************)
EXTENDS CoordinatorInvariant

-----------------------------------------------------------------------------
\* One lemma per operation

\* Connect keeps the invariant.
LEMMA ConnectKeeps ==
    ASSUME CoordinatorInv, TypeOK', NEW h \in Handles, Connect(h)
    PROVE  CoordinatorInv'
<1> USE DEF CoordinatorInv, storeVars, handleVars, relayVars
<1>s. \A g \in Handles : Sound(g)
  BY DEF HandleInv
<1>1. Sound(h)'
  BY SMTT(30), <1>s DEF Connect, Sound, Fenced, Clean, TypeOK
<1> QED BY <1>1, LocalStep DEF Connect, TypeOK

\* Open keeps the invariant.
LEMMA OpenKeeps ==
    ASSUME CoordinatorInv, TypeOK', NEW h \in Handles, Open(h)
    PROVE  CoordinatorInv'
<1> USE DEF CoordinatorInv, storeVars, handleVars, relayVars
<1>1. ~WentBack
  <2>1. \A p \in published : p.generation \in Int /\ p.generation <= durable.generation
    BY DEF HistoryInv, TypeOK, Snapshots, Generations, None
  <2>2. durable.generation \in Int
    BY DEF TypeOK, Snapshots, Generations, None
  <2> QED BY <2>1, <2>2 DEF WentBack
<1>2. vouched' = vouched
  BY <1>1 DEF Open, TypeOK
<1>3. durable \in published
  BY DEF Open, HistoryInv
<1> DEFINE s == Adopt(NewStore, durable.generation)
<1>4. s \in Stores /\ s.observed = durable.generation /\ s.high_water >= durable.generation
  BY Zenon, AdoptFacts, HandleFacts DEF TypeOK, Snapshots
<1>5. /\ store'[h] = s /\ attempts'[h] = {} /\ snapshot'[h] = durable
      /\ mem'[h] = durable.state /\ phase'[h] = "idle" /\ durable' = durable
      /\ published' = published
  BY DEF Open, TypeOK
<1> HIDE DEF s
<1>6. /\ s.observed \in Int /\ s.high_water \in Int
      /\ durable.state.sent \in Nat /\ durable.generation \in Int
  BY <1>4 DEF Stores, TypeOK, Snapshots, States, Generations, None
<1>7. Sound(h)'
  BY <1>3, <1>4, <1>5, <1>6 DEF Sound, Fenced, Clean, Continues
<1> QED BY <1>2, <1>7, LocalStep DEF Open, TypeOK

\* OpenEmpty keeps the invariant.
LEMMA OpenEmptyKeeps ==
    ASSUME CoordinatorInv, TypeOK', NEW h \in Handles, NEW outcome \in Outcomes, OpenEmpty(h, outcome)
    PROVE  CoordinatorInv'
<1> USE DEF CoordinatorInv, storeVars, handleVars, relayVars
<1>s. \A g \in Handles : Sound(g)
  BY DEF HandleInv
<1> DEFINE first == [generation |-> NextGeneration(NewStore, 0), state |-> mem[h]]
           s == AfterCommit(NewStore, first.generation, outcome = "committed")
<1>1. first.generation = 1 /\ 1 \in Generations /\ first.state = mem[h] /\ first \in Snapshots
  BY GenerationAssumption
  DEF OpenEmpty, TypeOK, Snapshots, Generations, NextGeneration, NewStore, Larger
<1>2. /\ store' = [store EXCEPT ![h] = s]
      /\ attempts' = [attempts EXCEPT ![h] = {first}]
      /\ outcome = "lost" => durable' = durable /\ published' = published
      /\ outcome # "lost" => durable' = first /\ published' = published \union {first}
      /\ snapshot' = [snapshot EXCEPT ![h] = first]
      /\ phase' = [phase EXCEPT ![h] = IF outcome = "committed" THEN "idle" ELSE "refused"]
      /\ UNCHANGED <<mem, poisoned, pos, fetched, direct, mail, acked, wire, handed>>
      /\ durable.generation = None
  BY DEF OpenEmpty
<1>3. /\ s \in Stores
      /\ s.observed = IF outcome = "committed" THEN 1 ELSE None
      /\ s.high_water >= 1
  BY ZenonT(30), <1>1, AfterCommitFacts, HandleFacts
<1> HIDE DEF first, s
<1>4. vouched' = vouched
  <2>1. \A p \in published : p.generation \in Int /\ p.generation <= durable.generation
    BY DEF HistoryInv, TypeOK, Snapshots, Generations, None
  <2>2. durable.generation \in Int
    BY DEF TypeOK, Snapshots, Generations, None
  <2>3. ~WentBack
    BY <2>1, <2>2 DEF WentBack
  <2> QED BY <2>3 DEF OpenEmpty, TypeOK
<1>5. Extends(durable.state, first.state)
  BY <1>1, <1>2 DEF HistoryInv, Fresh, Extends, TypeOK, States
<1>6. /\ HistoryInv' /\ Extends(durable.state, durable'.state)
      /\ published \subseteq published' /\ durable.generation <= durable'.generation
  <2>1. CASE outcome = "lost"
    BY <2>1, <1>2, <1>4 DEF HistoryInv, Extends, TypeOK, Snapshots, States, Generations, None
  <2>2. CASE outcome # "lost"
    <3>1. Published(first)
      BY <2>2, <1>1, <1>2, <1>5 DEF Published, None
    <3> QED BY <3>1, <1>4, PublishedKeepsHistory DEF Published
  <2> QED BY <2>1, <2>2
<1>7. WireInv'
  BY <1>2, <1>6, WireKept DEF TypeOK
<1>8. MailInv'
  BY <1>2, <1>6, MailKept
<1>9. Sound(h)'
  <2>1. /\ store'[h] = s /\ attempts'[h] = {first} /\ snapshot'[h] = first
        /\ mem'[h] = mem[h]
        /\ phase'[h] = IF outcome = "committed" THEN "idle" ELSE "refused"
    BY <1>2 DEF TypeOK
  <2>2. s.high_water \in Int /\ mem[h].sent \in Nat
    BY <1>3 DEF Stores, TypeOK, States, Generations
  <2>3. durable'.generation = None \/ durable'.generation = 1
    BY <1>1, <1>2
  <2>4. CASE outcome = "committed"
    <3>1. durable' = first /\ first \in published'
      BY <2>4, <1>2
    <3>2. Fenced(h)'
      BY <2>1, <2>2, <2>4, <3>1, <1>1, <1>3 DEF Fenced
    <3>3. Continues(h)'
      BY <2>1, <2>2, <2>4, <3>1, <1>1, <1>3 DEF Continues
    <3> QED BY <2>1, <2>4, <3>2, <3>3 DEF Sound
  <2>5. CASE outcome # "committed"
    <3>1. Fenced(h)'
      BY SMTT(30), <2>1, <2>2, <2>3, <2>5, <1>1, <1>3 DEF Fenced, None
    <3> QED BY <2>1, <2>5, <3>1 DEF Sound, Clean
  <2> QED BY <2>4, <2>5
<1>10. ASSUME NEW g \in Handles, g # h PROVE Sound(g)'
  <2>1. /\ store'[g] = store[g] /\ snapshot'[g] = snapshot[g] /\ mem'[g] = mem[g]
        /\ poisoned'[g] = poisoned[g] /\ phase'[g] = phase[g] /\ pos'[g] = pos[g]
        /\ attempts'[g] = attempts[g]
    BY <1>2, <1>10 DEF TypeOK
  <2>2. /\ store[g].observed \in Int /\ durable.generation \in Int
        /\ durable'.generation \in Int
    BY DEF TypeOK, Stores, Snapshots, Generations, None
  <2>3. Fenced(g)'
    BY SMTT(30), <1>s, <2>1, <2>2, <1>6 DEF Sound, Fenced
  <2> QED BY <1>s, <2>1, <2>3, <1>6, OthersSound
<1> QED BY <1>6, <1>7, <1>8, <1>9, <1>10 DEF HandleInv

\* Crash keeps the invariant.
LEMMA CrashKeeps ==
    ASSUME CoordinatorInv, TypeOK', NEW h \in Handles, Crash(h)
    PROVE  CoordinatorInv'
<1> USE DEF CoordinatorInv, storeVars, handleVars, relayVars
<1>1. Sound(h)'
  <2>1. /\ store'[h] = NewStore /\ attempts'[h] = {} /\ phase'[h] = "closed"
        /\ durable' = durable
    BY DEF Crash, TypeOK
  <2>2. durable.generation \in Int /\ durable.generation >= None
    BY DEF TypeOK, Snapshots, Generations, None
  <2> QED BY <2>1, <2>2, HandleFacts DEF Sound, Fenced, Clean, None
<1> QED BY Zenon, <1>1, LocalStep DEF Crash, TypeOK

\* PrepareSend keeps the invariant.
LEMMA PrepareSendKeeps ==
    ASSUME CoordinatorInv, TypeOK', NEW h \in Handles, PrepareSend(h)
    PROVE  CoordinatorInv'
<1> USE DEF CoordinatorInv, storeVars, handleVars, relayVars
<1>s. \A g \in Handles : Sound(g)
  BY DEF HandleInv
<1>1. Sound(h)'
  <2>1. /\ store'[h] = store[h] /\ attempts'[h] = attempts[h] /\ snapshot'[h] = snapshot[h]
        /\ mem'[h].sent = mem[h].sent + 1 /\ mem'[h].taken = mem[h].taken
        /\ poisoned'[h] = TRUE
        /\ pos'[h] = mem[h].sent + 1 /\ durable' = durable /\ published' = published
    BY DEF PrepareSend, Advanced, TypeOK
  <2>2. Continues(h) /\ Fenced(h)
    BY Zenon, <1>s DEF PrepareSend, Idle, IsFrozen, Sound, Clean
  <2>3. mem[h].sent \in Nat /\ snapshot[h].state.sent \in Nat
    BY SMTT(30) DEF TypeOK, States, Snapshots
  <2> QED BY <2>1, <2>2, <2>3 DEF Sound, Fenced, Continues, Prepared
<1> QED BY Zenon, <1>1, LocalStep DEF PrepareSend, TypeOK

\* PrepareSendFails keeps the invariant.
LEMMA PrepareSendFailsKeeps ==
    ASSUME CoordinatorInv, TypeOK', NEW h \in Handles, PrepareSendFails(h)
    PROVE  CoordinatorInv'
<1> USE DEF CoordinatorInv, storeVars, handleVars, relayVars
<1>s. \A g \in Handles : Sound(g)
  BY DEF HandleInv
<1>1. Sound(h)'
  <2>1. /\ store'[h] = store[h] /\ attempts'[h] = attempts[h] /\ snapshot'[h] = snapshot[h]
        /\ mem'[h].sent = mem[h].sent + 1 /\ mem'[h].taken = mem[h].taken
        /\ durable' = durable /\ published' = published /\ phase'[h] = "idle"
    BY DEF PrepareSendFails, Idle, Advanced, TypeOK
  <2>2. Continues(h) /\ Fenced(h)
    BY ZenonT(30), <1>s DEF PrepareSendFails, Idle, IsFrozen, Sound, Clean
  <2>3. mem[h].sent \in Nat /\ snapshot[h].state.sent \in Nat
    BY DEF TypeOK, States, Snapshots
  <2> QED BY <2>1, <2>2, <2>3 DEF Sound, Fenced, Continues
<1> QED BY SMTT(30), <1>1, LocalStep DEF PrepareSendFails, Idle, TypeOK

\* AbandonSend keeps the invariant.
LEMMA AbandonSendKeeps ==
    ASSUME CoordinatorInv, TypeOK', NEW h \in Handles, AbandonSend(h)
    PROVE  CoordinatorInv'
<1> USE DEF CoordinatorInv, storeVars, handleVars, relayVars
<1>s. \A g \in Handles : Sound(g)
  BY DEF HandleInv
<1>1. Sound(h)'
  BY <1>s DEF AbandonSend, Sound, Fenced, Clean, Continues, TypeOK
<1> QED BY SMTT(30), <1>1, LocalStep DEF AbandonSend, TypeOK

\* CommitSend keeps the invariant.
LEMMA CommitSendKeeps ==
    ASSUME CoordinatorInv, TypeOK', NEW h \in Handles, NEW outcome \in Outcomes, CommitSend(h, outcome)
    PROVE  CoordinatorInv'
<1> USE DEF CoordinatorInv, storeVars, handleVars, relayVars
<1>s. \A g \in Handles : Sound(g)
  BY DEF HandleInv
<1> DEFINE c == Candidate(h, mem[h])
<1>1. /\ mem[h] \in States /\ snapshot[h].state \in States
      /\ Clean(h) /\ Continues(h) /\ Prepared(h) /\ Commit(h, c, outcome)
  BY SMTT(30), <1>s DEF CommitSend, Sound, Clean, TypeOK, Snapshots
<1>2. Extends(snapshot[h].state, mem[h])
  BY <1>1 DEF Continues, Extends
<1>3. c.state = mem[h]
  BY <1>1, CandidateFacts
<1>4. /\ \A g \in Handles : g # h =>
             /\ snapshot'[g] = snapshot[g] /\ mem'[g] = mem[g]
             /\ poisoned'[g] = poisoned[g] /\ phase'[g] = phase[g] /\ pos'[g] = pos[g]
      /\ UNCHANGED <<vouched, mem, fetched, direct, acked, handed, wire>>
      /\ outcome = "committed" =>
            /\ snapshot'[h] = c /\ phase'[h] = "dispatching" /\ pos'[h] = pos[h]
      /\ outcome # "committed" => phase'[h] = "idle" /\ poisoned'[h] = poisoned[h]
  BY DEF CommitSend, TypeOK
<1> HIDE DEF c
<1>5. /\ HistoryInv'
      /\ Extends(durable.state, durable'.state)
      /\ Fenced(h)'
      /\ \A g \in Handles : g # h => Sound(g)'
      /\ outcome = "committed" =>
            /\ durable' = c
            /\ durable' \in published'
            /\ store'[h].observed = durable'.generation
            /\ snapshot[h] = durable
  BY Zenon, <1>1, <1>2, <1>4, CommitStep DEF c
<1>6. MailInv'
  BY Zenon, <1>4, <1>5, MailKept
<1>7. CASE outcome = "committed"
  <2>1. /\ pos[h] = durable'.state.sent /\ durable.state.sent < pos[h]
        /\ durable'.state.sent \in Nat /\ durable.state.sent \in Nat
    BY SMTT(30), <1>1, <1>3, <1>5, <1>7 DEF Prepared, States
  <2>2. Sound(h)'
    <3>1. /\ snapshot'[h] = durable' /\ mem'[h] = durable'.state /\ phase'[h] = "dispatching"
          /\ durable' \in published' /\ store'[h].observed = durable'.generation
      BY <1>3, <1>4, <1>5, <1>7
    <3>2. Continues(h)'
      BY SMTT(30), <3>1, <2>1 DEF Continues
    <3> QED BY <3>1, <3>2, <1>5 DEF Sound
  <2>3. \A n \in wire : n \in Nat /\ n <= durable.state.sent
    BY DEF WireInv, TypeOK
  <2>4. \A g \in Dispatching : pos[g] \in Nat /\ pos[g] <= durable.state.sent
    BY SMTT(30) DEF WireInv, TypeOK, Dispatching
  <2>5. \A g \in Dispatching' : g # h => g \in Dispatching /\ pos'[g] = pos[g]
    BY SMTT(30), <1>4 DEF Dispatching
  <2>6. pos'[h] = pos[h]
    BY <1>4, <1>7
  <2>7. \A n \in wire' : n <= durable'.state.sent
    BY <1>4, <2>1, <2>3
  <2>8. ASSUME NEW g \in Dispatching'
        PROVE  pos'[g] <= durable'.state.sent /\ pos'[g] \notin wire'
    <3>1. CASE g = h
      BY <3>1, <1>4, <2>1, <2>3, <2>6
    <3>2. CASE g # h
      <4>1. g \in Dispatching /\ pos'[g] = pos[g]
        BY <3>2, <2>5
      <4>2. pos[g] <= durable'.state.sent
        BY <4>1, <2>1, <2>4
      <4> QED BY <4>1, <4>2, <1>4 DEF WireInv
    <3> QED BY <3>1, <3>2
  <2>9. ASSUME NEW g \in Dispatching', NEW k \in Dispatching', g # k
        PROVE  pos'[g] # pos'[k]
    <3>1. CASE g # h /\ k # h
      BY <3>1, <2>5, <2>9 DEF WireInv
    <3>2. CASE g = h
      BY <3>2, <2>1, <2>4, <2>5, <2>6, <2>9
    <3>3. CASE k = h
      BY <3>3, <2>1, <2>4, <2>5, <2>6, <2>9
    <3> QED BY <3>1, <3>2, <3>3
  <2>10. WireInv'
    BY <2>7, <2>8, <2>9 DEF WireInv
  <2> QED BY SMTT(30), <1>5, <1>6, <2>2, <2>10 DEF HandleInv
<1>8. CASE outcome # "committed"
  <2>2. poisoned'[h]
    BY Zenon, <1>1, <1>4, <1>8 DEF Prepared
  <2>3. Sound(h)'
    BY SMTT(30), <1>4, <1>5, <1>8, <2>2 DEF Sound, Clean
  <2>4. WireInv'
    BY <1>4, <1>5, <1>8, WireKept
  <2> QED BY <1>5, <1>6, <2>3, <2>4 DEF HandleInv
<1> QED BY <1>7, <1>8

\* Dispatch keeps the invariant.
LEMMA DispatchKeeps ==
    ASSUME CoordinatorInv, TypeOK', NEW h \in Handles, NEW arrives \in BOOLEAN, Dispatch(h, arrives)
    PROVE  CoordinatorInv'
<1> USE DEF CoordinatorInv, storeVars, handleVars, relayVars
<1>s. \A g \in Handles : Sound(g)
  BY DEF HandleInv
<1>1. /\ UNCHANGED <<storeVars, store, snapshot, mem, poisoned, fetched, direct, attempts,
                     acked, handed>>
      /\ phase' = [phase EXCEPT ![h] = "idle"] /\ phase[h] = "dispatching"
      /\ pos' = [pos EXCEPT ![h] = 0]
      /\ wire' = wire \/ wire' = wire \union {pos[h]}
  BY DEF Dispatch
<1>2. HistoryInv'
  BY <1>1 DEF HistoryInv
<1>3. Extends(durable.state, durable'.state)
  BY SMTT(30), <1>1 DEF Extends, TypeOK, Snapshots, States
<1>4. MailInv'
  BY <1>1, <1>3, MailKept
<1>5. HandleInv'
  <2> SUFFICES ASSUME NEW g \in Handles PROVE Sound(g)'
    BY SMTT(30) DEF HandleInv
  <2>1. CASE g = h
    BY SMTT(30), <2>1, <1>1, <1>s DEF Sound, Fenced, Clean, Continues, TypeOK
  <2>2. CASE g # h
    BY SMTT(30), <2>2, <1>1, <1>s DEF Sound, Fenced, Clean, Continues, Prepared, TypeOK
  <2> QED BY <2>1, <2>2
<1>6. WireInv'
  <2>1. h \in Dispatching /\ \A g \in Dispatching' : g # h /\ g \in Dispatching /\ pos'[g] = pos[g]
    BY <1>1 DEF Dispatching, TypeOK
  <2> QED BY <1>1, <2>1 DEF WireInv
<1> QED BY <1>2, <1>4, <1>5, <1>6

\* Arrive keeps the invariant.
LEMMA ArriveKeeps ==
    ASSUME CoordinatorInv, TypeOK', Arrive
    PROVE  CoordinatorInv'
<1> USE DEF CoordinatorInv, storeVars, handleVars, relayVars
<1>1. HistoryInv' /\ HandleInv'
  BY ZenonT(30) DEF Arrive, HistoryInv, HandleInv, Sound, Fenced, Clean, Continues, Prepared
<1>2. WireInv' /\ MailInv'
  BY DEF Arrive, WireInv, MailInv, Dispatching, AcknowledgedIsDurable
<1> QED BY <1>1, <1>2

\* Fetch keeps the invariant.
LEMMA FetchKeeps ==
    ASSUME CoordinatorInv, TypeOK', NEW h \in Handles, Fetch(h)
    PROVE  CoordinatorInv'
<1> USE DEF CoordinatorInv, storeVars, handleVars, relayVars
<1>s. \A g \in Handles : Sound(g)
  BY DEF HandleInv
<1>1. /\ UNCHANGED <<storeVars, store, snapshot, mem, poisoned, pos, direct, attempts,
                     acked, handed, wire>>
      /\ phase' = [phase EXCEPT ![h] = "staging"] /\ phase[h] = "idle"
      /\ fetched'[h].from = acked /\ fetched'[h].done = 0
      /\ \A g \in Handles : g # h => fetched'[g] = fetched[g]
  BY SMTT(30) DEF Fetch, Idle, TypeOK
<1>2. HistoryInv'
  BY <1>1 DEF HistoryInv
<1>3. HandleInv'
  <2> SUFFICES ASSUME NEW g \in Handles PROVE Sound(g)'
    BY SMTT(30) DEF HandleInv
  <2>1. CASE g = h
    BY SMTT(30), <2>1, <1>1, <1>s DEF Sound, Fenced, Clean, Continues, TypeOK
  <2>2. CASE g # h
    BY <2>2, <1>1, <1>s DEF Sound, Fenced, Clean, Continues, Prepared, TypeOK
  <2> QED BY <2>1, <2>2
<1>4. Extends(durable.state, durable'.state)
  BY SMTT(30), <1>1 DEF Extends, TypeOK, Snapshots, States
<1>5. WireInv'
  BY <1>1, <1>4, WireKept DEF TypeOK
<1>6. MailInv'
  <2>1. acked \in Nat
    BY SMTT(30) DEF TypeOK
  <2>2. ASSUME NEW g \in Handles
        PROVE  /\ fetched'[g].from <= acked
               /\ (fetched'[g].from + 1)..(fetched'[g].from + fetched'[g].done)
                     \subseteq durable.state.taken
    <3>1. CASE g = h
      BY <3>1, <1>1, <2>1
    <3>2. CASE g # h
      BY <3>2, <1>1 DEF MailInv
    <3> QED BY <3>1, <3>2
  <2> QED BY Zenon, <1>1, <2>2 DEF MailInv, AcknowledgedIsDurable
<1> QED BY <1>2, <1>3, <1>5, <1>6

\* StageDropped keeps the invariant.
LEMMA StageDroppedKeeps ==
    ASSUME CoordinatorInv, TypeOK', NEW h \in Handles, StageDropped(h)
    PROVE  CoordinatorInv'
<1> USE DEF CoordinatorInv, storeVars, handleVars, relayVars
<1>s. \A g \in Handles : Sound(g)
  BY DEF HandleInv
<1>1. /\ UNCHANGED <<storeVars, store, snapshot, mem, poisoned, phase, pos, direct, attempts,
                     acked, handed, wire>>
      /\ fetched'[h].from = fetched[h].from /\ fetched'[h].done = fetched[h].done + 1
      /\ \A g \in Handles : g # h => fetched'[g] = fetched[g]
      /\ Item(h) \in mem[h].taken /\ Clean(h)
  BY DEF StageDropped, Staging, Counted, Clean, TypeOK
<1>2. HistoryInv' /\ HandleInv' /\ WireInv'
  BY ZenonT(30), <1>1 DEF HistoryInv, HandleInv, Sound, Fenced, Clean, Continues, Prepared, WireInv,
              Dispatching
<1>3. Item(h) \in durable.state.taken
  BY SMTT(30), <1>1, <1>s DEF Sound, Continues, HistoryInv, Extends
<1>4. MailInv'
  <2>1. fetched[h].from \in Nat /\ fetched[h].done \in Nat
    BY SMTT(30) DEF TypeOK
  <2>2. (fetched[h].from + 1)..(fetched[h].from + fetched[h].done) \subseteq durable.state.taken
    BY SMTT(30) DEF MailInv
  <2>3. (fetched'[h].from + 1)..(fetched'[h].from + fetched'[h].done) \subseteq durable.state.taken
    BY SMTT(30), <1>1, <1>3, <2>1, <2>2 DEF Item
  <2>4. ASSUME NEW g \in Handles
        PROVE  /\ fetched'[g].from <= acked
               /\ (fetched'[g].from + 1)..(fetched'[g].from + fetched'[g].done)
                     \subseteq durable.state.taken
    <3>1. CASE g = h
      BY <3>1, <1>1, <2>3 DEF MailInv
    <3>2. CASE g # h
      BY <3>2, <1>1 DEF MailInv
    <3> QED BY <3>1, <3>2
  <2> QED BY <1>1, <2>4 DEF MailInv, AcknowledgedIsDurable
<1> QED BY SMTT(30), <1>2, <1>4

\* Stage keeps the invariant.
LEMMA StageKeeps ==
    ASSUME CoordinatorInv, TypeOK', NEW h \in Handles, NEW outcome \in Outcomes, Stage(h, outcome)
    PROVE  CoordinatorInv'
<1> USE DEF CoordinatorInv, storeVars, handleVars, relayVars
<1>s. \A g \in Handles : Sound(g)
  BY DEF HandleInv
<1> DEFINE after == [sent |-> mem[h].sent, taken |-> mem[h].taken \union {Item(h)}]
           c == Candidate(h, after)
<1>1. /\ Item(h) \in Nat /\ after \in States /\ after.sent = mem[h].sent
      /\ after.taken = mem[h].taken \union {Item(h)}
      /\ mem[h].sent \in Nat
  BY SMTT(30) DEF Item, TypeOK, States
<1>2. /\ Commit(h, c, outcome) /\ Clean(h) /\ Item(h) \notin mem[h].taken
      /\ phase[h] = "staging" /\ mem'[h] = after
      /\ \A g \in Handles : g # h =>
             /\ snapshot'[g] = snapshot[g] /\ mem'[g] = mem[g]
             /\ poisoned'[g] = poisoned[g] /\ phase'[g] = phase[g] /\ pos'[g] = pos[g]
             /\ fetched'[g] = fetched[g] /\ direct'[g] = direct[g]
      /\ UNCHANGED <<vouched, phase, pos, acked, handed, wire>>
      /\ outcome = "committed" =>
            /\ snapshot'[h] = c
            /\ fetched'[h].from = fetched[h].from /\ fetched'[h].done = fetched[h].done + 1
            /\ direct'[h] = direct[h] \union {Item(h)}
      /\ outcome # "committed" =>
            poisoned'[h] = TRUE /\ fetched'[h] = fetched[h] /\ direct'[h] = direct[h]
  BY DEF Stage, Staging, Counted, Clean, TypeOK
<1> HIDE DEF after
<1>3. c.state = after
  BY Zenon, <1>1, CandidateFacts
<1> HIDE DEF c
<1>4. Continues(h)
  BY Zenon, <1>2, <1>s DEF Sound
<1>5. Extends(snapshot[h].state, after)
  BY Zenon, <1>1, <1>4 DEF Continues, Extends
<1>6. /\ HistoryInv'
      /\ Extends(durable.state, durable'.state)
      /\ Fenced(h)'
      /\ \A g \in Handles : g # h => Sound(g)'
      /\ outcome = "committed" =>
            /\ durable' = c
            /\ durable' \in published'
            /\ store'[h].observed = durable'.generation
            /\ snapshot[h] = durable
  BY ZenonT(30), <1>1, <1>2, <1>5, CommitStep DEF c
<1>7. WireInv'
  BY Zenon, <1>2, <1>6, WireKept
<1>8. CASE outcome = "committed"
  <2>1. Sound(h)'
    BY SMTT(30), <1>1, <1>2, <1>3, <1>6, <1>8 DEF Sound, Clean, Continues
  <2>2. /\ durable'.state.taken = durable.state.taken \union {Item(h)}
        /\ Item(h) \notin durable.state.taken
    BY ZenonT(30), <1>1, <1>2, <1>3, <1>4, <1>6, <1>8 DEF Continues
  <2>3. fetched[h].from \in Nat /\ fetched[h].done \in Nat
    BY DEF TypeOK
  <2>4. (fetched[h].from + 1)..(fetched[h].from + fetched[h].done) \subseteq durable.state.taken
    BY SMTT(30) DEF MailInv
  <2>5. /\ (fetched'[h].from + 1)..(fetched'[h].from + fetched'[h].done)
              \subseteq durable'.state.taken
        /\ fetched'[h].from <= acked
    <3>1. fetched'[h].from = fetched[h].from /\ fetched'[h].done = fetched[h].done + 1
      BY Zenon, <1>2, <1>8
    <3>2. fetched[h].from <= acked
      BY DEF MailInv
    <3> QED BY <2>2, <2>3, <2>4, <3>1, <3>2 DEF Item
  <2>6. ASSUME NEW g \in Handles
        PROVE  /\ fetched'[g].from <= acked'
               /\ (fetched'[g].from + 1)..(fetched'[g].from + fetched'[g].done)
                     \subseteq durable'.state.taken
    <3>1. CASE g = h
      BY SMTT(30), <3>1, <1>2, <2>5
    <3>2. CASE g # h
      BY <3>2, <1>2, <2>2 DEF MailInv
    <3> QED BY SMTT(30), <3>1, <3>2
  <2>7. ASSUME NEW g \in Handles
        PROVE  direct'[g] \subseteq durable'.state.taken /\ direct'[g] \cap handed' = {}
    <3>1. CASE g = h
      BY SMTT(30), <3>1, <1>2, <1>8, <2>2 DEF MailInv
    <3>2. CASE g # h
      BY <3>2, <1>2, <2>2 DEF MailInv
    <3> QED BY SMTT(30), <3>1, <3>2
  <2>8. ASSUME NEW g \in Handles, NEW k \in Handles, g # k
        PROVE  direct'[g] \cap direct'[k] = {}
    <3>1. direct[g] \cap direct[k] = {} /\ Item(h) \notin direct[g] /\ Item(h) \notin direct[k]
      BY SMTT(30), <2>2, <2>8 DEF MailInv
    <3>2. /\ direct'[g] = direct[g] \/ (g = h /\ direct'[g] = direct[g] \union {Item(h)})
          /\ direct'[k] = direct[k] \/ (k = h /\ direct'[k] = direct[k] \union {Item(h)})
      BY SMTT(30), <1>2, <1>8
    <3> QED BY <2>8, <3>1, <3>2
  <2>9. AcknowledgedIsDurable' /\ handed' \subseteq durable'.state.taken
    BY SMTT(30), <1>2, <2>2 DEF MailInv, AcknowledgedIsDurable
  <2>10. MailInv'
    BY SMTT(30), <2>6, <2>7, <2>8, <2>9 DEF MailInv
  <2>11. HandleInv'
    BY Zenon, <1>6, <2>1 DEF HandleInv
  <2> QED BY Zenon, <1>6, <1>7, <2>10, <2>11
<1>9. CASE outcome # "committed"
  <2>1. Sound(h)'
    BY SMTT(30), <1>2, <1>6, <1>9 DEF Sound, Clean
  <2>2. MailInv'
    BY Zenon, <1>2, <1>6, <1>9, MailKept
  <2> QED BY <1>6, <1>7, <2>1, <2>2 DEF HandleInv
<1> QED BY <1>8, <1>9

\* Finish keeps the invariant.
LEMMA FinishKeeps ==
    ASSUME CoordinatorInv, TypeOK', NEW h \in Handles, NEW reached \in BOOLEAN, NEW answered \in BOOLEAN, Finish(h, reached, answered)
    PROVE  CoordinatorInv'
<1> USE DEF CoordinatorInv, storeVars, handleVars, relayVars
<1>s. \A g \in Handles : Sound(g)
  BY DEF HandleInv
<1> DEFINE up_to == fetched[h].from + fetched[h].done
<1>1. /\ UNCHANGED <<storeVars, store, snapshot, mem, poisoned, pos, attempts, wire>>
      /\ phase' = [phase EXCEPT ![h] = "idle"] /\ phase[h] = "staging"
      /\ acked' = acked \/ (acked < up_to /\ acked' = up_to)
      /\ handed' = handed \/ handed' = handed \union direct[h]
      /\ direct' = [direct EXCEPT ![h] = {}]
      /\ fetched' = [fetched EXCEPT ![h] = NoFetch]
  BY DEF Finish
<1>2. HistoryInv'
  BY <1>1 DEF HistoryInv
<1>3. HandleInv'
  <2> SUFFICES ASSUME NEW g \in Handles PROVE Sound(g)'
    BY DEF HandleInv
  <2>1. CASE g = h
    BY Zenon, <2>1, <1>1, <1>s DEF Sound, Fenced, Clean, Continues, TypeOK
  <2>2. CASE g # h
    BY ZenonT(30), <2>2, <1>1, <1>s DEF Sound, Fenced, Clean, Continues, Prepared, TypeOK
  <2> QED BY <2>1, <2>2
<1>4. Extends(durable.state, durable'.state)
  BY SMTT(30), <1>1 DEF Extends, TypeOK, Snapshots, States
<1>5. WireInv'
  BY <1>1, <1>4, WireKept DEF TypeOK
<1>6. acked \in Nat /\ fetched[h].from \in Nat /\ fetched[h].done \in Nat
  BY DEF TypeOK
<1>7. acked' \in Nat /\ acked <= acked'
  BY <1>1, <1>6
<1>8. 1..acked' \subseteq durable.state.taken
  <2>1. /\ 1..acked \subseteq durable.state.taken
        /\ fetched[h].from <= acked
        /\ (fetched[h].from + 1)..(fetched[h].from + fetched[h].done) \subseteq durable.state.taken
    BY DEF MailInv, AcknowledgedIsDurable
  <2>2. \A n \in 1..up_to : n \in 1..acked \/ n \in (fetched[h].from + 1)..up_to
    BY <1>6, <2>1
  <2> QED BY <1>1, <2>1, <2>2
<1>9. ASSUME NEW g \in Handles
      PROVE  /\ fetched'[g].from <= acked'
             /\ (fetched'[g].from + 1)..(fetched'[g].from + fetched'[g].done)
                   \subseteq durable.state.taken
  <2>1. CASE g = h
    <3>1. fetched'[h].from = 0 /\ fetched'[h].done = 0
      BY SMTT(30), <1>1 DEF TypeOK, NoFetch
    <3> QED BY SMTT(30), <2>1, <3>1, <1>7
  <2>2. CASE g # h
    <3>1. fetched'[g] = fetched[g] /\ fetched[g].from \in Nat
      BY SMTT(30), <2>2, <1>1 DEF TypeOK
    <3>2. fetched[g].from <= acked
      BY DEF MailInv
    <3>3. fetched[g].from <= acked'
      BY <3>1, <3>2, <1>6, <1>7
    <3> QED BY SMTT(30), <3>1, <3>3 DEF MailInv
  <2> QED BY <2>1, <2>2
<1>10. \A g \in Handles : direct'[g] = IF g = h THEN {} ELSE direct[g]
  BY SMTT(30), <1>1 DEF TypeOK
<1>11. /\ handed' \subseteq durable.state.taken
       /\ \A g \in Handles : direct'[g] \subseteq durable.state.taken /\ direct'[g] \cap handed' = {}
       /\ \A g, k \in Handles : g # k => direct'[g] \cap direct'[k] = {}
  <2>1. /\ handed \subseteq durable.state.taken
        /\ \A g \in Handles : direct[g] \subseteq durable.state.taken /\ direct[g] \cap handed = {}
        /\ \A g, k \in Handles : g # k => direct[g] \cap direct[k] = {}
    BY DEF MailInv
  <2>2. handed' \subseteq handed \union direct[h]
    BY <1>1
  <2>3. handed' \subseteq durable.state.taken
    BY <2>1, <2>2
  <2>4. ASSUME NEW g \in Handles
        PROVE  direct'[g] \subseteq durable.state.taken /\ direct'[g] \cap handed' = {}
    <3>1. CASE g = h
      BY <3>1, <1>10
    <3>2. CASE g # h
      BY <3>2, <1>10, <2>1, <2>2
    <3> QED BY <3>1, <3>2
  <2>5. ASSUME NEW g \in Handles, NEW k \in Handles, g # k
        PROVE  direct'[g] \cap direct'[k] = {}
    BY SMTT(30), <2>5, <1>10, <2>1
  <2> QED BY <2>3, <2>4, <2>5
<1>12. MailInv'
  BY <1>1, <1>8, <1>9, <1>11 DEF MailInv, AcknowledgedIsDurable
<1> QED BY <1>2, <1>3, <1>5, <1>12

\* RecoverFails keeps the invariant.
LEMMA RecoverFailsKeeps ==
    ASSUME CoordinatorInv, TypeOK', NEW h \in Handles, RecoverFails(h)
    PROVE  CoordinatorInv'
<1> USE DEF CoordinatorInv, storeVars, handleVars, relayVars
<1>s. \A g \in Handles : Sound(g)
  BY DEF HandleInv
<1>1. /\ \/ store'[h] = store[h] \/ store'[h] = Latched(store[h])
         \/ store'[h] = Adopt(store[h], durable.generation)
      /\ poisoned'[h] = TRUE /\ phase'[h] = "idle" /\ attempts'[h] = attempts[h]
      /\ durable' = durable
  BY DEF RecoverFails, TypeOK
<1>2. /\ store'[h].observed \in Int /\ store'[h].high_water \in Int
      /\ store[h].high_water \in Int /\ store[h].observed \in Int
      /\ durable.generation \in Int
  BY SMTT(30) DEF TypeOK, Stores, Snapshots, Generations, None
<1>3. /\ store'[h].observed = store[h].observed \/ store'[h].observed = durable.generation
      /\ store'[h].high_water >= store[h].high_water
      /\ store'[h].observed <= store'[h].high_water
  <2>1. store[h].observed <= store[h].high_water
    BY <1>s DEF Sound, Fenced
  <2>2. store[h] \in Stores /\ durable.generation \in Generations \union {None}
    BY DEF TypeOK, Snapshots
  <2>3. CASE store'[h] = store[h]
    BY SMTT(30), <2>1, <2>3, <1>2
  <2>4. CASE store'[h] = Latched(store[h])
    BY <2>1, <2>2, <2>4, <1>2, HandleFacts
  <2>5. CASE store'[h] = Adopt(store[h], durable.generation)
    BY <2>2, <2>5, <1>2, AdoptFacts
  <2> QED BY <1>1, <2>3, <2>4, <2>5
<1>4. \A p \in attempts[h] : p.generation \in Int /\ p.generation <= store[h].high_water
  BY SMTT(30), <1>s DEF Sound, Fenced, TypeOK, Snapshots, Generations, None
<1>5. Fenced(h)'
  BY SMTT(30), <1>s, <1>1, <1>2, <1>3, <1>4 DEF Sound, Fenced
<1>6. Sound(h)'
  BY <1>1, <1>5 DEF Sound, Clean
<1> QED BY ZenonT(30), <1>6, LocalStep DEF RecoverFails, TypeOK

\* Recover keeps the invariant.
LEMMA RecoverKeeps ==
    ASSUME CoordinatorInv, TypeOK', NEW h \in Handles, Recover(h)
    PROVE  CoordinatorInv'
<1> USE DEF CoordinatorInv, storeVars, handleVars, relayVars
<1>s. \A g \in Handles : Sound(g)
  BY DEF HandleInv
<1> DEFINE s == Adopt(store[h], durable.generation)
<1>1. /\ store'[h] = s /\ attempts'[h] = attempts[h] /\ snapshot'[h] = durable
      /\ mem'[h] = durable.state /\ phase'[h] = "idle" /\ durable' = durable
      /\ published' = published /\ durable.generation # None
  BY DEF Recover, TypeOK
<1>2. /\ s \in Stores /\ s.observed = durable.generation
      /\ s.high_water >= durable.generation /\ s.high_water >= store[h].high_water
  BY SMTT(30), AdoptFacts DEF TypeOK, Snapshots
<1> HIDE DEF s
<1>3. /\ s.observed \in Int /\ s.high_water \in Int /\ store[h].high_water \in Int
      /\ durable.state.sent \in Nat /\ durable.generation \in Int
  BY SMTT(30), <1>2 DEF Stores, TypeOK, Snapshots, States, Generations, None
<1>4. \A p \in attempts[h] : p.generation \in Int /\ p.generation <= store[h].high_water
  BY <1>s DEF Sound, Fenced, TypeOK, Snapshots, Generations, None
<1>5. Fenced(h)'
  BY SMTT(30), <1>s, <1>1, <1>2, <1>3, <1>4 DEF Sound, Fenced
<1>6. durable \in published
  BY <1>1 DEF HistoryInv
<1>7. Sound(h)'
  BY <1>1, <1>2, <1>3, <1>5, <1>6 DEF Sound, Continues
<1> QED BY ZenonT(30), <1>7, LocalStep DEF Recover, TypeOK

\* Stutter keeps the invariant.
LEMMA StutterKeeps ==
    ASSUME CoordinatorInv, TypeOK', UNCHANGED vars
    PROVE  CoordinatorInv'
<1> USE DEF CoordinatorInv, storeVars, handleVars, relayVars
<1>1. HistoryInv' /\ HandleInv'
  BY DEF vars, HistoryInv, HandleInv, Sound, Fenced, Clean, Continues, Prepared
<1>2. WireInv' /\ MailInv'
  BY Zenon DEF vars, WireInv, MailInv, Dispatching, AcknowledgedIsDurable
<1> QED BY SMTT(30), <1>1, <1>2

\* One lemma per operation.
LEMMA InvNext ==
    ASSUME CoordinatorInv, [Next]_vars
    PROVE  CoordinatorInv'
<1>1. TypeOK'
  BY TypeNext DEF CoordinatorInv, BackupNext
<1> QED
  BY Zenon, <1>1, ConnectKeeps, OpenKeeps, OpenEmptyKeeps, CrashKeeps, PrepareSendKeeps, PrepareSendFailsKeeps, AbandonSendKeeps, CommitSendKeeps, DispatchKeeps, ArriveKeeps, FetchKeeps, StageDroppedKeeps, StageKeeps, FinishKeeps, RecoverFailsKeeps, RecoverKeeps, StutterKeeps
  DEF Next

-----------------------------------------------------------------------------
\* The theorems

\* The invariant holds throughout, for any number of coordinators over one store.
THEOREM CoordinatorAlways ==
    Spec => []CoordinatorInv
<1>1. CoordinatorInv /\ [Next]_vars => CoordinatorInv'
  BY Zenon, InvNext
<1> QED BY <1>1, InvInit, PTL DEF Spec

\* Any number of coordinators over one store, crashing, freezing and recovering
\* at any point, never use a ratchet position twice (send_direct, recover).
THEOREM NoRatchetReuse ==
    Spec => []RatchetNeverReused
<1>1. CoordinatorInv => RatchetNeverReused
  BY DEF CoordinatorInv, WireInv, RatchetNeverReused
<1> QED BY <1>1, CoordinatorAlways, PTL

\* What the relay was told to forget is in the durable state (receive).
THEOREM NothingAcknowledgedIsLost ==
    Spec => []AcknowledgedIsDurable
<1>1. CoordinatorInv => AcknowledgedIsDurable
  BY DEF CoordinatorInv, MailInv
<1> QED BY <1>1, CoordinatorAlways, PTL

\* A generation names one snapshot, in the store and among one coordinator's
\* attempts (begin_candidate, DurableStore::next_generation).
THEOREM GenerationsNameSnapshots ==
    Spec => []OneSnapshotPerGeneration
<1>1. CoordinatorInv => OneSnapshotPerGeneration
  BY Zenon DEF CoordinatorInv, HistoryInv, HandleInv, Sound, Fenced, OneSnapshotPerGeneration
<1> QED BY <1>1, CoordinatorAlways, PTL

\* No direct message is handed over twice (receive, commit_item).
THEOREM DirectAtMostOnce ==
    Spec => []DirectOnce
<1>1. CoordinatorInv => DirectOnce
  BY DEF CoordinatorInv, MailInv, DirectOnce
<1> QED BY <1>1, CoordinatorAlways, PTL

\* The store's history only grows.
LEMMA HistoryGrows == [Next]_vars => published \subseteq published'
<1> SUFFICES ASSUME [Next]_vars PROVE published \subseteq published'
  BY SMTT(30)
<1> USE DEF storeVars, handleVars, relayVars
<1>1. ASSUME NEW h \in Handles, NEW outcome \in Outcomes,
             OpenEmpty(h, outcome) \/ CommitSend(h, outcome) \/ Stage(h, outcome)
      PROVE  published \subseteq published'
  BY <1>1 DEF OpenEmpty, CommitSend, Stage, Commit
<1>2. ASSUME NEW h \in Handles,
             \/ Connect(h) \/ Open(h) \/ Crash(h)
             \/ PrepareSend(h) \/ PrepareSendFails(h) \/ AbandonSend(h)
             \/ Fetch(h) \/ StageDropped(h)
             \/ RecoverFails(h) \/ Recover(h)
      PROVE  published \subseteq published'
  BY Zenon, <1>2 DEF Connect, Open, Crash, PrepareSend, PrepareSendFails, AbandonSend, Fetch,
              StageDropped, RecoverFails, Recover
<1>3. ASSUME NEW h \in Handles, NEW arrives \in BOOLEAN, Dispatch(h, arrives)
      PROVE  published \subseteq published'
  BY <1>3 DEF Dispatch
<1>4. ASSUME NEW h \in Handles, NEW reached \in BOOLEAN, NEW answered \in BOOLEAN,
             Finish(h, reached, answered)
      PROVE  published \subseteq published'
  BY <1>4 DEF Finish
<1>5. CASE Arrive \/ UNCHANGED vars
  BY <1>5 DEF Arrive, vars
<1> QED BY <1>1, <1>2, <1>3, <1>4, <1>5 DEF Next

\* No coordinator undoes what another published (commit_after): each snapshot
\* the store comes to hold extends all it held before.
THEOREM PublicationsExtend ==
    Spec => NoLostUpdate
<1>1. CoordinatorInv /\ CoordinatorInv' /\ [Next]_vars
         => [durable' # durable => Extends(durable.state, durable'.state)]_vars
  <2> SUFFICES ASSUME CoordinatorInv, CoordinatorInv', [Next]_vars
               PROVE  Extends(durable.state, durable'.state)
    OBVIOUS
  <2>1. CASE durable.generation = None
    <3>1. durable.state = Fresh /\ durable'.state \in States
      BY <2>1 DEF CoordinatorInv, HistoryInv, TypeOK, Snapshots
    <3> QED BY SMTT(30), <3>1 DEF Fresh, States, Extends
  <2>2. CASE durable.generation # None
    <3>1. durable \in published'
      BY <2>2, HistoryGrows DEF CoordinatorInv, HistoryInv
    <3> QED BY <3>1 DEF CoordinatorInv, HistoryInv
  <2> QED BY <2>1, <2>2
<1> QED BY <1>1, CoordinatorAlways, PTL DEF Spec, NoLostUpdate
=============================================================================
